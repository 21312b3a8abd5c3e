------------------------------ MODULE Decimals ------------------------------
(***************************************************************************)
(* Decimal arithmetic as the rules under agents/ use it.  Money is counted *)
(* in cents, a rate in parts of RateScale and a ratio that was computed in *)
(* parts of PctScale, all whole numbers, so that sums and differences are  *)
(* exact, as Decimal's are; quantize() is the one operation that rounds.   *)
(***************************************************************************)
EXTENDS Integers, Sequences, FiniteSetsExt

RateScale == 100
PctScale == 10000

Abs(n) == IF n < 0 THEN -n ELSE n

(* (n / d).quantize(..., ROUND_HALF_UP): a half is rounded away from zero. *)
RoundHalfUp(n, d) ==
    LET magnitude == (2 * Abs(n) + Abs(d)) \div (2 * Abs(d))
    IN  IF (n < 0) = (d < 0) THEN magnitude ELSE -magnitude

(* (n / d).quantize(...), the default: a half goes to the even neighbour.  *)
RoundHalfEven(n, d) ==
    LET up == RoundHalfUp(n, d)
        down == IF up > 0 THEN up - 1 ELSE up + 1
    IN  IF (2 * Abs(n)) % (2 * Abs(d)) = Abs(d) /\ up % 2 # 0 THEN down ELSE up

(* base ** n, n not negative.                                              *)
Power(base, n) ==
    LET power[k \in 0 .. n] == IF k = 0 THEN 1 ELSE base * power[k - 1]
    IN  power[n]

(* sum(row.amount for row in rows)                                         *)
SumOfAmounts(rows) == SumFunction([i \in DOMAIN rows |-> rows[i].amount])

(* Two adjacent rows of a sheet changed places.                            *)
Swaps(rows) ==
    {[rows EXCEPT ![i] = rows[i + 1], ![i + 1] = rows[i]] : i \in 1 .. Len(rows) - 1}
=============================================================================
