------------------------ MODULE EvidenceTieOut_proofs ------------------------
(***************************************************************************)
(* Proofs about find_evidence() on every log that reconciliation runs,     *)
(* other agents and decisions write, for any windows, items, signatures    *)
(* and any number of runs, requests and events.                            *)
(*                                                                         *)
(* First what min() over candidates and the last approval event are: a set *)
(* of positions in the log has a least and a greatest one, and the order   *)
(* of candidates is total, so that a best one exists.  Then an invariant   *)
(* of the log: runs are numbered in order, and what a run wrote stands in  *)
(* its own group.                                                          *)
(***************************************************************************)
EXTENDS EvidenceTieOut, FiniteSetTheorems, SequenceTheorems, WellFoundedInduction, TLAPS

-----------------------------------------------------------------------------
(* Sets of positions.  The order of the naturals is well founded, which is *)
(* all the induction there is below.                                       *)
Less == {pair \in Nat \X Nat : pair[1] < pair[2]}

LEMMA LessWellFounded == IsWellFoundedOn(Less, Nat)
BY NatLessThanWellFounded, Zenon DEF OpToRel, Less

LEMMA Least ==
    ASSUME NEW T \in SUBSET Nat, T # {}
    PROVE  \E n \in T : \A m \in T : n <= m
<1>1. PICK n \in T : \A m \in T : ~(<<m, n>> \in Less)
    BY LessWellFounded, WFMin
<1>2. \A m \in T : ~(m < n)
    BY <1>1 DEF Less
<1> QED BY <1>2

LEMMA Greatest ==
    ASSUME NEW n \in Nat, NEW T \in SUBSET (1 .. n), T # {}
    PROVE  \E m \in T : \A k \in T : k <= m
<1> DEFINE U == {n - k : k \in T}
<1>1. U \in SUBSET Nat /\ U # {}
    <2>1. \A k \in T : n - k \in Nat
        OBVIOUS
    <2> QED BY <2>1
<1>2. PICK u \in U : \A v \in U : u <= v
    BY <1>1, Least
<1>3. PICK m \in T : u = n - m
    OBVIOUS
<1>4. \A k \in T : n - m <= n - k
    BY <1>2, <1>3
<1> QED BY <1>4

LEMMA MinMax ==
    ASSUME NEW n \in Nat, NEW T \in SUBSET (1 .. n), T # {}
    PROVE  /\ Min(T) \in T /\ \A k \in T : Min(T) <= k
           /\ Max(T) \in T /\ \A k \in T : k <= Max(T)
<1>1. \E m \in T : \A k \in T : m <= k
    BY Least
<1>2. \E m \in T : \A k \in T : m >= k
    BY Greatest
<1>3. Min(T) \in T /\ \A k \in T : Min(T) <= k
    BY <1>1 DEF Min
<1>4. Max(T) \in T /\ \A k \in T : Max(T) >= k
    BY <1>2 DEF Max
<1> QED BY <1>3, <1>4

-----------------------------------------------------------------------------
(* The order of candidates: narrower windows first, then newer runs.       *)
Dated(window) == window.start \in Int \cup {NoDate} /\ window.end \in Int \cup {NoDate}

LEMMA NarrowerOrder ==
    ASSUME NEW v, NEW w, NEW x, Dated(v), Dated(w), Dated(x)
    PROVE  /\ ~Narrower(v, v)
           /\ Narrower(v, w) => ~Narrower(w, v)
           /\ ~Narrower(v, w) /\ ~Narrower(w, x) => ~Narrower(v, x)
BY DEF Dated, Narrower

Better(s, a, b) ==
    \/ Narrower(s[a].window, s[b].window)
    \/ ~Narrower(s[b].window, s[a].window) /\ a > b

BestOf(s, b, T) == b \in T /\ \A other \in T \ {b} : Better(s, b, other)

UpTo(C, k) == {i \in C : i <= k}

LEMMA UpToNext ==
    ASSUME NEW n \in Nat, NEW C \in SUBSET (1 .. n), NEW h \in Nat
    PROVE  /\ h + 1 \notin C => UpTo(C, h + 1) = UpTo(C, h)
           /\ h + 1 \in C => UpTo(C, h + 1) = UpTo(C, h) \cup {h + 1}
           /\ \A i \in UpTo(C, h) : i \in C /\ i \in Nat /\ i < h + 1
           /\ UpTo(C, 0) = {} /\ UpTo(C, n) = C
<1>1. \A i \in C : i \in Nat /\ 1 <= i /\ i <= n
    OBVIOUS
<1>2. \A i \in C : i <= h + 1 <=> i <= h \/ i = h + 1
    BY <1>1
<1>3. h + 1 \notin C => \A i \in C : i <= h + 1 <=> i <= h
    BY <1>2
<1>4. \A i \in C : ~(i <= 0)
    BY <1>1
<1>5. h + 1 <= h + 1 /\ \A i \in C : i <= h => i < h + 1
    BY <1>1
<1>6. h + 1 \notin C => UpTo(C, h + 1) = UpTo(C, h)
    BY <1>3 DEF UpTo
<1>7. h + 1 \in C => UpTo(C, h + 1) = UpTo(C, h) \cup {h + 1}
    BY <1>2, <1>5 DEF UpTo
<1> QED BY <1>1, <1>4, <1>5, <1>6, <1>7 DEF UpTo

LEMMA BestExists ==
    ASSUME NEW s, NEW n \in Nat, NEW C \in SUBSET (1 .. n), C # {},
           \A i \in C : Dated(s[i].window)
    PROVE  \E b : BestOf(s, b, C)
<1> DEFINE T == {k \in Nat : UpTo(C, k) # {} /\ ~(\E b : BestOf(s, b, UpTo(C, k)))}
<1>1. UpTo(C, n) = C
    BY UpToNext
<1>2. SUFFICES ASSUME T # {} PROVE FALSE
    <2>1. n \notin T
        BY <1>2
    <2> QED BY <1>1, <2>1
<1>3. PICK k \in T : \A j \in T : k <= j
    BY <1>2, Least
<1>4. k \in Nat /\ UpTo(C, k) # {} /\ ~(\E b : BestOf(s, b, UpTo(C, k)))
    BY <1>3
<1>5. k # 0
    BY <1>4, UpToNext
<1>6. PICK h \in Nat : k = h + 1
    BY <1>4, <1>5
<1>7. h \notin T
    BY <1>3, <1>6
<1>8. k \in C
    BY <1>4, <1>6, <1>7, UpToNext
<1>9. /\ UpTo(C, k) = UpTo(C, h) \cup {k}
      /\ \A i \in UpTo(C, h) : i \in C /\ i \in Nat /\ i < k
    BY <1>6, <1>8, UpToNext
<1>10. UpTo(C, h) # {}
    <2>1. UpTo(C, h) = {} => BestOf(s, k, UpTo(C, k))
        BY <1>9 DEF BestOf
    <2> QED BY <1>4, <2>1
<1>11. PICK b : BestOf(s, b, UpTo(C, h))
    BY <1>7, <1>10
<1> HIDE DEF T
<1>12. CASE Narrower(s[b].window, s[k].window)
    <2>1. BestOf(s, b, UpTo(C, k))
        BY <1>9, <1>11, <1>12 DEF BestOf, Better
    <2> QED BY <1>4, <2>1
<1>13. CASE ~Narrower(s[b].window, s[k].window)
    <2>1. ASSUME NEW other \in UpTo(C, k) \ {k}
          PROVE  Better(s, k, other)
        <3>1. other \in UpTo(C, h) /\ other < k /\ other \in C
            BY <1>9
        <3>2. ~Narrower(s[other].window, s[b].window)
            <4>1. CASE other = b
                BY <1>8, <3>1, <4>1, NarrowerOrder
            <4>2. CASE other # b
                <5>1. Better(s, b, other)
                    BY <1>11, <3>1, <4>2 DEF BestOf
                <5>2. Dated(s[b].window) /\ Dated(s[other].window)
                    BY <1>9, <1>11, <3>1 DEF BestOf
                <5> QED BY <5>1, <5>2, NarrowerOrder DEF Better
            <4> QED BY <4>1, <4>2
        <3>3. Dated(s[b].window) /\ Dated(s[other].window) /\ Dated(s[k].window)
            BY <1>8, <1>9, <1>11, <3>1 DEF BestOf
        <3>4. ~Narrower(s[other].window, s[k].window)
            BY <1>13, <3>2, <3>3, NarrowerOrder
        <3> QED BY <1>4, <3>1, <3>4 DEF Better
    <2>2. BestOf(s, k, UpTo(C, k))
        BY <1>9, <2>1 DEF BestOf
    <2> QED BY <1>4, <2>2
<1> QED BY <1>12, <1>13

(* A log, and what find_evidence() picks from it.                          *)
LEMMA LogRows ==
    ASSUME NEW s \in Seq(Event)
    PROVE  /\ Len(s) \in Nat /\ DOMAIN s = 1 .. Len(s)
           /\ \A i \in DOMAIN s : s[i] \in Event /\ Dated(s[i].window)
<1>1. Len(s) \in Nat /\ DOMAIN s = 1 .. Len(s) /\ \A i \in DOMAIN s : s[i] \in Event
    BY LenProperties, ElementOfSeq
<1>2. \A e \in Event : e.window \in Windows \cup {NoWindow}
    BY DEF Event
<1>3. \A window \in Windows \cup {NoWindow} : Dated(window)
    BY DatesAssumption DEF Dated, NoWindow
<1> QED BY <1>1, <1>2, <1>3

LEMMA BestIs ==
    ASSUME NEW s \in Seq(Event), NEW item, Found(s, item)
    PROVE  BestOf(s, Best(s, item), Candidates(s, item))
<1>1. Candidates(s, item) \in SUBSET (1 .. Len(s)) /\ Len(s) \in Nat
    BY LogRows DEF Candidates, Starts
<1>2. \E b : BestOf(s, b, Candidates(s, item))
    BY <1>1, LogRows, BestExists DEF Found
<1>3. \E b \in Candidates(s, item) :
          \A other \in Candidates(s, item) \ {b} : Better(s, b, other)
    BY <1>2 DEF BestOf
<1>4. Best(s, item) = CHOOSE b \in Candidates(s, item) :
          \A other \in Candidates(s, item) \ {b} : Better(s, b, other)
    BY DEF Best, Better
<1> QED BY <1>3, <1>4 DEF BestOf

(* What an entry cites: the start and the report of one group.             *)
LEMMA EntryIs ==
    ASSUME NEW s \in Seq(Event), NEW item, Found(s, item), NEW b, b = Best(s, item)
    PROVE  /\ b \in Starts(s) /\ b \in DOMAIN s /\ Covers(s[b].window, item)
           /\ FindEvidence(s, item).start_id = b
           /\ FindEvidence(s, item).report_id \in Reports(s, b)
           /\ FindEvidence(s, item).window = s[b].window
           /\ FindEvidence(s, item).approval_status = LastApprovalStatus(s, b)
<1>1. b \in Candidates(s, item)
    BY BestIs DEF BestOf
<1>2. b \in Starts(s) /\ b \in DOMAIN s /\ Covers(s[b].window, item) /\ Reports(s, b) # {}
    BY <1>1 DEF Candidates, Starts
<1>3. Reports(s, b) \in SUBSET (1 .. Len(s)) /\ Len(s) \in Nat
    BY <1>2, LogRows DEF Reports, EventsOf, Starts
<1>4. Min(Reports(s, b)) \in Reports(s, b)
    BY <1>2, <1>3, MinMax
<1> QED BY <1>2, <1>4 DEF FindEvidence

-----------------------------------------------------------------------------
(* What one more event does to the groups of a log: it belongs to the last *)
(* one, or opens a group of its own.                                       *)
OneMore(s, e, t, n) == s \in Seq(Event) /\ e \in Event /\ t = Append(s, e) /\ n = Len(s) + 1

LEMMA EventAppended ==
    ASSUME NEW s, NEW e, NEW t, NEW n, OneMore(s, e, t, n)
    PROVE  /\ t \in Seq(Event) /\ Len(t) = n /\ n \in Nat /\ Len(s) = n - 1
           /\ DOMAIN s = 1 .. n - 1 /\ DOMAIN t = 1 .. n /\ t[n] = e
           /\ \A i \in 1 .. n - 1 : t[i] = s[i]
           /\ Starts(t) = IF e.action = "transactions_retrieved" THEN Starts(s) \cup {n}
                          ELSE Starts(s)
           /\ Starts(s) \subseteq 1 .. n - 1
<1>1. /\ t \in Seq(Event) /\ Len(t) = n /\ n \in Nat /\ Len(s) = n - 1
      /\ DOMAIN s = 1 .. n - 1 /\ DOMAIN t = 1 .. n /\ t[n] = e
      /\ \A i \in 1 .. n - 1 : t[i] = s[i]
    <2>1. /\ t \in Seq(Event) /\ Len(t) = Len(s) + 1 /\ t[Len(s) + 1] = e
          /\ \A i \in 1 .. Len(s) : t[i] = s[i]
        BY AppendProperties DEF OneMore
    <2>2. Len(s) \in Nat /\ DOMAIN s = 1 .. Len(s) /\ DOMAIN t = 1 .. Len(t)
        BY <2>1, LenProperties DEF OneMore
    <2> QED BY <2>1, <2>2 DEF OneMore
<1>2. Starts(s) \subseteq 1 .. n - 1
    BY <1>1 DEF Starts
<1>3. CASE e.action = "transactions_retrieved"
    BY <1>1, <1>3 DEF Starts
<1>4. CASE e.action # "transactions_retrieved"
    BY <1>1, <1>4 DEF Starts
<1> QED BY <1>1, <1>2, <1>3, <1>4

LEMMA GroupsGrow ==
    ASSUME NEW s, NEW e, NEW t, NEW n, OneMore(s, e, t, n), NEW r \in Starts(s)
    PROVE  /\ r \in Starts(t) /\ t[r] = s[r]
           /\ \A i \in EventsOf(s, r) : i \in EventsOf(t, r) /\ t[i] = s[i]
           /\ \A i \in EventsOf(t, r) : i \in EventsOf(s, r) \/ i = n
           /\ Reports(s, r) \subseteq Reports(t, r)
           /\ n \in EventsOf(t, r) <=>
                 e.action # "transactions_retrieved" /\ \A j \in Starts(s) : j <= r
<1>1. /\ Len(t) = n /\ n \in Nat /\ t[n] = e /\ Len(s) = n - 1
      /\ \A i \in 1 .. n - 1 : t[i] = s[i]
      /\ Starts(t) = IF e.action = "transactions_retrieved" THEN Starts(s) \cup {n} ELSE Starts(s)
      /\ Starts(s) \subseteq 1 .. n - 1
    BY EventAppended
<1>2. r \in 1 .. n - 1 /\ r \in Starts(t) /\ t[r] = s[r]
    BY <1>1
<1>3. ASSUME NEW i \in EventsOf(s, r)
      PROVE  i \in EventsOf(t, r) /\ t[i] = s[i]
    <2>1. i \in r .. n - 1 /\ \A j \in Starts(s) : r < j => i < j
        BY <1>1 DEF EventsOf
    <2>2. i \in 1 .. n - 1 /\ i \in r .. Len(t) /\ i < n
        BY <1>1, <1>2, <2>1
    <2>3. \A j \in Starts(t) : r < j => i < j
        BY <1>1, <2>1, <2>2
    <2> QED BY <1>1, <2>2, <2>3 DEF EventsOf
<1>4. ASSUME NEW i \in EventsOf(t, r), i # n
      PROVE  i \in EventsOf(s, r)
    <2>1. i \in r .. n /\ \A j \in Starts(t) : r < j => i < j
        BY <1>1 DEF EventsOf
    <2>2. i \in r .. Len(s)
        BY <1>1, <1>2, <1>4, <2>1
    <2>3. Starts(s) \subseteq Starts(t)
        BY <1>1
    <2> QED BY <2>1, <2>2, <2>3 DEF EventsOf
<1>5. ASSUME NEW i \in Reports(s, r)
      PROVE  i \in Reports(t, r)
    <2>1. i \in EventsOf(s, r) /\ s[i].action = "report_generated"
        BY DEF Reports
    <2>2. i \in EventsOf(t, r) /\ t[i] = s[i]
        BY <1>3, <2>1
    <2> QED BY <2>1, <2>2 DEF Reports
<1>6. n \in EventsOf(t, r) <=> \A j \in Starts(t) : r < j => n < j
    <2>1. n \in r .. Len(t)
        BY <1>1, <1>2
    <2> QED BY <2>1 DEF EventsOf
<1>7. n \in EventsOf(t, r) <=>
         e.action # "transactions_retrieved" /\ \A j \in Starts(s) : j <= r
    <2>1. \A j \in Starts(s) : j \in Nat /\ j < n
        BY <1>1
    <2>2. CASE e.action = "transactions_retrieved"
        <3>1. n \in Starts(t) /\ r < n /\ ~(n < n)
            BY <1>1, <1>2, <2>2
        <3> QED BY <1>6, <2>2, <3>1
    <2>3. CASE e.action # "transactions_retrieved"
        <3>1. Starts(t) = Starts(s)
            BY <1>1, <2>3
        <3>2. \A j \in Starts(s) : (r < j => n < j) <=> j <= r
            BY <1>1, <1>2, <2>1
        <3> QED BY <1>6, <2>3, <3>1, <3>2
    <2> QED BY <2>2, <2>3
<1> QED BY <1>2, <1>3, <1>4, <1>5, <1>7

LEMMA GroupOpens ==
    ASSUME NEW s, NEW e, NEW t, NEW n, OneMore(s, e, t, n), e.action = "transactions_retrieved"
    PROVE  n \in Starts(t) /\ EventsOf(t, n) = {n}
<1>1. /\ Len(t) = n /\ n \in Nat /\ n \in Starts(t)
      /\ \A j \in Starts(t) : j \in Nat /\ j <= n
    <2>1. /\ Len(t) = n /\ n \in Nat /\ Starts(t) = Starts(s) \cup {n}
          /\ Starts(s) \subseteq 1 .. n - 1
        BY EventAppended
    <2> QED BY <2>1
<1>2. n .. Len(t) = {n}
    BY <1>1
<1>3. \A j \in Starts(t) : ~(n < j)
    BY <1>1
<1> QED BY <1>1, <1>2, <1>3 DEF EventsOf

(* Appending leaves every candidate a candidate.                           *)
LEMMA CandidatesStay ==
    ASSUME NEW s \in Seq(Event), NEW e \in Event, NEW item
    PROVE  /\ Candidates(s, item) \subseteq Candidates(Append(s, e), item)
           /\ \A r \in Candidates(s, item) : Append(s, e)[r] = s[r]
<1>1. PICK t, n : t = Append(s, e) /\ OneMore(s, e, t, n)
    BY DEF OneMore
<1>2. ASSUME NEW r \in Candidates(s, item)
      PROVE  r \in Candidates(t, item) /\ t[r] = s[r]
    <2>1. r \in Starts(s) /\ Covers(s[r].window, item) /\ Reports(s, r) # {}
        BY DEF Candidates
    <2>2. OneMore(s, e, t, n) /\ r \in Starts(s)
        BY <1>1, <2>1
    <2>3. r \in Starts(t) /\ t[r] = s[r]
        BY <2>2, GroupsGrow
    <2>4. Reports(s, r) \subseteq Reports(t, r)
        BY <2>2, GroupsGrow
    <2> QED BY <2>1, <2>3, <2>4 DEF Candidates
<1> QED BY <1>1, <1>2

-----------------------------------------------------------------------------
(* The invariant of the log.                                               *)
RunsNumbered ==
    \A i \in Starts(log) :
        /\ log[i].run \in 1 .. RunsStarted
        /\ \A j \in Starts(log) : i < j => log[i].run < log[j].run

Grouped ==
    \A r \in Starts(log) : \A i \in EventsOf(log, r) :
        log[i].action \in RunActions => log[i].run = log[r].run

(* The run in progress is the last one.                                    *)
ActiveIsLast ==
    active.phase # "none" =>
        /\ active.run = RunsStarted
        /\ \E r \in Starts(log) :
              /\ log[r].run = active.run
              /\ active.phase = "reported" => Reports(log, r) # {}

(* A request of a run stands in the run's group, behind its report.        *)
HasGroup(run) ==
    \E r \in Starts(log) :
        /\ log[r].run = run
        /\ Reports(log, r) # {}
        /\ \E i \in EventsOf(log, r) : log[i].approval_status # NoStatus

RequestsGrouped ==
    \A id \in DOMAIN requests : \A run : run = requests[id].run /\ run # NoRun => HasGroup(run)

LastStatus(i) ==
    /\ log[i].approval_status # NoStatus
    /\ \A j \in DOMAIN log : i < j => log[j].approval_status = NoStatus

AloneSound ==
    /\ Len(requests) = 0 => \A i \in DOMAIN log : log[i].approval_status = NoStatus
    /\ Len(requests) = 1 =>
          \A i \in DOMAIN log : LastStatus(i) => log[i].approval_status = requests[1].status

SignedSound ==
    \A id \in DOMAIN requests : requests[id].status = "pending" => requests[id].signed < Signatures

LogInv ==
    /\ TypeOK /\ RunsNumbered /\ Grouped /\ ActiveIsLast
    /\ RequestsGrouped /\ AloneSound /\ SignedSound

LEMMA LogInvGives ==
    ASSUME LogInv
    PROVE  /\ log \in Seq(Event) /\ RunsStarted \in Nat /\ IsFiniteSet(Starts(log))
           /\ \A i, j \in Starts(log) : log[i].run = log[j].run => i = j
           /\ \A i, j \in Starts(log) : log[i].run = RunsStarted => j <= i
<1>1. log \in Seq(Event)
    BY DEF LogInv, TypeOK
<1>2. Starts(log) \in SUBSET (1 .. Len(log)) /\ Len(log) \in Nat
    BY <1>1, LogRows DEF Starts
<1>3. IsFiniteSet(Starts(log)) /\ Cardinality(Starts(log)) \in Nat
    <2>1. IsFiniteSet(1 .. Len(log))
        BY <1>2, FS_Interval
    <2>2. IsFiniteSet(Starts(log))
        BY <1>2, <2>1, FS_Subset
    <2> QED BY <2>2, FS_CardinalityType
<1>4. RunsStarted \in Nat
    <2>1. RunsStarted = Cardinality(Starts(log))
        BY DEF RunsStarted, Starts
    <2> QED BY <1>3, <2>1
<1>5. \A i, j \in Starts(log) : i < j => log[i].run < log[j].run
    BY DEF LogInv, RunsNumbered
<1>6. \A i \in Starts(log) : i \in Nat /\ log[i].run \in Nat /\ log[i].run <= RunsStarted
    BY <1>2, <1>4 DEF LogInv, RunsNumbered
<1>7. ASSUME NEW i \in Starts(log), NEW j \in Starts(log), log[i].run = log[j].run
      PROVE  i = j
    <2>1. ~(i < j) /\ ~(j < i)
        BY <1>5, <1>6, <1>7
    <2> QED BY <1>6, <2>1
<1>8. ASSUME NEW i \in Starts(log), NEW j \in Starts(log), log[i].run = RunsStarted
      PROVE  j <= i
    <2>1. ~(i < j)
        BY <1>4, <1>5, <1>6, <1>8
    <2> QED BY <1>6, <2>1
<1> QED BY <1>1, <1>3, <1>4, <1>7, <1>8

(* Counting runs.                                                          *)
LEMMA RunsCounted ==
    ASSUME LogInv, NEW e, NEW n, OneMore(log, e, log', n)
    PROVE  RunsStarted' = IF e.action = "transactions_retrieved" THEN RunsStarted + 1
                          ELSE RunsStarted
<1>1. /\ RunsStarted = Cardinality(Starts(log)) /\ RunsStarted' = Cardinality(Starts(log'))
      /\ IsFiniteSet(Starts(log))
    BY LogInvGives DEF RunsStarted, Starts
<1>2. CASE e.action = "transactions_retrieved"
    <2>1. Starts(log') = Starts(log) \cup {n} /\ n \notin Starts(log)
        BY <1>2, EventAppended
    <2>2. Cardinality(Starts(log) \cup {n}) = Cardinality(Starts(log)) + 1
        BY <1>1, <2>1, FS_AddElement
    <2> QED BY <1>1, <1>2, <2>1, <2>2
<1>3. CASE e.action # "transactions_retrieved"
    <2>1. Starts(log') = Starts(log)
        BY <1>3, EventAppended
    <2> QED BY <1>1, <1>3, <2>1
<1> QED BY <1>2, <1>3

LEMMA GroupKept ==
    ASSUME LogInv, NEW e, NEW n, OneMore(log, e, log', n), NEW run, HasGroup(run)
    PROVE  HasGroup(run)'
<1>1. PICK r \in Starts(log) :
         /\ log[r].run = run
         /\ Reports(log, r) # {}
         /\ \E i \in EventsOf(log, r) : log[i].approval_status # NoStatus
    BY DEF HasGroup
<1>2. PICK i \in EventsOf(log, r) : log[i].approval_status # NoStatus
    BY <1>1
<1>3. r \in Starts(log') /\ log'[r].run = run
    BY <1>1, GroupsGrow
<1>4. Reports(log', r) # {}
    BY <1>1, GroupsGrow
<1>5. i \in EventsOf(log', r) /\ log'[i].approval_status # NoStatus
    BY <1>2, GroupsGrow
<1> QED BY <1>3, <1>4, <1>5 DEF HasGroup

(* An event that starts no run: of a run in progress, or of an approval.   *)
LEMMA InnerEvent ==
    ASSUME LogInv, NEW e, NEW n, OneMore(log, e, log', n), e.action # "transactions_retrieved",
           e.action \in RunActions => active.phase # "none" /\ e.run = active.run
    PROVE  RunsNumbered' /\ Grouped'
<1>1. /\ Starts(log') = Starts(log) /\ \A r \in Starts(log) : log'[r] = log[r]
      /\ log'[n] = e /\ RunsStarted' = RunsStarted
    BY EventAppended, GroupsGrow, RunsCounted
<1>2. RunsNumbered'
    BY <1>1 DEF LogInv, RunsNumbered
<1>3. ASSUME NEW r \in Starts(log'), NEW i \in EventsOf(log', r), log'[i].action \in RunActions
      PROVE  log'[i].run = log'[r].run
    <2>1. r \in Starts(log)
        BY <1>1
    <2>2. CASE i \in EventsOf(log, r)
        <3>1. log'[i] = log[i]
            BY <2>1, <2>2, GroupsGrow
        <3> QED BY <1>1, <1>3, <2>1, <2>2, <3>1 DEF LogInv, Grouped
    <2>3. CASE i = n
        <3>1. e.action \in RunActions
            BY <1>1, <1>3, <2>3
        <3>2. PICK last \in Starts(log) : log[last].run = active.run /\ active.run = RunsStarted
            BY <3>1 DEF LogInv, ActiveIsLast
        <3>3. n \in EventsOf(log', r)
            BY <1>3, <2>3
        <3>4. \A j \in Starts(log) : j <= r
            BY <2>1, <3>3, GroupsGrow
        <3>5. last <= r /\ r <= last
            BY <2>1, <3>2, <3>4, LogInvGives
        <3>6. r \in Nat /\ last \in Nat
            <4>1. Starts(log) \subseteq 1 .. n - 1 /\ n \in Nat
                BY EventAppended
            <4> QED BY <2>1, <4>1
        <3>7. r = last
            BY <3>5, <3>6
        <3> QED BY <1>1, <2>3, <3>1, <3>2, <3>7
    <2>4. i \in EventsOf(log, r) \/ i = n
        BY <1>3, <2>1, GroupsGrow
    <2> QED BY <2>2, <2>3, <2>4
<1> QED BY <1>2, <1>3 DEF Grouped

(* The start of a run.                                                     *)
LEMMA OuterEvent ==
    ASSUME LogInv, NEW e, NEW n, OneMore(log, e, log', n), e.action = "transactions_retrieved",
           e.run = RunsStarted + 1
    PROVE  /\ RunsNumbered' /\ Grouped' /\ n \in Starts(log')
           /\ log'[n].run = RunsStarted' /\ RunsStarted' = RunsStarted + 1
<1>1. /\ Starts(log') = Starts(log) \cup {n} /\ \A r \in Starts(log) : log'[r] = log[r]
      /\ log'[n] = e /\ RunsStarted' = RunsStarted + 1 /\ RunsStarted \in Nat
    BY EventAppended, GroupsGrow, RunsCounted, LogInvGives
<1>2. n \in Nat /\ \A r \in Starts(log) : r \in Nat /\ r < n
    <2>1. Starts(log) \subseteq 1 .. n - 1 /\ n \in Nat
        BY EventAppended
    <2> QED BY <2>1
<1>3. \A r \in Starts(log) : log[r].run \in 1 .. RunsStarted
    BY DEF LogInv, RunsNumbered
<1>4. ASSUME NEW i \in Starts(log')
      PROVE  /\ log'[i].run \in 1 .. RunsStarted'
             /\ \A j \in Starts(log') : i < j => log'[i].run < log'[j].run
    <2>1. CASE i = n
        <3>1. \A j \in Starts(log') : ~(i < j)
            BY <1>1, <1>2, <1>4, <2>1
        <3>2. log'[i].run = RunsStarted + 1
            BY <1>1, <2>1
        <3>3. log'[i].run \in 1 .. RunsStarted'
            BY <1>1, <3>2
        <3> QED BY <3>1, <3>3
    <2>2. CASE i \in Starts(log)
        <3>1. log'[i] = log[i] /\ log[i].run \in 1 .. RunsStarted
            BY <1>1, <1>3, <2>2
        <3>2. log'[i].run \in 1 .. RunsStarted' /\ log'[i].run < log'[n].run
            BY <1>1, <3>1
        <3>3. \A j \in Starts(log) : i < j => log'[i].run < log'[j].run
            BY <1>1, <2>2 DEF LogInv, RunsNumbered
        <3> QED BY <1>1, <3>2, <3>3
    <2> QED BY <1>1, <2>1, <2>2
<1>5. ASSUME NEW r \in Starts(log'), NEW i \in EventsOf(log', r), log'[i].action \in RunActions
      PROVE  log'[i].run = log'[r].run
    <2>1. CASE r = n
        BY <1>5, <2>1, GroupOpens
    <2>2. CASE r \in Starts(log)
        <3>1. i \in EventsOf(log, r) /\ log'[i] = log[i]
            BY <1>5, <2>2, GroupsGrow
        <3> QED BY <1>1, <1>5, <2>2, <3>1 DEF LogInv, Grouped
    <2> QED BY <1>1, <2>1, <2>2
<1>6. RunsNumbered'
    BY <1>4 DEF RunsNumbered
<1> QED BY <1>1, <1>5, <1>6 DEF Grouped

(* Requests only come and are decided on: their runs stay.                 *)
LEMMA RequestsStay ==
    ASSUME LogInv, NEW e, NEW n, OneMore(log, e, log', n),
           \A id \in DOMAIN requests' : \A run :
              run = requests'[id].run /\ run # NoRun =>
                 (id \in DOMAIN requests /\ requests[id].run = run) \/ HasGroup(run)'
    PROVE  RequestsGrouped'
<1>1. ASSUME NEW id \in DOMAIN requests', NEW run, run = requests'[id].run, run # NoRun
      PROVE  HasGroup(run)'
    <2>1. CASE id \in DOMAIN requests /\ requests[id].run = run
        <3>1. HasGroup(run)
            BY <1>1, <2>1 DEF LogInv, RequestsGrouped
        <3> QED BY <3>1, GroupKept
    <2> QED BY <1>1, <2>1
<1> QED BY <1>1 DEF RequestsGrouped

(* The last word on the one request there is.                              *)
LEMMA StatusAppended ==
    ASSUME LogInv, NEW e, NEW n, OneMore(log, e, log', n),
           \/ e.approval_status = NoStatus /\ requests' = requests
           \/ /\ e.approval_status # NoStatus
              /\ Len(requests') # 0
              /\ Len(requests') = 1 => requests'[1].status = e.approval_status
    PROVE  AloneSound'
<1>1. /\ DOMAIN log = 1 .. n - 1 /\ DOMAIN log' = 1 .. n /\ n \in Nat /\ log'[n] = e
      /\ \A i \in 1 .. n - 1 : log'[i] = log[i]
    BY EventAppended
<1>2. DOMAIN log' = DOMAIN log \cup {n} /\ \A i \in DOMAIN log : log'[i] = log[i] /\ i < n
    <2>1. n \in 1 .. n
        BY <1>1, EventAppended
    <2> QED BY <1>1, <2>1
<1>3. CASE e.approval_status = NoStatus /\ requests' = requests
    <2>1. ASSUME NEW i \in DOMAIN log', LastStatus(i)'
          PROVE  i \in DOMAIN log /\ LastStatus(i) /\ log'[i] = log[i]
        BY <1>1, <1>2, <1>3, <2>1 DEF LastStatus
    <2>2. Len(requests') = 0 => \A i \in DOMAIN log' : log'[i].approval_status = NoStatus
        BY <1>1, <1>2, <1>3 DEF LogInv, AloneSound
    <2>3. Len(requests') = 1 =>
             \A i \in DOMAIN log' : LastStatus(i)' => log'[i].approval_status = requests'[1].status
        BY <1>3, <2>1 DEF LogInv, AloneSound
    <2> QED BY <2>2, <2>3 DEF AloneSound
<1>4. CASE /\ e.approval_status # NoStatus
           /\ Len(requests') # 0
           /\ Len(requests') = 1 => requests'[1].status = e.approval_status
    <2>1. ASSUME NEW i \in DOMAIN log', LastStatus(i)'
          PROVE  i = n
        BY <1>1, <1>2, <1>4, <2>1 DEF LastStatus
    <2>2. Len(requests') = 1 =>
             \A i \in DOMAIN log' : LastStatus(i)' => log'[i].approval_status = requests'[1].status
        BY <1>1, <1>4, <2>1
    <2> QED BY <1>4, <2>2 DEF AloneSound
<1> QED BY <1>3, <1>4

(* What a decided or submitted request looks like.                         *)
Request == [run : Nat, status : Statuses, signed : 0 .. Signatures]

LEMMA RequestsGives ==
    ASSUME LogInv
    PROVE  /\ requests \in Seq(Request) /\ Len(requests) \in Nat
           /\ DOMAIN requests = 1 .. Len(requests)
           /\ \A id \in DOMAIN requests : requests[id] \in Request
<1>1. requests \in Seq(Request)
    BY DEF LogInv, TypeOK, Request
<1> QED BY <1>1, LenProperties, ElementOfSeq

LEMMA InitLog == Init => LogInv
<1> SUFFICES ASSUME Init PROVE LogInv
    OBVIOUS
<1>1. log = << >> /\ requests = << >> /\ active = [phase |-> "none", run |-> NoRun]
    BY DEF Init
<1>2. DOMAIN log = {} /\ DOMAIN requests = {} /\ Len(log) = 0 /\ Len(requests) = 0
    BY <1>1
<1>3. Starts(log) = {}
    BY <1>2 DEF Starts
<1>4. TypeOK
    BY <1>1 DEF TypeOK, NoRun
<1>5. RunsNumbered /\ Grouped
    BY <1>3 DEF RunsNumbered, Grouped
<1>6. ActiveIsLast
    BY <1>1 DEF ActiveIsLast
<1>7. RequestsGrouped /\ AloneSound /\ SignedSound
    BY <1>2 DEF RequestsGrouped, AloneSound, SignedSound
<1> QED BY <1>4, <1>5, <1>6, <1>7 DEF LogInv

(* Every event is the next one.                                            *)
LEMMA Appends ==
    ASSUME LogInv, NEW e \in Event, log' = Append(log, e)
    PROVE  \E n : OneMore(log, e, log', n) /\ log' \in Seq(Event)
<1>1. PICK t, n : t = log' /\ n = Len(log) + 1
    OBVIOUS
<1>2. OneMore(log, e, t, n)
    BY <1>1 DEF OneMore, LogInv, TypeOK
<1>3. t \in Seq(Event)
    BY <1>2, EventAppended
<1> QED BY <1>1, <1>2, <1>3

LEMMA RetrieveKeepsLogInv ==
    ASSUME LogInv, NEW window \in Windows, Retrieve(window)
    PROVE  LogInv'
<1> DEFINE e == RunEvent("transactions_retrieved", RunsStarted + 1, window)
<1>1. /\ log' = Append(log, e) /\ requests' = requests
      /\ active' = [phase |-> "retrieved", run |-> RunsStarted + 1]
    BY DEF Retrieve
<1>2. RunsStarted + 1 \in Nat
    BY LogInvGives
<1>3. e \in Event
    BY <1>2 DEF RunEvent, Event, RunActions
<1>4. /\ e.action = "transactions_retrieved" /\ e.run = RunsStarted + 1
      /\ e.approval_status = NoStatus
    BY DEF RunEvent
<1> HIDE DEF e
<1>5. PICK n : OneMore(log, e, log', n) /\ log' \in Seq(Event)
    BY <1>1, <1>3, Appends
<1>6. /\ RunsNumbered' /\ Grouped' /\ n \in Starts(log')
      /\ log'[n].run = RunsStarted' /\ RunsStarted' = RunsStarted + 1
    BY <1>4, <1>5, OuterEvent
<1>7. TypeOK'
    BY <1>1, <1>2, <1>5 DEF LogInv, TypeOK
<1>8. ActiveIsLast'
    <2>1. active'.run = RunsStarted' /\ active'.phase = "retrieved"
        BY <1>1, <1>6
    <2>2. n \in Starts(log') /\ log'[n].run = active'.run
        BY <1>6, <2>1
    <2> QED BY <2>1, <2>2 DEF ActiveIsLast
<1>9. RequestsGrouped'
    <2>1. \A id \in DOMAIN requests' : \A run :
             run = requests'[id].run /\ run # NoRun =>
                (id \in DOMAIN requests /\ requests[id].run = run) \/ HasGroup(run)'
        BY <1>1
    <2> QED BY <1>5, <2>1, RequestsStay
<1>10. AloneSound'
    BY <1>1, <1>4, <1>5, StatusAppended
<1>11. SignedSound'
    BY <1>1 DEF LogInv, SignedSound
<1> QED BY <1>6, <1>7, <1>8, <1>9, <1>10, <1>11 DEF LogInv

(* The next event of the run in progress, up to its report.                *)
LEMMA RunStepKeepsLogInv ==
    ASSUME LogInv, NEW action, NEW phase, NEW e, e = RunEvent(action, active.run, NoWindow),
           NEW n, OneMore(log, e, log', n), log' \in Seq(Event),
           active.phase # "none", requests' = requests,
           active' = [active EXCEPT !.phase = phase],
           \/ action = "matching_completed" /\ phase = "matched"
           \/ action = "report_generated" /\ phase = "reported"
    PROVE  LogInv'
<1>1. /\ active \in [phase : {"none", "retrieved", "matched", "reported"}, run : Nat]
      /\ active.run \in Nat
    BY DEF LogInv, TypeOK
<1>2. /\ active' \in [phase : {"none", "retrieved", "matched", "reported"}, run : Nat]
      /\ active'.run = active.run /\ active'.phase = phase
    BY <1>1
<1>3. /\ e \in Event /\ e.action = action /\ e.run = active.run /\ e.approval_status = NoStatus
      /\ e.action # "transactions_retrieved"
    BY <1>1 DEF RunEvent, Event, RunActions
<1>4. RunsNumbered' /\ Grouped'
    BY <1>3, InnerEvent
<1>5. TypeOK'
    BY <1>2 DEF LogInv, TypeOK
<1>6. ActiveIsLast'
    <2>1. PICK r \in Starts(log) : log[r].run = active.run /\ active.run = RunsStarted
        BY DEF LogInv, ActiveIsLast
    <2>2. r \in Starts(log') /\ log'[r].run = active'.run
        <3>1. r \in Starts(log') /\ log'[r] = log[r]
            BY <2>1, GroupsGrow
        <3> QED BY <1>2, <2>1, <3>1
    <2>3. RunsStarted' = RunsStarted
        BY <1>3, RunsCounted
    <2>4. phase = "reported" => Reports(log', r) # {}
        <3>1. SUFFICES ASSUME phase = "reported" PROVE n \in Reports(log', r)
            OBVIOUS
        <3>2. \A j \in Starts(log) : j <= r
            BY <2>1, LogInvGives
        <3>3. n \in EventsOf(log', r)
            BY <1>3, <2>1, <3>2, GroupsGrow
        <3>4. log'[n] = e
            BY EventAppended
        <3> QED BY <1>3, <3>1, <3>3, <3>4 DEF Reports
    <2> QED BY <1>2, <2>1, <2>2, <2>3, <2>4 DEF ActiveIsLast
<1>7. RequestsGrouped'
    <2>1. \A id \in DOMAIN requests' : \A run :
             run = requests'[id].run /\ run # NoRun =>
                (id \in DOMAIN requests /\ requests[id].run = run) \/ HasGroup(run)'
        OBVIOUS
    <2> QED BY <2>1, RequestsStay
<1>8. AloneSound'
    BY <1>3, StatusAppended
<1>9. SignedSound'
    BY DEF LogInv, SignedSound
<1> QED BY <1>4, <1>5, <1>6, <1>7, <1>8, <1>9 DEF LogInv

(* An approval event, of a new request or of a decision on one.            *)
LEMMA ApprovalKeepsLog ==
    ASSUME LogInv, NEW run \in Nat, NEW status \in Statuses, NEW e, NEW n,
           e = ApprovalEvent(run, status), OneMore(log, e, log', n),
           active'.phase = "none"
    PROVE  RunsNumbered' /\ Grouped' /\ ActiveIsLast' /\ e.approval_status = status
<1>1. e.action = "approval" /\ e.approval_status = status
    BY DEF ApprovalEvent
<1>2. e.action \notin RunActions /\ e.action # "transactions_retrieved"
    BY <1>1 DEF RunActions
<1>3. RunsNumbered' /\ Grouped'
    BY <1>2, InnerEvent
<1> QED BY <1>1, <1>3 DEF ActiveIsLast

LEMMA ApprovalIsEvent ==
    ASSUME NEW run \in Nat, NEW status \in Statuses
    PROVE  ApprovalEvent(run, status) \in Event /\ status # NoStatus
BY DEF ApprovalEvent, Event, Statuses, NoStatus

LEMMA SubmitKeepsLogInv ==
    ASSUME LogInv, NEW run \in Nat, SubmitFor(run),
           run # NoRun => (active.phase = "reported" /\ run = active.run),
           active' \in {active, [phase |-> "none", run |-> NoRun]}, active'.phase = "none"
    PROVE  LogInv'
<1> DEFINE e == ApprovalEvent(run, "pending")
           q == [run |-> run, status |-> "pending", signed |-> 0]
<1>1. log' = Append(log, e) /\ requests' = Append(requests, q)
    BY DEF SubmitFor
<1>2. e \in Event /\ "pending" \in Statuses /\ "pending" # NoStatus
    BY ApprovalIsEvent DEF Statuses
<1>3. q \in Request /\ q.run = run /\ q.status = "pending" /\ q.signed = 0
    BY <1>2, BoundsAssumption DEF Request
<1>4. e = ApprovalEvent(run, "pending")
    OBVIOUS
<1> HIDE DEF e, q
<1>5. PICK n : OneMore(log, e, log', n) /\ log' \in Seq(Event)
    BY <1>1, <1>2, Appends
<1>6. RunsNumbered' /\ Grouped' /\ ActiveIsLast' /\ e.approval_status = "pending"
    BY <1>2, <1>4, <1>5, ApprovalKeepsLog
<1>7. /\ requests' \in Seq(Request) /\ Len(requests') = Len(requests) + 1
      /\ requests'[Len(requests) + 1] = q
      /\ \A id \in 1 .. Len(requests) : requests'[id] = requests[id]
      /\ Len(requests) \in Nat /\ DOMAIN requests = 1 .. Len(requests)
      /\ DOMAIN requests' = 1 .. Len(requests) + 1
    <2>1. /\ requests' \in Seq(Request) /\ Len(requests') = Len(requests) + 1
          /\ requests'[Len(requests) + 1] = q
          /\ \A id \in 1 .. Len(requests) : requests'[id] = requests[id]
        BY <1>1, <1>3, RequestsGives, AppendProperties
    <2> QED BY <2>1, RequestsGives, LenProperties
<1>8. TypeOK'
    <2>1. active' \in [phase : {"none", "retrieved", "matched", "reported"}, run : Nat]
        BY DEF LogInv, TypeOK, NoRun
    <2> QED BY <1>5, <1>7, <2>1 DEF TypeOK, Request
<1>9. run # NoRun => HasGroup(run)'
    <2>1. SUFFICES ASSUME run # NoRun PROVE HasGroup(run)'
        OBVIOUS
    <2>2. active.phase = "reported" /\ run = active.run
        BY <2>1
    <2>3. PICK r \in Starts(log) :
             log[r].run = active.run /\ active.run = RunsStarted /\ Reports(log, r) # {}
        BY <2>2 DEF LogInv, ActiveIsLast
    <2>4. r \in Starts(log') /\ log'[r].run = run /\ Reports(log', r) # {}
        BY <1>5, <2>2, <2>3, GroupsGrow
    <2>5. \A j \in Starts(log) : j <= r
        BY <2>3, LogInvGives
    <2>6. e.action # "transactions_retrieved"
        BY <1>4 DEF ApprovalEvent
    <2>7. n \in EventsOf(log', r)
        BY <1>5, <2>3, <2>5, <2>6, GroupsGrow
    <2>8. log'[n] = e
        BY <1>5, EventAppended
    <2> QED BY <1>2, <1>6, <2>4, <2>7, <2>8 DEF HasGroup
<1>10. RequestsGrouped'
    <2>1. ASSUME NEW id \in DOMAIN requests', NEW other, other = requests'[id].run, other # NoRun
          PROVE  (id \in DOMAIN requests /\ requests[id].run = other) \/ HasGroup(other)'
        <3>1. CASE id \in 1 .. Len(requests)
            BY <1>7, <2>1, <3>1
        <3>2. CASE id = Len(requests) + 1
            BY <1>3, <1>7, <1>9, <2>1, <3>2
        <3> QED BY <1>7, <3>1, <3>2
    <2> QED BY <1>5, <2>1, RequestsStay
<1>11. AloneSound'
    <2>1. Len(requests') # 0 /\ (Len(requests') = 1 => requests'[1].status = e.approval_status)
        BY <1>3, <1>6, <1>7
    <2> QED BY <1>2, <1>5, <1>6, <2>1, StatusAppended
<1>12. SignedSound'
    <2>1. ASSUME NEW id \in DOMAIN requests', requests'[id].status = "pending"
          PROVE  requests'[id].signed < Signatures
        <3>1. CASE id \in 1 .. Len(requests)
            BY <1>7, <2>1, <3>1 DEF LogInv, SignedSound
        <3>2. CASE id = Len(requests) + 1
            BY <1>3, <1>7, <3>2, BoundsAssumption
        <3> QED BY <1>7, <3>1, <3>2
    <2> QED BY <2>1 DEF SignedSound
<1> QED BY <1>6, <1>8, <1>10, <1>11, <1>12 DEF LogInv

LEMMA DecideKeepsLogInv ==
    ASSUME LogInv, NEW id, NEW status \in Statuses, Decide(id, status)
    PROVE  LogInv'
<1>1. /\ id \in DOMAIN requests /\ requests[id].status = "pending" /\ active.phase = "none"
      /\ requests' = [requests EXCEPT ![id].status = status, ![id].signed = @ + 1]
      /\ log' = Append(log, ApprovalEvent(requests[id].run, status)) /\ active' = active
    BY DEF Decide
<1>2. status = "pending" => requests[id].signed + 1 # Signatures
    BY DEF Decide
<1>3. /\ requests \in Seq(Request) /\ Len(requests) \in Nat
      /\ DOMAIN requests = 1 .. Len(requests) /\ requests[id] \in Request
    BY <1>1, RequestsGives
<1>4. requests[id].run \in Nat /\ requests[id].signed \in 0 .. Signatures
    BY <1>3 DEF Request
<1>5. PICK run, e : run = requests[id].run /\ e = ApprovalEvent(run, status)
    OBVIOUS
<1>6. e \in Event /\ status # NoStatus /\ run \in Nat /\ log' = Append(log, e)
    BY <1>1, <1>4, <1>5, ApprovalIsEvent
<1>7. PICK n : OneMore(log, e, log', n) /\ log' \in Seq(Event)
    BY <1>6, Appends
<1>8. RunsNumbered' /\ Grouped' /\ ActiveIsLast' /\ e.approval_status = status
    BY <1>1, <1>5, <1>6, <1>7, ApprovalKeepsLog
<1>9. requests[id].signed < Signatures
    BY <1>1 DEF LogInv, SignedSound
<1>10. PICK q : q = [requests[id] EXCEPT !.status = status, !.signed = @ + 1]
    OBVIOUS
<1>11. /\ q \in Request /\ q.run = run /\ q.status = status
       /\ status = "pending" => q.signed < Signatures
    <2>1. q = [run |-> run, status |-> status, signed |-> requests[id].signed + 1]
        BY <1>3, <1>5, <1>10 DEF Request
    <2>2. requests[id].signed + 1 \in 0 .. Signatures /\ run \in Nat
        BY <1>4, <1>5, <1>9, BoundsAssumption
    <2>3. status = "pending" => requests[id].signed + 1 < Signatures
        BY <1>2, <1>4, <1>9, BoundsAssumption
    <2> QED BY <2>1, <2>2, <2>3 DEF Request
<1>12. /\ DOMAIN requests' = DOMAIN requests /\ requests'[id] = q
       /\ \A other \in DOMAIN requests \ {id} : requests'[other] = requests[other]
    BY <1>1, <1>10
<1>13. requests' \in Seq(Request) /\ Len(requests') = Len(requests)
    <2>1. requests' = [requests EXCEPT ![id] = q]
        BY <1>1, <1>3, <1>10
    <2>2. id \in 1 .. Len(requests) /\ q \in Request
        BY <1>1, <1>3, <1>11
    <2>3. /\ [requests EXCEPT ![id] = q] \in Seq(Request)
          /\ Len([requests EXCEPT ![id] = q]) = Len(requests)
        BY <1>3, <2>2, ExceptSeq
    <2> QED BY <2>1, <2>3
<1>14. TypeOK'
    BY <1>1, <1>7, <1>13 DEF LogInv, TypeOK, Request
<1>15. RequestsGrouped'
    <2>1. \A other \in DOMAIN requests' : \A r :
             r = requests'[other].run /\ r # NoRun =>
                (other \in DOMAIN requests /\ requests[other].run = r) \/ HasGroup(r)'
        BY <1>5, <1>11, <1>12
    <2> QED BY <1>7, <2>1, RequestsStay
<1>16. AloneSound'
    <2>1. Len(requests') # 0
        BY <1>1, <1>3, <1>13
    <2>2. Len(requests') = 1 => requests'[1].status = e.approval_status
        BY <1>1, <1>3, <1>8, <1>11, <1>12, <1>13
    <2> QED BY <1>6, <1>7, <1>8, <2>1, <2>2, StatusAppended
<1>17. SignedSound'
    BY <1>11, <1>12 DEF LogInv, SignedSound
<1> QED BY <1>8, <1>14, <1>15, <1>16, <1>17 DEF LogInv

LEMMA LogInvStep == LogInv /\ [Next]_vars => LogInv'
<1> SUFFICES ASSUME LogInv, [Next]_vars PROVE LogInv'
    OBVIOUS
<1>1. ASSUME NEW window \in Windows, Retrieve(window) PROVE LogInv'
    BY <1>1, RetrieveKeepsLogInv
<1>2. CASE Match \/ Report
    <2>1. PICK action, phase :
             /\ active.phase # "none" /\ requests' = requests
             /\ log' = Append(log, RunEvent(action, active.run, NoWindow))
             /\ active' = [active EXCEPT !.phase = phase]
             /\ \/ action = "matching_completed" /\ phase = "matched"
                \/ action = "report_generated" /\ phase = "reported"
        BY <1>2 DEF Match, Report
    <2>2. PICK e : e = RunEvent(action, active.run, NoWindow)
        OBVIOUS
    <2>3. e \in Event /\ log' = Append(log, e)
        BY <2>1, <2>2 DEF LogInv, TypeOK, RunEvent, Event, RunActions
    <2>4. PICK n : OneMore(log, e, log', n) /\ log' \in Seq(Event)
        BY <2>3, Appends
    <2> QED BY <2>1, <2>2, <2>4, RunStepKeepsLogInv
<1>3. CASE SubmitReport
    <2>1. PICK run \in Nat : run = active.run
        BY DEF LogInv, TypeOK
    <2>2. /\ SubmitFor(run) /\ active.phase = "reported"
          /\ active' = [phase |-> "none", run |-> NoRun]
        BY <1>3, <2>1 DEF SubmitReport
    <2>3. run # NoRun => active.phase = "reported" /\ run = active.run
        BY <2>1, <2>2
    <2>4. /\ active' \in {active, [phase |-> "none", run |-> NoRun]}
          /\ active'.phase = "none"
        BY <2>2
    <2> QED BY <2>2, <2>3, <2>4, SubmitKeepsLogInv
<1>4. CASE AbortRun
    <2>1. /\ log' = log /\ requests' = requests
          /\ active' = [phase |-> "none", run |-> NoRun]
        BY <1>4 DEF AbortRun
    <2>2. TypeOK' /\ ActiveIsLast'
        BY <2>1 DEF LogInv, TypeOK, NoRun, ActiveIsLast
    <2>3. RunsStarted' = RunsStarted /\ \A run : HasGroup(run)' <=> HasGroup(run)
        BY <2>1 DEF RunsStarted, HasGroup
    <2>4. RunsNumbered' /\ Grouped' /\ RequestsGrouped'
        BY <2>1, <2>3 DEF LogInv, RunsNumbered, Grouped, RequestsGrouped
    <2>5. AloneSound' /\ SignedSound'
        BY <2>1 DEF LogInv, AloneSound, LastStatus, SignedSound
    <2> QED BY <2>2, <2>4, <2>5 DEF LogInv
<1>5. CASE OtherAgentSubmit
    <2>1. NoRun \in Nat
        BY DEF NoRun
    <2> QED BY <1>5, <2>1, SubmitKeepsLogInv DEF OtherAgentSubmit
<1>6. ASSUME NEW id \in 1 .. MaxRequests, NEW status \in Statuses, Decide(id, status)
      PROVE  LogInv'
    BY <1>6, DecideKeepsLogInv
<1>7. CASE UNCHANGED vars
    <2>1. log' = log /\ requests' = requests /\ active' = active
        BY <1>7 DEF vars
    <2>2. TypeOK'
        BY <2>1 DEF LogInv, TypeOK
    <2>3. RunsStarted' = RunsStarted /\ \A run : HasGroup(run)' <=> HasGroup(run)
        BY <2>1 DEF RunsStarted, HasGroup
    <2>4. RunsNumbered' /\ Grouped' /\ RequestsGrouped' /\ ActiveIsLast'
        BY <2>1, <2>3 DEF LogInv, RunsNumbered, Grouped, RequestsGrouped, ActiveIsLast
    <2>5. AloneSound' /\ SignedSound'
        BY <2>1 DEF LogInv, AloneSound, LastStatus, SignedSound
    <2> QED BY <2>2, <2>4, <2>5 DEF LogInv
<1> QED BY <1>1, <1>2, <1>3, <1>4, <1>5, <1>6, <1>7 DEF Next

LEMMA LogIsSound == Spec => []LogInv
BY InitLog, LogInvStep, PTL DEF Spec

-----------------------------------------------------------------------------
(* The theorems.                                                           *)

(* The log is a sequence of events and the queue one of requests: no       *)
(* request is signed more often than its routing asks for.                 *)
THEOREM TypeCorrect == Spec => []TypeOK
<1>1. LogInv => TypeOK
    BY DEF LogInv
<1> QED BY <1>1, LogIsSound, PTL

(* find_evidence() cites the retrieval and the report of one run, whatever *)
(* runs broke off before or after it.                                      *)
THEOREM EntriesCiteOneRun == Spec => []CitesOneRun
<1>1. ASSUME LogInv PROVE CitesOneRun
    <2>1. log \in Seq(Event)
        BY <1>1, LogInvGives
    <2>2. ASSUME NEW item \in Items, Found(log, item), NEW e, e = FindEvidence(log, item)
          PROVE  /\ log[e.start_id].run = log[e.report_id].run
                 /\ log[e.start_id].window = e.window
        <3>1. PICK b : b = Best(log, item)
            OBVIOUS
        <3>2. /\ b \in Starts(log) /\ e.start_id = b /\ e.report_id \in Reports(log, b)
              /\ e.window = log[b].window
            BY <2>1, <2>2, <3>1, EntryIs
        <3>3. e.report_id \in EventsOf(log, b) /\ log[e.report_id].action \in RunActions
            BY <3>2 DEF Reports, RunActions
        <3>4. log[e.report_id].run = log[b].run
            BY <1>1, <3>2, <3>3 DEF LogInv, Grouped
        <3> QED BY <3>2, <3>4
    <2> QED BY <2>2 DEF CitesOneRun
<1> QED BY <1>1, LogIsSound, PTL

(* Once a run that asked for every day of an item and for its source has   *)
(* been submitted for approval, the item is never reported as a gap.       *)
THEOREM NoFalseGaps == Spec => []SubmittedRunsAreFound
<1>1. ASSUME LogInv PROVE SubmittedRunsAreFound
    <2>1. ASSUME NEW item \in Items, NEW id \in DOMAIN requests, NEW i \in Starts(log),
                 log[i].run = requests[id].run, Encloses(log[i].window, item)
          PROVE  Found(log, item)
        <3>1. requests[id].run # NoRun
            <4>1. log[i].run \in 1 .. RunsStarted
                BY <1>1 DEF LogInv, RunsNumbered
            <4>2. ~(0 \in 1 .. RunsStarted)
                BY <1>1, LogInvGives
            <4> QED BY <2>1, <4>1, <4>2 DEF NoRun
        <3>2. HasGroup(requests[id].run)
            BY <1>1, <3>1 DEF LogInv, RequestsGrouped
        <3>3. PICK r \in Starts(log) : log[r].run = requests[id].run /\ Reports(log, r) # {}
            BY <3>2 DEF HasGroup
        <3>4. r = i
            BY <1>1, <2>1, <3>3, LogInvGives
        <3>5. Covers(log[i].window, item)
            <4>1. item.start \in Int /\ item.end \in Int
                BY DatesAssumption
            <4>2. PICK window : window = log[i].window
                OBVIOUS
            <4>3. /\ window.start = NoDate \/ window.start <= item.start
                  /\ window.end = NoDate \/ item.end <= window.end
                  /\ item.source \in {NoSource, window.source}
                BY <2>1, <4>2 DEF Encloses
            <4>4. window.end \in Int \cup {NoDate}
                <5>1. i \in DOMAIN log
                    BY DEF Starts
                <5> QED BY <1>1, <4>2, <5>1, LogInvGives, LogRows DEF Dated
            <4>5. window.end # NoDate => window.end >= item.end
                BY <4>1, <4>3, <4>4
            <4>6. Covers(window, item)
                BY <4>3, <4>5 DEF Covers
            <4> QED BY <4>2, <4>6
        <3>6. i \in Candidates(log, item)
            BY <3>3, <3>4, <3>5 DEF Candidates
        <3> QED BY <3>6 DEF Found
    <2> QED BY <2>1 DEF SubmittedRunsAreFound
<1> QED BY <1>1, LogIsSound, PTL

(* With one request in the queue, of the last run started, the approval    *)
(* status an entry cites for that run is the request's.                    *)
THEOREM StatusOfTheOnlyRequest == Spec => []StatusRightWhenAlone
<1>1. ASSUME LogInv PROVE StatusRightWhenAlone
    <2>1. ASSUME Len(requests) = 1, requests[1].run = RunsStarted,
                 NEW item \in Items, NEW id \in DOMAIN requests, Found(log, item),
                 NEW e, e = FindEvidence(log, item),
                 log[e.start_id].run = requests[id].run
          PROVE  e.approval_status = requests[id].status
        <3>1. id = 1
            BY <1>1, <2>1, RequestsGives
        <3>2. PICK b : b = Best(log, item)
            OBVIOUS
        <3>3. log \in Seq(Event) /\ Len(log) \in Nat /\ DOMAIN log = 1 .. Len(log)
            BY <1>1, LogInvGives, LogRows
        <3>4. /\ b \in Starts(log) /\ e.start_id = b
              /\ e.approval_status = LastApprovalStatus(log, b)
            BY <2>1, <3>2, <3>3, EntryIs
        <3>5. log[b].run = RunsStarted
            BY <2>1, <3>1, <3>4
        <3>6. requests[1].run # NoRun
            <4>1. log[b].run \in 1 .. RunsStarted
                BY <1>1, <3>4 DEF LogInv, RunsNumbered
            <4>2. ~(0 \in 1 .. RunsStarted)
                BY <1>1, LogInvGives
            <4> QED BY <2>1, <3>5, <4>1, <4>2 DEF NoRun
        <3>7. HasGroup(requests[1].run)
            BY <1>1, <3>1, <3>6 DEF LogInv, RequestsGrouped
        <3>8. PICK r \in Starts(log) :
                 /\ log[r].run = requests[1].run
                 /\ \E i \in EventsOf(log, r) : log[i].approval_status # NoStatus
            BY <3>7 DEF HasGroup
        <3>9. r = b
            BY <1>1, <2>1, <3>4, <3>5, <3>8, LogInvGives
        <3> DEFINE approvals == {i \in EventsOf(log, b) : log[i].approval_status # NoStatus}
        <3>10. approvals # {}
            BY <3>8, <3>9
        <3>11. b \in 1 .. Len(log) /\ \A j \in Starts(log) : j <= b
            BY <1>1, <3>3, <3>4, <3>5, LogInvGives DEF Starts
        <3>12. EventsOf(log, b) = b .. Len(log)
            <4>1. \A j \in Starts(log) : ~(b < j)
                BY <3>3, <3>11 DEF Starts
            <4> QED BY <4>1 DEF EventsOf
        <3>13. approvals \in SUBSET (1 .. Len(log))
            BY <3>11, <3>12
        <3>14. PICK last : last = Max(approvals)
            OBVIOUS
        <3>15. last \in approvals /\ \A k \in approvals : k <= last
            BY <3>3, <3>10, <3>13, <3>14, MinMax
        <3>16. LastStatus(last)
            <4>1. last \in b .. Len(log) /\ log[last].approval_status # NoStatus
                BY <3>12, <3>15
            <4>2. ASSUME NEW j \in DOMAIN log, last < j, log[j].approval_status # NoStatus
                  PROVE  FALSE
                <5>1. j \in b .. Len(log)
                    BY <3>3, <3>11, <4>1, <4>2
                <5>2. j \in approvals
                    BY <3>12, <4>2, <5>1
                <5>3. j <= last
                    BY <3>15, <5>2
                <5> QED BY <3>3, <4>1, <4>2, <5>1, <5>3
            <4> QED BY <4>1, <4>2 DEF LastStatus
        <3>17. last \in DOMAIN log
            BY <3>3, <3>13, <3>15
        <3>18. log[last].approval_status = requests[1].status
            BY <1>1, <2>1, <3>16, <3>17 DEF LogInv, AloneSound
        <3>19. LastApprovalStatus(log, b) = log[last].approval_status
            BY <3>10, <3>14 DEF LastApprovalStatus
        <3> QED BY <3>1, <3>4, <3>18, <3>19
    <2>2. Len(requests) = 1 /\ requests[1].run = RunsStarted => StatusIsOfCitedRun
        BY <2>1 DEF StatusIsOfCitedRun
    <2> QED BY <2>2 DEF StatusRightWhenAlone
<1> QED BY <1>1, LogIsSound, PTL

(* Whatever is appended, an item that has evidence keeps it, and its       *)
(* window gets no wider.                                                   *)
LEMMA BetterEvidence ==
    ASSUME NEW s \in Seq(Event), NEW t \in Seq(Event), NEW item, Found(s, item),
           Candidates(s, item) \subseteq Candidates(t, item),
           \A r \in Candidates(s, item) : t[r] = s[r]
    PROVE  /\ Found(t, item)
           /\ ~Narrower(FindEvidence(s, item).window, FindEvidence(t, item).window)
<1>1. PICK b, c : b = Best(s, item) /\ c = Best(t, item)
    OBVIOUS
<1>2. Found(t, item)
    BY DEF Found
<1>3. BestOf(s, b, Candidates(s, item)) /\ BestOf(t, c, Candidates(t, item))
    BY <1>1, <1>2, BestIs
<1>4. FindEvidence(s, item).window = s[b].window
    BY <1>1, EntryIs
<1>5. FindEvidence(t, item).window = t[c].window
    BY <1>1, <1>2, EntryIs
<1>6. b \in Candidates(t, item) /\ c \in Candidates(t, item) /\ t[b] = s[b]
    BY <1>3 DEF BestOf
<1>7. Dated(t[b].window) /\ Dated(t[c].window)
    BY <1>6, LogRows DEF Candidates, Starts
<1>8. ~Narrower(t[b].window, t[c].window)
    <2>1. CASE b = c
        BY <1>7, <2>1, NarrowerOrder
    <2>2. CASE b # c
        <3>1. Better(t, c, b)
            BY <1>3, <1>6, <2>2 DEF BestOf
        <3> QED BY <1>7, <3>1, NarrowerOrder DEF Better
    <2> QED BY <2>1, <2>2
<1> QED BY <1>2, <1>4, <1>5, <1>6, <1>8

LEMMA LogOnlyGrows ==
    ASSUME LogInv, [Next]_vars
    PROVE  log' = log \/ \E e \in Event : log' = Append(log, e)
<1>1. ASSUME NEW window \in Windows, Retrieve(window)
      PROVE  \E e \in Event : log' = Append(log, e)
    <2>1. RunsStarted + 1 \in Nat
        BY LogInvGives
    <2>2. RunEvent("transactions_retrieved", RunsStarted + 1, window) \in Event
        BY <2>1 DEF RunEvent, Event, RunActions
    <2> QED BY <1>1, <2>2 DEF Retrieve
<1>2. active.run \in Nat
    BY DEF LogInv, TypeOK
<1>3. ASSUME NEW action \in RunActions
      PROVE  RunEvent(action, active.run, NoWindow) \in Event
    BY <1>2 DEF RunEvent, Event
<1>4. ASSUME NEW run \in Nat, SubmitFor(run)
      PROVE  \E e \in Event : log' = Append(log, e)
    <2>1. ApprovalEvent(run, "pending") \in Event
        BY ApprovalIsEvent DEF Statuses
    <2> QED BY <1>4, <2>1 DEF SubmitFor
<1>5. ASSUME NEW id, NEW status \in Statuses, Decide(id, status)
      PROVE  \E e \in Event : log' = Append(log, e)
    <2>1. id \in DOMAIN requests /\ log' = Append(log, ApprovalEvent(requests[id].run, status))
        BY <1>5 DEF Decide
    <2>2. requests[id].run \in Nat
        BY <2>1, RequestsGives DEF Request
    <2> QED BY <2>1, <2>2, ApprovalIsEvent
<1>6. CASE Match \/ Report
    BY <1>3, <1>6 DEF Match, Report, RunActions
<1>7. CASE SubmitReport \/ OtherAgentSubmit
    BY <1>2, <1>4, <1>7 DEF SubmitReport, OtherAgentSubmit, NoRun
<1>8. CASE AbortRun \/ UNCHANGED vars
    BY <1>8 DEF AbortRun, vars
<1> QED BY <1>1, <1>5, <1>6, <1>7, <1>8 DEF Next

(* No later event takes evidence away or makes it worse: an item that is   *)
(* found stays found, by a run whose window is at most as wide.            *)
THEOREM EvidenceOnlyImproves == Spec => EvidenceNeverWorsens
<1>1. ASSUME LogInv, LogInv', [Next]_vars, NEW item \in Items, Found(log, item)
      PROVE  /\ Found(log', item)
             /\ ~Narrower(FindEvidence(log, item).window, FindEvidence(log', item).window)
    <2>1. log \in Seq(Event) /\ log' \in Seq(Event)
        BY <1>1 DEF LogInv, TypeOK
    <2>2. CASE log' = log
        <3>1. PICK b : b = Best(log, item)
            OBVIOUS
        <3>2. b \in DOMAIN log /\ FindEvidence(log, item).window = log[b].window
            BY <1>1, <2>1, <3>1, EntryIs
        <3>3. Dated(log[b].window)
            BY <2>1, <3>2, LogRows
        <3>4. ~Narrower(log[b].window, log[b].window)
            BY <3>3, NarrowerOrder
        <3> QED BY <1>1, <2>2, <3>2, <3>4
    <2>3. CASE \E e \in Event : log' = Append(log, e)
        <3>1. PICK e \in Event : log' = Append(log, e)
            BY <2>3
        <3>2. /\ Candidates(log, item) \subseteq Candidates(log', item)
              /\ \A r \in Candidates(log, item) : log'[r] = log[r]
            BY <2>1, <3>1, CandidatesStay
        <3> QED BY <1>1, <2>1, <3>2, BetterEvidence
    <2> QED BY <1>1, <2>2, <2>3, LogOnlyGrows
<1> DEFINE Kept == \A item \in Items :
          Found(log, item) =>
              /\ Found(log', item)
              /\ ~Narrower(FindEvidence(log, item).window, FindEvidence(log', item).window)
<1>2. LogInv /\ LogInv' /\ [Next]_vars => [Kept]_vars
    BY <1>1
<1>3. Spec => [][Kept]_vars
    BY <1>2, LogIsSound, PTL DEF Spec
<1> QED BY <1>3 DEF EvidenceNeverWorsens
=============================================================================
