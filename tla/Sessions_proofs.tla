-------------------------- MODULE Sessions_proofs --------------------------
(***************************************************************************)
(* Proofs about sessions, TOTP codes and password resets, for any number   *)
(* of connections, users, tokens and enrolments.                           *)
(*                                                                         *)
(* Some of what is proved holds however calls overlap and wherever they    *)
(* die (CallsRight).  The rest is about calls that run one after another:  *)
(* SerialInv says what the one call under way may rely on (Sound), and     *)
(* what holds between two calls (Sound(Idle)).                             *)
(***************************************************************************)
EXTENDS Sessions, SequenceTheorems, TLAPS

-----------------------------------------------------------------------------
(* What a call knows for sure, whoever else moves.                         *)
CallRight(o) ==
    /\ o.pc = "token" => o.username \in members
    /\ o.pc = "password" =>
          o.given \in DOMAIN resets /\ resets[o.given].username = o.username

CallsRight == \A c \in Clients : CallRight(op[c])

SigningPcs == {"mfa", "totp", "reuse", "burn", "tenant", "token"}

(* What holds while the call o is the only one under way.                  *)
CodesSound(o) ==
    /\ ~replayed
    /\ \A u \in Users :
          /\ spent[u].secret <= enrolled /\ mfa[u].secret <= enrolled
          /\ spent[u].secret # 0 /\ spent[u].secret = mfa[u].secret =>
                spent[u].step <= mfa[u].last_used_step
    /\ o.pc \in {"reuse", "burn"} =>
          mfa[o.username].secret = o.code.secret /\ o.code.secret # 0
    /\ o.pc = "burn" => mfa[o.username].last_used_step < o.code.step

PasswordsSound(o) ==
    /\ \A s \in sessions :
          /\ s.password # 0
          /\ s.password = password[s.username] \/ (o.pc = "revoke" /\ o.username = s.username)
    /\ o.pc \in SigningPcs /\ o.kind = "login" =>
          o.given # 0 /\ o.given = password[o.username]
    /\ o.pc = "password" => ~resets[o.given].consumed

LogSound(o) ==
    IF o.pc = "unlogged" THEN Recorded(o.event) = Opened(sessions) ELSE log = Opened(sessions)

Sound(o) == CodesSound(o) /\ PasswordsSound(o) /\ LogSound(o)

Alone == \A c, d \in Clients : op[c] # Idle /\ op[d] # Idle => c = d

SerialInv ==
    serial => /\ Alone
              /\ \A c \in Clients : op[c] # Idle => Sound(op[c])
              /\ AllIdle => Sound(Idle)
-----------------------------------------------------------------------------
(* What a call in progress is made of.                                     *)
LEMMA EndingTyped ==
    ASSUME NEW action \in Actions, NEW token \in Nat, NEW username \in Users \cup {Unknown},
           action = "login.succeeded" => username \in Users
    PROVE  [pc |-> "unlogged",
            event |-> [action |-> action, username |-> username, token |-> token]] \in Ops
<1>1. [action |-> action, username |-> username, token |-> token] \in Event
    BY DEF Event
<1> QED BY <1>1 DEF Ops

-----------------------------------------------------------------------------
(* The steps a call of each kind goes through.                             *)
Allowed(pc, kind, username) ==
    \/ kind = "logout" /\ pc = "delete"
    \/ /\ username \in Users
       /\ \/ kind = "login" /\ pc \in SigningPcs
          \/ kind = "verify" /\ pc \in {"totp", "reuse", "burn"}
          \/ kind = "validate" /\ pc = "tenant"
          \/ kind = "enable" /\ pc = "insert"
          \/ kind = "disable" /\ pc = "delete"
          \/ kind = "redeem" /\ pc \in {"password", "revoke"}

InCall(o) == o.pc \notin {"idle", "unlogged"}

LEMMA CallForm ==
    ASSUME NEW o \in Ops, InCall(o)
    PROVE  /\ o = [pc |-> o.pc, kind |-> o.kind, username |-> o.username,
                   given |-> o.given, code |-> o.code]
           /\ o.given \in Nat /\ o.code \in Codes
           /\ o.username \in Users \cup {Unknown}
           /\ Allowed(o.pc, o.kind, o.username)
BY DEF InCall, Ops, Idle, Calls, Allowed, SigningPcs

LEMMA CallTyped ==
    ASSUME NEW pc, NEW kind, NEW username \in Users \cup {Unknown}, NEW given \in Nat,
           NEW code \in Codes, Allowed(pc, kind, username)
    PROVE  [pc |-> pc, kind |-> kind, username |-> username, given |-> given,
            code |-> code] \in Ops
BY DEF Ops, Calls, Allowed, SigningPcs

(* The same for what a statement leaves of the call.                       *)
LEMMA CallExcept ==
    ASSUME NEW o \in Ops, InCall(o), NEW pc
    PROVE  [o EXCEPT !.pc = pc] = [pc |-> pc, kind |-> o.kind, username |-> o.username,
                                   given |-> o.given, code |-> o.code]
BY CallForm

LEMMA SetOpTyped ==
    ASSUME TypeOK, NEW c \in Clients, NEW new \in Ops, SetOp([op EXCEPT ![c] = new])
    PROVE  op' \in [Clients -> Ops] /\ serial' \in BOOLEAN
BY DEF TypeOK, SetOp

LEMMA StartTyped ==
    ASSUME TypeOK, NEW c \in Clients, NEW pc, NEW kind, NEW username \in Users \cup {Unknown},
           NEW given \in Nat, NEW code \in Codes, Allowed(pc, kind, username),
           Start(c, Call(pc, kind, username, given, code))
    PROVE  op' \in [Clients -> Ops] /\ serial' \in BOOLEAN
<1>1. Call(pc, kind, username, given, code) \in Ops
    BY CallTyped DEF Call
<1> QED BY <1>1, SetOpTyped DEF Start

LEMMA GotoTyped ==
    ASSUME TypeOK, NEW c \in Clients, NEW pc, NEW o, o = op[c], InCall(o),
           Allowed(pc, o.kind, o.username), Goto(c, pc)
    PROVE  op' \in [Clients -> Ops] /\ serial' \in BOOLEAN
<1>1. o \in Ops
    BY DEF TypeOK
<1>3. [o EXCEPT !.pc = pc] \in Ops
    BY <1>1, CallExcept, CallForm, CallTyped
<1>4. SetOp([op EXCEPT ![c] = [o EXCEPT !.pc = pc]])
    BY DEF Goto
<1> QED BY <1>3, <1>4, SetOpTyped

LEMMA EndingStep ==
    ASSUME TypeOK, NEW c \in Clients,
           NEW action \in Actions, NEW token \in Nat, NEW username \in Users \cup {Unknown},
           action = "login.succeeded" => username \in Users,
           Ending(c, action, username, token)
    PROVE  op' \in [Clients -> Ops] /\ serial' \in BOOLEAN
BY EndingTyped, SetOpTyped DEF Ending, Start

LEMMA StoresTyped ==
    ASSUME TypeOK, UNCHANGED <<stores, clock, log, history>>,
           op' \in [Clients -> Ops], serial' \in BOOLEAN
    PROVE  TypeOK'
BY DEF TypeOK, stores, history

LEMMA CodesTyped ==
    ASSUME TypeOK
    PROVE  NoCode \in Codes /\ PlausibleCodes \subseteq Codes
<1>1. NoCode \in Codes /\ WrongCode \in Codes
    BY BoundAssumption DEF NoCode, WrongCode, Codes, Steps
<1>2. \A step \in Steps : [secret |-> enrolled, step |-> step] \in Codes
    BY DEF TypeOK, Codes
<1> QED BY <1>1, <1>2 DEF PlausibleCodes

LEMMA ResetSpent ==
    ASSUME NEW rows \in Seq(Reset), NEW t
    PROVE  /\ [rows EXCEPT ![t].consumed = TRUE] \in Seq(Reset)
           /\ DOMAIN [rows EXCEPT ![t].consumed = TRUE] = DOMAIN rows
<1> DEFINE new == [rows EXCEPT ![t].consumed = TRUE]
<1>1. Len(rows) \in Nat /\ rows \in [1 .. Len(rows) -> Reset]
    BY ElementOfSeq, LenProperties
<1>2. \A r \in Reset : [r EXCEPT !.consumed = TRUE] \in Reset
    BY DEF Reset
<1>3. new \in [1 .. Len(rows) -> Reset]
    BY <1>1, <1>2
<1>4. new \in Seq(Reset)
    BY <1>1, <1>3, SeqDef
<1> QED BY <1>1, <1>3, <1>4

LEMMA UserOfTyped ==
    ASSUME TypeOK, NEW token
    PROVE  UserOf(token) \in Users \cup {Unknown}
<1> DEFINE rows == {s \in sessions : s.token = token /\ s.expires_at > clock}
<1>1. CASE rows = {}
    BY <1>1 DEF UserOf
<1>2. CASE rows # {}
    <2>1. (CHOOSE s \in rows : TRUE) \in sessions
        BY <1>2
    <2> QED BY <1>2, <2>1 DEF UserOf, TypeOK, Session
<1> QED BY <1>1, <1>2

LEMMA SigningInTyped ==
    ASSUME TypeOK, NEW c \in Clients, SigningIn(c)
    PROVE  TypeOK'
<1> PICK o : o = op[c]
    OBVIOUS
<1>o. /\ o \in Ops
      /\ InCall(o) =>
           /\ o.given \in Nat /\ o.code \in Codes
           /\ o.username \in Users \cup {Unknown}
           /\ Allowed(o.pc, o.kind, o.username)
    BY CallForm DEF TypeOK
<1>c. NoCode \in Codes /\ PlausibleCodes \subseteq Codes
    BY CodesTyped DEF Codes
<1>f. ASSUME FactorsDone(c), InCall(o), o.kind = "login"
      PROVE  op' \in [Clients -> Ops] /\ serial' \in BOOLEAN
    <2>1. Allowed("tenant", "login", o.username)
        BY <1>f, <1>o DEF Allowed, SigningPcs
    <2> QED BY <2>1, <1>f, <1>o, <1>c, StartTyped DEF FactorsDone
<1>1. ASSUME NEW u \in Users, NEW code \in PlausibleCodes, NEW matches \in BOOLEAN,
             SignIn(c, u, matches, code)
      PROVE  TypeOK'
    <2>1. password[u] \in Nat /\ code \in Codes /\ Allowed("mfa", "login", u)
        BY <1>c DEF TypeOK, Allowed, SigningPcs
    <2>2. op' \in [Clients -> Ops] /\ serial' \in BOOLEAN
        BY <1>1, <2>1, StartTyped, EndingStep DEF SignIn, Actions
    <2> QED BY <1>1, <2>2, StoresTyped DEF SignIn
<1>2. ASSUME NEW u \in Users, NEW code \in PlausibleCodes, Verify(c, u, code)
      PROVE  TypeOK'
    <2>1. code \in Codes /\ Allowed("totp", "verify", u)
        BY <1>c DEF Allowed
    <2>2. op' \in [Clients -> Ops] /\ serial' \in BOOLEAN
        BY <1>2, <2>1, StartTyped DEF Verify
    <2> QED BY <1>2, <2>2, StoresTyped DEF Verify
<1>3. CASE SignInMfa(c)
    <2>1. InCall(o) /\ o.kind = "login" /\ Allowed("totp", o.kind, o.username)
          /\ o.username \in Users
        BY <1>3, <1>o DEF SignInMfa, InCall, Allowed, SigningPcs
    <2>2. op' \in [Clients -> Ops] /\ serial' \in BOOLEAN
        BY <1>3, <2>1, <1>f, <1>o, GotoTyped, EndingStep DEF SignInMfa, Actions
    <2> QED BY <1>3, <2>2, StoresTyped DEF SignInMfa
<1>r. ASSUME TotpRefused(c), InCall(o), o.username \in Users
      PROVE  op' \in [Clients -> Ops] /\ serial' \in BOOLEAN
    BY <1>r, EndingStep DEF TotpRefused, Actions
<1>4. CASE TotpMatch(c)
    <2>1. InCall(o) /\ Allowed("reuse", o.kind, o.username) /\ o.username \in Users
        BY <1>4, <1>o DEF TotpMatch, InCall, Allowed, SigningPcs
    <2>5. op' \in [Clients -> Ops] /\ serial' \in BOOLEAN
        BY <1>4, <2>1, <1>r, GotoTyped DEF TotpMatch
    <2> QED BY <1>4, <2>5, StoresTyped DEF TotpMatch
<1>5. CASE TotpReuse(c)
    <2>1. InCall(o) /\ Allowed("burn", o.kind, o.username) /\ o.username \in Users
        BY <1>5, <1>o DEF TotpReuse, InCall, Allowed, SigningPcs
    <2>2. op' \in [Clients -> Ops] /\ serial' \in BOOLEAN
        BY <1>5, <2>1, <1>r, GotoTyped DEF TotpReuse
    <2> QED BY <1>5, <2>2, StoresTyped DEF TotpReuse
<1>6. CASE TotpBurn(c)
    <2>1. InCall(o) /\ o.kind \in {"login", "verify"} /\ o.username \in Users
        BY <1>6, <1>o DEF TotpBurn, InCall, Allowed, SigningPcs
    <2>2. op' \in [Clients -> Ops] /\ serial' \in BOOLEAN
        BY <1>6, <2>1, <1>f, EndingStep DEF TotpBurn, Actions
    <2>3. mfa' \in [Users -> [secret : Nat, last_used_step : {Null} \cup Steps]]
        <3>1. o.code.step \in Steps
            BY <1>o, <2>1 DEF Codes
        <3>2. [mfa EXCEPT ![o.username].last_used_step = o.code.step] \in
                 [Users -> [secret : Nat, last_used_step : {Null} \cup Steps]]
            BY <3>1, <2>1 DEF TypeOK
        <3>3. mfa' \in {mfa, [mfa EXCEPT ![o.username].last_used_step = o.code.step]}
            BY <1>6 DEF TotpBurn
        <3> QED BY <3>2, <3>3 DEF TypeOK
    <2>4. spent' \in [Users -> Codes] /\ replayed' \in BOOLEAN
        BY <1>6, <2>1, <1>o DEF TotpBurn, Accept, TypeOK
    <2> QED BY <1>6, <2>2, <2>3, <2>4 DEF TotpBurn, TypeOK
<1>7. CASE SignInTenant(c)
    <2>1. InCall(o) /\ Allowed("token", o.kind, o.username) /\ o.username \in Users
        BY <1>7, <1>o DEF SignInTenant, InCall, Allowed, SigningPcs
    <2>2. op' \in [Clients -> Ops] /\ serial' \in BOOLEAN
        BY <1>7, <2>1, GotoTyped, EndingStep DEF SignInTenant, Actions
    <2> QED BY <1>7, <2>2, StoresTyped DEF SignInTenant
<1>8. CASE SignInToken(c)
    <2>1. InCall(o) /\ o.username \in Users /\ issued + 1 \in Nat /\ clock + SessionTtl \in Nat
        BY <1>8, <1>o, TtlAssumption, BoundAssumption
        DEF SignInToken, InCall, Allowed, SigningPcs, TypeOK
    <2>2. op' \in [Clients -> Ops] /\ serial' \in BOOLEAN
        BY <1>8, <2>1, EndingStep DEF SignInToken, Actions
    <2>3. sessions' \subseteq Session /\ issued' \in Nat
        BY <1>8, <2>1, <1>o DEF SignInToken, TypeOK, Session
    <2> QED BY <1>8, <2>2, <2>3 DEF SignInToken, TypeOK, history
<1>9. ASSUME NEW token \in 1 .. issued, Validate(c, token) \/ Logout(c, token)
      PROVE  TypeOK'
    <2>1. token \in Nat /\ UserOf(token) \in Users \cup {Unknown}
        BY UserOfTyped DEF TypeOK
    <2>2. Allowed("delete", "logout", UserOf(token))
          /\ (UserOf(token) # Unknown => Allowed("tenant", "validate", UserOf(token)))
        BY <2>1 DEF Allowed
    <2>3. op' \in [Clients -> Ops] /\ serial' \in BOOLEAN
        BY <1>9, <2>1, <2>2, <1>c, StartTyped, EndingStep DEF Validate, Logout, Actions
    <2> QED BY <1>9, <2>3, StoresTyped DEF Validate, Logout
<1>10. CASE ValidateTenant(c)
    <2>1. InCall(o) /\ o.username \in Users
        BY <1>10, <1>o DEF ValidateTenant, InCall, Allowed
    <2>2. op' \in [Clients -> Ops] /\ serial' \in BOOLEAN
        BY <1>10, <2>1, <1>o, EndingStep DEF ValidateTenant, Actions
    <2> QED BY <1>10, <2>2, StoresTyped DEF ValidateTenant
<1>11. CASE LogoutDelete(c)
    <2>1. InCall(o)
        BY <1>11 DEF LogoutDelete, InCall
    <2>2. op' \in [Clients -> Ops] /\ serial' \in BOOLEAN
        BY <1>11, <2>1, <1>o, EndingStep DEF LogoutDelete, Actions
    <2> QED BY <1>11, <2>2 DEF LogoutDelete, TypeOK, history
<1> QED BY <1>1, <1>2, <1>3, <1>4, <1>5, <1>6, <1>7, <1>8, <1>9, <1>10, <1>11 DEF SigningIn

LEMMA ManagingTyped ==
    ASSUME TypeOK, NEW c \in Clients, Managing(c)
    PROVE  TypeOK'
<1> PICK o : o = op[c]
    OBVIOUS
<1>o. /\ o \in Ops
      /\ InCall(o) =>
           /\ o.given \in Nat /\ o.code \in Codes
           /\ o.username \in Users \cup {Unknown}
           /\ Allowed(o.pc, o.kind, o.username)
    BY CallForm DEF TypeOK
<1>c. NoCode \in Codes
    BY CodesTyped
<1>1. ASSUME NEW u \in Users, Enable(c, u) \/ Disable(c, u)
      PROVE  TypeOK'
    <2>1. Allowed("insert", "enable", u) /\ Allowed("delete", "disable", u)
        BY DEF Allowed
    <2>2. op' \in [Clients -> Ops] /\ serial' \in BOOLEAN
        BY <1>1, <1>c, <2>1, StartTyped DEF Enable, Disable
    <2> QED BY <1>1, <2>2, StoresTyped DEF Enable, Disable
<1>2. ASSUME NEW u \in Users, RequestReset(c, u)
      PROVE  TypeOK'
    <2>1. Len(resets) + 1 \in Nat /\ clock + ResetTtl \in Nat
        BY TtlAssumption, BoundAssumption DEF TypeOK
    <2>2. op' \in [Clients -> Ops] /\ serial' \in BOOLEAN
        BY <1>2, <2>1, EndingStep DEF RequestReset, Actions
    <2>3. resets' \in Seq(Reset)
        BY <1>2, <2>1 DEF RequestReset, TypeOK, Reset
    <2> QED BY <1>2, <2>2, <2>3 DEF RequestReset, TypeOK, history
<1>3. CASE EnableInsert(c)
    <2>1. InCall(o) /\ o.username \in Users /\ Idle \in Ops
        BY <1>3, <1>o DEF EnableInsert, InCall, Allowed, SigningPcs, Ops
    <2>2. op' \in [Clients -> Ops] /\ serial' \in BOOLEAN
        BY <1>3, <2>1, EndingStep, SetOpTyped DEF EnableInsert, Start, Actions
    <2>3. [secret |-> enrolled + 1, last_used_step |-> Null] \in
             [secret : Nat, last_used_step : {Null} \cup Steps]
        BY DEF TypeOK
    <2>4. mfa' \in [Users -> [secret : Nat, last_used_step : {Null} \cup Steps]]
        BY <1>3, <2>1, <2>3 DEF EnableInsert, TypeOK
    <2> QED BY <1>3, <2>2, <2>4 DEF EnableInsert, TypeOK, history
<1>4. CASE DisableDelete(c)
    <2>1. InCall(o) /\ o.username \in Users
        BY <1>4, <1>o DEF DisableDelete, InCall, Allowed, SigningPcs
    <2>2. op' \in [Clients -> Ops] /\ serial' \in BOOLEAN
        BY <1>4, <2>1, EndingStep DEF DisableDelete, Actions
    <2>3. NoMfa \in [secret : Nat, last_used_step : {Null} \cup Steps]
        BY DEF NoMfa
    <2>4. mfa' \in [Users -> [secret : Nat, last_used_step : {Null} \cup Steps]]
        BY <1>4, <2>1, <2>3 DEF DisableDelete, TypeOK
    <2> QED BY <1>4, <2>2, <2>4 DEF DisableDelete, TypeOK, history
<1>5. ASSUME NEW token \in DOMAIN resets, Redeem(c, token)
      PROVE  TypeOK'
    <2>1. token \in Nat /\ resets[token].username \in Users
        <3>1. Len(resets) \in Nat /\ DOMAIN resets = 1 .. Len(resets)
            BY DEF TypeOK
        <3>2. resets[token] \in Reset
            BY <3>1, ElementOfSeq DEF TypeOK
        <3> QED BY <3>1, <3>2 DEF Reset
    <2>2. Allowed("password", "redeem", resets[token].username)
        BY <2>1 DEF Allowed
    <2>3. op' \in [Clients -> Ops] /\ serial' \in BOOLEAN
        BY <1>5, <1>c, <2>1, <2>2, StartTyped, EndingStep DEF Redeem, Actions
    <2> QED BY <1>5, <2>3, StoresTyped DEF Redeem
<1>6. CASE RedeemPassword(c)
    <2>1. InCall(o) /\ Allowed("revoke", o.kind, o.username) /\ o.username \in Users
        BY <1>6, <1>o DEF RedeemPassword, InCall, Allowed, SigningPcs
    <2>2. op' \in [Clients -> Ops] /\ serial' \in BOOLEAN
        BY <1>6, <2>1, GotoTyped DEF RedeemPassword
    <2>3. password' \in [Users -> Nat]
        BY <1>6, <2>1 DEF RedeemPassword, TypeOK
    <2>4. resets' \in Seq(Reset)
        BY <1>6, ResetSpent DEF RedeemPassword, TypeOK
    <2> QED BY <1>6, <2>2, <2>3, <2>4 DEF RedeemPassword, TypeOK, history
<1>7. CASE RedeemRevoke(c)
    <2>1. InCall(o)
        BY <1>7 DEF RedeemRevoke, InCall
    <2>2. op' \in [Clients -> Ops] /\ serial' \in BOOLEAN
        BY <1>7, <1>o, <2>1, EndingStep DEF RedeemRevoke, Actions
    <2> QED BY <1>7, <2>2 DEF RedeemRevoke, TypeOK, history
<1> QED BY <1>1, <1>2, <1>3, <1>4, <1>5, <1>6, <1>7 DEF Managing

LEMMA TypeNext ==
    ASSUME TypeOK, [CrashNext]_vars
    PROVE  TypeOK'
<1>1. ASSUME NEW u \in Users, CreateUser(u) \/ AssignUser(u)
      PROVE  TypeOK'
    BY <1>1 DEF CreateUser, AssignUser, TypeOK, history
<1>2. ASSUME NEW c \in Sessioners, SigningIn(c)
      PROVE  TypeOK'
    BY <1>2, SigningInTyped DEF Clients
<1>3. ASSUME NEW c \in Managers, Managing(c)
      PROVE  TypeOK'
    BY <1>3, ManagingTyped DEF Clients
<1>4. ASSUME NEW c \in Clients, LogAppend(c)
      PROVE  TypeOK'
    <2>1. op[c] \in Ops
        BY DEF TypeOK
    <2>2. PICK event \in Event : log' = Recorded(event)
        BY <1>4, <2>1 DEF LogAppend, Ops, Calls, Idle, SigningPcs
    <2>3. log' \subseteq [token : Nat, username : Users]
        BY <2>2 DEF Recorded, Event, TypeOK
    <2>4. op' \in [Clients -> Ops] /\ serial' \in BOOLEAN
        BY <1>4, SetOpTyped DEF LogAppend, Start, Ops
    <2> QED BY <1>4, <2>3, <2>4 DEF LogAppend, TypeOK, stores, history
<1>5. CASE Tick
    BY <1>5, BoundAssumption DEF Tick, TypeOK, stores, history
<1>6. ASSUME NEW c \in Clients, Crash(c)
      PROVE  TypeOK'
    <2>1. Idle \in Ops
        BY DEF Ops
    <2> QED BY <1>6, <2>1 DEF Crash, TypeOK, stores, history
<1>7. CASE UNCHANGED vars
    BY <1>7 DEF vars, TypeOK, stores, history
<1> QED BY <1>1, <1>2, <1>3, <1>4, <1>5, <1>6, <1>7 DEF CrashNext, Next

LEMMA TypeInit ==
    ASSUME Init
    PROVE  TypeOK
<1>1. NoCode \in Codes /\ NoMfa \in [secret : Nat, last_used_step : {Null} \cup Steps]
    BY BoundAssumption DEF NoCode, NoMfa, Codes, Steps
<1>2. Idle \in Ops /\ << >> \in Seq(Reset) /\ clock \in 0 .. MaxTime
    BY BoundAssumption, EmptySeq DEF Ops, Init
<1> QED BY <1>1, <1>2 DEF Init, TypeOK

(* Every record of the tables, the log and the calls in progress stays of  *)
(* the kind the code writes: passwords are set for users, codes are tried  *)
(* against them, and a call is at one of its own statements.               *)
THEOREM TypeCorrect == CrashSpec => []TypeOK
BY TypeInit, TypeNext, PTL DEF CrashSpec

-----------------------------------------------------------------------------
Inv == TypeOK /\ CallsRight /\ MembersOnlySessions /\ SerialInv

(* Memberships stay, and reset tokens stay their users'.                   *)
Grows ==
    /\ members \subseteq members'
    /\ \A t \in DOMAIN resets :
          t \in DOMAIN resets' /\ resets'[t].username = resets[t].username

Becomes(c, new) == op' = [op EXCEPT ![c] = new]

(* A step of one call that leaves what the call may rely on next.          *)
LEMMA Preserved ==
    ASSUME Inv, TypeOK', NEW c \in Clients, NEW old, old = op[c],
           NEW new, Becomes(c, new), serial' => serial /\ Alone',
           Grows, MembersOnlySessions', CallRight(new)',
           old # Idle \/ new # Idle,
           serial /\ Sound(old) => Sound(new)'
    PROVE  Inv'
<1>1. /\ DOMAIN op = Clients /\ op'[c] = new
      /\ \A d \in Clients \ {c} : op'[d] = op[d]
    BY DEF Inv, TypeOK, Becomes
<1>2. CallsRight'
    <2>1. \A d \in Clients : CallRight(op[d])
        BY DEF Inv, CallsRight
    <2>2. ASSUME NEW o, CallRight(o)
          PROVE  CallRight(o)'
        BY <2>2 DEF CallRight, Grows
    <2>3. ASSUME NEW d \in Clients
          PROVE  CallRight(op[d])'
        <3>1. CASE d = c
            BY <1>1, <3>1
        <3>2. CASE d # c
            <4> PICK o : o = op[d]
                OBVIOUS
            <4>1. op'[d] = o /\ CallRight(o)'
                BY <1>1, <2>1, <2>2, <3>2
            <4> QED BY <4>1
        <3> QED BY <3>1, <3>2
    <2> QED BY <2>3 DEF CallsRight
<1>3. ASSUME serial'
      PROVE  /\ Alone'
             /\ \A d \in Clients : op'[d] # Idle => Sound(op[d])'
             /\ AllIdle' => Sound(Idle)'
    <2>1. serial /\ Alone /\ Alone'
        BY <1>3 DEF Inv, SerialInv
    <2>2. \A d \in Clients \ {c} : op'[d] = Idle /\ op[d] = Idle
        BY <1>1, <2>1 DEF Alone
    <2>3. Sound(old)
        <3>1. CASE old # Idle
            BY <2>1, <3>1 DEF Inv, SerialInv
        <3>2. CASE old = Idle
            BY <2>1, <2>2, <3>2 DEF Inv, SerialInv, AllIdle
        <3> QED BY <3>1, <3>2
    <2>4. Sound(new)'
        BY <2>1, <2>3
    <2>5. ASSUME NEW d \in Clients, op'[d] # Idle
          PROVE  Sound(op[d])'
        <3>1. d = c
            BY <2>2, <2>5
        <3> QED BY <1>1, <2>4, <3>1
    <2>6. ASSUME AllIdle'
          PROVE  Sound(Idle)'
        <3>1. new = Idle
            BY <1>1, <2>6 DEF AllIdle
        <3> QED BY <2>4, <3>1
    <2> QED BY <2>1, <2>5, <2>6
<1> QED BY <1>2, <1>3 DEF Inv, SerialInv

Puts(c, new) == SetOp([op EXCEPT ![c] = new])

(* A step that only reads.                                                 *)
LEMMA Reads ==
    ASSUME Inv, TypeOK', NEW c \in Clients, NEW old, old = op[c],
           NEW new, Puts(c, new),
           UNCHANGED <<stores, clock, log, history>>,
           CallRight(new), old # Idle \/ new # Idle,
           serial /\ Sound(old) => Sound(new)
    PROVE  Inv'
<1>1. Becomes(c, new) /\ (serial' => serial /\ Alone')
    BY DEF Puts, SetOp, Alone, Becomes
<1>2. Grows /\ MembersOnlySessions' /\ CallRight(new)'
    BY DEF Grows, Inv, MembersOnlySessions, CallRight, stores
<1>3. Sound(new)' <=> Sound(new)
    BY DEF Sound, CodesSound, PasswordsSound, LogSound, Recorded, Opened, stores, history
<1> QED BY <1>1, <1>2, <1>3, Preserved

(* One that ends a call without opening or ending a session.               *)
LEMMA QuietEnding ==
    ASSUME Inv, TypeOK', NEW c \in Clients, NEW old, old = op[c],
           old.pc \notin {"revoke", "unlogged"},
           NEW action \in Actions \ {"login.succeeded", "logout", "password_reset.redeemed"},
           NEW username, NEW token, Ending(c, action, username, token),
           UNCHANGED <<stores, clock, log, history>>
    PROVE  Inv'
<1> DEFINE event == [action |-> action, username |-> username, token |-> token]
           new == [pc |-> "unlogged", event |-> event]
<1>1. new.pc = "unlogged" /\ new.event = event /\ new # Idle
    BY DEF Idle
<1>2. Recorded(event) = log
    BY DEF Recorded
<1>3. Puts(c, new)
    BY DEF Ending, Start, Puts
<1> HIDE DEF new
<1>4. CallRight(new)
    BY <1>1 DEF CallRight
<1>5. Sound(old) => Sound(new)
    BY <1>1, <1>2 DEF Sound, CodesSound, PasswordsSound, LogSound, SigningPcs
<1> HIDE DEF event
<1> QED BY <1>1, <1>3, <1>4, <1>5, Reads

LEMMA Going ==
    ASSUME Inv, NEW c \in Clients, NEW o, o = op[c], InCall(o),
           NEW pc, pc \notin {"idle", "unlogged"}, Goto(c, pc)
    PROVE  \E new : /\ Puts(c, new) /\ new # Idle /\ new.pc = pc
                    /\ new.kind = o.kind /\ new.username = o.username
                    /\ new.given = o.given /\ new.code = o.code
<1> DEFINE new == [o EXCEPT !.pc = pc]
<1>1. o \in Ops
    BY DEF Inv, TypeOK
<1>2. new = [pc |-> pc, kind |-> o.kind, username |-> o.username,
             given |-> o.given, code |-> o.code]
    BY <1>1, CallExcept
<1>3. new # Idle
    BY <1>2 DEF Idle
<1>4. Puts(c, new)
    BY DEF Goto, Puts
<1> QED BY <1>2, <1>3, <1>4

LEMMA Starting ==
    ASSUME NEW c \in Clients, NEW pc, pc \notin {"idle", "unlogged"}, NEW kind, NEW username,
           NEW given, NEW code, Start(c, Call(pc, kind, username, given, code))
    PROVE  \E new : /\ Puts(c, new) /\ new # Idle /\ new.pc = pc
                    /\ new.kind = kind /\ new.username = username
                    /\ new.given = given /\ new.code = code
<1> DEFINE new == Call(pc, kind, username, given, code)
<1>1. new.pc = pc /\ new.kind = kind /\ new.username = username /\ new.given = given
      /\ new.code = code /\ new # Idle
    BY DEF Call, Idle
<1>2. Puts(c, new)
    BY DEF Start, Puts
<1> QED BY <1>1, <1>2

(* A call of SigningIn(c) that only reads.                                 *)
LEMMA SigningInReads ==
    ASSUME Inv, TypeOK', NEW c \in Clients,
           \/ \E u \in Users, code \in PlausibleCodes :
                \/ \E matches \in BOOLEAN : SignIn(c, u, matches, code)
                \/ Verify(c, u, code)
           \/ SignInMfa(c) \/ TotpMatch(c) \/ TotpReuse(c) \/ SignInTenant(c)
           \/ \E token \in 1 .. issued : Validate(c, token) \/ Logout(c, token)
           \/ ValidateTenant(c)
    PROVE  Inv'
<1> PICK o : o = op[c]
    OBVIOUS
<1>o. /\ o \in Ops
      /\ InCall(o) => Allowed(o.pc, o.kind, o.username)
      /\ o.pc = "idle" => o = Idle
    BY CallForm DEF Inv, TypeOK, Ops, Calls, Idle, SigningPcs
<1>f. ASSUME FactorsDone(c), InCall(o), o.pc \in SigningPcs, o.kind = "login",
             UNCHANGED <<stores, clock, log, history>>
      PROVE  Inv'
    <2>1. PICK new : /\ Puts(c, new) /\ new # Idle /\ new.pc = "tenant"
                     /\ new.kind = "login" /\ new.username = o.username
                     /\ new.given = o.given /\ new.code = NoCode
        BY <1>f, Starting DEF FactorsDone
    <2>2. CallRight(new)
        BY <2>1 DEF CallRight
    <2>3. Sound(o) => Sound(new)
        BY <2>1, <1>f DEF Sound, CodesSound, PasswordsSound, LogSound, SigningPcs
    <2> QED BY <1>f, <2>1, <2>2, <2>3, Reads
<1>r. ASSUME TotpRefused(c), o.pc \in {"totp", "reuse"},
             UNCHANGED <<stores, clock, log, history>>
      PROVE  Inv'
    BY <1>r, QuietEnding DEF TotpRefused, Actions
<1>1. ASSUME NEW u \in Users, NEW code \in PlausibleCodes, NEW matches \in BOOLEAN,
             SignIn(c, u, matches, code)
      PROVE  Inv'
    <2>0. o = Idle /\ o.pc = "idle" /\ UNCHANGED <<stores, clock, log, history>>
        BY <1>1, <1>o DEF SignIn
    <2>1. CASE password[u] # 0 /\ matches
        <3>1. PICK new : /\ Puts(c, new) /\ new # Idle /\ new.pc = "mfa"
                         /\ new.username = u /\ new.given = password[u]
            BY <1>1, <2>1, Starting DEF SignIn
        <3>2. CallRight(new)
            BY <3>1 DEF CallRight
        <3>3. Sound(o) => Sound(new)
            BY <2>0, <2>1, <3>1 DEF Sound, CodesSound, PasswordsSound, LogSound
        <3> QED BY <2>0, <3>1, <3>2, <3>3, Reads
    <2>2. CASE ~(password[u] # 0 /\ matches)
        BY <1>1, <2>0, <2>2, QuietEnding DEF SignIn, Actions
    <2> QED BY <2>1, <2>2
<1>2. ASSUME NEW u \in Users, NEW code \in PlausibleCodes, Verify(c, u, code)
      PROVE  Inv'
    <2>0. o = Idle /\ o.pc = "idle" /\ UNCHANGED <<stores, clock, log, history>>
        BY <1>2, <1>o DEF Verify
    <2>1. PICK new : /\ Puts(c, new) /\ new # Idle /\ new.pc = "totp"
                     /\ new.kind = "verify"
        BY <1>2, Starting DEF Verify
    <2>2. CallRight(new)
        BY <2>1 DEF CallRight
    <2>3. Sound(o) => Sound(new)
        BY <2>0, <2>1 DEF Sound, CodesSound, PasswordsSound, LogSound
    <2> QED BY <2>0, <2>1, <2>2, <2>3, Reads
<1>3. CASE SignInMfa(c)
    <2>0. /\ o.pc = "mfa" /\ o.kind = "login" /\ InCall(o) /\ o.pc \in SigningPcs
          /\ UNCHANGED <<stores, clock, log, history>>
        BY <1>3, <1>o DEF SignInMfa, InCall, Allowed, SigningPcs
    <2>1. CASE Goto(c, "totp")
        <3>1. PICK new : /\ Puts(c, new) /\ new # Idle /\ new.pc = "totp"
                         /\ new.kind = o.kind /\ new.username = o.username
                         /\ new.given = o.given
            BY <2>0, <2>1, Going
        <3>2. CallRight(new)
            BY <3>1 DEF CallRight
        <3>3. Sound(o) => Sound(new)
            BY <2>0, <3>1 DEF Sound, CodesSound, PasswordsSound, LogSound
        <3> QED BY <2>0, <3>1, <3>2, <3>3, Reads
    <2>2. CASE Ending(c, "login.failed", o.username, 0)
        BY <2>0, <2>2, QuietEnding DEF Actions
    <2> QED BY <1>3, <1>f, <2>0, <2>1, <2>2 DEF SignInMfa
<1>4. CASE TotpMatch(c)
    <2>0. /\ o.pc = "totp" /\ InCall(o) /\ o.pc \in SigningPcs
          /\ UNCHANGED <<stores, clock, log, history>>
        BY <1>4, <1>o DEF TotpMatch, InCall, SigningPcs
    <2>1. CASE Goto(c, "reuse") /\ mfa[o.username].secret # 0
               /\ o.code.secret = mfa[o.username].secret
        <3>1. PICK new : /\ Puts(c, new) /\ new # Idle /\ new.pc = "reuse"
                         /\ new.kind = o.kind /\ new.username = o.username
                         /\ new.given = o.given /\ new.code = o.code
            BY <2>0, <2>1, Going
        <3>2. CallRight(new)
            BY <3>1 DEF CallRight
        <3>3. Sound(o) => Sound(new)
            BY <2>0, <2>1, <3>1 DEF Sound, CodesSound, PasswordsSound, LogSound
        <3> QED BY <2>0, <3>1, <3>2, <3>3, Reads
    <2> QED BY <1>4, <1>r, <2>0, <2>1 DEF TotpMatch
<1>5. CASE TotpReuse(c)
    <2>0. /\ o.pc = "reuse" /\ InCall(o) /\ o.pc \in SigningPcs
          /\ UNCHANGED <<stores, clock, log, history>>
        BY <1>5, <1>o DEF TotpReuse, InCall, SigningPcs
    <2>1. CASE Goto(c, "burn") /\ ~(o.code.step <= mfa[o.username].last_used_step)
        <3>1. PICK new : /\ Puts(c, new) /\ new # Idle /\ new.pc = "burn"
                         /\ new.kind = o.kind /\ new.username = o.username
                         /\ new.given = o.given /\ new.code = o.code
            BY <2>0, <2>1, Going
        <3>2. CallRight(new)
            BY <3>1 DEF CallRight
        <3>3. mfa[o.username].last_used_step < o.code.step
            <4>1. o.username \in Users /\ o.code \in Codes
                BY <1>o, <2>0, CallForm DEF Allowed
            <4>2. o.code.step \in Int /\ mfa[o.username].last_used_step \in Int
                <5>1. mfa[o.username] \in [secret : Nat, last_used_step : {Null} \cup Steps]
                    BY <4>1 DEF Inv, TypeOK
                <5>2. Steps \subseteq Int /\ Null \in Int
                    BY DEF Steps, Null
                <5> QED BY <4>1, <5>1, <5>2 DEF Codes
            <4> QED BY <2>1, <4>2
        <3>4. Sound(o) => Sound(new)
            BY <2>0, <3>1, <3>3 DEF Sound, CodesSound, PasswordsSound, LogSound
        <3> QED BY <2>0, <3>1, <3>2, <3>4, Reads
    <2> QED BY <1>5, <1>r, <2>0, <2>1 DEF TotpReuse
<1>6. CASE SignInTenant(c)
    <2>0. /\ o.pc = "tenant" /\ o.kind = "login" /\ InCall(o) /\ o.pc \in SigningPcs
          /\ UNCHANGED <<stores, clock, log, history>>
        BY <1>6 DEF SignInTenant, InCall, SigningPcs
    <2>1. CASE Goto(c, "token") /\ o.username \in members
        <3>1. PICK new : /\ Puts(c, new) /\ new # Idle /\ new.pc = "token"
                         /\ new.kind = o.kind /\ new.username = o.username
                         /\ new.given = o.given
            BY <2>0, <2>1, Going
        <3>2. CallRight(new)
            BY <2>1, <3>1 DEF CallRight
        <3>3. Sound(o) => Sound(new)
            BY <2>0, <3>1 DEF Sound, CodesSound, PasswordsSound, LogSound
        <3> QED BY <2>0, <3>1, <3>2, <3>3, Reads
    <2>2. CASE Ending(c, "login.failed", o.username, 0)
        BY <2>0, <2>2, QuietEnding DEF Actions
    <2> QED BY <1>6, <2>0, <2>1, <2>2 DEF SignInTenant
<1>7. ASSUME NEW token \in 1 .. issued, Validate(c, token) \/ Logout(c, token)
      PROVE  Inv'
    <2>0. o = Idle /\ o.pc = "idle" /\ UNCHANGED <<stores, clock, log, history>>
        BY <1>7, <1>o DEF Validate, Logout
    <2>1. CASE \/ Start(c, Call("tenant", "validate", UserOf(token), token, NoCode))
               \/ Start(c, Call("delete", "logout", UserOf(token), token, NoCode))
        <3>1. PICK new : /\ Puts(c, new) /\ new # Idle
                         /\ new.pc \in {"tenant", "delete"}
                         /\ new.kind \in {"validate", "logout"}
            BY <2>1, Starting
        <3>2. CallRight(new)
            BY <3>1 DEF CallRight
        <3>3. Sound(o) => Sound(new)
            BY <2>0, <3>1 DEF Sound, CodesSound, PasswordsSound, LogSound
        <3> QED BY <2>0, <3>1, <3>2, <3>3, Reads
    <2>2. CASE Ending(c, "validate.failed", Unknown, token)
        BY <2>0, <2>2, QuietEnding DEF Actions
    <2> QED BY <1>7, <2>1, <2>2 DEF Validate, Logout
<1>8. CASE ValidateTenant(c)
    BY <1>8, QuietEnding DEF ValidateTenant, Actions
<1> QED BY <1>1, <1>2, <1>3, <1>4, <1>5, <1>6, <1>7, <1>8

(* Opening a session.                                                      *)
LEMMA OpenedAfter ==
    ASSUME NEW rows, NEW s
    PROVE  Opened(rows \cup {s}) =
              Opened(rows) \cup {[token |-> s.token, username |-> s.username]}
BY DEF Opened

(* The statements that open a session or end some.                         *)
LEMMA SessionSteps ==
    ASSUME Inv, TypeOK', NEW c \in Clients,
           SignInToken(c) \/ LogoutDelete(c) \/ RedeemRevoke(c)
    PROVE  Inv'
<1> PICK o : o = op[c]
    OBVIOUS
<1>o. /\ o \in Ops
      /\ InCall(o) => Allowed(o.pc, o.kind, o.username)
      /\ CallRight(o) /\ o # Idle
    BY CallForm DEF Inv, TypeOK, CallsRight, SignInToken, LogoutDelete, RedeemRevoke, Idle
<1>p. PICK action, token :
         \/ o.pc = "token" /\ action = "login.succeeded" /\ token = issued + 1
         \/ o.pc = "delete" /\ action = "logout" /\ token = o.given
         \/ o.pc = "revoke" /\ action = "password_reset.redeemed" /\ token = o.given
    BY DEF SignInToken, LogoutDelete, RedeemRevoke
<1> DEFINE event == [action |-> action, username |-> o.username, token |-> token]
           new == [pc |-> "unlogged", event |-> event]
           made == [token |-> issued + 1, username |-> o.username,
                    expires_at |-> clock + SessionTtl, password |-> o.given]
<1>1. /\ Puts(c, new)
      /\ UNCHANGED <<password, members, mfa, enrolled, resets, log, history>>
    BY <1>p DEF SignInToken, LogoutDelete, RedeemRevoke, Ending, Start, Puts
<1>2. \/ action = "login.succeeded" /\ sessions' = sessions \cup {made}
         /\ token = made.token /\ o.pc = "token" /\ o.kind = "login"
      \/ action = "logout" /\ sessions' = {s \in sessions : s.token # token} /\ o.pc = "delete"
      \/ action = "password_reset.redeemed" /\ o.pc = "revoke"
         /\ sessions' = {s \in sessions : s.username # o.username}
    BY <1>o, <1>p DEF SignInToken, LogoutDelete, RedeemRevoke, InCall, Allowed
<1>3. /\ new.pc = "unlogged" /\ new.event = event
      /\ event.action = action /\ event.token = token /\ event.username = o.username
      /\ made.username = o.username /\ made.password = o.given
    OBVIOUS
<1> HIDE DEF new, event, made
<1>4. Becomes(c, new) /\ (serial' => serial /\ Alone')
    BY <1>1 DEF Puts, SetOp, Becomes, Alone
<1>5. MembersOnlySessions'
    BY <1>o, <1>1, <1>2, <1>3 DEF Inv, MembersOnlySessions, CallRight
<1>6. Grows
    BY <1>1 DEF Grows
<1>7. LogSound(o) => LogSound(new)'
    <2>1. LogSound(o) => log = Opened(sessions)
        BY <1>2 DEF LogSound
    <2>2. ASSUME log = Opened(sessions)
          PROVE  Recorded(event) = Opened(sessions')
        <3>1. CASE action = "login.succeeded"
            BY <1>2, <1>3, <2>2, <3>1, OpenedAfter DEF Recorded
        <3>2. CASE action = "logout"
            <4>1. Recorded(event) = {s \in log : s.token # token}
                BY <1>3, <3>2 DEF Recorded
            <4>2. sessions' = {s \in sessions : s.token # token}
                BY <1>2, <3>2
            <4> QED BY <2>2, <4>1, <4>2 DEF Opened
        <3>3. CASE action = "password_reset.redeemed"
            <4>1. Recorded(event) = {s \in log : s.username # o.username}
                BY <1>3, <3>3 DEF Recorded
            <4>2. sessions' = {s \in sessions : s.username # o.username}
                BY <1>2, <3>3
            <4> QED BY <2>2, <4>1, <4>2 DEF Opened
        <3> QED BY <1>2, <3>1, <3>2, <3>3
    <2>3. Recorded(event)' = Recorded(event)
        BY <1>1 DEF Recorded
    <2>4. Opened(sessions)' = Opened(sessions')
        BY DEF Opened
    <2> QED BY <1>3, <2>1, <2>2, <2>3, <2>4 DEF LogSound
<1>8. Sound(o) => PasswordsSound(new)'
    BY <1>1, <1>2, <1>3 DEF Sound, PasswordsSound, SigningPcs
<1>9. Sound(o) => CodesSound(new)'
    BY <1>1, <1>3 DEF Sound, CodesSound, history
<1>10. CallRight(new)'
    BY <1>3 DEF CallRight
<1> HIDE DEF new
<1>11. serial /\ Sound(o) => Sound(new)'
    BY <1>7, <1>8, <1>9 DEF Sound
<1> QED BY <1>o, <1>4, <1>5, <1>6, <1>10, <1>11, Preserved

LEMMA TotpBurnSound ==
    ASSUME Inv, TypeOK', NEW c \in Clients, TotpBurn(c)
    PROVE  Inv'
<1> PICK o : o = op[c]
    OBVIOUS
<1> DEFINE u == o.username
<1>o. /\ o \in Ops /\ o.pc = "burn" /\ InCall(o) /\ o # Idle
      /\ u \in Users /\ o.code \in Codes /\ o.kind \in {"login", "verify"}
    <2>1. o \in Ops /\ o.pc = "burn" /\ InCall(o)
        BY DEF Inv, TypeOK, TotpBurn, InCall
    <2>2. o.code \in Codes /\ Allowed("burn", o.kind, u)
        BY <2>1, CallForm
    <2> QED BY <2>1, <2>2 DEF Allowed, Idle, SigningPcs
<1>1. PICK new : /\ Puts(c, new) /\ new.pc \in {"tenant", "unlogged"}
                 /\ new.pc = "tenant" => new.username = u /\ new.given = o.given
                                         /\ o.kind = "login"
                 /\ new.pc = "unlogged" => new.event.action = "mfa.verify_succeeded"
    <2>1. CASE o.kind = "login"
        BY <1>o, <2>1, Starting DEF TotpBurn, FactorsDone
    <2>2. CASE o.kind # "login"
        <3> DEFINE e == [action |-> "mfa.verify_succeeded", username |-> u, token |-> 0]
                   new == [pc |-> "unlogged", event |-> e]
        <3>1. new.pc = "unlogged" /\ new.event.action = "mfa.verify_succeeded"
            OBVIOUS
        <3>2. Puts(c, new)
            BY <2>2 DEF TotpBurn, Ending, Start, Puts
        <3> HIDE DEF new
        <3> QED BY <3>1, <3>2
    <2> QED BY <2>1, <2>2
<1>2. UNCHANGED <<password, members, enrolled, resets, sessions, log>>
    BY DEF TotpBurn
<1>3. Becomes(c, new) /\ (serial' => serial /\ Alone')
    BY <1>1 DEF Puts, SetOp, Becomes, Alone
<1>4. Grows /\ MembersOnlySessions' /\ CallRight(new)'
    BY <1>1, <1>2 DEF Grows, MembersOnlySessions, Inv, CallRight
<1>5. ASSUME CodesSound(o)
      PROVE  CodesSound(new)'
    <2>1. /\ mfa[u].secret = o.code.secret /\ o.code.secret # 0
          /\ mfa[u].last_used_step < o.code.step
        BY <1>5, <1>o DEF CodesSound
    <2>2. /\ mfa' = [mfa EXCEPT ![u].last_used_step = o.code.step]
          /\ spent' = [spent EXCEPT ![u] = o.code]
          /\ replayed' = (replayed \/ (spent[u].secret = o.code.secret
                                       /\ o.code.step <= spent[u].step))
        BY <2>1 DEF TotpBurn, Accept
    <2>3. /\ o.code.step \in Int /\ mfa[u].last_used_step \in Int /\ spent[u].step \in Int
          /\ mfa[u] \in [secret : Nat, last_used_step : {Null} \cup Steps]
        <3>1. mfa[u] \in [secret : Nat, last_used_step : {Null} \cup Steps] /\ spent[u] \in Codes
            BY <1>o DEF Inv, TypeOK
        <3>2. Steps \subseteq Int /\ Null \in Int
            BY DEF Steps, Null
        <3> QED BY <1>o, <3>1, <3>2 DEF Codes
    <2>4. ~replayed'
        <3>1. spent[u].secret = o.code.secret => spent[u].step <= mfa[u].last_used_step
            BY <1>5, <1>o, <2>1 DEF CodesSound
        <3>2. spent[u].secret = o.code.secret => ~(o.code.step <= spent[u].step)
            BY <2>1, <2>3, <3>1
        <3> QED BY <1>5, <2>2, <3>2 DEF CodesSound
    <2>5. ASSUME NEW v \in Users
          PROVE  /\ spent'[v].secret <= enrolled' /\ mfa'[v].secret <= enrolled'
                 /\ spent'[v].secret # 0 /\ spent'[v].secret = mfa'[v].secret =>
                       spent'[v].step <= mfa'[v].last_used_step
        <3>1. CASE v # u
            BY <1>5, <1>2, <2>2, <3>1 DEF CodesSound, Inv, TypeOK
        <3>2. CASE v = u
            <4>1. spent'[u] = o.code /\ mfa'[u].secret = mfa[u].secret
                  /\ mfa'[u].last_used_step = o.code.step
                BY <1>o, <2>2, <2>3 DEF Inv, TypeOK
            <4> QED BY <1>5, <1>2, <2>1, <2>3, <3>2, <4>1, <1>o DEF CodesSound
        <3> QED BY <3>1, <3>2
    <2> QED BY <1>1, <2>4, <2>5 DEF CodesSound
<1>6. PasswordsSound(o) => PasswordsSound(new)'
    BY <1>o, <1>1, <1>2 DEF PasswordsSound, SigningPcs
<1>7. LogSound(o) => LogSound(new)'
    BY <1>o, <1>1, <1>2 DEF LogSound, Recorded
<1>8. serial /\ Sound(o) => Sound(new)'
    BY <1>5, <1>6, <1>7 DEF Sound
<1> QED BY <1>o, <1>3, <1>4, <1>8, Preserved

(* What ends a call whose event opens and ends no session.                 *)
LEMMA EndingForm ==
    ASSUME NEW c \in Clients,
           NEW action \in Actions \ {"login.succeeded", "logout", "password_reset.redeemed"},
           NEW username, NEW token, Ending(c, action, username, token)
    PROVE  \E new : /\ Puts(c, new) /\ new.pc = "unlogged" /\ new # Idle
                    /\ Recorded(new.event) = log
                    /\ log' = log => Recorded(new.event)' = log
<1> DEFINE event == [action |-> action, username |-> username, token |-> token]
           new == [pc |-> "unlogged", event |-> event]
<1>1. new.pc = "unlogged" /\ new.event = event /\ new # Idle
    BY DEF Idle
<1>2. Recorded(event) = log /\ (log' = log => Recorded(event)' = log)
    BY DEF Recorded
<1>3. Puts(c, new)
    BY DEF Ending, Start, Puts
<1> HIDE DEF new
<1> QED BY <1>1, <1>2, <1>3

LEMMA ManagingReads ==
    ASSUME Inv, TypeOK', NEW c \in Clients,
           \/ \E u \in Users : Enable(c, u) \/ Disable(c, u)
           \/ \E token \in DOMAIN resets : Redeem(c, token)
    PROVE  Inv'
<1> PICK o : o = op[c]
    OBVIOUS
<1>o. o.pc = "idle" /\ o = Idle /\ UNCHANGED <<stores, clock, log, history>>
    BY DEF Inv, TypeOK, Ops, Calls, Idle, Enable, Disable, Redeem
<1>1. CASE \E u \in Users : Enable(c, u) \/ Disable(c, u)
    <2>1. PICK new : Puts(c, new) /\ new # Idle /\ new.pc \in {"insert", "delete"}
        BY <1>1, Starting DEF Enable, Disable
    <2>2. CallRight(new)
        BY <2>1 DEF CallRight
    <2>3. Sound(o) => Sound(new)
        BY <1>o, <2>1 DEF Sound, CodesSound, PasswordsSound, LogSound, SigningPcs
    <2> QED BY <1>o, <2>1, <2>2, <2>3, Reads
<1>2. ASSUME NEW token \in DOMAIN resets, Redeem(c, token)
      PROVE  Inv'
    <2> PICK user : user = resets[token].username
        OBVIOUS
    <2>1. CASE /\ Start(c, Call("password", "redeem", user, token, NoCode))
               /\ ~resets[token].consumed
        <3>1. PICK new : /\ Puts(c, new) /\ new # Idle /\ new.pc = "password"
                         /\ new.username = user /\ new.given = token
            BY <2>1, Starting
        <3>2. CallRight(new)
            BY <3>1 DEF CallRight
        <3>3. Sound(o) => Sound(new)
            BY <1>o, <2>1, <3>1 DEF Sound, CodesSound, PasswordsSound, LogSound, SigningPcs
        <3> QED BY <1>o, <3>1, <3>2, <3>3, Reads
    <2>2. CASE \/ Ending(c, "password_reset.redeem_failed", user, token)
               \/ Ending(c, "password_reset.redeem_failed", Unknown, token)
        BY <1>o, <2>2, QuietEnding DEF Actions
    <2> QED BY <1>2, <2>1, <2>2 DEF Redeem
<1> QED BY <1>1, <1>2

LEMMA RequestSound ==
    ASSUME Inv, TypeOK', NEW c \in Clients, NEW u \in Users, RequestReset(c, u)
    PROVE  Inv'
<1> PICK o : o = op[c]
    OBVIOUS
<1>o. o.pc = "idle" /\ o = Idle
    BY DEF Inv, TypeOK, Ops, Calls, Idle, RequestReset
<1>1. PICK new : /\ Puts(c, new) /\ new.pc = "unlogged" /\ new # Idle
                 /\ Recorded(new.event) = log
                 /\ log' = log => Recorded(new.event)' = log
    BY EndingForm DEF RequestReset, Actions
<1>2. UNCHANGED <<password, members, mfa, enrolled, sessions, log, history>>
    BY DEF RequestReset
<1>3. Becomes(c, new) /\ (serial' => serial /\ Alone')
    BY <1>1 DEF Puts, SetOp, Becomes, Alone
<1>4. Grows
    <2>1. resets \in Seq(Reset)
        BY DEF Inv, TypeOK
    <2>2. PICK r : resets' = Append(resets, r)
        BY DEF RequestReset
    <2>3. Len(resets) \in Nat /\ DOMAIN resets = 1 .. Len(resets)
        BY <2>1
    <2>4. \A t \in DOMAIN resets : t \in DOMAIN resets' /\ resets'[t] = resets[t]
        BY <2>1, <2>2, <2>3
    <2> QED BY <1>2, <2>4 DEF Grows
<1>5. MembersOnlySessions' /\ CallRight(new)'
    BY <1>1, <1>2 DEF MembersOnlySessions, Inv, CallRight
<1>6. Sound(o) => Sound(new)'
    BY <1>o, <1>1, <1>2
    DEF Sound, CodesSound, PasswordsSound, LogSound, SigningPcs, Opened, history
<1> QED BY <1>1, <1>3, <1>4, <1>5, <1>6, Preserved

LEMMA MfaSound ==
    ASSUME Inv, TypeOK', NEW c \in Clients, EnableInsert(c) \/ DisableDelete(c)
    PROVE  Inv'
<1> PICK o : o = op[c]
    OBVIOUS
<1> DEFINE u == o.username
<1>o. o # Idle /\ u \in Users /\ o.pc \in {"insert", "delete"}
    <2>1. o \in Ops /\ InCall(o) /\ o.pc \in {"insert", "delete"} /\ o # Idle
          /\ (o.pc = "delete" => o.kind = "disable")
        BY DEF Inv, TypeOK, EnableInsert, DisableDelete, InCall, Idle
    <2>2. Allowed(o.pc, o.kind, u)
        BY <2>1, CallForm
    <2> QED BY <2>1, <2>2 DEF Allowed, SigningPcs
<1>2. UNCHANGED <<password, members, resets, sessions, log, history>>
    BY DEF EnableInsert, DisableDelete
<1>1. PICK new : /\ Puts(c, new) /\ new.pc \in {"unlogged", "idle"}
                 /\ new.pc = "unlogged" => Recorded(new.event)' = log
    <2>1. CASE Start(c, Idle)
        <3>1. Puts(c, Idle) /\ Idle.pc = "idle"
            BY <2>1 DEF Start, Puts, Idle
        <3> QED BY <3>1
    <2>2. CASE Ending(c, "mfa.enabled", u, 0) \/ Ending(c, "mfa.disabled", u, 0)
        BY <1>2, <2>2, EndingForm DEF Actions
    <2> QED BY <2>1, <2>2 DEF EnableInsert, DisableDelete
<1>3. Becomes(c, new) /\ (serial' => serial /\ Alone')
    BY <1>1 DEF Puts, SetOp, Becomes, Alone
<1>4. Grows /\ MembersOnlySessions' /\ CallRight(new)'
    BY <1>1, <1>2 DEF Grows, MembersOnlySessions, Inv, CallRight
<1>5. ASSUME CodesSound(o)
      PROVE  CodesSound(new)'
    <2>1. /\ enrolled \in Nat /\ enrolled <= enrolled' /\ enrolled' \in Nat
          /\ \A v \in Users : mfa[v].secret \in Nat /\ spent[v].secret \in Nat
        BY DEF Inv, TypeOK, Codes, EnableInsert, DisableDelete
    <2>2. \/ mfa' = mfa
          \/ mfa' = [mfa EXCEPT ![u] = NoMfa]
          \/ enrolled' = enrolled + 1
             /\ mfa' = [mfa EXCEPT ![u] = [secret |-> enrolled + 1, last_used_step |-> Null]]
        BY DEF EnableInsert, DisableDelete
    <2>3. ASSUME NEW v \in Users
          PROVE  /\ spent'[v].secret <= enrolled' /\ mfa'[v].secret <= enrolled'
                 /\ spent'[v].secret # 0 /\ spent'[v].secret = mfa'[v].secret =>
                       spent'[v].step <= mfa'[v].last_used_step
        <3>0. /\ spent[v].secret <= enrolled /\ mfa[v].secret <= enrolled
              /\ spent[v].secret # 0 /\ spent[v].secret = mfa[v].secret =>
                    spent[v].step <= mfa[v].last_used_step
            BY <1>5 DEF CodesSound
        <3>1. CASE mfa'[v] = mfa[v]
            BY <1>2, <2>1, <3>0, <3>1 DEF history
        <3>2. CASE mfa'[v] = NoMfa
            BY <1>2, <2>1, <3>0, <3>2 DEF history, NoMfa
        <3>3. CASE mfa'[v] = [secret |-> enrolled + 1, last_used_step |-> Null]
                   /\ enrolled' = enrolled + 1
            BY <1>2, <2>1, <3>0, <3>3 DEF history
        <3>4. mfa \in [Users -> [secret : Nat, last_used_step : {Null} \cup Steps]]
            BY DEF Inv, TypeOK
        <3> QED BY <2>2, <3>1, <3>2, <3>3, <3>4
    <2> QED BY <1>1, <1>2, <1>5, <2>3 DEF CodesSound, history
<1>6. PasswordsSound(o) => PasswordsSound(new)'
    BY <1>o, <1>1, <1>2 DEF PasswordsSound, SigningPcs
<1>7. LogSound(o) => LogSound(new)'
    BY <1>o, <1>1, <1>2 DEF LogSound, Opened
<1>8. serial /\ Sound(o) => Sound(new)'
    BY <1>5, <1>6, <1>7 DEF Sound
<1> QED BY <1>o, <1>3, <1>4, <1>8, Preserved

LEMMA RedeemPasswordSound ==
    ASSUME Inv, TypeOK', NEW c \in Clients, RedeemPassword(c)
    PROVE  Inv'
<1> PICK o : o = op[c]
    OBVIOUS
<1>o. o \in Ops /\ o.pc = "password" /\ InCall(o) /\ o # Idle
    BY DEF Inv, TypeOK, RedeemPassword, InCall, Idle
<1>1. PICK new : Puts(c, new) /\ new # Idle /\ new.pc = "revoke" /\ new.username = o.username
    BY <1>o, Going DEF RedeemPassword
<1>2. UNCHANGED <<members, mfa, enrolled, sessions, log, history>>
    BY DEF RedeemPassword
<1>3. Becomes(c, new) /\ (serial' => serial /\ Alone')
    BY <1>1 DEF Puts, SetOp, Becomes, Alone
<1>4. Grows
    <2>1. \A r \in Reset : \A b : [r EXCEPT !.consumed = b].username = r.username
        BY DEF Reset
    <2>2. resets \in Seq(Reset) /\ resets' = [resets EXCEPT ![o.given].consumed = TRUE]
        BY DEF Inv, TypeOK, RedeemPassword
    <2>3. \A t \in DOMAIN resets : resets[t] \in Reset
        BY <2>2, ElementOfSeq
    <2>4. ASSUME NEW t \in DOMAIN resets
          PROVE  t \in DOMAIN resets' /\ resets'[t].username = resets[t].username
        <3>1. t \in DOMAIN resets'
            BY <2>2, ResetSpent
        <3>2. CASE t = o.given
            <4>1. resets'[t] = [resets[t] EXCEPT !.consumed = TRUE]
                BY <2>2, <3>2
            <4> QED BY <2>1, <2>3, <3>1, <4>1
        <3>3. CASE t # o.given
            <4>1. resets'[t] = resets[t]
                BY <2>2, <3>3
            <4> QED BY <3>1, <4>1
        <3> QED BY <3>2, <3>3
    <2> QED BY <1>2, <2>4 DEF Grows
<1>5. MembersOnlySessions' /\ CallRight(new)'
    BY <1>1, <1>2 DEF MembersOnlySessions, Inv, CallRight
<1>6. PasswordsSound(o) => PasswordsSound(new)'
    <2>1. \A v \in Users \ {o.username} : password'[v] = password[v]
        BY DEF RedeemPassword, Inv, TypeOK
    <2>2. \A s \in sessions : s.username \in Users
        BY DEF Inv, TypeOK, Session
    <2> QED BY <1>o, <1>1, <1>2, <2>1, <2>2 DEF PasswordsSound, SigningPcs
<1>7. CodesSound(o) => CodesSound(new)'
    BY <1>1, <1>2 DEF CodesSound, history
<1>8. LogSound(o) => LogSound(new)'
    BY <1>o, <1>1, <1>2 DEF LogSound, Opened
<1>9. serial /\ Sound(o) => Sound(new)'
    BY <1>6, <1>7, <1>8 DEF Sound
<1> QED BY <1>o, <1>3, <1>4, <1>5, <1>9, Preserved

LEMMA LogAppendSound ==
    ASSUME Inv, TypeOK', NEW c \in Clients, LogAppend(c)
    PROVE  Inv'
<1> PICK o : o = op[c]
    OBVIOUS
<1>o. o.pc = "unlogged" /\ o # Idle /\ Idle.pc = "idle"
    BY DEF LogAppend, Idle
<1>2. UNCHANGED <<password, members, mfa, enrolled, resets, sessions, history>>
      /\ log' = Recorded(o.event)
    BY DEF LogAppend, stores
<1>3. Becomes(c, Idle) /\ (serial' => serial /\ Alone')
    BY DEF LogAppend, Start, SetOp, Becomes, Alone
<1>4. Grows /\ MembersOnlySessions' /\ CallRight(Idle)'
    BY <1>o, <1>2 DEF Grows, MembersOnlySessions, Inv, CallRight
<1>5. Sound(o) => Sound(Idle)'
    BY <1>o, <1>2 DEF Sound, CodesSound, PasswordsSound, LogSound, SigningPcs, Opened, history
<1> QED BY <1>o, <1>3, <1>4, <1>5, Preserved

(* A step outside every call.                                              *)
LEMMA Elsewhere ==
    ASSUME Inv, TypeOK', UNCHANGED <<op, serial>>, Grows, MembersOnlySessions',
           \A o \in Ops : serial /\ Sound(o) => Sound(o)'
    PROVE  Inv'
<1>1. \A o : CallRight(o) => CallRight(o)'
    BY DEF CallRight, Grows
<1>2. CallsRight'
    <2>1. ASSUME NEW c \in Clients
          PROVE  CallRight(op[c])'
        <3> PICK o : o = op[c]
            OBVIOUS
        <3>1. op'[c] = o /\ CallRight(o)
            BY DEF Inv, CallsRight
        <3> QED BY <1>1, <3>1
    <2> QED BY <2>1 DEF CallsRight
<1>3. ASSUME serial'
      PROVE  /\ Alone'
             /\ \A c \in Clients : op'[c] # Idle => Sound(op[c])'
             /\ AllIdle' => Sound(Idle)'
    <2>1. serial /\ Alone /\ Alone' /\ (AllIdle' => AllIdle)
        BY <1>3 DEF Inv, SerialInv, Alone, AllIdle
    <2>2. ASSUME NEW c \in Clients, op'[c] # Idle
          PROVE  Sound(op[c])'
        <3> PICK o : o = op[c]
            OBVIOUS
        <3>1. o \in Ops /\ Sound(o) /\ op'[c] = o
            BY <2>1, <2>2 DEF Inv, SerialInv, TypeOK
        <3> QED BY <2>1, <3>1
    <2>3. AllIdle' => Sound(Idle)'
        <3>1. Idle \in Ops
            BY DEF Ops
        <3> QED BY <2>1, <3>1 DEF Inv, SerialInv
    <2> QED BY <2>1, <2>2, <2>3
<1> QED BY <1>2, <1>3 DEF Inv, SerialInv

LEMMA CreateUserSound ==
    ASSUME Inv, TypeOK', NEW u \in Users, CreateUser(u)
    PROVE  Inv'
<1>1. /\ UNCHANGED <<members, mfa, enrolled, resets, sessions, op, serial, log, history>>
      /\ password[u] = 0 /\ \A v \in Users \ {u} : password'[v] = password[v]
    BY DEF CreateUser, Inv, TypeOK
<1>2. Grows /\ MembersOnlySessions'
    BY <1>1 DEF Grows, MembersOnlySessions, Inv
<1>3. ASSUME NEW o \in Ops, Sound(o)
      PROVE  Sound(o)'
    <2>1. o.pc \in SigningPcs /\ o.kind = "login" => o.username \in Users
        BY CallForm DEF InCall, Allowed, SigningPcs
    <2>2. \A s \in sessions : s.username \in Users
        BY DEF Inv, TypeOK, Session
    <2>3. PasswordsSound(o)'
        BY <1>1, <1>3, <2>1, <2>2 DEF Sound, PasswordsSound
    <2>4. CodesSound(o)' /\ LogSound(o)'
        BY <1>1, <1>3 DEF Sound, CodesSound, LogSound, Recorded, Opened, history
    <2> QED BY <2>3, <2>4 DEF Sound
<1> QED BY <1>1, <1>2, <1>3, Elsewhere

LEMMA InvNext ==
    ASSUME Inv, [CrashNext]_vars
    PROVE  Inv'
<1>t. TypeOK'
    BY TypeNext DEF Inv
<1>1. ASSUME NEW u \in Users, CreateUser(u)
      PROVE  Inv'
    BY <1>t, <1>1, CreateUserSound
<1>2. ASSUME \/ \E u \in Users : AssignUser(u)
             \/ Tick
             \/ UNCHANGED vars
      PROVE  Inv'
    <2>1. /\ UNCHANGED <<password, mfa, enrolled, resets, sessions, op, serial, log, history>>
          /\ members \subseteq members'
        BY <1>2 DEF AssignUser, Tick, vars, stores
    <2>2. Grows /\ MembersOnlySessions'
        BY <2>1 DEF Grows, MembersOnlySessions, Inv
    <2>3. \A o \in Ops : Sound(o) => Sound(o)'
        BY <2>1 DEF Sound, CodesSound, PasswordsSound, LogSound, Recorded, Opened, history
    <2> QED BY <1>t, <2>1, <2>2, <2>3, Elsewhere
<1>3. ASSUME NEW c \in Sessioners, SigningIn(c)
      PROVE  Inv'
    BY <1>t, <1>3, SigningInReads, TotpBurnSound, SessionSteps DEF SigningIn, Clients
<1>4. ASSUME NEW c \in Managers, Managing(c)
      PROVE  Inv'
    BY <1>t, <1>4, ManagingReads, RequestSound, MfaSound, RedeemPasswordSound, SessionSteps
    DEF Managing, Clients
<1>5. ASSUME NEW c \in Clients, LogAppend(c)
      PROVE  Inv'
    BY <1>t, <1>5, LogAppendSound
<1>6. ASSUME NEW c \in Clients, Crash(c)
      PROVE  Inv'
    <2>1. /\ op' = [op EXCEPT ![c] = Idle] /\ ~serial'
          /\ UNCHANGED <<members, resets, sessions>>
        BY <1>6 DEF Crash, stores
    <2>2. CallsRight'
        BY <2>1 DEF Inv, CallsRight, CallRight, TypeOK, Idle
    <2> QED BY <1>t, <2>1, <2>2 DEF Inv, MembersOnlySessions, SerialInv
<1> QED BY <1>1, <1>2, <1>3, <1>4, <1>5, <1>6 DEF CrashNext, Next

LEMMA InvInit ==
    ASSUME Init
    PROVE  Inv
<1>1. TypeOK
    BY TypeInit
<1>2. \A c \in Clients : op[c] = Idle
    BY DEF Init
<1>3. CallsRight /\ MembersOnlySessions
    BY <1>2 DEF Init, CallsRight, CallRight, Idle, MembersOnlySessions
<1>4. Sound(Idle)
    BY DEF Init, Sound, CodesSound, PasswordsSound, LogSound, Opened, NoCode, NoMfa, Idle,
           SigningPcs
<1> QED BY <1>1, <1>2, <1>3, <1>4 DEF Inv, SerialInv, Alone

LEMMA InvAlways == CrashSpec => []Inv
BY InvInit, InvNext, PTL DEF CrashSpec

-----------------------------------------------------------------------------
(* No session is ever there of somebody without a tenant, however many     *)
(* sign-ins race and wherever they die: start_session() runs after         *)
(* scope_for_user() only, and a membership is never taken away.            *)
THEOREM SessionsAreMembers == CrashSpec => []MembersOnlySessions
BY InvAlways, PTL DEF Inv

(* One after another, sign-ins and verify() calls accept a user's codes in *)
(* the order of their time-steps, through re-enrolments and however the    *)
(* two ways of spending a code take turns.                                 *)
THEOREM CodesInOrder == CrashSpec => []CodesSpentInOrder
<1>1. Inv => CodesSpentInOrder
    BY DEF Inv, SerialInv, AllIdle, Sound, CodesSound, CodesSpentInOrder
<1> QED BY <1>1, InvAlways, PTL

(* One after another, no call leaves a session of a password that has been *)
(* replaced: redeem_reset() revokes all its user has, and a sign-in under  *)
(* way cannot be holding the old password.                                 *)
THEOREM ResetEndsSessions == CrashSpec => []SerialNoSessionSurvivesReset
<1>1. Idle.pc = "idle"
    BY DEF Idle
<1>2. Inv => SerialNoSessionSurvivesReset
    BY <1>1 DEF Inv, SerialInv, Sound, PasswordsSound, SerialNoSessionSurvivesReset,
                NoSessionSurvivesReset
<1> QED BY <1>2, InvAlways, PTL

(* One after another, calls leave the sessions table as the audit log      *)
(* tells it.                                                               *)
THEOREM LogTellsRows == CrashSpec => []LogTellsSessions
<1>1. Idle.pc = "idle"
    BY DEF Idle
<1>2. Inv => LogTellsSessions
    BY <1>1 DEF Inv, SerialInv, Sound, LogSound, LogTellsSessions
<1> QED BY <1>2, InvAlways, PTL

(* Who writes a user's enrolment, and who the password.                    *)
LEMMA Writers ==
    ASSUME [CrashNext]_vars
    PROVE  /\ mfa' = mfa \/ \E c \in Clients : TotpBurn(c) \/ EnableInsert(c) \/ DisableDelete(c)
           /\ \/ password' = password
              \/ \E u \in Users : CreateUser(u)
              \/ \E c \in Clients : RedeemPassword(c)
<1>1. \A c \in Clients : SigningIn(c) => password' = password /\ (mfa' = mfa \/ TotpBurn(c))
    BY DEF SigningIn, SignIn, SignInMfa, Verify, TotpMatch, TotpReuse, TotpBurn, SignInTenant,
       SignInToken, Validate, ValidateTenant, Logout, LogoutDelete, stores
<1>2. \A c \in Clients : Managing(c) => mfa' = mfa \/ EnableInsert(c) \/ DisableDelete(c)
    BY DEF Managing, Enable, Disable, RequestReset, Redeem, RedeemPassword, RedeemRevoke, stores
<1>3. \A c \in Clients : Managing(c) => password' = password \/ RedeemPassword(c)
    BY DEF Managing, Enable, EnableInsert, Disable, DisableDelete, RequestReset, Redeem,
       RedeemRevoke, stores
<1>4. (\E c \in Clients : LogAppend(c) \/ Crash(c)) => UNCHANGED <<mfa, password>>
    BY DEF LogAppend, Crash, stores
<1>5. (\E u \in Users : CreateUser(u)) => mfa' = mfa
    BY DEF CreateUser
<1>6. (\E u \in Users : AssignUser(u)) \/ Tick \/ UNCHANGED vars => UNCHANGED <<mfa, password>>
    BY DEF AssignUser, Tick, stores, vars
<1> QED BY <1>1, <1>2, <1>3, <1>4, <1>5, <1>6 DEF CrashNext, Next, Clients

(* A secret that is enrolled stays or is removed, whoever enables and      *)
(* disables MFA at once: set_mfa_secret() is a plain INSERT.               *)
THEOREM SecretsStay == CrashSpec => SecretNeverReplaced
<1>1. ASSUME Inv, [CrashNext]_vars, NEW u \in Users, mfa[u].secret # 0
      PROVE  mfa'[u].secret \in {mfa[u].secret, 0}
    <2>0. /\ mfa \in [Users -> [secret : Nat, last_used_step : {Null} \cup Steps]]
          /\ NoMfa.secret = 0
        BY <1>1 DEF Inv, TypeOK, NoMfa
    <2>1. CASE \E c \in Clients : TotpBurn(c)
        BY <1>1, <2>0, <2>1 DEF TotpBurn
    <2>2. CASE \E c \in Clients : EnableInsert(c)
        BY <1>1, <2>0, <2>2 DEF EnableInsert
    <2>3. CASE \E c \in Clients : DisableDelete(c)
        BY <1>1, <2>0, <2>3 DEF DisableDelete
    <2>4. CASE mfa' = mfa
        BY <2>4
    <2> QED BY <1>1, <2>1, <2>2, <2>3, <2>4, Writers
<1>2. Inv /\ [CrashNext]_vars =>
         [\A u \in Users : mfa[u].secret # 0 => mfa'[u].secret \in {mfa[u].secret, 0}]_vars
    BY <1>1
<1> QED BY <1>2, InvAlways, PTL DEF CrashSpec, SecretNeverReplaced

(* A user's password is replaced only together with the spending of a      *)
(* reset token minted for that user, and, one call after another, of one   *)
(* that nobody had spent.                                                  *)
THEOREM TokensSpentOnce == CrashSpec => ResetTokenSpentOnce
<1>1. ASSUME Inv, [CrashNext]_vars, NEW u \in Users, password[u] # 0, password'[u] # password[u]
      PROVE  \E t \in DOMAIN resets : /\ resets[t].username = u
                                      /\ resets'[t].consumed
                                      /\ serial => ~resets[t].consumed
    <2>1. ~(\E v \in Users : CreateUser(v))
        BY <1>1 DEF CreateUser, Inv, TypeOK
    <2>2. PICK c \in Clients : RedeemPassword(c)
        BY <1>1, <2>1, Writers
    <2> PICK o : o = op[c]
        OBVIOUS
    <2>3. o.pc = "password" /\ o # Idle
        BY <2>2 DEF RedeemPassword, Idle
    <2>4. o.given \in DOMAIN resets /\ resets[o.given].username = o.username
        BY <1>1, <2>3 DEF Inv, CallsRight, CallRight
    <2>5. o.username = u
        BY <1>1, <2>2 DEF RedeemPassword, Inv, TypeOK
    <2>6. serial => ~resets[o.given].consumed
        BY <1>1, <2>3 DEF Inv, SerialInv, Sound, PasswordsSound
    <2>7. resets'[o.given].consumed
        <3>1. resets' = [resets EXCEPT ![o.given].consumed = TRUE]
            BY <2>2 DEF RedeemPassword
        <3>2. resets[o.given] \in Reset
            BY <1>1, <2>4, ElementOfSeq DEF Inv, TypeOK
        <3>3. [resets[o.given] EXCEPT !.consumed = TRUE].consumed
            BY <3>2 DEF Reset
        <3> QED BY <2>4, <3>1, <3>3
    <2> QED BY <2>4, <2>5, <2>6, <2>7
<1>2. Inv /\ [CrashNext]_vars =>
         [\A u \in Users :
             password[u] # 0 /\ password'[u] # password[u] =>
                 \E t \in DOMAIN resets : /\ resets[t].username = u
                                          /\ resets'[t].consumed
                                          /\ serial => ~resets[t].consumed]_vars
    BY <1>1
<1> QED BY <1>2, InvAlways, PTL DEF CrashSpec, ResetTokenSpentOnce
=============================================================================
