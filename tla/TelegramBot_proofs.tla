------------------------- MODULE TelegramBot_proofs -------------------------
(***************************************************************************)
(* Proofs about TelegramLink and TelegramBot, for any users, chats, codes, *)
(* admins and times to live, one bot, and any process dying anywhere.      *)
(*                                                                         *)
(* Part 1 is about codes and links alone (CrashNext); part 2 adds the      *)
(* bot's uploads, whose steps leave codes and links as they are.           *)
(***************************************************************************)
EXTENDS TelegramBot, FiniteSetTheorems, TLAPS

USE DEF Procs, Codes

(* Redemption(p): p is between the SELECTs of a redemption and its write.  *)
Redemption(p) == op[p].pc \in {"code_ok", "link_ok"}

(* What a call in progress knows, whatever others did meanwhile: a chat    *)
(* that is being revoked has a row; the chat of a checked redemption has   *)
(* no live link, since only the bot makes links.                           *)
CallsSound ==
    /\ \A p \in Procs : op[p].pc = "revoking" => links[op[p].chat] # NoLink
    /\ \A p \in Redeemers : op[p].pc = "link_ok" => ~IsActive(op[p].chat)

LinkInv == TypeOK /\ CallsSound

-----------------------------------------------------------------------------
LEMMA OpFields ==
    ASSUME TypeOK, NEW p \in Procs
    PROVE  /\ op[p] \in Ops
           /\ Redemption(p) => /\ op[p].code \in Codes
                               /\ op[p].chat \in Chats
                               /\ op[p].username \in Users
           /\ op[p].pc = "revoking" => op[p].chat \in Chats /\ op[p].username \in Users
           /\ op[p].pc = "unlogged" => op[p].event \in Event
<1>1. op[p] \in Ops
    BY DEF TypeOK
<1> QED BY <1>1 DEF Ops, Idle, Redemption

LEMMA LinkInit == Init => LinkInv
<1> SUFFICES ASSUME Init PROVE LinkInv
    OBVIOUS
<1>1. TypeOK
    BY BoundsAssumption DEF Init, TypeOK, Ops
<1>2. CallsSound
    BY DEF Init, CallsSound, Idle
<1> QED BY <1>1, <1>2 DEF LinkInv

(* Every step of a call but its first and last goes from one entry of op   *)
(* to another.                                                             *)
LEMMA StartType ==
    ASSUME TypeOK, NEW p \in Procs, NEW call \in Ops, Start(p, call)
    PROVE  /\ op' \in [Procs -> Ops]
           /\ serial' \in BOOLEAN
           /\ op'[p] = call
           /\ \A q \in Procs \ {p} : op'[q] = op[q]
BY DEF TypeOK, Start, SetOp

LEMMA LinkTypes == ASSUME TypeOK, CallsSound, [CrashNext]_vars PROVE TypeOK'
<1>1. ASSUME NEW p \in Admins, NEW username \in Users, Generate(p, username)
      PROVE  TypeOK'
    <2> DEFINE event == [action |-> "code_generated", username |-> username, code |-> issued + 1]
    <2>1. issued + 1 \in Codes /\ issued' \in 0 .. MaxCodes
        BY <1>1, BoundsAssumption DEF Generate, TypeOK
    <2>2. Unlogged(event) \in Ops
        BY <2>1 DEF Unlogged, Ops, Event
    <2>3. op' \in [Procs -> Ops] /\ serial' \in BOOLEAN
        BY <1>1, <2>2, StartType DEF Generate
    <2>4. [username |-> username, expires_at |-> clock + Ttl, consumed_chat_id |-> NoChat]
             \in CodeRow
        BY BoundsAssumption DEF CodeRow, TypeOK
    <2>5. codes' \in [Codes -> CodeRow \cup {NoRow}]
        BY <1>1, <2>4 DEF Generate, TypeOK
    <2> QED BY <1>1, <2>1, <2>3, <2>5 DEF Generate, TypeOK
<1>2. ASSUME NEW p \in Redeemers, NEW code \in Codes, NEW chat \in Chats,
             RedeemRead(p, code, chat)
      PROVE  TypeOK'
    <2> DEFINE refused == [action |-> "redeem_failed", chat |-> chat, code |-> code,
                           reason |-> Reason(code)]
    <2>1. CASE Reason(code) = "none"
        <3>1. codes[code] \in CodeRow
            BY <2>1 DEF Reason, TypeOK
        <3>2. [pc |-> "code_ok", code |-> code, chat |-> chat,
               username |-> codes[code].username] \in Ops
            BY <3>1 DEF Ops, CodeRow
        <3> QED BY <1>2, <2>1, <3>2, StartType DEF RedeemRead, TypeOK
    <2>2. CASE Reason(code) # "none"
        <3>1. Reason(code) \in Reasons
            BY <2>2 DEF Reason, Reasons
        <3>2. Unlogged(refused) \in Ops
            BY <3>1 DEF Unlogged, Ops, Event
        <3> QED BY <1>2, <2>2, <3>2, StartType DEF RedeemRead, TypeOK
    <2> QED BY <2>1, <2>2
<1>3. ASSUME NEW p \in Redeemers, RedeemCheckChat(p)
      PROVE  TypeOK'
    <2> DEFINE refused == [action |-> "redeem_failed", chat |-> op[p].chat, code |-> op[p].code,
                           reason |-> "chat_already_linked"]
    <2>1. op[p].code \in Codes /\ op[p].chat \in Chats /\ op[p].username \in Users
        BY <1>3, OpFields DEF RedeemCheckChat, Redemption
    <2>2. Unlogged(refused) \in Ops
        BY <2>1 DEF Unlogged, Ops, Event, Reasons
    <2>3. [op[p] EXCEPT !.pc = "link_ok"] \in Ops
        BY <1>3, OpFields DEF RedeemCheckChat, Ops, Idle
    <2> QED BY <1>3, <2>2, <2>3, StartType DEF RedeemCheckChat, TypeOK
<1>4. ASSUME NEW p \in Redeemers, RedeemWrite(p)
      PROVE  TypeOK'
    <2> DEFINE event == [action |-> "code_redeemed", chat |-> op[p].chat, code |-> op[p].code]
    <2>1. op[p].code \in Codes /\ op[p].chat \in Chats /\ op[p].username \in Users
        BY <1>4, OpFields DEF RedeemWrite, Redemption
    <2>2. Unlogged(event) \in Ops
        BY <2>1 DEF Unlogged, Ops, Event
    <2>3. op' \in [Procs -> Ops] /\ serial' \in BOOLEAN
        BY <1>4, <2>2, StartType DEF RedeemWrite
    <2>4. codes[op[p].code] # NoRow =>
             [codes[op[p].code] EXCEPT !.consumed_chat_id = op[p].chat] \in CodeRow
        BY <2>1 DEF TypeOK, CodeRow
    <2>5. codes' \in [Codes -> CodeRow \cup {NoRow}]
        BY <1>4, <2>1, <2>4 DEF RedeemWrite, TypeOK
    <2>6. links' \in [Chats -> Link \cup {NoLink}]
        BY <1>4, <2>1 DEF RedeemWrite, TypeOK, Link
    <2>7. uses' \in [Codes -> Nat]
        BY <1>4, <2>1 DEF RedeemWrite, TypeOK
    <2> QED BY <1>4, <2>3, <2>5, <2>6, <2>7 DEF RedeemWrite, TypeOK
<1>5. ASSUME NEW p \in Admins, NEW chat \in Chats, RevokeRead(p, chat)
      PROVE  TypeOK'
    <2>1. links[chat] \in Link
        BY <1>5 DEF RevokeRead, IsActive, TypeOK
    <2>2. [pc |-> "revoking", chat |-> chat, username |-> links[chat].username] \in Ops
        BY <2>1 DEF Ops, Link
    <2> QED BY <1>5, <2>2, StartType DEF RevokeRead, TypeOK
<1>6. ASSUME NEW p \in Admins, RevokeWrite(p)
      PROVE  TypeOK'
    <2> DEFINE event == [action |-> "link_revoked", chat |-> op[p].chat,
                         username |-> op[p].username]
    <2>1. op[p].chat \in Chats /\ op[p].username \in Users
        BY <1>6, OpFields DEF RevokeWrite
    <2>2. Unlogged(event) \in Ops
        BY <2>1 DEF Unlogged, Ops, Event
    <2>3. op' \in [Procs -> Ops] /\ serial' \in BOOLEAN
        BY <1>6, <2>2, StartType DEF RevokeWrite
    <2>4. links[op[p].chat] \in Link
        BY <1>6, <2>1 DEF RevokeWrite, CallsSound, TypeOK
    <2>5. links' \in [Chats -> Link \cup {NoLink}]
        BY <1>6, <2>1, <2>4 DEF RevokeWrite, TypeOK, Link
    <2> QED BY <1>6, <2>3, <2>5 DEF RevokeWrite, TypeOK
<1>7. ASSUME NEW p \in Procs, LogAppend(p)
      PROVE  TypeOK'
    <2>1. Idle \in Ops
        BY DEF Ops
    <2>2. op' \in [Procs -> Ops] /\ serial' \in BOOLEAN
        BY <1>7, <2>1, StartType DEF LogAppend
    <2>3. op[p].event \in Event
        BY <1>7, OpFields DEF LogAppend
    <2>4. op[p].event.action \in LinkActions => op[p].event.chat \in Chats
        BY <2>3 DEF Event, LinkActions
    <2>5. log' \in [Chats -> {event \in Event : event.action \in LinkActions} \cup {NoEvent}]
        BY <1>7, <2>3, <2>4 DEF LogAppend, TypeOK
    <2> QED BY <1>7, <2>2, <2>5 DEF LogAppend, TypeOK
<1>8. ASSUME NEW p \in Procs, Crash(p)
      PROVE  TypeOK'
    BY <1>8 DEF Crash, TypeOK, Ops
<1>9. CASE Tick
    BY <1>9, BoundsAssumption DEF Tick, TypeOK
<1>10. CASE UNCHANGED vars
    BY <1>10 DEF vars, TypeOK
<1> QED BY <1>1, <1>2, <1>3, <1>4, <1>5, <1>6, <1>7, <1>8, <1>9, <1>10
        DEF CrashNext, Next, Redeeming, Administering

LEMMA LinkCalls == ASSUME LinkInv, [CrashNext]_vars PROVE CallsSound'
<1> USE DEF LinkInv
<1>1. ASSUME NEW p \in Admins, NEW username \in Users, Generate(p, username)
      PROVE  CallsSound'
    BY <1>1 DEF Generate, Start, SetOp, Unlogged, CallsSound, IsActive, TypeOK
<1>2. ASSUME NEW p \in Redeemers, NEW code \in Codes, NEW chat \in Chats,
             RedeemRead(p, code, chat)
      PROVE  CallsSound'
    BY <1>2 DEF RedeemRead, Start, SetOp, Unlogged, CallsSound, IsActive, TypeOK
<1>3. ASSUME NEW p \in Redeemers, RedeemCheckChat(p)
      PROVE  CallsSound'
    <2>1. CASE IsActive(op[p].chat)
        BY <1>3, <2>1 DEF RedeemCheckChat, Start, SetOp, Unlogged, CallsSound, IsActive, TypeOK
    <2>2. CASE ~IsActive(op[p].chat)
        <3>1. op'[p].pc = "link_ok" /\ op'[p].chat = op[p].chat
            BY <1>3, <2>2, OpFields DEF RedeemCheckChat, Start, SetOp, Ops, Idle, TypeOK
        <3>2. \A q \in Procs : q # p => op'[q] = op[q]
            BY <1>3, <2>2 DEF RedeemCheckChat, Start, SetOp, TypeOK
        <3> QED BY <1>3, <2>2, <3>1, <3>2 DEF RedeemCheckChat, CallsSound, IsActive
    <2> QED BY <2>1, <2>2
<1>4. ASSUME NEW p \in Redeemers, RedeemWrite(p)
      PROVE  CallsSound'
    <2>1. op'[p].pc = "unlogged" /\ \A q \in Procs : q # p => op'[q] = op[q]
        BY <1>4 DEF RedeemWrite, Start, SetOp, Unlogged, TypeOK
    <2>2. \A q \in Redeemers : op'[q].pc # "link_ok"
        BY <2>1, OneBot
    <2>3. ASSUME NEW q \in Procs, op'[q].pc = "revoking"
          PROVE  links'[op'[q].chat] # NoLink
        <3>1. op'[q] = op[q] /\ op[q].chat \in Chats /\ op[p].chat \in Chats
            BY <1>4, <2>1, <2>3, OpFields DEF RedeemWrite, Redemption
        <3>2. [username |-> op[p].username, linked_via |-> op[p].code, revoked |-> FALSE] \in Link
            BY <1>4, OpFields DEF RedeemWrite, Redemption, Link
        <3> QED BY <1>4, <2>3, <3>1, <3>2, AbsentAssumption DEF RedeemWrite, CallsSound, TypeOK
    <2> QED BY <2>2, <2>3 DEF CallsSound
<1>5. ASSUME NEW p \in Admins, NEW chat \in Chats, RevokeRead(p, chat)
      PROVE  CallsSound'
    BY <1>5 DEF RevokeRead, Start, SetOp, CallsSound, IsActive, TypeOK
<1>6. ASSUME NEW p \in Admins, RevokeWrite(p)
      PROVE  CallsSound'
    <2>1. op[p].chat \in Chats /\ links[op[p].chat] \in Link
        BY <1>6, OpFields DEF RevokeWrite, CallsSound, TypeOK
    <2>2. [links[op[p].chat] EXCEPT !.revoked = TRUE] \in Link
        BY <2>1 DEF Link
    <2>3. \A chat \in Chats : /\ links[chat] # NoLink => links'[chat] # NoLink
                              /\ ~IsActive(chat) => ~IsActive(chat)'
        BY <1>6, <2>1, <2>2, AbsentAssumption DEF RevokeWrite, IsActive, TypeOK, Link
    <2>4. op'[p].pc = "unlogged" /\ \A q \in Procs : q # p => op'[q] = op[q]
        BY <1>6 DEF RevokeWrite, Start, SetOp, Unlogged, TypeOK
    <2>5. \A q \in Procs : op[q].pc \in {"revoking", "link_ok"} => op[q].chat \in Chats
        BY OpFields DEF Redemption
    <2> QED BY <2>3, <2>4, <2>5 DEF CallsSound, IsActive
<1>7. ASSUME NEW p \in Procs, LogAppend(p)
      PROVE  CallsSound'
    BY <1>7 DEF LogAppend, Start, SetOp, Idle, CallsSound, IsActive, TypeOK
<1>8. ASSUME NEW p \in Procs, Crash(p)
      PROVE  CallsSound'
    BY <1>8 DEF Crash, Idle, CallsSound, IsActive, TypeOK
<1>9. CASE Tick
    BY <1>9 DEF Tick, CallsSound, IsActive
<1>10. CASE UNCHANGED vars
    BY <1>10 DEF vars, CallsSound, IsActive
<1> QED BY <1>1, <1>2, <1>3, <1>4, <1>5, <1>6, <1>7, <1>8, <1>9, <1>10
        DEF CrashNext, Next, Redeeming, Administering

LEMMA LinkStep == ASSUME LinkInv, [CrashNext]_vars PROVE LinkInv'
BY LinkTypes, LinkCalls DEF LinkInv

(* The heart of LiveLinkNotReplaced: only a redemption makes a link, and   *)
(* it found the chat without one; a revocation ends a link.                *)
LEMMA ResolvedStays ==
    ASSUME LinkInv, [CrashNext]_vars, NEW chat \in Chats, Resolve(chat) # NoLink
    PROVE  Resolve(chat)' \in {Resolve(chat), NoLink}
<1> USE DEF LinkInv
<1>1. IsActive(chat)
    BY DEF Resolve
<1>2. CASE links' = links
    BY <1>2 DEF Resolve, IsActive
<1>3. ASSUME NEW p \in Redeemers, RedeemWrite(p)
      PROVE  Resolve(chat)' = Resolve(chat)
    <2>1. op[p].chat # chat
        BY <1>1, <1>3 DEF RedeemWrite, CallsSound
    <2>2. links'[chat] = links[chat]
        BY <1>3, <2>1 DEF RedeemWrite, TypeOK
    <2> QED BY <2>2 DEF Resolve, IsActive
<1>4. ASSUME NEW p \in Admins, RevokeWrite(p)
      PROVE  Resolve(chat)' \in {Resolve(chat), NoLink}
    <2>1. CASE op[p].chat = chat
        <3>1. links'[chat].revoked
            BY <1>1, <1>4, <2>1 DEF RevokeWrite, TypeOK, Link, IsActive
        <3> QED BY <3>1 DEF Resolve, IsActive
    <2>2. CASE op[p].chat # chat
        <3>1. links'[chat] = links[chat]
            BY <1>4, <2>2 DEF RevokeWrite, TypeOK
        <3> QED BY <3>1 DEF Resolve, IsActive
    <2> QED BY <2>1, <2>2
<1> QED BY <1>2, <1>3, <1>4
        DEF CrashNext, Next, Redeeming, Administering, Generate, RedeemRead, RedeemCheckChat,
            RevokeRead, LogAppend, Crash, Tick, vars

(* Whoever dies, and however redemptions interleave with new codes and     *)
(* revocations: the rows, calls and events are what they are meant to be.  *)
THEOREM TypeCorrect == CrashSpec => []TypeOK
<1>1. Init => LinkInv
    BY LinkInit
<1>2. LinkInv /\ [CrashNext]_vars => LinkInv'
    BY LinkStep
<1>3. LinkInv => TypeOK
    BY DEF LinkInv
<1> QED BY <1>1, <1>2, <1>3, PTL DEF CrashSpec

(* One user per chat: redeem_link_code() looks at the chat in one          *)
(* statement and writes in another, and never replaces a live link.        *)
THEOREM LinksNotReplaced == CrashSpec => LiveLinkNotReplaced
<1>1. Init => LinkInv
    BY LinkInit
<1>2. LinkInv /\ [CrashNext]_vars => LinkInv'
    BY LinkStep
<1>3. LinkInv /\ [CrashNext]_vars =>
          [\A chat \in Chats :
              Resolve(chat) # NoLink => Resolve(chat)' \in {Resolve(chat), NoLink}]_vars
    BY ResolvedStays
<1> QED BY <1>1, <1>2, <1>3, PTL DEF CrashSpec, LiveLinkNotReplaced
-----------------------------------------------------------------------------
(* Codes.  A code that was redeemed is consumed or gone, one that is being *)
(* redeemed was not, one that was not issued has no row; and of the codes  *)
(* of a user at most one is live.                                          *)
Live(k) == codes[k] # NoRow /\ codes[k].consumed_chat_id = NoChat

CodesInv ==
    /\ \A k \in Codes : k > issued => codes[k] = NoRow /\ uses[k] = 0
    /\ \A k \in Codes : uses[k] = 0 \/ (uses[k] = 1 /\ ~Live(k))
    /\ \A p \in Redeemers : Redemption(p) => uses[op[p].code] = 0 /\ op[p].code <= issued
    /\ \A k, l \in Codes :
          Live(k) /\ Live(l) /\ codes[k].username = codes[l].username => k = l

LEMMA CodesInit == Init => CodesInv
BY DEF Init, CodesInv, Live, Redemption, Idle

LEMMA GenerateCodes ==
    ASSUME LinkInv, CodesInv, NEW p \in Admins, NEW username \in Users, Generate(p, username)
    PROVE  CodesInv'
<1> USE DEF LinkInv
<1> DEFINE new == [username |-> username, expires_at |-> clock + Ttl,
                   consumed_chat_id |-> NoChat]
<1>1. issued \in Nat /\ issued + 1 \in Codes /\ issued' = issued + 1 /\ uses' = uses
    BY BoundsAssumption DEF Generate, TypeOK
<1>2. codes'[issued + 1] = new
    BY <1>1 DEF Generate
<1>3. \A k \in Codes : k # issued + 1 =>
          codes'[k] = IF codes[k] # NoRow /\ codes[k].username = username
                         /\ codes[k].consumed_chat_id = NoChat
                        THEN NoRow ELSE codes[k]
    BY DEF Generate
<1>4. \A q \in Redeemers : Redemption(q)' => Redemption(q) /\ op'[q] = op[q]
    BY DEF Generate, Start, SetOp, Redemption, Unlogged, TypeOK
<1>5. uses[issued + 1] = 0
    BY <1>1 DEF CodesInv
<1>6. \A k \in Codes : k # issued + 1 /\ Live(k)' =>
          /\ Live(k)
          /\ codes'[k] = codes[k]
          /\ codes[k].username # username
    BY <1>3 DEF Live
<1>7. new \in CodeRow
    BY BoundsAssumption DEF CodeRow, TypeOK
<1>8. \A k \in Codes : k > issued' => codes'[k] = NoRow /\ uses'[k] = 0
    <2> SUFFICES ASSUME NEW k \in Codes, k > issued + 1
                 PROVE  codes'[k] = NoRow /\ uses[k] = 0
        BY <1>1
    <2>1. k # issued + 1 /\ k > issued
        BY <1>1
    <2>2. codes[k] = NoRow /\ uses[k] = 0
        BY <2>1 DEF CodesInv
    <2> QED BY <1>3, <2>1, <2>2
<1>9. \A k \in Codes : uses'[k] = 0 \/ (uses'[k] = 1 /\ ~Live(k)')
    BY <1>1, <1>5, <1>6 DEF CodesInv
<1>10. \A q \in Redeemers : Redemption(q)' => uses'[op'[q].code] = 0 /\ op'[q].code <= issued'
    <2> SUFFICES ASSUME NEW q \in Redeemers, Redemption(q)'
                 PROVE  uses'[op'[q].code] = 0 /\ op'[q].code <= issued'
        OBVIOUS
    <2>1. Redemption(q) /\ op'[q] = op[q] /\ op[q].code \in Codes
        BY <1>4, OpFields
    <2> QED BY <1>1, <2>1 DEF CodesInv
<1>11. \A k, l \in Codes :
          Live(k)' /\ Live(l)' /\ codes'[k].username = codes'[l].username => k = l
    BY <1>2, <1>6 DEF CodesInv
<1> QED BY <1>8, <1>9, <1>10, <1>11 DEF CodesInv, Live

LEMMA RedeemWriteCodes ==
    ASSUME LinkInv, CodesInv, NEW p \in Redeemers, RedeemWrite(p)
    PROVE  CodesInv'
<1> USE DEF LinkInv
<1>0. PICK code \in Codes : code = op[p].code
    BY OpFields DEF RedeemWrite, Redemption
<1> USE <1>0
<1>1. code \in Codes /\ op[p].chat \in Chats /\ uses[code] = 0 /\ code <= issued
    BY OpFields DEF RedeemWrite, Redemption, CodesInv
<1>2. issued' = issued /\ \A k \in Codes : k # code => codes'[k] = codes[k] /\ uses'[k] = uses[k]
    BY <1>1 DEF RedeemWrite, TypeOK
<1>3. uses'[code] = 1
    BY <1>1 DEF RedeemWrite, TypeOK
<1>4. ~Live(code)'
    <2>1. CASE codes[code] = NoRow
        BY <1>1, <2>1 DEF RedeemWrite, TypeOK, Live
    <2>2. CASE codes[code] # NoRow
        <3>1. codes'[code].consumed_chat_id = op[p].chat
            BY <1>1, <2>2 DEF RedeemWrite, TypeOK, CodeRow
        <3> QED BY <1>1, <3>1, AbsentAssumption DEF Live
    <2> QED BY <2>1, <2>2
<1>5. \A q \in Redeemers : ~Redemption(q)'
    <2>1. ~Redemption(p)'
        BY DEF RedeemWrite, Start, SetOp, Unlogged, Redemption, TypeOK
    <2> QED BY <2>1, OneBot
<1>6. \A k \in Codes : k > issued' => codes'[k] = NoRow /\ uses'[k] = 0
    BY <1>1, <1>2 DEF CodesInv, TypeOK
<1>7. \A k \in Codes : uses'[k] = 0 \/ (uses'[k] = 1 /\ ~Live(k)')
    BY <1>2, <1>3, <1>4 DEF CodesInv, Live
<1>8. \A k, l \in Codes :
          Live(k)' /\ Live(l)' /\ codes'[k].username = codes'[l].username => k = l
    BY <1>2, <1>4 DEF CodesInv, Live
<1> QED BY <1>5, <1>6, <1>7, <1>8 DEF CodesInv, Live

LEMMA CodesStep == ASSUME LinkInv, CodesInv, [CrashNext]_vars PROVE CodesInv'
<1> USE DEF LinkInv
<1>1. ASSUME UNCHANGED <<issued, codes, uses>>,
             \A q \in Redeemers : Redemption(q)' => Redemption(q) /\ op'[q].code = op[q].code
      PROVE  CodesInv'
    BY <1>1 DEF CodesInv, Live
<1>2. ASSUME NEW p \in Redeemers, NEW code \in Codes, NEW chat \in Chats,
             RedeemRead(p, code, chat)
      PROVE  CodesInv'
    <2>1. \A q \in Redeemers \ {p} : op'[q] = op[q]
        BY <1>2 DEF RedeemRead, Start, SetOp, TypeOK
    <2>2. Redemption(p)' => Reason(code) = "none" /\ op'[p].code = code
        BY <1>2 DEF RedeemRead, Start, SetOp, Redemption, Unlogged, TypeOK
    <2>3. Reason(code) = "none" => Live(code)
        BY DEF Reason, Live
    <2>4. Live(code) => uses[code] = 0 /\ code <= issued
        BY DEF CodesInv, Live, TypeOK
    <2>5. UNCHANGED <<issued, codes, uses>>
        BY <1>2 DEF RedeemRead
    <2> QED BY <2>1, <2>2, <2>3, <2>4, <2>5 DEF CodesInv, Live, Redemption
<1>3. ASSUME NEW p \in Redeemers, RedeemCheckChat(p)
      PROVE  CodesInv'
    <2>1. \A q \in Redeemers \ {p} : op'[q] = op[q]
        BY <1>3 DEF RedeemCheckChat, Start, SetOp, TypeOK
    <2>2. Redemption(p) /\ (Redemption(p)' => op'[p].code = op[p].code)
        BY <1>3, OpFields DEF RedeemCheckChat, Start, SetOp, Redemption, Unlogged, TypeOK, Ops, Idle
    <2> QED BY <1>1, <1>3, <2>1, <2>2 DEF RedeemCheckChat, Redemption
<1>4. ASSUME NEW p \in Admins, NEW chat \in Chats, RevokeRead(p, chat)
      PROVE  CodesInv'
    BY <1>1, <1>4 DEF RevokeRead, Start, SetOp, Redemption, TypeOK
<1>5. ASSUME NEW p \in Admins, RevokeWrite(p)
      PROVE  CodesInv'
    BY <1>1, <1>5 DEF RevokeWrite, Start, SetOp, Redemption, Unlogged, TypeOK
<1>6. ASSUME NEW p \in Procs, LogAppend(p)
      PROVE  CodesInv'
    BY <1>1, <1>6 DEF LogAppend, Start, SetOp, Redemption, Idle, TypeOK
<1>7. ASSUME NEW p \in Procs, Crash(p)
      PROVE  CodesInv'
    BY <1>1, <1>7 DEF Crash, Redemption, Idle, TypeOK
<1>8. CASE Tick
    BY <1>1, <1>8 DEF Tick, Redemption
<1>9. CASE UNCHANGED vars
    BY <1>1, <1>9 DEF vars, Redemption
<1> QED BY <1>2, <1>3, <1>4, <1>5, <1>6, <1>7, <1>8, <1>9, GenerateCodes, RedeemWriteCodes
        DEF CrashNext, Next, Redeeming, Administering

LEMMA OneLive == ASSUME CodesInv PROVE OneLiveCode
<1> SUFFICES ASSUME NEW username \in Users PROVE Cardinality(LiveCodes(username)) <= 1
    BY DEF OneLiveCode
<1>1. CASE LiveCodes(username) = {}
    BY <1>1, FS_EmptySet
<1>2. CASE LiveCodes(username) # {}
    <2>1. PICK k \in Codes : k \in LiveCodes(username)
        BY <1>2 DEF LiveCodes
    <2>2. LiveCodes(username) = {k}
        BY <2>1 DEF LiveCodes, CodesInv, Live
    <2> QED BY <2>2, FS_Singleton
<1> QED BY <1>1, <1>2

(* A code makes one link at most, whoever dies in between and whatever     *)
(* becomes of its row; and generate_link_code() leaves a user at most one  *)
(* live code, also beside a redemption that is under way.                  *)
THEOREM CodesSpentOnce == CrashSpec => [](CodeRedeemedOnce /\ OneLiveCode)
<1>1. Init => LinkInv /\ CodesInv
    BY LinkInit, CodesInit
<1>2. LinkInv /\ CodesInv /\ [CrashNext]_vars => LinkInv' /\ CodesInv'
    BY LinkStep, CodesStep
<1>3. LinkInv /\ CodesInv => CodeRedeemedOnce /\ OneLiveCode
    BY OneLive DEF CodesInv, CodeRedeemedOnce
<1> QED BY <1>1, <1>2, <1>3, PTL DEF CrashSpec
-----------------------------------------------------------------------------
(* Calls that do not overlap.  While serial is true, at most one process   *)
(* is in a call; what a redemption read of its code's row is still so, and *)
(* every link's row is there.                                              *)
AloneInv == serial => \A p, q \in Procs : op[p] # Idle /\ op[q] # Idle => p = q

RowsInv ==
    serial =>
        /\ LinkHasConsumedCode
        /\ \A p \in Redeemers : Redemption(p) =>
              Live(op[p].code) /\ codes[op[p].code].username = op[p].username

(* The event a call is about to append counts as appended.                 *)
Concerns(p, chat) ==
    /\ op[p].pc = "unlogged"
    /\ op[p].event.action \in LinkActions
    /\ op[p].event.chat = chat

Tells(event, chat) ==
    IF event = NoEvent THEN links[chat] = NoLink
    ELSE IF event.action = "link_revoked" THEN links[chat].revoked
    ELSE IsActive(chat) /\ links[chat].linked_via = event.code

LogInv ==
    serial =>
        \A chat \in Chats :
            \/ \E p \in Procs : Concerns(p, chat) /\ Tells(op[p].event, chat)
            \/ (\A p \in Procs : ~Concerns(p, chat)) /\ Tells(log[chat], chat)

SerialInv == AloneInv /\ RowsInv /\ LogInv

LEMMA SerialInit == Init => SerialInv
BY DEF Init, SerialInv, AloneInv, RowsInv, LinkHasConsumedCode, LogInv, Concerns, Tells,
       Redemption, Idle

(* A step of p that leaves serial true found all others idle.              *)
LEMMA OthersIdle ==
    ASSUME TypeOK, AloneInv, NEW p \in Procs, NEW call, Start(p, call), serial',
           call # Idle \/ op[p] # Idle
    PROVE  /\ serial
           /\ op'[p] = call
           /\ \A q \in Procs \ {p} : op'[q] = Idle /\ op[q] = Idle
BY DEF TypeOK, AloneInv, Start, SetOp

LEMMA AloneStep == ASSUME TypeOK, AloneInv, [CrashNext]_vars PROVE AloneInv'
<1>1. ASSUME NEW new, SetOp(new)
      PROVE  AloneInv'
    BY <1>1 DEF SetOp, AloneInv
<1>2. ASSUME UNCHANGED <<op, serial>>
      PROVE  AloneInv'
    BY <1>2 DEF AloneInv
<1>3. ASSUME serial' = FALSE
      PROVE  AloneInv'
    BY <1>3 DEF AloneInv
<1>4. ASSUME NEW p, NEW call, Start(p, call)
      PROVE  AloneInv'
    BY <1>1, <1>4 DEF Start
<1> QED BY <1>2, <1>3, <1>4
        DEF CrashNext, Next, Redeeming, Administering, Generate, RedeemRead, RedeemCheckChat,
            RedeemWrite, RevokeRead, RevokeWrite, LogAppend, Crash, Tick, vars

LEMMA RowsStep ==
    ASSUME LinkInv, CodesInv, AloneInv, RowsInv, [CrashNext]_vars PROVE RowsInv'
<1> USE DEF LinkInv
<1> SUFFICES ASSUME serial'
             PROVE  /\ LinkHasConsumedCode'
                    /\ \A p \in Redeemers : Redemption(p)' =>
                          /\ Live(op[p].code)'
                          /\ codes'[op'[p].code].username = op'[p].username
    BY DEF RowsInv
<1>1. ASSUME NEW p \in Admins, NEW username \in Users, Generate(p, username)
      PROVE  RowsInv'
    <2>1. serial /\ \A q \in Redeemers : ~Redemption(q)'
        <3>1. serial /\ op'[p].pc = "unlogged" /\ \A q \in Procs \ {p} : op'[q] = Idle
            BY <1>1, OthersIdle DEF Generate, Unlogged, Idle
        <3> QED BY <3>1 DEF Redemption, Idle
    <2>2. ASSUME NEW chat \in Chats, links[chat] # NoLink
          PROVE  codes'[links[chat].linked_via] = codes[links[chat].linked_via]
        <3>1. PICK k \in Codes : k = links[chat].linked_via
            BY <2>2 DEF TypeOK, Link
        <3>2. codes[k] # NoRow /\ codes[k].consumed_chat_id = chat
            BY <2>1, <2>2, <3>1 DEF RowsInv, LinkHasConsumedCode
        <3>3. codes[k].consumed_chat_id # NoChat
            BY <3>2, AbsentAssumption
        <3>4. k # issued + 1
            BY <3>2 DEF CodesInv, TypeOK
        <3> QED BY <1>1, <3>1, <3>2, <3>3, <3>4 DEF Generate
    <2>3. LinkHasConsumedCode'
        BY <1>1, <2>1, <2>2 DEF Generate, RowsInv, LinkHasConsumedCode
    <2> QED BY <2>1, <2>3 DEF RowsInv
<1>2. ASSUME NEW p \in Redeemers, NEW code \in Codes, NEW chat \in Chats,
             RedeemRead(p, code, chat)
      PROVE  RowsInv'
    <2>1. serial /\ UNCHANGED <<codes, links>>
        BY <1>2 DEF RedeemRead, Start, SetOp
    <2>2. Redemption(p)' => /\ Live(code)
                            /\ op'[p].code = code
                            /\ op'[p].username = codes[code].username
        BY <1>2 DEF RedeemRead, Start, SetOp, Redemption, Unlogged, TypeOK, Reason, Live
    <2>3. \A q \in Redeemers : q = p
        BY OneBot
    <2>4. LinkHasConsumedCode'
        BY <2>1 DEF RowsInv, LinkHasConsumedCode
    <2> QED BY <2>1, <2>2, <2>3, <2>4 DEF RowsInv, Live
<1>3. ASSUME NEW p \in Redeemers, RedeemCheckChat(p)
      PROVE  RowsInv'
    <2>1. serial /\ UNCHANGED <<codes, links>>
        BY <1>3 DEF RedeemCheckChat, Start, SetOp
    <2>2. Redemption(p) /\ (Redemption(p)' => /\ op'[p].code = op[p].code
                                              /\ op'[p].username = op[p].username)
        BY <1>3, OpFields DEF RedeemCheckChat, Start, SetOp, Redemption, Unlogged, TypeOK, Ops, Idle
    <2>3. \A q \in Redeemers : q = p
        BY OneBot
    <2>4. LinkHasConsumedCode'
        BY <2>1 DEF RowsInv, LinkHasConsumedCode
    <2> QED BY <2>1, <2>2, <2>3, <2>4 DEF RowsInv, Live
<1>4. ASSUME NEW p \in Redeemers, RedeemWrite(p)
      PROVE  RowsInv'
    <2>0. PICK code \in Codes, chat \in Chats, username \in Users :
              code = op[p].code /\ chat = op[p].chat /\ username = op[p].username
        BY <1>4, OpFields DEF RedeemWrite, Redemption
    <2>1. serial
        BY <1>4 DEF RedeemWrite, Start, SetOp
    <2>2. Live(code) /\ codes[code].username = username /\ codes[code] \in CodeRow
        BY <1>4, <2>0, <2>1 DEF RedeemWrite, Redemption, RowsInv, Live, TypeOK
    <2>3. codes'[code] = [codes[code] EXCEPT !.consumed_chat_id = chat]
        BY <1>4, <2>0, <2>2 DEF RedeemWrite, TypeOK, Live
    <2>4. \A k \in Codes \ {code} : codes'[k] = codes[k]
        BY <1>4, <2>0 DEF RedeemWrite, TypeOK
    <2>5. links'[chat].linked_via = code /\ links'[chat].username = username
        BY <1>4, <2>0 DEF RedeemWrite, TypeOK
    <2>6. codes'[code] \in CodeRow /\ codes'[code].consumed_chat_id = chat
          /\ codes'[code].username = username
        BY <2>2, <2>3 DEF CodeRow
    <2>7. ASSUME NEW other \in Chats \ {chat}, links'[other] # NoLink
          PROVE  LET row == codes'[links'[other].linked_via]
                 IN  /\ row # NoRow
                     /\ row.consumed_chat_id = other
                     /\ row.username = links'[other].username
        <3>1. links'[other] = links[other]
            BY <1>4, <2>0 DEF RedeemWrite, TypeOK
        <3>2. PICK k \in Codes : k = links[other].linked_via
            BY <2>7, <3>1 DEF TypeOK, Link
        <3>3. codes[k] # NoRow /\ codes[k].consumed_chat_id = other
              /\ codes[k].username = links[other].username
            BY <2>1, <2>7, <3>1, <3>2 DEF RowsInv, LinkHasConsumedCode
        <3>4. k # code
            BY <2>2, <3>3, AbsentAssumption DEF Live
        <3> QED BY <2>4, <3>1, <3>2, <3>3, <3>4
    <2>8. LinkHasConsumedCode'
        BY <2>5, <2>6, <2>7, AbsentAssumption DEF LinkHasConsumedCode
    <2>9. \A q \in Redeemers : ~Redemption(q)'
        <3>1. ~Redemption(p)'
            BY <1>4 DEF RedeemWrite, Start, SetOp, Unlogged, Redemption, TypeOK
        <3> QED BY <3>1, OneBot
    <2> QED BY <2>8, <2>9 DEF RowsInv
<1>5. ASSUME serial, codes' = codes,
             \A chat \in Chats : links'[chat] # NoLink =>
                 /\ links[chat] # NoLink
                 /\ links'[chat].linked_via = links[chat].linked_via
                 /\ links'[chat].username = links[chat].username,
             \A q \in Redeemers : Redemption(q)' => op'[q] = op[q]
      PROVE  RowsInv'
    <2>1. LinkHasConsumedCode'
        BY <1>5 DEF RowsInv, LinkHasConsumedCode
    <2>2. \A q \in Redeemers : Redemption(q)' =>
              Live(op[q].code)' /\ codes'[op'[q].code].username = op'[q].username
        BY <1>5 DEF RowsInv, Redemption, Live
    <2> QED BY <2>1, <2>2 DEF RowsInv
<1>6. ASSUME NEW p \in Admins, NEW chat \in Chats, RevokeRead(p, chat)
      PROVE  RowsInv'
    BY <1>5, <1>6 DEF RevokeRead, Start, SetOp, Redemption, TypeOK
<1>7. ASSUME NEW p \in Admins, RevokeWrite(p)
      PROVE  RowsInv'
    <2>1. op[p].chat \in Chats /\ links[op[p].chat] \in Link
        BY <1>7, OpFields DEF RevokeWrite, CallsSound, TypeOK
    <2>2. \A chat \in Chats : links'[chat] # NoLink =>
              /\ links[chat] # NoLink
              /\ links'[chat].linked_via = links[chat].linked_via
              /\ links'[chat].username = links[chat].username
        BY <1>7, <2>1, AbsentAssumption DEF RevokeWrite, TypeOK, Link
    <2>3. serial /\ codes' = codes /\ \A q \in Redeemers : Redemption(q)' => op'[q] = op[q]
        BY <1>7 DEF RevokeWrite, Start, SetOp, Redemption, Unlogged, TypeOK
    <2> QED BY <1>5, <2>2, <2>3
<1>8. ASSUME NEW p \in Procs, LogAppend(p)
      PROVE  RowsInv'
    BY <1>5, <1>8 DEF LogAppend, Start, SetOp, Redemption, Idle, TypeOK
<1>9. ASSUME NEW p \in Procs, Crash(p)
      PROVE  RowsInv'
    BY <1>9 DEF Crash, RowsInv
<1>10. ASSUME Tick
       PROVE  RowsInv'
    BY <1>5, <1>10 DEF Tick, Redemption, TypeOK
<1>11. ASSUME UNCHANGED vars
       PROVE  RowsInv'
    BY <1>5, <1>11 DEF vars, Redemption, TypeOK
<1>12. RowsInv'
    BY <1>1, <1>2, <1>3, <1>4, <1>6, <1>7, <1>8, <1>9, <1>10, <1>11
       DEF CrashNext, Next, Redeeming, Administering
<1> QED BY <1>12 DEF RowsInv

(* What is known of a chat depends on its row and on who concerns it.      *)
LEMMA LogKept ==
    ASSUME TypeOK, LogInv, serial, links' = links, log' = log,
           \A p \in Procs, chat \in Chats :
               Concerns(p, chat)' <=> (Concerns(p, chat) /\ op'[p] = op[p]),
           \A p \in Procs, chat \in Chats : Concerns(p, chat) => op'[p] = op[p]
    PROVE  LogInv'
<1> SUFFICES ASSUME NEW chat \in Chats
             PROVE  \/ \E p \in Procs : Concerns(p, chat)' /\ Tells(op[p].event, chat)'
                    \/ (\A p \in Procs : ~Concerns(p, chat)') /\ Tells(log[chat], chat)'
    BY DEF LogInv
<1>1. CASE \E p \in Procs : Concerns(p, chat) /\ Tells(op[p].event, chat)
    <2>1. PICK p \in Procs : Concerns(p, chat) /\ Tells(op[p].event, chat)
        BY <1>1
    <2>2. Concerns(p, chat)' /\ op'[p] = op[p]
        BY <2>1
    <2>3. Tells(op[p].event, chat)'
        BY <2>1, <2>2 DEF Tells, IsActive
    <2> QED BY <2>2, <2>3
<1>2. CASE (\A p \in Procs : ~Concerns(p, chat)) /\ Tells(log[chat], chat)
    <2>1. \A p \in Procs : ~Concerns(p, chat)'
        BY <1>2
    <2>2. Tells(log[chat], chat)'
        BY <1>2 DEF Tells, IsActive
    <2> QED BY <2>1, <2>2
<1> QED BY <1>1, <1>2 DEF LogInv

(* A write that changes the row of one chat and leaves its event to be     *)
(* appended, while everybody else is idle.                                 *)
LEMMA LogChanged ==
    ASSUME TypeOK, LogInv, serial, log' = log,
           NEW p \in Procs, NEW chat \in Chats, NEW event,
           op'[p] = Unlogged(event), event.action \in LinkActions, event.chat = chat,
           \A q \in Procs \ {p} : op'[q] = Idle /\ op[q] = Idle,
           op[p].pc # "unlogged",
           \A other \in Chats \ {chat} : links'[other] = links[other],
           Tells(event, chat)'
    PROVE  LogInv'
<1> SUFFICES ASSUME NEW other \in Chats
             PROVE  \/ \E q \in Procs : Concerns(q, other)' /\ Tells(op[q].event, other)'
                    \/ (\A q \in Procs : ~Concerns(q, other)') /\ Tells(log[other], other)'
    BY DEF LogInv
<1>1. CASE other = chat
    <2>1. Concerns(p, other)' /\ op'[p].event = event
        BY <1>1 DEF Concerns, Unlogged
    <2>2. Tells(op[p].event, other)'
        BY <1>1, <2>1 DEF Tells, IsActive
    <2> QED BY <2>1, <2>2
<1>2. CASE other # chat
    <2>1. \A q \in Procs : ~Concerns(q, other) /\ ~Concerns(q, other)'
        BY <1>2 DEF Concerns, Unlogged, Idle
    <2>2. Tells(log[other], other)
        BY <2>1 DEF LogInv
    <2>3. Tells(log[other], other)'
        BY <1>2, <2>2 DEF Tells, IsActive
    <2> QED BY <2>1, <2>3
<1> QED BY <1>1, <1>2

LEMMA LogStep ==
    ASSUME LinkInv, AloneInv, LogInv, [CrashNext]_vars, serial' PROVE LogInv'
<1> USE DEF LinkInv
<1>1. ASSUME NEW p \in Admins, NEW username \in Users, Generate(p, username)
      PROVE  LogInv'
    <2>1. op'[p].pc = "unlogged" /\ op'[p].event.action = "code_generated"
        BY <1>1 DEF Generate, Start, SetOp, Unlogged, TypeOK
    <2>2. op[p].pc = "idle" /\ \A q \in Procs \ {p} : op'[q] = op[q]
        BY <1>1 DEF Generate, Start, SetOp, TypeOK
    <2>3. serial /\ links' = links /\ log' = log
        BY <1>1 DEF Generate, Start, SetOp, TypeOK
    <2> QED BY <2>1, <2>2, <2>3, LogKept DEF Concerns, LinkActions
<1>2. ASSUME NEW p \in Redeemers, NEW code \in Codes, NEW chat \in Chats,
             RedeemRead(p, code, chat)
      PROVE  LogInv'
    <2>1. \/ op'[p].pc = "code_ok"
          \/ op'[p].pc = "unlogged" /\ op'[p].event.action = "redeem_failed"
        BY <1>2 DEF RedeemRead, Start, SetOp, Unlogged, TypeOK
    <2>2. op[p].pc = "idle" /\ \A q \in Procs \ {p} : op'[q] = op[q]
        BY <1>2 DEF RedeemRead, Start, SetOp, TypeOK
    <2>3. serial /\ links' = links /\ log' = log
        BY <1>2 DEF RedeemRead, Start, SetOp, TypeOK
    <2> QED BY <2>1, <2>2, <2>3, LogKept DEF Concerns, LinkActions
<1>3. ASSUME NEW p \in Redeemers, RedeemCheckChat(p)
      PROVE  LogInv'
    <2>1. \/ op'[p].pc = "link_ok"
          \/ op'[p].pc = "unlogged" /\ op'[p].event.action = "redeem_failed"
        BY <1>3, OpFields DEF RedeemCheckChat, Start, SetOp, Unlogged, TypeOK, Ops, Idle
    <2>2. op[p].pc = "code_ok" /\ \A q \in Procs \ {p} : op'[q] = op[q]
        BY <1>3 DEF RedeemCheckChat, Start, SetOp, TypeOK
    <2>3. serial /\ links' = links /\ log' = log
        BY <1>3 DEF RedeemCheckChat, Start, SetOp, TypeOK
    <2> QED BY <2>1, <2>2, <2>3, LogKept DEF Concerns, LinkActions
<1>4. ASSUME NEW p \in Redeemers, RedeemWrite(p)
      PROVE  LogInv'
    <2>1. PICK code \in Codes, chat \in Chats, username \in Users :
              code = op[p].code /\ chat = op[p].chat /\ username = op[p].username
        BY <1>4, OpFields DEF RedeemWrite, Redemption
    <2> DEFINE event == [action |-> "code_redeemed", chat |-> chat, code |-> code]
               link == [username |-> username, linked_via |-> code, revoked |-> FALSE]
    <2>2. Start(p, Unlogged(event)) /\ log' = log /\ op[p].pc = "link_ok"
        BY <1>4, <2>1 DEF RedeemWrite
    <2>3. /\ serial /\ op'[p] = Unlogged(event)
          /\ \A q \in Procs \ {p} : op'[q] = Idle /\ op[q] = Idle
        BY <2>2, OthersIdle DEF Idle
    <2>4. links'[chat] = link /\ \A other \in Chats \ {chat} : links'[other] = links[other]
        BY <1>4, <2>1 DEF RedeemWrite, TypeOK
    <2>5. link \in Link /\ event \in Event
        BY DEF Link, Event
    <2>6. Tells(event, chat)'
        <3>1. links'[chat] # NoLink /\ event # NoEvent
            BY <2>4, <2>5, AbsentAssumption
        <3>2. ~links'[chat].revoked /\ links'[chat].linked_via = event.code
            BY <2>4
        <3>3. event.action # "link_revoked"
            OBVIOUS
        <3> HIDE DEF event, link
        <3> QED BY <3>1, <3>2, <3>3 DEF Tells, IsActive
    <2> HIDE DEF event, link
    <2>7. event.action \in LinkActions /\ event.chat = chat
        BY DEF event, LinkActions
    <2> QED BY <2>2, <2>3, <2>4, <2>6, <2>7, LogChanged
<1>5. ASSUME NEW p \in Admins, NEW chat \in Chats, RevokeRead(p, chat)
      PROVE  LogInv'
    <2>1. op'[p].pc = "revoking"
        BY <1>5 DEF RevokeRead, Start, SetOp, TypeOK
    <2>2. op[p].pc = "idle" /\ \A q \in Procs \ {p} : op'[q] = op[q]
        BY <1>5 DEF RevokeRead, Start, SetOp, TypeOK
    <2>3. serial /\ links' = links /\ log' = log
        BY <1>5 DEF RevokeRead, Start, SetOp, TypeOK
    <2> QED BY <2>1, <2>2, <2>3, LogKept DEF Concerns, LinkActions
<1>6. ASSUME NEW p \in Admins, RevokeWrite(p)
      PROVE  LogInv'
    <2>1. PICK chat \in Chats, username \in Users :
              chat = op[p].chat /\ username = op[p].username
        BY <1>6, OpFields DEF RevokeWrite
    <2> DEFINE event == [action |-> "link_revoked", chat |-> chat, username |-> username]
    <2>2. Start(p, Unlogged(event)) /\ log' = log /\ op[p].pc = "revoking"
        BY <1>6, <2>1 DEF RevokeWrite
    <2>3. /\ serial /\ op'[p] = Unlogged(event)
          /\ \A q \in Procs \ {p} : op'[q] = Idle /\ op[q] = Idle
        BY <2>2, OthersIdle DEF Idle
    <2>4. links[chat] \in Link
        BY <1>6, <2>1 DEF RevokeWrite, CallsSound, TypeOK
    <2>5. links'[chat].revoked /\ \A other \in Chats \ {chat} : links'[other] = links[other]
        BY <1>6, <2>1, <2>4 DEF RevokeWrite, TypeOK, Link
    <2>6. event \in Event
        BY DEF Event
    <2>7. Tells(event, chat)'
        BY <2>5, <2>6, AbsentAssumption DEF Tells
    <2> HIDE DEF event
    <2>8. event.action \in LinkActions /\ event.chat = chat
        BY DEF event, LinkActions
    <2> QED BY <2>2, <2>3, <2>5, <2>7, <2>8, LogChanged
<1>7. ASSUME NEW p \in Procs, LogAppend(p)
      PROVE  LogInv'
    <2>1. /\ serial /\ op'[p] = Idle
          /\ \A q \in Procs \ {p} : op'[q] = Idle /\ op[q] = Idle
        BY <1>7, OthersIdle DEF LogAppend, Idle
    <2>2. links' = links /\ op[p].pc = "unlogged"
        BY <1>7 DEF LogAppend
    <2>3. \A q \in Procs, chat \in Chats : ~Concerns(q, chat)'
        BY <2>1 DEF Concerns, Idle
    <2>4. ASSUME NEW chat \in Chats
          PROVE  Tells(log[chat], chat)'
        <3>1. CASE Concerns(p, chat)
            <4>1. \A q \in Procs : Concerns(q, chat) => q = p
                BY <2>1 DEF Concerns, Idle
            <4>2. Tells(op[p].event, chat)
                BY <2>1, <3>1, <4>1 DEF LogInv
            <4>3. log'[chat] = op[p].event
                BY <1>7, <3>1 DEF LogAppend, Concerns, TypeOK
            <4> QED BY <2>2, <4>2, <4>3 DEF Tells, IsActive
        <3>2. CASE ~Concerns(p, chat)
            <4>1. \A q \in Procs : ~Concerns(q, chat)
                BY <2>1, <3>2 DEF Concerns, Idle
            <4>2. Tells(log[chat], chat)
                BY <2>1, <4>1 DEF LogInv
            <4>3. log'[chat] = log[chat]
                BY <1>7, <2>2, <3>2 DEF LogAppend, Concerns, TypeOK
            <4> QED BY <2>2, <4>2, <4>3 DEF Tells, IsActive
        <3> QED BY <3>1, <3>2
    <2> QED BY <2>3, <2>4 DEF LogInv
<1>8. ASSUME NEW p \in Procs, Crash(p)
      PROVE  LogInv'
    BY <1>8 DEF Crash, LogInv
<1>9. ASSUME UNCHANGED <<links, log, op, serial>>
      PROVE  LogInv'
    BY <1>9, LogKept DEF Concerns
<1> QED BY <1>1, <1>2, <1>3, <1>4, <1>5, <1>6, <1>7, <1>8, <1>9
        DEF CrashNext, Next, Redeeming, Administering, Tick, vars

LEMMA SerialStep ==
    ASSUME LinkInv, CodesInv, SerialInv, [CrashNext]_vars PROVE SerialInv'
<1>1. TypeOK
    BY DEF LinkInv
<1>2. LogInv'
    <2>1. CASE serial'
        BY <2>1, LogStep DEF SerialInv
    <2>2. CASE ~serial'
        BY <2>2 DEF LogInv
    <2> QED BY <2>1, <2>2
<1> QED BY <1>1, <1>2, AloneStep, RowsStep DEF SerialInv

LEMMA SerialInvHolds == CrashSpec => []SerialInv
<1>1. Init => LinkInv /\ CodesInv /\ SerialInv
    BY LinkInit, CodesInit, SerialInit
<1>2. LinkInv /\ CodesInv /\ SerialInv /\ [CrashNext]_vars => LinkInv' /\ CodesInv' /\ SerialInv'
    BY LinkStep, CodesStep, SerialStep
<1> QED BY <1>1, <1>2, PTL DEF CrashSpec

(* As long as calls do not overlap and none dies: a code that made a link  *)
(* is recorded as consumed by it, and stays.                               *)
THEOREM SerialTruth == CrashSpec => []SerialLinkHasConsumedCode
<1>1. SerialInv => SerialLinkHasConsumedCode
    BY DEF SerialInv, RowsInv, SerialLinkHasConsumedCode
<1> QED BY <1>1, SerialInvHolds, PTL

(* As long as calls do not overlap and none dies: the log's last word on a *)
(* chat is what chat_links says of it, linked by that code or revoked.     *)
THEOREM LogTellsLinks == CrashSpec => []LogTellsLinkState
<1>1. SerialInv => LogTellsLinkState
    BY DEF SerialInv, LogInv, LogTellsLinkState, Concerns, Tells
<1> QED BY <1>1, SerialInvHolds, PTL

-----------------------------------------------------------------------------
(* The bot's uploads.                                                      *)
BotTypeOK ==
    /\ upload \in [Redeemers -> Upload \cup {NoUpload}]
    /\ posted \in [Redeemers -> BotEvent \cup {NoEvent}]

Drafted(username, draft) ==
    [action |-> "photo_routed", actor |-> username, draft_ok |-> draft]
Rejected(username) == [action |-> "document_rejected", actor |-> username]

(* While an upload is under way the bot redeems nothing, so that the chat  *)
(* can only lose its link.                                                 *)
ChatsKept ==
    \A p \in Redeemers : InProgress(p) =>
        /\ ~Redemption(p)
        /\ Resolve(upload[p].chat) \in {upload[p].username, NoLink}

(* What is posted of an upload at each of its stages.                      *)
PostedInv ==
    \A p \in Redeemers : upload[p] # NoUpload =>
        LET mine == upload[p]
        IN  /\ mine.at \in {"acked", "fetched", "routed", "run"} => posted[p] = NoEvent
            /\ mine.at = "recorded" => posted[p] = Drafted(mine.username, mine.draft)
            /\ mine.at = "answered" =>
                  /\ mine.reply = "submitted" <=> posted[p] = Drafted(mine.username, TRUE)
                  /\ mine.reply = "rejected" <=> posted[p] = Rejected(mine.username)

BotInv == LinkInv /\ BotTypeOK /\ ChatsKept /\ PostedInv

LEMMA BotInitInv == BotInit => BotInv
BY LinkInit DEF BotInit, BotInv, BotTypeOK, ChatsKept, PostedInv, InProgress

(* Only RedeemWrite() makes a link: while the bot is not about to, a chat  *)
(* resolves to whom it did, or to nobody any more.                         *)
LEMMA OnlyBotLinks ==
    ASSUME LinkInv, [CrashNext]_vars, NEW chat \in Chats,
           \A p \in Redeemers : ~Redemption(p)
    PROVE  Resolve(chat)' \in {Resolve(chat), NoLink}
<1>1. CASE Resolve(chat) # NoLink
    BY <1>1, ResolvedStays
<1>2. ASSUME ~IsActive(chat), NEW p \in Admins, RevokeWrite(p)
      PROVE  ~IsActive(chat)'
    BY <1>2, AbsentAssumption DEF RevokeWrite, IsActive, LinkInv, TypeOK, Link, CallsSound
<1>3. CASE ~IsActive(chat)
    <2>1. ~IsActive(chat)'
        <3>1. CASE links' = links
            BY <1>3, <3>1 DEF IsActive
        <3> QED BY <1>2, <1>3, <3>1
                DEF CrashNext, Next, Redeeming, Administering, Generate, RedeemRead,
                    RedeemCheckChat, RedeemWrite, RevokeRead, LogAppend, Crash, Tick, vars,
                    Redemption
    <2> QED BY <2>1 DEF Resolve
<1>4. CASE IsActive(chat) /\ Resolve(chat) = NoLink
    <2>1. CASE links' = links
        BY <1>4, <2>1 DEF Resolve, IsActive
    <2>2. ASSUME NEW p \in Admins, RevokeWrite(p)
          PROVE  Resolve(chat)' = NoLink
        <3>1. links[chat] \in Link /\ links[chat].username = NoLink
            BY <1>4 DEF IsActive, Resolve, LinkInv, TypeOK
        <3>2. links'[chat] = links[chat] \/ links'[chat].revoked
            BY <2>2, <3>1 DEF RevokeWrite, LinkInv, TypeOK, Link
        <3> QED BY <3>1, <3>2 DEF Resolve, IsActive
    <2> QED BY <2>1, <2>2
            DEF CrashNext, Next, Redeeming, Administering, Generate, RedeemRead,
                RedeemCheckChat, RedeemWrite, RevokeRead, LogAppend, Crash, Tick, vars,
                Redemption
<1> QED BY <1>1, <1>3, <1>4

(* A step of codes and links leaves the uploads alone.                     *)
LEMMA BesideUploads ==
    ASSUME BotInv, [CrashNext]_vars, UNCHANGED botVars,
           \A p \in Redeemers : InProgress(p) => ~Redemption(p)'
    PROVE  ChatsKept' /\ PostedInv' /\ BotTypeOK'
<1>1. BotTypeOK' /\ PostedInv'
    BY DEF BotInv, BotTypeOK, PostedInv, botVars
<1>2. ASSUME NEW p \in Redeemers, InProgress(p)
      PROVE  Resolve(upload[p].chat)' \in {upload[p].username, NoLink}
    <2>1. PICK chat \in Chats : chat = upload[p].chat /\ upload'[p].chat = chat
        BY <1>2 DEF BotInv, BotTypeOK, InProgress, Upload, botVars
    <2>2. \A q \in Redeemers : ~Redemption(q)
        BY <1>2, OneBot DEF BotInv, ChatsKept
    <2>3. Resolve(chat)' \in {Resolve(chat), NoLink}
        BY <2>2, OnlyBotLinks DEF BotInv
    <2> QED BY <1>2, <2>1, <2>3 DEF BotInv, ChatsKept, Resolve, IsActive
<1> QED BY <1>1, <1>2 DEF ChatsKept, InProgress, botVars

(* A step of the bot's only upload leaves codes and links alone.           *)
LEMMA OneUpload ==
    ASSUME BotInv, UNCHANGED vars, NEW p \in Redeemers, NEW mine \in Upload \cup {NoUpload},
           NEW event \in BotEvent \cup {NoEvent},
           upload' = [upload EXCEPT ![p] = mine], posted' = [posted EXCEPT ![p] = event],
           mine # NoUpload =>
             /\ mine.at # "answered" =>
                  ~Redemption(p) /\ Resolve(mine.chat) \in {mine.username, NoLink}
             /\ mine.at \in {"acked", "fetched", "routed", "run"} => event = NoEvent
             /\ mine.at = "recorded" => event = Drafted(mine.username, mine.draft)
             /\ mine.at = "answered" =>
                  /\ mine.reply = "submitted" <=> event = Drafted(mine.username, TRUE)
                  /\ mine.reply = "rejected" <=> event = Rejected(mine.username)
    PROVE  ChatsKept' /\ PostedInv' /\ BotTypeOK'
<1>1. BotTypeOK' /\ upload'[p] = mine /\ posted'[p] = event
    BY DEF BotInv, BotTypeOK
<1>2. \A q \in Redeemers : q = p
    BY OneBot
<1>3. PostedInv'
    BY <1>1, <1>2 DEF PostedInv
<1>4. ChatsKept'
    BY <1>1, <1>2 DEF ChatsKept, InProgress, Redemption, Resolve, IsActive, vars
<1> QED BY <1>1, <1>3, <1>4

LEMMA HandlingStep ==
    ASSUME BotInv, NEW p \in Redeemers, Handling(p)
    PROVE  ChatsKept' /\ PostedInv' /\ BotTypeOK'
<1> DEFINE mine == upload[p]
<1>0. ASSUME InProgress(p)
      PROVE  /\ mine \in Upload
             /\ ~Redemption(p) /\ Resolve(mine.chat) \in {mine.username, NoLink}
             /\ posted' = posted => posted' = [posted EXCEPT ![p] = posted[p]]
    BY <1>0 DEF InProgress, ChatsKept, BotInv, BotTypeOK
<1>1. \A username \in Users, draft \in BOOLEAN :
          /\ Drafted(username, draft) \in BotEvent /\ Rejected(username) \in BotEvent
          /\ Drafted(username, draft) # Rejected(username)
          /\ Drafted(username, TRUE) # Drafted(username, FALSE)
          /\ NoEvent # Drafted(username, draft) /\ NoEvent # Rejected(username)
    <2>1. \A username \in Users, draft \in BOOLEAN :
              Drafted(username, draft) \in BotEvent /\ Rejected(username) \in BotEvent
        BY DEF Drafted, Rejected, BotEvent
    <2>2. \A username \in Users, draft \in BOOLEAN :
              Drafted(username, draft).action # Rejected(username).action
        BY DEF Drafted, Rejected
    <2>3. \A username \in Users :
              Drafted(username, TRUE).draft_ok # Drafted(username, FALSE).draft_ok
        BY DEF Drafted
    <2> QED BY <2>1, <2>2, <2>3, NoEventAssumption
<1>2. ASSUME NEW chat \in Chats, Receive(p, chat)
      PROVE  ChatsKept' /\ PostedInv' /\ BotTypeOK'
    <2> DEFINE new == [at |-> "acked", chat |-> chat, username |-> Resolve(chat),
                       draft |-> FALSE, reply |-> "none"]
    <2>1. Resolve(chat) \in Users
        BY <1>2 DEF Receive, Resolve, IsActive, BotInv, LinkInv, TypeOK, Link
    <2>2. new \in Upload
        BY <2>1 DEF Upload, Stages, Replies
    <2>3. op[p].pc = "idle"
        BY <1>2 DEF Receive, Free, Idle
    <2>4. UNCHANGED vars /\ upload' = [upload EXCEPT ![p] = new]
          /\ posted' = [posted EXCEPT ![p] = NoEvent]
        BY <1>2 DEF Receive
    <2> QED BY <2>2, <2>3, <2>4, OneUpload DEF Redemption
<1>3. ASSUME RejectDocument(p)
      PROVE  ChatsKept' /\ PostedInv' /\ BotTypeOK'
    <2> DEFINE new == [mine EXCEPT !.at = "answered", !.reply = "rejected"]
    <2>1. mine \in Upload
        BY <1>0, <1>3 DEF RejectDocument, At, InProgress
    <2>2. new \in Upload /\ new.username = mine.username /\ new.username \in Users
          /\ new.at = "answered" /\ new.reply = "rejected"
        BY <2>1 DEF Upload, Stages, Replies
    <2>3. UNCHANGED vars /\ upload' = [upload EXCEPT ![p] = new]
          /\ posted' = [posted EXCEPT ![p] = Rejected(new.username)]
        BY <1>3, <2>2 DEF RejectDocument, Reply, Rejected
    <2> HIDE DEF new, mine
    <2> QED BY <1>1, <2>2, <2>3, OneUpload
    \* What comes before the event: nothing is posted.
<1>4. ASSUME InProgress(p), UNCHANGED posted, mine.at # "recorded"
      PROVE  posted[p] = NoEvent /\ posted' = [posted EXCEPT ![p] = NoEvent]
    BY <1>0, <1>4 DEF BotInv, BotTypeOK, PostedInv, InProgress, Upload, Stages
    \* A stage that posts nothing.
<1>5. ASSUME InProgress(p), UNCHANGED <<vars, posted>>, mine.at # "recorded",
             NEW draft \in BOOLEAN, NEW at \in {"fetched", "routed", "run"},
             upload' = [upload EXCEPT ![p].at = at, ![p].draft = draft]
      PROVE  ChatsKept' /\ PostedInv' /\ BotTypeOK'
    <2> DEFINE new == [mine EXCEPT !.at = at, !.draft = draft]
    <2>1. new \in Upload /\ new.at = at /\ new.username = mine.username /\ new.chat = mine.chat
        BY <1>0, <1>5 DEF Upload, Stages
    <2>2. upload' = [upload EXCEPT ![p] = new]
        BY <1>5
    <2>3. ~Redemption(p) /\ Resolve(new.chat) \in {new.username, NoLink}
        BY <1>0, <1>5, <2>1
    <2>4. posted' = [posted EXCEPT ![p] = NoEvent] /\ UNCHANGED vars
        BY <1>4, <1>5
    <2> HIDE DEF new, mine
    <2> QED BY <2>1, <2>2, <2>3, <2>4, OneUpload
    \* A reply that posts nothing.
<1>6. ASSUME InProgress(p), UNCHANGED <<vars, posted>>, mine.at # "recorded",
              NEW reply \in {"none", "nothing"}, Reply(p, reply)
       PROVE  ChatsKept' /\ PostedInv' /\ BotTypeOK'
    <2> DEFINE new == [mine EXCEPT !.at = "answered", !.reply = reply]
    <2>1. new \in Upload /\ new.at = "answered" /\ new.reply = reply /\ new.username \in Users
        BY <1>0, <1>6 DEF Upload, Stages, Replies
    <2>2. upload' = [upload EXCEPT ![p] = new]
        BY <1>6 DEF Reply
    <2>3. posted' = [posted EXCEPT ![p] = NoEvent] /\ UNCHANGED vars
        BY <1>4, <1>6
    <2>4. reply # "submitted" /\ reply # "rejected"
        BY <1>6
    <2>5. NoEvent # Drafted(new.username, TRUE) /\ NoEvent # Rejected(new.username)
        BY <1>1, <2>1
    <2> HIDE DEF new, mine
    <2> QED BY <2>1, <2>2, <2>3, <2>4, <2>5, OneUpload
    \* A stage that leaves the draft alone.
<1>7. ASSUME InProgress(p), NEW at, Move(p, at)
       PROVE  upload' = [upload EXCEPT ![p].at = at, ![p].draft = mine.draft]
              /\ mine.draft \in BOOLEAN
    BY <1>0, <1>7 DEF Move, Upload, BotInv, BotTypeOK
<1>8. ASSUME Download(p)
      PROVE  ChatsKept' /\ PostedInv' /\ BotTypeOK'
    <2>1. InProgress(p) /\ mine.at # "recorded" /\ UNCHANGED <<vars, posted>>
        BY <1>8 DEF Download, At, InProgress
    <2>2. Move(p, "fetched") \/ Reply(p, "nothing") \/ Reply(p, "none")
        BY <1>8 DEF Download
    <2>3. CASE Move(p, "fetched")
        BY <1>5, <1>7, <2>1, <2>3
    <2>4. CASE Reply(p, "nothing") \/ Reply(p, "none")
        BY <1>6, <2>1, <2>4
    <2> QED BY <2>2, <2>3, <2>4
<1>9. ASSUME NEW keywords, NEW verdict, RouteUpload(p, keywords, verdict)
      PROVE  ChatsKept' /\ PostedInv' /\ BotTypeOK'
    <2>1. InProgress(p) /\ mine.at # "recorded" /\ UNCHANGED <<vars, posted>>
        BY <1>9 DEF RouteUpload, At, InProgress
    <2>2. Move(p, "routed") \/ Reply(p, "nothing")
        BY <1>9 DEF RouteUpload
    <2>3. CASE Move(p, "routed")
        BY <1>5, <1>7, <2>1, <2>3
    <2>4. CASE Reply(p, "nothing")
        BY <1>6, <2>1, <2>4
    <2> QED BY <2>2, <2>3, <2>4
<1>10. ASSUME RunAgent(p)
      PROVE  ChatsKept' /\ PostedInv' /\ BotTypeOK'
    <2>1. InProgress(p) /\ mine.at # "recorded" /\ UNCHANGED <<vars, posted>>
        BY <1>10 DEF RunAgent, At, InProgress
    <2>2. \/ \E draft \in BOOLEAN :
                upload' = [upload EXCEPT ![p].at = "run", ![p].draft = draft]
          \/ Reply(p, "nothing")
        BY <1>10 DEF RunAgent
    <2>3. ASSUME NEW draft \in BOOLEAN,
                 upload' = [upload EXCEPT ![p].at = "run", ![p].draft = draft]
          PROVE  ChatsKept' /\ PostedInv' /\ BotTypeOK'
        BY <1>5, <2>1, <2>3
    <2>4. CASE Reply(p, "nothing")
        BY <1>6, <2>1, <2>4
    <2> QED BY <2>2, <2>3, <2>4
<1>11. ASSUME RecordPhotoRouted(p)
      PROVE  ChatsKept' /\ PostedInv' /\ BotTypeOK'
    <2> DEFINE new == [mine EXCEPT !.at = "recorded"]
    <2>1. InProgress(p) /\ mine \in Upload
        BY <1>0, <1>11 DEF RecordPhotoRouted, At, InProgress
    <2>2. new \in Upload /\ new.at = "recorded" /\ new.username = mine.username
          /\ new.chat = mine.chat /\ new.draft = mine.draft
          /\ new.username \in Users /\ new.draft \in BOOLEAN
        BY <2>1 DEF Upload, Stages
    <2>3. UNCHANGED vars /\ upload' = [upload EXCEPT ![p] = new]
          /\ posted' = [posted EXCEPT ![p] = Drafted(new.username, new.draft)]
        BY <1>11, <2>2 DEF RecordPhotoRouted, Move, Drafted
    <2> HIDE DEF new
    <2> QED BY <1>0, <1>1, <2>1, <2>2, <2>3, OneUpload
<1>12. ASSUME Summarize(p)
       PROVE  ChatsKept' /\ PostedInv' /\ BotTypeOK'
    <2> DEFINE reply == IF mine.draft THEN "submitted" ELSE "nothing"
               new == [mine EXCEPT !.at = "answered", !.reply = reply]
    <2>1. InProgress(p) /\ mine \in Upload
        BY <1>0, <1>12 DEF Summarize, At, InProgress
    <2>2. new \in Upload /\ new.at = "answered" /\ new.username = mine.username
          /\ new.reply = reply /\ new.username \in Users /\ mine.draft \in BOOLEAN
        BY <2>1 DEF Upload, Stages, Replies
    <2>3. UNCHANGED vars /\ upload' = [upload EXCEPT ![p] = new]
        BY <1>12, <2>2 DEF Summarize, Reply
    <2>4. posted[p] = Drafted(new.username, mine.draft)
        BY <1>12, <2>2 DEF BotInv, Summarize, At, PostedInv
    <2>5. posted' = [posted EXCEPT ![p] = posted[p]] /\ posted[p] \in BotEvent
        BY <1>1, <1>12, <2>2, <2>4 DEF BotInv, BotTypeOK, Summarize
    <2>6. reply = "submitted" <=> posted[p] = Drafted(new.username, TRUE)
        <3>1. CASE mine.draft = TRUE
            BY <2>4, <3>1
        <3>2. CASE mine.draft = FALSE
            BY <1>1, <2>2, <2>4, <3>2
        <3> QED BY <2>2, <3>1, <3>2
    <2>7. reply # "rejected" /\ posted[p] # Rejected(new.username)
        BY <1>1, <2>2, <2>4
    <2> HIDE DEF new, reply
    <2> QED BY <2>2, <2>3, <2>5, <2>6, <2>7, OneUpload
<1>13. ASSUME LoseUpload(p)
       PROVE  ChatsKept' /\ PostedInv' /\ BotTypeOK'
    BY <1>13, OneUpload DEF LoseUpload, Forget
<1> QED BY <1>2, <1>3, <1>8, <1>9, <1>10, <1>11, <1>12, <1>13 DEF Handling

LEMMA BotStep == ASSUME BotInv, [BotNext]_<<vars, botVars>> PROVE BotInv'
<1>1. [CrashNext]_vars
    BY DEF BotNext, CrashNext, Next, Redeeming, Text, Handling, Receive, RejectDocument,
           Download, RouteUpload, RunAgent, RecordPhotoRouted, Summarize, LoseUpload
<1>2. LinkInv'
    BY <1>1, LinkStep DEF BotInv
<1>3. ASSUME NEW p \in Redeemers, Handling(p)
      PROVE  ChatsKept' /\ PostedInv' /\ BotTypeOK'
    BY <1>3, HandlingStep
<1>4. ASSUME NEW p \in Redeemers, Text(p)
      PROVE  ChatsKept' /\ PostedInv' /\ BotTypeOK'
    <2>1. CASE Forget(p)
        <3>1. upload'[p] = NoUpload /\ BotTypeOK'
            BY <2>1 DEF Forget, BotInv, BotTypeOK
        <3>2. \A q \in Redeemers : upload'[q] = NoUpload
            BY <3>1, OneBot
        <3> QED BY <3>1, <3>2 DEF ChatsKept, PostedInv, InProgress
    <2>2. CASE UNCHANGED botVars /\ (RedeemCheckChat(p) \/ RedeemWrite(p))
        <3>1. \A q \in Redeemers : ~InProgress(q)
            BY <2>2, OneBot DEF RedeemCheckChat, RedeemWrite, Redemption, BotInv, ChatsKept
        <3> QED BY <1>1, <2>2, <3>1, BesideUploads
    <2> QED BY <1>4, <2>1, <2>2 DEF Text
<1>5. ASSUME NEW p \in Procs, UNCHANGED botVars,
             op[p].pc \in {"idle", "revoking", "unlogged"} \/ op'[p].pc = "idle",
             op'[p].pc \notin {"code_ok", "link_ok"},
             \A q \in Procs \ {p} : op'[q] = op[q]
      PROVE  ChatsKept' /\ PostedInv' /\ BotTypeOK'
    <2>1. \A q \in Redeemers : InProgress(q) => ~Redemption(q)'
        BY <1>5 DEF BotInv, ChatsKept, Redemption
    <2> QED BY <1>1, <1>5, <2>1, BesideUploads
<1>6. ASSUME NEW p \in Admins, Administering(p), UNCHANGED botVars
      PROVE  ChatsKept' /\ PostedInv' /\ BotTypeOK'
    BY <1>5, <1>6 DEF Administering, Generate, RevokeRead, RevokeWrite, Start, SetOp, Unlogged,
                      BotInv, LinkInv, TypeOK
<1>7. ASSUME NEW p \in Procs, LogAppend(p) \/ Crash(p), UNCHANGED botVars
      PROVE  ChatsKept' /\ PostedInv' /\ BotTypeOK'
    BY <1>5, <1>7 DEF LogAppend, Crash, Start, SetOp, Idle, BotInv, LinkInv, TypeOK
<1>8. ASSUME UNCHANGED <<op, botVars>>
      PROVE  ChatsKept' /\ PostedInv' /\ BotTypeOK'
    BY <1>1, <1>8, BesideUploads DEF BotInv, ChatsKept, Redemption, botVars
<1> QED BY <1>2, <1>3, <1>4, <1>6, <1>7, <1>8 DEF BotInv, BotNext, Tick, vars

(* Whoever's photo the bot reads, it acts in the name of nobody but the    *)
(* user the chat had when the photo came, and what it tells them is on the *)
(* log: also when the link is revoked while the photo is downloaded.       *)
THEOREM UploadsAnswered == BotSpec => []UploadsAreAccountedFor
<1>1. BotInit => BotInv
    BY BotInitInv
<1>2. BotInv /\ [BotNext]_<<vars, botVars>> => BotInv'
    BY BotStep
<1>3. BotInv => UploadsAreAccountedFor
    BY DEF BotInv, BotTypeOK, ChatsKept, PostedInv, UploadsAreAccountedFor, InProgress, Upload,
           Stages, Drafted, Rejected
<1> QED BY <1>1, <1>2, <1>3, PTL DEF BotSpec
=============================================================================
