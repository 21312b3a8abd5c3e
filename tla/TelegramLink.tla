---------------------------- MODULE TelegramLink ----------------------------
(***************************************************************************)
(* platform/telegram-link: one-time codes that tie a Telegram chat to a    *)
(* user, and the links they make.  The bot (telegram_bot_prototype.py run) *)
(* redeems codes; gencode, a process of its own, issues them; an admin     *)
(* revokes links.  They share link.db, auth.db and audit.db.               *)
(*                                                                         *)
(* Every SELECT is a step of its own, outside any transaction; the writes  *)
(* of one call commit together; its audit event is appended afterwards.    *)
(* Codes are numbered in the order they are issued, which stands for their *)
(* being unguessable and distinct; only rows of link_codes are real state. *)
(* Of the audit log each chat's newest link event is kept.                 *)
(* Users never disappear from auth, so a link's user always exists.        *)
(***************************************************************************)
EXTENDS Naturals, Sequences, FiniteSets

CONSTANTS
    Redeemers,      \* processes that redeem codes: the bot
    Admins,         \* processes that issue codes and revoke links
    Users,          \* users auth knows
    Chats,          \* Telegram chat ids
    Ttl,            \* ttl_seconds, in ticks of the clock
    MaxCodes,       \* bound on the codes the exploration issues
    MaxTime,        \* bound on the clock
    NoChat,         \* consumed_chat_id of a code not consumed yet
    NoRow,          \* there is no such row in link_codes
    NoLink,         \* there is no such row in chat_links
    NoEvent         \* the log says nothing of a chat's link

ASSUME BoundsAssumption == Ttl \in Nat /\ MaxCodes \in Nat /\ MaxTime \in Nat

(* Telegram hands a bot's updates to one poller.                           *)
ASSUME OneBot == \A p, q \in Redeemers : p = q

Procs == Redeemers \cup Admins
Codes == 1 .. MaxCodes

VARIABLES
    issued,     \* how many codes have been issued
    codes,      \* link_codes: a row per code still there
    links,      \* chat_links: a row per chat that was ever linked
    clock,
    op,         \* the call each process is in the middle of
    log,        \* the audit log's last word on each chat's link
    uses,       \* history: how often each code's redemption committed
    serial      \* history: no call has overlapped another one, or died

vars == <<issued, codes, links, clock, op, log, uses, serial>>

CodeRow == [username : Users, expires_at : Nat, consumed_chat_id : Chats \cup {NoChat}]
Link == [username : Users, linked_via : Codes, revoked : BOOLEAN]

Reasons == {"invalid", "already_used", "expired", "chat_already_linked"}
Event ==
    [action : {"code_generated"}, username : Users, code : Codes]
    \cup [action : {"code_redeemed"}, chat : Chats, code : Codes]
    \cup [action : {"redeem_failed"}, chat : Chats, code : Codes, reason : Reasons]
    \cup [action : {"link_revoked"}, chat : Chats, username : Users]

(* The absence of something is none of the values it may have.             *)
ASSUME AbsentAssumption ==
    NoChat \notin Chats /\ NoRow \notin CodeRow /\ NoLink \notin Link /\ NoEvent \notin Event

Idle == [pc |-> "idle"]
Ops == {Idle}
       \cup [pc : {"code_ok", "link_ok"}, code : Codes, chat : Chats, username : Users]
       \cup [pc : {"revoking"}, chat : Chats, username : Users]
       \cup [pc : {"unlogged"}, event : Event]

Unlogged(event) == [pc |-> "unlogged", event |-> event]

IsActive(chat) == links[chat] # NoLink /\ ~links[chat].revoked

(* resolve_chat_id()                                                       *)
Resolve(chat) == IF IsActive(chat) THEN links[chat].username ELSE NoLink

(* A step of a call.  Calls overlap while two processes are not idle.      *)
SetOp(new) ==
    /\ op' = new
    /\ serial' = (serial /\ \A p, q \in Procs : new[p] # Idle /\ new[q] # Idle => p = q)

Start(p, call) == SetOp([op EXCEPT ![p] = call])

-----------------------------------------------------------------------------
Init ==
    /\ issued = 0
    /\ codes = [k \in Codes |-> NoRow]
    /\ links = [chat \in Chats |-> NoLink]
    /\ clock = 0
    /\ op = [p \in Procs |-> Idle]
    /\ log = [chat \in Chats |-> NoEvent]
    /\ uses = [k \in Codes |-> 0]
    /\ serial = TRUE

(* generate_link_code(): DELETE the user's unconsumed codes and INSERT the *)
(* new one, one transaction.  An unknown user is refused before that.      *)
Generate(p, username) ==
    /\ op[p].pc = "idle"
    /\ issued < MaxCodes
    /\ codes' = [k \in Codes |->
         IF k = issued + 1
           THEN [username |-> username, expires_at |-> clock + Ttl,
                 consumed_chat_id |-> NoChat]
         ELSE IF codes[k] # NoRow /\ codes[k].username = username
                 /\ codes[k].consumed_chat_id = NoChat
           THEN NoRow
         ELSE codes[k]]
    /\ issued' = issued + 1
    /\ Start(p, Unlogged(
                [action |-> "code_generated", username |-> username, code |-> issued + 1]))
    /\ UNCHANGED <<links, clock, log, uses>>

(* redeem_link_code(): the SELECT of the code's row and the three checks   *)
(* of it, in order.                                                        *)
Reason(code) ==
    IF codes[code] = NoRow THEN "invalid"
    ELSE IF codes[code].consumed_chat_id # NoChat THEN "already_used"
    ELSE IF codes[code].expires_at <= clock THEN "expired"
    ELSE "none"

RedeemRead(p, code, chat) ==
    /\ op[p].pc = "idle"
    /\ Start(p,
         IF Reason(code) = "none"
           THEN [pc |-> "code_ok", code |-> code, chat |-> chat,
                 username |-> codes[code].username]
           ELSE Unlogged([action |-> "redeem_failed", chat |-> chat, code |-> code,
                          reason |-> Reason(code)]))
    /\ UNCHANGED <<issued, codes, links, clock, log, uses>>

(* Slip: the chat's present link is not looked at.                         *)
M_RedeemCheckChatAny(p) ==
    /\ op[p].pc = "code_ok"
    /\ Start(p, [op[p] EXCEPT !.pc = "link_ok"])
    /\ UNCHANGED <<issued, codes, links, clock, log, uses>>

(* redeem_link_code(): get_link(), a second SELECT.                        *)
RedeemCheckChat(p) ==
    /\ op[p].pc = "code_ok"
    /\ Start(p,
         IF IsActive(op[p].chat)
           THEN Unlogged([action |-> "redeem_failed", chat |-> op[p].chat,
                          code |-> op[p].code, reason |-> "chat_already_linked"])
           ELSE [op[p] EXCEPT !.pc = "link_ok"])
    /\ UNCHANGED <<issued, codes, links, clock, log, uses>>

(* Slip: the code is never marked as consumed.                             *)
M_RedeemWriteNotConsumed(p) ==
    /\ op[p].pc = "link_ok"
    /\ links' = [links EXCEPT ![op[p].chat] =
           [username |-> op[p].username, linked_via |-> op[p].code, revoked |-> FALSE]]
    /\ uses' = [uses EXCEPT ![op[p].code] = @ + 1]
    /\ Start(p, Unlogged(
           [action |-> "code_redeemed", chat |-> op[p].chat, code |-> op[p].code]))
    /\ UNCHANGED <<issued, codes, clock, log>>

(* redeem_link_code(): UPDATE link_codes, INSERT OR REPLACE chat_links, one *)
(* transaction.  The UPDATE changes no row if the code's is gone.          *)
RedeemWrite(p) ==
    /\ op[p].pc = "link_ok"
    /\ codes' = [codes EXCEPT ![op[p].code] =
           IF @ = NoRow THEN NoRow ELSE [@ EXCEPT !.consumed_chat_id = op[p].chat]]
    /\ links' = [links EXCEPT ![op[p].chat] =
           [username |-> op[p].username, linked_via |-> op[p].code, revoked |-> FALSE]]
    /\ uses' = [uses EXCEPT ![op[p].code] = @ + 1]
    /\ Start(p, Unlogged(
           [action |-> "code_redeemed", chat |-> op[p].chat, code |-> op[p].code]))
    /\ UNCHANGED <<issued, clock, log>>

(* revoke_link(): get_link(); NoActiveLink is raised for any other chat.   *)
RevokeRead(p, chat) ==
    /\ op[p].pc = "idle"
    /\ IsActive(chat)
    /\ Start(p, [pc |-> "revoking", chat |-> chat, username |-> links[chat].username])
    /\ UNCHANGED <<issued, codes, links, clock, log, uses>>

RevokeWrite(p) ==
    /\ op[p].pc = "revoking"
    /\ links' = [links EXCEPT ![op[p].chat].revoked = TRUE]
    /\ Start(p, Unlogged(
           [action |-> "link_revoked", chat |-> op[p].chat, username |-> op[p].username]))
    /\ UNCHANGED <<issued, codes, clock, log, uses>>

LinkActions == {"code_redeemed", "link_revoked"}

(* Slip: revocations are not audited.                                      *)
M_LogAppendRevocations(p) ==
    /\ op[p].pc = "unlogged"
    /\ log' = IF op[p].event.action = "code_redeemed"
                THEN [log EXCEPT ![op[p].event.chat] = op[p].event]
                ELSE log
    /\ Start(p, Idle)
    /\ UNCHANGED <<issued, codes, links, clock, uses>>

(* _audit(), after the commit or before a refusal is raised.               *)
LogAppend(p) ==
    /\ op[p].pc = "unlogged"
    /\ log' = IF op[p].event.action \in LinkActions
                THEN [log EXCEPT ![op[p].event.chat] = op[p].event]
                ELSE log
    /\ Start(p, Idle)
    /\ UNCHANGED <<issued, codes, links, clock, uses>>

Crash(p) ==
    /\ op[p].pc # "idle"
    /\ op' = [op EXCEPT ![p] = Idle]
    /\ serial' = FALSE
    /\ UNCHANGED <<issued, codes, links, clock, log, uses>>

Tick ==
    /\ clock < MaxTime
    /\ clock' = clock + 1
    /\ UNCHANGED <<issued, codes, links, op, serial, log, uses>>

Redeeming(p) ==
    \/ \E code \in Codes, chat \in Chats : RedeemRead(p, code, chat)
    \/ RedeemCheckChat(p)
    \/ RedeemWrite(p)

Administering(p) ==
    \/ \E username \in Users : Generate(p, username)
    \/ \E chat \in Chats : RevokeRead(p, chat)
    \/ RevokeWrite(p)

Next ==
    \/ \E p \in Redeemers : Redeeming(p)
    \/ \E p \in Admins : Administering(p)
    \/ \E p \in Procs : LogAppend(p)
    \/ Tick

CrashNext == Next \/ \E p \in Procs : Crash(p)

Spec == Init /\ [][Next]_vars
CrashSpec == Init /\ [][CrashNext]_vars

-----------------------------------------------------------------------------
TypeOK ==
    /\ issued \in 0 .. MaxCodes
    /\ codes \in [Codes -> CodeRow \cup {NoRow}]
    /\ links \in [Chats -> Link \cup {NoLink}]
    /\ clock \in 0 .. MaxTime
    /\ op \in [Procs -> Ops]
    /\ log \in [Chats -> {event \in Event : event.action \in LinkActions} \cup {NoEvent}]
    /\ uses \in [Codes -> Nat]
    /\ serial \in BOOLEAN

(* generate_link_code() promises at most one live code per user: it does,  *)
(* also beside a redemption that is under way, and after a crash.          *)
LiveCodes(username) ==
    {k \in Codes : /\ codes[k] # NoRow
                   /\ codes[k].username = username
                   /\ codes[k].consumed_chat_id = NoChat}

OneLiveCode == \A username \in Users : Cardinality(LiveCodes(username)) <= 1

(* A code links one chat, once -- also when the process that redeems it    *)
(* dies, and when its row is dropped by a newer code meanwhile.            *)
CodeRedeemedOnce ==
    \A k \in Codes : uses[k] <= 1

(* Every link goes back to a code that is recorded as consumed by it, so   *)
(* that "consumed on redemption" can be read from the table.               *)
LinkHasConsumedCode ==
    \A chat \in Chats :
        links[chat] # NoLink =>
            LET row == codes[links[chat].linked_via]
            IN  /\ row # NoRow
                /\ row.consumed_chat_id = chat
                /\ row.username = links[chat].username

(* It can, as long as no two calls overlap and none dies, which is how the *)
(* tests of the package call it: a code that has made a link is not dropped*)
(* by a newer one, nor used again after a revocation.                      *)
SerialLinkHasConsumedCode == serial => LinkHasConsumedCode

(* Everything is audited: unless calls overlap or die, what the log says   *)
(* last about a chat's link is what chat_links says, but for the event a   *)
(* call is about to append.                                                *)
LogTellsLinkState ==
    serial /\ (\A p \in Procs : op[p].pc # "unlogged") =>
        \A chat \in Chats :
            IF log[chat] = NoEvent THEN links[chat] = NoLink
            ELSE IF log[chat].action = "link_revoked" THEN links[chat].revoked
            ELSE IsActive(chat) /\ links[chat].linked_via = log[chat].code

(* One user per chat: a chat that resolves to a user never comes to        *)
(* resolve to another without resolving to nobody in between.              *)
LiveLinkNotReplaced ==
    [][\A chat \in Chats :
          Resolve(chat) # NoLink => Resolve(chat)' \in {Resolve(chat), NoLink}]_vars
=============================================================================
