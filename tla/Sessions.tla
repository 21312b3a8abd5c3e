------------------------------ MODULE Sessions ------------------------------
(***************************************************************************)
(* platform/session on top of platform/auth and the memberships of         *)
(* platform/tenancy: signing in with a password and a TOTP code, session   *)
(* tokens, the MFA lifecycle and password resets.                          *)
(*                                                                         *)
(* A client of Clients is a set of connections to auth.db, tenancy.db and  *)
(* audit.db and runs one call at a time.  Each SELECT and each commit is a *)
(* step; every call ends with one audit event.                             *)
(*                                                                         *)
(* Tokens, secrets and reset tokens are numbered in the order they are     *)
(* issued, which stands for their being random and distinct, and for their *)
(* fingerprints in the log.  Of a password, the model keeps how often its  *)
(* user's has been set: hash_password() salts, so that no two rows of one  *)
(* user hold the same hash, and the password somebody signs in with either *)
(* matches the row or does not.  A TOTP code is the secret and the         *)
(* time-step it was made for: two steps of the drift window are taken to   *)
(* have different codes.  The clock counts time-steps of totp.PERIOD       *)
(* seconds.  Tenancy has one tenant here, and roles are left out.  Of the  *)
(* audit log, the sessions it says are open are kept.                      *)
(***************************************************************************)
EXTENDS Integers, Sequences

CONSTANTS
    Sessioners,     \* connections that sign users in and out
    Managers,       \* connections that manage MFA enrolments and resets
    Users,          \* usernames
    SessionTtl,     \* ttl_seconds of a session, in time-steps
    ResetTtl,       \* ttl_seconds of a reset token, in time-steps
    MaxTime,        \* bound on the clock
    MaxSecrets,     \* enrolments after which none is begun
    MaxResets,      \* bound on the reset tokens
    MaxSessions,    \* bound on the session tokens
    Unknown         \* the actor of an event nobody could be named for

Clients == Sessioners \cup Managers

ASSUME TtlAssumption == SessionTtl \in Nat /\ ResetTtl \in Nat
ASSUME BoundAssumption == MaxTime \in Nat

VARIABLES
    password,   \* users: how often each password was set, 0 when not registered
    members,    \* memberships: the usernames that belong to a tenant
    mfa,        \* mfa_enrollments: [secret, last_used_step], secret 0 when off
    enrolled,   \* secrets generated so far
    resets,     \* password_reset_tokens, in the order they were minted
    sessions,   \* sessions: the rows there are
    issued,     \* session tokens issued so far
    clock,
    op,         \* the call each client is in the middle of
    log,        \* the sessions the audit log says are open
    spent,      \* history: the code accepted last from each user
    replayed,   \* history: one was accepted that was not newer than that
    serial      \* history: no call has overlapped another one, or died

history == <<spent, replayed>>
stores == <<password, members, mfa, enrolled, resets, sessions, issued>>
vars == <<stores, clock, op, log, history, serial>>

Null == -1
NoMfa == [secret |-> 0, last_used_step |-> Null]
Window == 1     \* totp.DEFAULT_WINDOW

Steps == 0 .. MaxTime + 1
Codes == [secret : Nat, step : Steps]
NoCode == [secret |-> 0, step |-> 0]
WrongCode == [secret |-> 0, step |-> 1]

(* A session's password is history: the one its owner signed in with.      *)
Session == [token : Nat, username : Users, expires_at : Nat, password : Nat]
Reset == [username : Users, expires_at : Nat, consumed : BOOLEAN]

Actions == {"login.succeeded", "login.failed", "validate.succeeded", "validate.failed",
            "logout", "mfa.enabled", "mfa.disabled", "mfa.verify_succeeded", "mfa.verify_failed",
            "password_reset.requested",
            "password_reset.redeemed", "password_reset.redeem_failed"}

Event == [action : {"login.succeeded"}, username : Users, token : Nat]
         \cup [action : Actions \ {"login.succeeded"}, username : Users \cup {Unknown},
               token : Nat]

(* given: the password or the token a call was given.  The time-step that  *)
(* matching_step() finds is the one the code was made for.                 *)
Idle == [pc |-> "idle"]
Call(pc, kind, username, given, code) ==
    [pc |-> pc, kind |-> kind, username |-> username, given |-> given, code |-> code]

Calls(pcs, kind, names) ==
    [pc : pcs, kind : {kind}, username : names, given : Nat, code : Codes]

Ops == {Idle}
       \cup Calls({"mfa", "totp", "reuse", "burn", "tenant", "token"}, "login", Users)
       \cup Calls({"totp", "reuse", "burn"}, "verify", Users)
       \cup Calls({"tenant"}, "validate", Users)
       \cup Calls({"delete"}, "logout", Users \cup {Unknown})
       \cup Calls({"insert"}, "enable", Users)
       \cup Calls({"delete"}, "disable", Users)
       \cup Calls({"password", "revoke"}, "redeem", Users)
       \cup [pc : {"unlogged"}, event : Event]

(* A step of a call.  Calls overlap while two clients are not idle.        *)
SetOp(new) ==
    /\ op' = new
    /\ serial' = (serial /\ \A c, d \in Clients : new[c] # Idle /\ new[d] # Idle => c = d)

Start(c, call) == SetOp([op EXCEPT ![c] = call])
Goto(c, pc) == SetOp([op EXCEPT ![c].pc = pc])
Ending(c, action, username, token) ==
    Start(c, [pc |-> "unlogged",
              event |-> [action |-> action, username |-> username, token |-> token]])

-----------------------------------------------------------------------------
Init ==
    /\ password = [u \in Users |-> 0]
    /\ members = {}
    /\ mfa = [u \in Users |-> NoMfa]
    /\ enrolled = 0
    /\ resets = << >>
    /\ sessions = {}
    /\ issued = 0
    /\ clock = 0
    /\ op = [c \in Clients |-> Idle]
    /\ log = {}
    /\ spent = [u \in Users |-> NoCode]
    /\ replayed = FALSE
    /\ serial = TRUE

(* AuthStore.create_user() of a new username.                              *)
CreateUser(u) ==
    /\ password[u] = 0
    /\ password' = [password EXCEPT ![u] = 1]
    /\ UNCHANGED <<members, mfa, enrolled, resets, sessions, issued, clock, op, serial, log, history>>

(* TenancyStore.assign_user(): usernames are not checked against auth.     *)
AssignUser(u) ==
    /\ u \notin members
    /\ members' = members \cup {u}
    /\ UNCHANGED <<password, mfa, enrolled, resets, sessions, issued, clock, op, serial, log, history>>

Tick ==
    /\ clock < MaxTime
    /\ clock' = clock + 1
    /\ UNCHANGED <<stores, op, serial, log, history>>

-----------------------------------------------------------------------------
(* SessionService.authenticate()                                           *)

(* verify_login(), with the password of the row or another one.            *)
SignIn(c, u, matches, code) ==
    /\ op[c].pc = "idle"
    /\ IF password[u] # 0 /\ matches
         THEN Start(c, Call("mfa", "login", u, password[u], code))
         ELSE Ending(c, "login.failed", u, 0)
    /\ UNCHANGED <<stores, clock, log, history>>

(* The factors are through: what is left needs no code.                    *)
FactorsDone(c) ==
    Start(c, Call("tenant", "login", op[c].username, op[c].given, NoCode))

(* mfa_enabled(); an account without MFA goes on, code or not.             *)
SignInMfa(c) ==
    /\ op[c].pc = "mfa"
    /\ IF mfa[op[c].username].secret = 0 THEN FactorsDone(c)
       ELSE IF op[c].code = NoCode THEN Ending(c, "login.failed", op[c].username, 0)
       ELSE Goto(c, "totp")
    /\ UNCHANGED <<stores, clock, log, history>>

(* MfaService.verify(): MfaNotEnabled is raised without an event.          *)
Verify(c, u, code) ==
    /\ op[c].pc = "idle"
    /\ mfa[u].secret # 0
    /\ Start(c, Call("totp", "verify", u, 0, code))
    /\ UNCHANGED <<stores, clock, log, history>>

TotpRefused(c) ==
    Ending(c, IF op[c].kind = "login" THEN "login.failed" ELSE "mfa.verify_failed",
           op[c].username, 0)

(* consume_totp(): get_mfa_secret() and matching_step(); without a secret  *)
(* ("not_enrolled") any code is refused.                                   *)
TotpMatch(c) ==
    /\ op[c].pc = "totp"
    /\ LET code == op[c].code
       IN  IF /\ mfa[op[c].username].secret # 0
              /\ code.secret = mfa[op[c].username].secret
              /\ code.step \in clock - Window .. clock + Window
             THEN Goto(c, "reuse")
             ELSE TotpRefused(c)
    /\ UNCHANGED <<stores, clock, log, history>>

(* Slip: only the very step used last is refused.                          *)
M_TotpReuseSameStep(c) ==
    /\ op[c].pc = "reuse"
    /\ IF op[c].code.step = mfa[op[c].username].last_used_step
         THEN TotpRefused(c)
         ELSE Goto(c, "burn")
    /\ UNCHANGED <<stores, clock, log, history>>

(* consume_totp(): SELECT last_used_step, refused up to it.                *)
TotpReuse(c) ==
    /\ op[c].pc = "reuse"
    /\ IF op[c].code.step <= mfa[op[c].username].last_used_step
         THEN TotpRefused(c)
         ELSE Goto(c, "burn")
    /\ UNCHANGED <<stores, clock, log, history>>

Accept(u, code) ==
    /\ spent' = [spent EXCEPT ![u] = code]
    /\ replayed' = \/ replayed
                   \/ spent[u].secret = code.secret /\ code.step <= spent[u].step

(* consume_totp(): UPDATE of the user's row, if there still is one.        *)
TotpBurn(c) ==
    /\ op[c].pc = "burn"
    /\ LET u == op[c].username
       IN  /\ mfa' = IF mfa[u].secret = 0 THEN mfa
                     ELSE [mfa EXCEPT ![u].last_used_step = op[c].code.step]
           /\ Accept(op[c].username, op[c].code)
           /\ IF op[c].kind = "login" THEN FactorsDone(c)
              ELSE Ending(c, "mfa.verify_succeeded", u, 0)
    /\ UNCHANGED <<password, members, enrolled, resets, sessions, issued, clock, log>>

(* Slip: the missing membership is not noticed.                            *)
M_SignInTenantAny(c) ==
    /\ op[c].pc = "tenant" /\ op[c].kind = "login"
    /\ Goto(c, "token")
    /\ UNCHANGED <<stores, clock, log, history>>

(* scope_for_user(): NO_TENANT_ASSIGNED without a membership.              *)
SignInTenant(c) ==
    /\ op[c].pc = "tenant" /\ op[c].kind = "login"
    /\ IF op[c].username \in members THEN Goto(c, "token")
       ELSE Ending(c, "login.failed", op[c].username, 0)
    /\ UNCHANGED <<stores, clock, log, history>>

(* start_session()                                                         *)
SignInToken(c) ==
    /\ op[c].pc = "token"
    /\ issued < MaxSessions
    /\ sessions' = sessions \cup
          {[token |-> issued + 1, username |-> op[c].username,
            expires_at |-> clock + SessionTtl, password |-> op[c].given]}
    /\ issued' = issued + 1
    /\ Ending(c, "login.succeeded", op[c].username, issued + 1)
    /\ UNCHANGED <<password, members, mfa, enrolled, resets, clock, log, history>>

-----------------------------------------------------------------------------
(* validate_token(): the user of a live token, the sessions row being      *)
(* there and not expired.                                                  *)
UserOf(token) ==
    LET rows == {s \in sessions : s.token = token /\ s.expires_at > clock}
    IN  IF rows = {} THEN Unknown ELSE (CHOOSE s \in rows : TRUE).username

(* SessionService.validate(): the outcome is only read and logged.  The    *)
(* membership is read a step after the token.                              *)
Validate(c, token) ==
    /\ op[c].pc = "idle"
    /\ IF UserOf(token) = Unknown THEN Ending(c, "validate.failed", Unknown, token)
       ELSE Start(c, Call("tenant", "validate", UserOf(token), token, NoCode))
    /\ UNCHANGED <<stores, clock, log, history>>

ValidateTenant(c) ==
    /\ op[c].pc = "tenant" /\ op[c].kind = "validate"
    /\ Ending(c, IF op[c].username \in members THEN "validate.succeeded" ELSE "validate.failed",
              op[c].username, op[c].given)
    /\ UNCHANGED <<stores, clock, log, history>>

(* SessionService.logout(): validate_token() names the actor, then the row *)
(* is deleted, expired or not.                                             *)
Logout(c, token) ==
    /\ op[c].pc = "idle"
    /\ Start(c, Call("delete", "logout", UserOf(token), token, NoCode))
    /\ UNCHANGED <<stores, clock, log, history>>

(* Slip: every session of the user goes.                                   *)
M_LogoutDeleteUser(c) ==
    /\ op[c].pc = "delete" /\ op[c].kind = "logout"
    /\ sessions' = {s \in sessions : s.username # op[c].username}
    /\ Ending(c, "logout", op[c].username, op[c].given)
    /\ UNCHANGED <<password, members, mfa, enrolled, resets, issued, clock, log, history>>

LogoutDelete(c) ==
    /\ op[c].pc = "delete" /\ op[c].kind = "logout"
    /\ sessions' = {s \in sessions : s.token # op[c].given}
    /\ Ending(c, "logout", op[c].username, op[c].given)
    /\ UNCHANGED <<password, members, mfa, enrolled, resets, issued, clock, log, history>>

-----------------------------------------------------------------------------
(* MfaService.enable(): UnknownUser and MfaAlreadyEnabled are raised       *)
(* without an event.                                                       *)
Enable(c, u) ==
    /\ op[c].pc = "idle"
    /\ enrolled < MaxSecrets
    /\ password[u] # 0 /\ mfa[u].secret = 0
    /\ Start(c, Call("insert", "enable", u, 0, NoCode))
    /\ UNCHANGED <<stores, clock, log, history>>

(* Slip: INSERT OR REPLACE.                                                *)
M_EnableInsertReplaces(c) ==
    /\ op[c].pc = "insert"
    /\ enrolled' = enrolled + 1
    /\ mfa' = [mfa EXCEPT ![op[c].username] =
                [secret |-> enrolled + 1, last_used_step |-> Null]]
    /\ Ending(c, "mfa.enabled", op[c].username, 0)
    /\ UNCHANGED <<password, members, resets, sessions, issued, clock, log, history>>

(* set_mfa_secret(): IntegrityError, and no event, if another connection   *)
(* has enrolled the user meanwhile.                                        *)
EnableInsert(c) ==
    /\ op[c].pc = "insert"
    /\ enrolled' = enrolled + 1
    /\ LET u == op[c].username
       IN  IF mfa[u].secret = 0
             THEN /\ mfa' = [mfa EXCEPT ![u] =
                               [secret |-> enrolled + 1, last_used_step |-> Null]]
                  /\ Ending(c, "mfa.enabled", u, 0)
             ELSE /\ Start(c, Idle)
                  /\ UNCHANGED mfa
    /\ UNCHANGED <<password, members, resets, sessions, issued, clock, log, history>>

(* MfaService.disable(): MfaNotEnabled is raised without an event.         *)
Disable(c, u) ==
    /\ op[c].pc = "idle"
    /\ mfa[u].secret # 0
    /\ Start(c, Call("delete", "disable", u, 0, NoCode))
    /\ UNCHANGED <<stores, clock, log, history>>

DisableDelete(c) ==
    /\ op[c].pc = "delete" /\ op[c].kind = "disable"
    /\ mfa' = [mfa EXCEPT ![op[c].username] = NoMfa]
    /\ Ending(c, "mfa.disabled", op[c].username, 0)
    /\ UNCHANGED <<password, members, enrolled, resets, sessions, issued, clock, log, history>>

-----------------------------------------------------------------------------
(* PasswordResetService.request_reset(): for registered users and others   *)
(* alike.                                                                  *)
RequestReset(c, u) ==
    /\ op[c].pc = "idle"
    /\ Len(resets) < MaxResets
    /\ resets' = Append(resets, [username |-> u, expires_at |-> clock + ResetTtl,
                                 consumed |-> FALSE])
    /\ Ending(c, "password_reset.requested", u, Len(resets) + 1)
    /\ UNCHANGED <<password, members, mfa, enrolled, sessions, issued, clock, log, history>>

(* consume_reset_token(): the SELECT of the token and the four checks; the *)
(* user of an unknown token, or of a user that is gone, is not logged.     *)
Redeem(c, token) ==
    /\ op[c].pc = "idle"
    /\ LET reset == resets[token]
       IN  IF reset.consumed \/ reset.expires_at <= clock
             THEN Ending(c, "password_reset.redeem_failed", reset.username, token)
           ELSE IF password[reset.username] = 0
             THEN Ending(c, "password_reset.redeem_failed", Unknown, token)
           ELSE Start(c, Call("password", "redeem", reset.username, token, NoCode))
    /\ UNCHANGED <<stores, clock, log, history>>

(* Slip: the token is not marked as used.                                  *)
M_RedeemPasswordKeepsToken(c) ==
    /\ op[c].pc = "password"
    /\ password' = [password EXCEPT ![op[c].username] = @ + 1]
    /\ Goto(c, "revoke")
    /\ UNCHANGED <<members, mfa, enrolled, resets, sessions, issued, clock, log, history>>

(* consume_reset_token(): the new password and the burned token, one       *)
(* transaction.                                                            *)
RedeemPassword(c) ==
    /\ op[c].pc = "password"
    /\ password' = [password EXCEPT ![op[c].username] = @ + 1]
    /\ resets' = [resets EXCEPT ![op[c].given].consumed = TRUE]
    /\ Goto(c, "revoke")
    /\ UNCHANGED <<members, mfa, enrolled, sessions, issued, clock, log, history>>

(* Slip: sessions that have expired are left alone.                        *)
M_RedeemRevokeLive(c) ==
    /\ op[c].pc = "revoke"
    /\ sessions' = {s \in sessions : s.username # op[c].username \/ s.expires_at <= clock}
    /\ Ending(c, "password_reset.redeemed", op[c].username, op[c].given)
    /\ UNCHANGED <<password, members, mfa, enrolled, resets, issued, clock, log, history>>

(* revoke_all_sessions_for_user(), a transaction of its own.               *)
RedeemRevoke(c) ==
    /\ op[c].pc = "revoke"
    /\ sessions' = {s \in sessions : s.username # op[c].username}
    /\ Ending(c, "password_reset.redeemed", op[c].username, op[c].given)
    /\ UNCHANGED <<password, members, mfa, enrolled, resets, issued, clock, log, history>>

-----------------------------------------------------------------------------
(* A sign-in opens a session, a logout ends it, a redeemed reset ends all  *)
(* of its user's.                                                          *)
Recorded(event) ==
    CASE event.action = "login.succeeded" ->
           log \cup {[token |-> event.token, username |-> event.username]}
      [] event.action = "logout" -> {s \in log : s.token # event.token}
      [] event.action = "password_reset.redeemed" -> {s \in log : s.username # event.username}
      [] OTHER -> log

(* Every call ends with its audit event.                                   *)
LogAppend(c) ==
    /\ op[c].pc = "unlogged"
    /\ log' = Recorded(op[c].event)
    /\ Start(c, Idle)
    /\ UNCHANGED <<stores, clock, history>>

(* The process dies, or a statement raises, between two steps of a call.   *)
Crash(c) ==
    /\ op[c].pc # "idle"
    /\ op' = [op EXCEPT ![c] = Idle]
    /\ serial' = FALSE
    /\ UNCHANGED <<stores, clock, log, history>>

(* Codes somebody may enter: none; one that matches nothing; those the     *)
(* newest secret has in the window.                                        *)
PlausibleCodes ==
    {NoCode, WrongCode} \cup
    {[secret |-> enrolled, step |-> step] :
        step \in IF enrolled = 0 THEN {} ELSE Steps \cap (clock - Window .. clock + Window)}

SigningIn(c) ==
    \/ \E u \in Users, code \in PlausibleCodes :
          \/ \E matches \in BOOLEAN : SignIn(c, u, matches, code)
          \/ Verify(c, u, code)
    \/ SignInMfa(c) \/ TotpMatch(c) \/ TotpReuse(c) \/ TotpBurn(c)
    \/ SignInTenant(c) \/ SignInToken(c)
    \/ \E token \in 1 .. issued : Validate(c, token) \/ Logout(c, token)
    \/ ValidateTenant(c) \/ LogoutDelete(c)

Managing(c) ==
    \/ \E u \in Users : Enable(c, u) \/ Disable(c, u) \/ RequestReset(c, u)
    \/ EnableInsert(c) \/ DisableDelete(c)
    \/ \E token \in DOMAIN resets : Redeem(c, token)
    \/ RedeemPassword(c) \/ RedeemRevoke(c)

Next ==
    \/ \E u \in Users : CreateUser(u) \/ AssignUser(u)
    \/ \E c \in Sessioners : SigningIn(c)
    \/ \E c \in Managers : Managing(c)
    \/ \E c \in Clients : LogAppend(c)
    \/ Tick

CrashNext == Next \/ \E c \in Clients : Crash(c)

Spec == Init /\ [][Next]_vars
CrashSpec == Init /\ [][CrashNext]_vars

-----------------------------------------------------------------------------
TypeOK ==
    /\ password \in [Users -> Nat]
    /\ members \subseteq Users
    /\ mfa \in [Users -> [secret : Nat, last_used_step : {Null} \cup Steps]]
    /\ enrolled \in Nat
    /\ resets \in Seq(Reset)
    /\ sessions \subseteq Session
    /\ issued \in Nat
    /\ clock \in 0 .. MaxTime
    /\ op \in [Clients -> Ops]
    /\ log \subseteq [token : Nat, username : Users]
    /\ spent \in [Users -> Codes]
    /\ replayed \in BOOLEAN
    /\ serial \in BOOLEAN

Opened(rows) == {[token |-> s.token, username |-> s.username] : s \in rows}

AllIdle == \A c \in Clients : op[c] = Idle

(* "A code, once accepted, burns its time-step; reusing it (or an older    *)
(* still-in-window code)" fails, whether it is given to authenticate() or  *)
(* to verify(): the steps accepted for one secret only grow, unless calls  *)
(* overlap.                                                                *)
CodesSpentInOrder == serial => ~replayed

(* Every session belongs to a member of a tenant: a sign-in that ends with *)
(* NO_TENANT_ASSIGNED or dies on the way leaves no token behind.  For any  *)
(* number of connections.                                                  *)
MembersOnlySessions == \A s \in sessions : s.username \in members

(* Between calls, no session is left that was begun with a password that   *)
(* a reset has replaced: a reset revokes every session of its user.        *)
NoSessionSurvivesReset ==
    AllIdle => \A s \in sessions : s.password = password[s.username]

(* So it is unless calls overlap or die in between.                        *)
SerialNoSessionSurvivesReset == serial => NoSessionSurvivesReset

(* The audit log accounts for the sessions table: unless calls overlap or  *)
(* die, the rows there are between calls are the tokens of successful      *)
(* sign-ins that neither a logout nor a reset of their user has ended.     *)
LogTellsSessions ==
    serial /\ AllIdle => log = Opened(sessions)

(* enable() never replaces a secret an authenticator app already holds,    *)
(* however many connections enable and disable MFA at once.                *)
SecretNeverReplaced ==
    [][\A u \in Users : mfa[u].secret # 0 => mfa'[u].secret \in {mfa[u].secret, 0}]_vars

(* A registered user's password changes only by a reset token of that      *)
(* user, which is spent in the same transaction; and, unless calls         *)
(* overlap, by one that was not spent before: a token works once.          *)
ResetTokenSpentOnce ==
    [][\A u \in Users :
          password[u] # 0 /\ password'[u] # password[u] =>
              \E t \in DOMAIN resets : /\ resets[t].username = u
                                       /\ resets'[t].consumed
                                       /\ serial => ~resets[t].consumed]_vars
=============================================================================
