------------------------------ MODULE InfraDemo ------------------------------
(***************************************************************************)
(* The infrastructure demos on the scoped stores: infra_login_demo.py      *)
(* (seeding, login, notes) and infra_unified_demo.py, which adds agent     *)
(* runs whose events it copies into the same audit log.  The browser tabs  *)
(* of one server share the files of its directory; each rerun of a script  *)
(* opens connections of its own.                                           *)
(*                                                                         *)
(* Either the processes are services that use the stores as they like, or  *)
(* they are tabs of a demo.  Passwords, tokens and their events are in     *)
(* Sessions.  A refused create_tenant() keeps SQLite's write lock only     *)
(* until the failed script's connection is gone, and is not modelled.      *)
(***************************************************************************)
EXTENDS ScopedStores

CONSTANTS
    Seed,           \* what _seed_once() does, in order: [kind, tenant]
    RunLengths      \* how many events an agent's own log may have

(* There is something to seed, and tenants come before users.              *)
ASSUME SeedAssumption ==
    /\ Seed \in Seq([kind : {"tenant", "user", "member", "note"}, tenant : Tenants])
    /\ Len(Seed) > 0 /\ Seed[1].kind = "tenant"
    /\ \A i, j \in DOMAIN Seed :
          Seed[i].kind = "tenant" /\ Seed[j].kind = "user" => i < j

VARIABLES
    program,    \* what the processes are: "services" or "tabs"
    sown,       \* how often each step of the seed took effect
    tab,        \* each tab: [at, next, tenant]
    torn        \* history: a script died while it was seeding

demoVars == <<program, sown, tab, torn>>

Closed == [at |-> "closed"]
At(p, place) == program = "tabs" /\ tab[p].at = place

DemoInit ==
    /\ StoreInit
    /\ program \in {"services", "tabs"}
    /\ sown = [i \in DOMAIN Seed |-> 0]
    /\ tab = [p \in Procs |-> Closed]
    /\ torn = FALSE

Move(p, to) == tab' = [tab EXCEPT ![p] = to] /\ UNCHANGED <<program, torn>>

(* Rows of the seed: a tenant, user or membership is there once its step   *)
(* took effect.                                                            *)
StepsOf(kind) == {i \in DOMAIN Seed : Seed[i].kind = kind}
FirstUser == CHOOSE i \in StepsOf("user") : \A j \in StepsOf("user") : i <= j

-----------------------------------------------------------------------------
(* A script starts: _Infra() opens the stores, and _seed_once() looks for  *)
(* the first user.                                                         *)
Open(p) ==
    /\ At(p, "closed") \/ At(p, "broken")
    /\ Move(p, IF sown[FirstUser] > 0 THEN [at |-> "login"] ELSE [at |-> "seeding", next |-> 1])
    /\ UNCHANGED <<storeVars, sown>>

(* Slip: a row that is there already is taken for the script's own.        *)
M_SeedRow(p) ==
    /\ At(p, "seeding") /\ tab[p].next \in DOMAIN Seed \ StepsOf("note")
    /\ sown' = [sown EXCEPT ![tab[p].next] = 1]
    /\ Move(p, [tab[p] EXCEPT !.next = @ + 1])
    /\ UNCHANGED storeVars

(* create_tenant(), create_user(), assign_user(), each committed: of what  *)
(* exists already they raise, and the script ends with a traceback.        *)
SeedRow(p) ==
    /\ At(p, "seeding") /\ tab[p].next \in DOMAIN Seed \ StepsOf("note")
    /\ LET i == tab[p].next
       IN  IF sown[i] > 0
             THEN Move(p, [at |-> "broken"]) /\ UNCHANGED sown
             ELSE /\ sown' = [sown EXCEPT ![i] = @ + 1]
                  /\ Move(p, [tab[p] EXCEPT !.next = @ + 1])
    /\ UNCHANGED storeVars

(* ScopedTable.insert() of a seeded note, in the scope of its tenant.      *)
SeedNote(p) ==
    /\ At(p, "seeding") /\ tab[p].next \in StepsOf("note")
    /\ InsertNote(p, Seed[tab[p].next].tenant)
    /\ sown' = [sown EXCEPT ![tab[p].next] = @ + 1]
    /\ Move(p, [tab[p] EXCEPT !.next = @ + 1])

Seeded(p) ==
    /\ At(p, "seeding") /\ tab[p].next = Len(Seed) + 1 /\ op[p] = Idle
    /\ Move(p, [at |-> "login"])
    /\ UNCHANGED <<storeVars, sown>>

(* render_login(): a user with a tenant; render_logged_in() needs the row  *)
(* of the tenant.                                                          *)
LogIn(p) ==
    /\ At(p, "login")
    /\ \E i \in StepsOf("member") : sown[i] > 0 /\ Move(p, [at |-> "in", tenant |-> Seed[i].tenant])
    /\ UNCHANGED <<storeVars, sown>>

(* Log out, or a session that validate() no longer accepts.                *)
LogOut(p) ==
    /\ At(p, "in") /\ op[p] = Idle
    /\ Move(p, [at |-> "login"])
    /\ UNCHANGED <<storeVars, sown>>

(* The notes of render_logged_in().                                        *)
UseNotes(p) ==
    /\ At(p, "in")
    /\ InsertNote(p, tab[p].tenant) \/ ReadNotes(p, tab[p].tenant)
    /\ UNCHANGED <<demoVars>>

-----------------------------------------------------------------------------
(* infra_unified_demo.py.                                                  *)

Append1(p, action, item) ==
    log' = Append(log, [action |-> action, tenant |-> tab[p].tenant, item |-> item])

Copying(p, run, done, all) ==
    IF done = all THEN Idle ELSE [pc |-> "copying", run |-> run, done |-> done, all |-> all]

(* An agent ran on stores of its own and left a log of so many events;     *)
(* _record_agent_run() starts with a marker that says how many.  (A run    *)
(* that raised leaves nothing.)                                            *)
RunAgent(p, all) ==
    /\ At(p, "in")
    /\ Begin(p, Copying(p, calls + 1, 0, all))
    /\ Append1(p, "agent.run", <<"run", calls + 1, all>>)
    /\ UNCHANGED <<disk, files, refs, notes, usage, got, clock, lost, demoVars>>

(* Slip: each copy is of the newest event of the agent's log.              *)
M_CopyEvent(p) ==
    /\ At(p, "in") /\ op[p].pc = "copying"
    /\ Append1(p, "agent.rerecorded", <<"event", op[p].run, op[p].all>>)
    /\ Step(p, Copying(p, op[p].run, op[p].done + 1, op[p].all))
    /\ UNCHANGED <<disk, files, refs, notes, usage, got, clock, lost, demoVars>>

(* Then a copy of each event, in its order.                                *)
CopyEvent(p) ==
    /\ At(p, "in") /\ op[p].pc = "copying"
    /\ Append1(p, "agent.rerecorded", <<"event", op[p].run, op[p].done + 1>>)
    /\ Step(p, Copying(p, op[p].run, op[p].done + 1, op[p].all))
    /\ UNCHANGED <<disk, files, refs, notes, usage, got, clock, lost, demoVars>>

(* A script dies, or something it calls raises.                            *)
EndScript(p) ==
    /\ program = "tabs" /\ tab[p] # Closed
    /\ tab' = [tab EXCEPT ![p] = Closed]
    /\ torn' = (torn \/ tab[p].at = "seeding")
    /\ IF op[p].pc = "copying"
         THEN /\ Step(p, Idle)
              /\ lost' = lost \cup {<<"agent.run", op[p].run>>}
              /\ UNCHANGED <<disk, files, refs, notes, usage, log, got, clock>>
         ELSE Die(p) \/ (op[p] = Idle /\ UNCHANGED storeVars)
    /\ UNCHANGED <<program, sown>>

DemoNext ==
    \/ program = "services" /\ StoreNext /\ UNCHANGED demoVars
    \/ \E p \in Procs :
        \/ Open(p)
        \/ SeedRow(p)
        \/ SeedNote(p)
        \/ Seeded(p)
        \/ LogIn(p)
        \/ LogOut(p)
        \/ UseNotes(p)
        \/ \E all \in RunLengths : RunAgent(p, all)
        \/ CopyEvent(p)
        \/ program = "tabs" /\ Audit(p) /\ UNCHANGED demoVars
        \/ EndScript(p)

DemoSpec == DemoInit /\ [][DemoNext]_<<storeVars, demoVars>>

-----------------------------------------------------------------------------
(* However many tabs start at once, and wherever they break off: nothing   *)
(* is seeded twice; a user is never there before the tenants, so that      *)
(* nobody signs in to a tenant without a row; and if no script died in the *)
(* middle of the seed, then once none is in it either all of it is there   *)
(* or nothing.  (After a death the demo may be stuck with what is there:   *)
(* what is left out is never made up for.)                                 *)
SeedIsSound ==
    /\ \A i \in DOMAIN Seed : sown[i] <= 1
    /\ \A i \in StepsOf("user"), j \in StepsOf("tenant") : sown[i] > 0 => sown[j] > 0
    /\ ~torn /\ (\A p \in Procs : tab[p].at # "seeding") =>
          Cardinality({sown[i] : i \in DOMAIN Seed}) <= 1

(* What the combined activity log tells of an agent run: its copies follow *)
(* its marker, each once and in their own order -- a copy's number says    *)
(* how many events of the run come before it -- under the marker's tenant, *)
(* whatever other tabs write in between; they are as many as the marker    *)
(* says unless the script has not come to the end, or died before it.      *)
IsOfRun(event) == event.action \in {"agent.run", "agent.rerecorded"}
EventsOfRun(run) == {i \in DOMAIN log : IsOfRun(log[i]) /\ log[i].item[2] = run}
Before(i) == {j \in EventsOfRun(log[i].item[2]) : j < i}

CopiesFollowMarker ==
    \A m \in DOMAIN log : IsOfRun(log[m]) /\ Before(m) = {} =>
        LET run == log[m].item[2]
            all == log[m].item[3]
        IN  /\ log[m].action = "agent.run"
            /\ \A i \in EventsOfRun(run) \ {m} :
                  /\ log[i].action = "agent.rerecorded"
                  /\ log[i].item = <<"event", run, Cardinality(Before(i))>>
                  /\ log[i].tenant = log[m].tenant
            /\ \/ Cardinality(EventsOfRun(run)) = all + 1
               \/ <<"agent.run", run>> \in lost
               \/ \E p \in Procs : op[p].pc = "copying" /\ op[p].run = run
=============================================================================
