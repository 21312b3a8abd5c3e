---------------------------- MODULE ScopedStores ----------------------------
(***************************************************************************)
(* The stores that take a tenant scope: platform/file-storage (files, their *)
(* references), platform/analytics (usage events) and tenancy/scoped.py    *)
(* (ScopedTable, here a table of notes).  Each process has a scope of one  *)
(* tenant at a time and makes one call after the other; every write to the *)
(* disk, commit and audit event is a step of its own, and a process may    *)
(* die between any two.                                                    *)
(*                                                                         *)
(* A file is known by its number, which stands for an unguessable id and   *)
(* for its content; ids no call returned are among those one may ask for.  *)
(* rate_limit_check() enforces nothing; its caller, which makes the call   *)
(* it is meant for only if the answer allows it and records it then, is as *)
(* the README of analytics describes one.                                  *)
(***************************************************************************)
EXTENDS Naturals, Sequences, FiniteSets

CONSTANTS
    Procs,          \* processes, each with connections of its own
    Tenants,
    Refs,           \* external identifiers a file may be linked to
    Limit,          \* limit of the rate limit check
    Window,         \* window_seconds, in ticks of the clock
    MaxFiles,       \* bound on the files stored
    MaxCalls,       \* bound on the calls made
    MaxTime         \* bound on the clock

VARIABLES
    disk,       \* <root>/<tenant>/<file_id>: the tenant of each file written
    files,      \* files: the tenant of each row, by file
    refs,       \* file_references: [file, tenant, ref]
    notes,      \* the rows of a scoped table: their tenant, by row id
    usage,      \* usage_events: [tenant, at] of one user and type of event
    log,        \* the audit log: [action, tenant, item]
    got,        \* history: what the calls returned, [tenant, item, of]
    clock,
    calls,      \* history: how many calls have been made
    op,         \* the call each process is in the middle of
    lost,       \* history: the items whose call died before its event
    serial      \* history: no two calls have overlapped

storeVars ==
    <<disk, files, refs, notes, usage, log, got, clock, calls, op, lost, serial>>

ASSUME BoundsAssumption ==
    Limit \in Nat /\ Window \in Nat /\ MaxFiles \in Nat /\ MaxCalls \in Nat /\ MaxTime \in Nat

Idle == [pc |-> "idle"]
FileIds == 1 .. MaxFiles

SetOp(p, call) ==
    /\ op' = [op EXCEPT ![p] = call]
    /\ serial' = (serial /\ \A q \in Procs \ {p} : call = Idle \/ op[q] = Idle)

Begin(p, call) ==
    /\ op[p] = Idle
    /\ calls < MaxCalls
    /\ calls' = calls + 1
    /\ SetOp(p, call)

Step(p, call) == SetOp(p, call) /\ UNCHANGED calls

(* What is left to do is the event: it is appended before the call returns.*)
ToLog(action, tenant, item) ==
    [pc |-> "to_log", action |-> action, tenant |-> tenant, item |-> item]

StoreInit ==
    /\ disk = << >>
    /\ files = << >>
    /\ refs = {}
    /\ notes = << >>
    /\ usage = << >>
    /\ log = << >>
    /\ got = {}
    /\ clock = 0
    /\ calls = 0
    /\ op = [p \in Procs |-> Idle]
    /\ lost = {}
    /\ serial = TRUE

-----------------------------------------------------------------------------
(* ScopedFileStore.                                                        *)

(* store(): too much is refused before anything is written; otherwise the  *)
(* bytes come first.                                                       *)
StoreBytes(p, tenant) ==
    /\ Len(disk) < MaxFiles
    /\ disk' = Append(disk, tenant)
    /\ Begin(p, [pc |-> "bytes_written", tenant |-> tenant, file |-> Len(disk) + 1])
    /\ UNCHANGED <<files, refs, notes, usage, log, got, clock, lost>>

(* A function with one more value.                                         *)
With(f, x, value) == [y \in DOMAIN f \cup {x} |-> IF y = x THEN value ELSE f[y]]

(* Slip: the row is committed under the tenant of the last one.            *)
M_StoreRow(p) ==
    /\ op[p].pc = "bytes_written"
    /\ files' = With(files, op[p].file, disk[Len(disk)])
    /\ Step(p, ToLog("stored", op[p].tenant, <<"file", op[p].file>>))
    /\ UNCHANGED <<disk, refs, notes, usage, log, got, clock, lost>>

StoreRow(p) ==
    /\ op[p].pc = "bytes_written"
    /\ files' = With(files, op[p].file, op[p].tenant)
    /\ Step(p, ToLog("stored", op[p].tenant, <<"file", op[p].file>>))
    /\ UNCHANGED <<disk, refs, notes, usage, log, got, clock, lost>>

(* Slip: the SELECT asks for the file alone.                               *)
M_OwnedRow(tenant, file) == file \in DOMAIN files

(* _owned_row(): WHERE file_id = ? AND tenant_id = ?                       *)
OwnedRow(tenant, file) == file \in DOMAIN files /\ files[file] = tenant

(* retrieve(): an id that is malformed, unknown or another tenant's is     *)
(* denied in the same way.                                                 *)
RetrieveRow(p, tenant, file) ==
    /\ Begin(p, IF OwnedRow(tenant, file)
                  THEN [pc |-> "row_read", tenant |-> tenant, file |-> file]
                  ELSE ToLog("retrieve_denied", tenant, <<"file", file>>))
    /\ UNCHANGED <<disk, files, refs, notes, usage, log, got, clock, lost>>

(* The bytes are read from the tenant's own folder; without them there is  *)
(* an error and no event.                                                  *)
RetrieveBytes(p) ==
    /\ op[p].pc = "row_read"
    /\ IF disk[op[p].file] = op[p].tenant
         THEN Step(p, ToLog("retrieved", op[p].tenant, <<"file", op[p].file>>))
         ELSE Step(p, Idle)
    /\ UNCHANGED <<disk, files, refs, notes, usage, log, got, clock, lost>>

(* link_reference(): INSERT OR IGNORE, and an event each time.             *)
LinkRead(p, tenant, file, ref) ==
    /\ OwnedRow(tenant, file)
    /\ Begin(p, [pc |-> "linking", tenant |-> tenant, file |-> file, ref |-> ref])
    /\ UNCHANGED <<disk, files, refs, notes, usage, log, got, clock, lost>>

LinkWrite(p) ==
    /\ op[p].pc = "linking"
    /\ refs' = refs \cup {[file |-> op[p].file, tenant |-> op[p].tenant, ref |-> op[p].ref]}
    /\ Step(p, ToLog("reference_linked", op[p].tenant, <<"ref", op[p].file, op[p].ref>>))
    /\ UNCHANGED <<disk, files, notes, usage, log, got, clock, lost>>

(* Reads that are not audited: get_metadata(), list_by_tenant(),           *)
(* files_for_reference(), references_for_file().                           *)
ReadUnaudited(p, tenant) ==
    /\ Begin(p, Idle)
    /\ got' = got \cup
         {[tenant |-> tenant, item |-> <<"file", f>>, of |-> files[f]] :
             f \in {g \in DOMAIN files : OwnedRow(tenant, g)}}
         \cup {[tenant |-> tenant, item |-> <<"ref", r.file, r.ref>>, of |-> files[r.file]] :
             r \in {s \in refs : s.tenant = tenant}}
    /\ UNCHANGED <<disk, files, refs, notes, usage, log, clock, lost>>

-----------------------------------------------------------------------------
(* ScopedTable: insert() stamps the scope's tenant; all() and get() filter *)
(* by it.                                                                  *)
InsertNote(p, tenant) ==
    /\ notes' = Append(notes, tenant)
    /\ Begin(p, ToLog("scoped_insert", tenant, <<"note", Len(notes) + 1>>))
    /\ UNCHANGED <<disk, files, refs, usage, log, got, clock, lost>>

ReadNotes(p, tenant) ==
    /\ Begin(p, Idle)
    /\ got' = got \cup {[tenant |-> tenant, item |-> <<"note", n>>, of |-> notes[n]] :
                            n \in {m \in DOMAIN notes : notes[m] = tenant}}
    /\ UNCHANGED <<disk, files, refs, notes, usage, log, clock, lost>>

-----------------------------------------------------------------------------
(* AnalyticsStore.                                                         *)

(* Usage events of a tenant at the times in a set.                         *)
CountIn(tenant, times) ==
    Cardinality({i \in DOMAIN usage : usage[i].tenant = tenant /\ usage[i].at \in times})

(* count_by_type(), activity_by_user(): [start, end).                      *)
CountBetween(tenant, start, end) == CountIn(tenant, {t \in 0 .. MaxTime : start <= t /\ t < end})

(* Slip: exceeded only once the count is past the limit.                   *)
M_Exceeded(tenant, now) ==
    CountIn(tenant, {t \in 0 .. MaxTime : t + Window >= now /\ t <= now}) > Limit

(* rate_limit_check(): [now - window_seconds, now], both edges included.   *)
Exceeded(tenant, now) ==
    CountIn(tenant, {t \in 0 .. MaxTime : t + Window >= now /\ t <= now}) >= Limit

CheckLimit(p, tenant) ==
    /\ Begin(p, IF Exceeded(tenant, clock) THEN Idle
                ELSE [pc |-> "allowed", tenant |-> tenant])
    /\ UNCHANGED <<disk, files, refs, notes, usage, log, got, clock, lost>>

(* record_event(); it is not audited.                                      *)
RecordEvent(p) ==
    /\ op[p].pc = "allowed"
    /\ usage' = Append(usage, [tenant |-> op[p].tenant, at |-> clock])
    /\ Step(p, Idle)
    /\ UNCHANGED <<disk, files, refs, notes, log, got, clock, lost>>

-----------------------------------------------------------------------------
(* Slip: of what is only read there is no event.                           *)
M_Audit(p) ==
    /\ op[p].pc = "to_log"
    /\ log' = IF op[p].action = "retrieved" THEN log
              ELSE Append(log, [action |-> op[p].action, tenant |-> op[p].tenant,
                                item |-> op[p].item])
    /\ got' = IF op[p].action # "retrieved" THEN got
              ELSE got \cup {[tenant |-> op[p].tenant, item |-> <<"bytes", op[p].item[2]>>,
                              of |-> files[op[p].item[2]]]}
    /\ Step(p, Idle)
    /\ UNCHANGED <<disk, files, refs, notes, usage, clock, lost>>

(* _audit(), and the return of the call: retrieve() hands over the bytes.  *)
Audit(p) ==
    /\ op[p].pc = "to_log"
    /\ log' = Append(log, [action |-> op[p].action, tenant |-> op[p].tenant,
                           item |-> op[p].item])
    /\ got' = IF op[p].action # "retrieved" THEN got
              ELSE got \cup {[tenant |-> op[p].tenant, item |-> <<"bytes", op[p].item[2]>>,
                              of |-> files[op[p].item[2]]]}
    /\ Step(p, Idle)
    /\ UNCHANGED <<disk, files, refs, notes, usage, clock, lost>>

(* The process dies, or its append to the audit log raises.                *)
Die(p) ==
    /\ op[p] # Idle
    /\ lost' = IF op[p].pc = "to_log" THEN lost \cup {<<op[p].action, op[p].item>>} ELSE lost
    /\ Step(p, Idle)
    /\ UNCHANGED <<disk, files, refs, notes, usage, log, got, clock>>

Tick ==
    /\ clock < MaxTime
    /\ clock' = clock + 1
    /\ UNCHANGED <<disk, files, refs, notes, usage, log, got, calls, op, lost, serial>>

StoreNext ==
    \/ \E p \in Procs, tenant \in Tenants :
        \/ StoreBytes(p, tenant)
        \/ \E file \in FileIds : RetrieveRow(p, tenant, file)
        \/ \E file \in FileIds, ref \in Refs : LinkRead(p, tenant, file, ref)
        \/ ReadUnaudited(p, tenant)
        \/ InsertNote(p, tenant)
        \/ ReadNotes(p, tenant)
        \/ CheckLimit(p, tenant)
    \/ \E p \in Procs :
        \/ StoreRow(p)
        \/ RetrieveBytes(p)
        \/ LinkWrite(p)
        \/ RecordEvent(p)
        \/ Audit(p)
        \/ Die(p)
    \/ Tick

StoreSpec == StoreInit /\ [][StoreNext]_storeVars

-----------------------------------------------------------------------------
(* Nothing leaves a store but what belongs to the tenant that asks, and a  *)
(* file whose row is there has its bytes in its owner's folder, so that it *)
(* can be retrieved -- also if another process dies in the middle of a     *)
(* call, or hands out the next id meanwhile.                               *)
TenantsKeepTheirOwn ==
    /\ \A g \in got : g.of = g.tenant
    /\ \A f \in DOMAIN files : disk[f] = files[f]
    /\ \A r \in refs : r.file \in DOMAIN files /\ files[r.file] = r.tenant

Logged(action, item) ==
    \E i \in DOMAIN log : log[i].action = action /\ log[i].item = item

(* An event that is to be appended, or never will be.                      *)
Pending(action, item) ==
    \/ <<action, item>> \in lost
    \/ \E p \in Procs :
          op[p].pc = "to_log" /\ op[p].action = action /\ op[p].item = item

Recorded(action, item) == Logged(action, item) \/ Pending(action, item)

(* The trail says what happened: of every file, note and reference in the  *)
(* tables, and of every file handed out, there is an event, except while   *)
(* the call is about to append it or if it died then; and an event never   *)
(* speaks of something that is not there.                                  *)
TrailIsComplete ==
    /\ \A f \in DOMAIN files : Recorded("stored", <<"file", f>>)
    /\ \A n \in DOMAIN notes : Recorded("scoped_insert", <<"note", n>>)
    /\ \A r \in refs : Recorded("reference_linked", <<"ref", r.file, r.ref>>)
    /\ \A g \in got : g.item[1] = "bytes" => Logged("retrieved", <<"file", g.item[2]>>)
    /\ \A i \in DOMAIN log :
          CASE log[i].action \in {"stored", "retrieved"} ->
                  files[log[i].item[2]] = log[i].tenant
            [] log[i].action = "scoped_insert" -> notes[log[i].item[2]] = log[i].tenant
            [] OTHER -> TRUE

(* A limit that is asked before each call holds over every window as long  *)
(* as no two calls overlap: no half-open window, as count_by_type() counts *)
(* them, has more events than the limit.  (Two callers that both ask       *)
(* before either records go over it.)                                      *)
SerialLimitHolds ==
    serial =>
        \A tenant \in Tenants : \A start \in 0 .. MaxTime :
            CountBetween(tenant, start, start + Window + 1) <= Limit
=============================================================================
