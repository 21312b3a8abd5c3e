-------------------------- MODULE InfraDemo_proofs --------------------------
(***************************************************************************)
(* Proofs about the scoped stores and the demos on them, for any number of *)
(* processes, tenants, files and calls, and whoever dies wherever: what a  *)
(* tenant gets is its own, and the trail tells what happened.              *)
(*                                                                         *)
(* Tables only grow, and a row never changes.  So what a process has read  *)
(* or written of its call in progress (OpSound) stays true while others    *)
(* move, and so does what is on the log (TrueOf).  The seed of a demo, the *)
(* limit that is asked before a call, and the copies of an agent's events  *)
(* follow, each with an invariant of its own.                              *)
(***************************************************************************)
EXTENDS InfraDemo, SequenceTheorems, FiniteSetTheorems, TLAPS

Rows(s) == s \in Seq({s[i] : i \in DOMAIN s})

LEMMA RowsAppend ==
    ASSUME NEW s, NEW x, Rows(s)
    PROVE  /\ Rows(Append(s, x))
           /\ Len(s) \in Nat /\ DOMAIN s = 1 .. Len(s)
           /\ DOMAIN Append(s, x) = DOMAIN s \cup {Len(s) + 1}
           /\ Append(s, x)[Len(s) + 1] = x
           /\ \A i \in DOMAIN s : Append(s, x)[i] = s[i] /\ i # Len(s) + 1
<1> DEFINE S == {s[i] : i \in DOMAIN s} \cup {x}
<1>1. s \in Seq(S) /\ x \in S
    BY DEF Rows
<1> HIDE DEF S
<1>2. Len(s) \in Nat /\ DOMAIN s = 1 .. Len(s)
    BY <1>1
<1>3. /\ Append(s, x) \in Seq(S)
      /\ Len(Append(s, x)) = Len(s) + 1
      /\ Append(s, x)[Len(s) + 1] = x
      /\ \A i \in 1 .. Len(s) : Append(s, x)[i] = s[i]
    BY <1>1, AppendProperties
<1>4. DOMAIN Append(s, x) = 1 .. Len(s) + 1
    BY <1>3
<1> DEFINE t == Append(s, x)
<1>5. t \in [1 .. Len(s) + 1 -> S]
    BY <1>3, <1>4, ElementOfSeq, LenProperties
<1>6. t \in [1 .. Len(s) + 1 -> {t[i] : i \in DOMAIN t}]
    BY <1>4, <1>5
<1>7. \A T : t \in [1 .. Len(s) + 1 -> T] => t \in Seq(T)
    <2> HIDE DEF t
    <2> QED BY <1>2, SeqDef
<1>8. Rows(t)
    <2> HIDE DEF t
    <2> QED BY <1>6, <1>7 DEF Rows
<1> QED BY <1>2, <1>3, <1>4, <1>8

LEMMA NoRows == Rows(<< >>) /\ DOMAIN << >> = {}
<1>1. << >> \in Seq({<< >>[i] : i \in DOMAIN << >>})
    BY EmptySeq
<1> QED BY <1>1 DEF Rows

-----------------------------------------------------------------------------
(* An event of this form is about rows that are there, and its tenant is   *)
(* theirs.                                                                 *)
TrueOf(action, tenant, item) ==
    /\ action \in {"stored", "retrieved"} =>
          item = <<"file", item[2]>> /\ OwnedRow(tenant, item[2])
    /\ action = "scoped_insert" =>
          item[2] \in DOMAIN notes /\ notes[item[2]] = tenant

(* What a process knows in the middle of a call.                           *)
OpSound(o) ==
    /\ o.pc = "bytes_written" => o.file \in DOMAIN disk /\ disk[o.file] = o.tenant
    /\ o.pc \in {"row_read", "linking"} => OwnedRow(o.tenant, o.file)
    /\ o.pc = "to_log" => TrueOf(o.action, o.tenant, o.item)

Tables == Rows(disk) /\ Rows(notes) /\ Rows(log) /\ DOMAIN files \subseteq DOMAIN disk

CallsSound == DOMAIN op = Procs /\ \A p \in Procs : OpSound(op[p])

LogSound == \A i \in DOMAIN log : TrueOf(log[i].action, log[i].tenant, log[i].item)

RowsRecorded ==
    /\ \A f \in DOMAIN files : Recorded("stored", <<"file", f>>)
    /\ \A n \in DOMAIN notes : Recorded("scoped_insert", <<"note", n>>)
    /\ \A r \in refs : Recorded("reference_linked", <<"ref", r.file, r.ref>>)
    /\ \A g \in got : g.item[1] = "bytes" => Logged("retrieved", <<"file", g.item[2]>>)

StoreInv == Tables /\ CallsSound /\ LogSound /\ TenantsKeepTheirOwn /\ RowsRecorded

LEMMA StoreInvGives ==
    ASSUME StoreInv
    PROVE  TenantsKeepTheirOwn /\ TrailIsComplete
BY DEF StoreInv, LogSound, RowsRecorded, TrailIsComplete, TrueOf, OwnedRow

-----------------------------------------------------------------------------
(* Tables and histories only grow.                                         *)
Extends(new, old) == DOMAIN old \subseteq DOMAIN new /\ \A x \in DOMAIN old : new[x] = old[x]

Grows ==
    /\ Extends(disk', disk) /\ Extends(files', files) /\ Extends(notes', notes)
    /\ Extends(log', log)
    /\ refs \subseteq refs' /\ got \subseteq got' /\ lost \subseteq lost'

(* What is new in a step is as it should be.                               *)
NewIsSound ==
    /\ Tables'
    /\ \A f \in DOMAIN files' \ DOMAIN files :
          disk'[f] = files'[f] /\ Recorded("stored", <<"file", f>>)'
    /\ \A n \in DOMAIN notes' \ DOMAIN notes : Recorded("scoped_insert", <<"note", n>>)'
    /\ \A r \in refs' \ refs : /\ r.file \in DOMAIN files' /\ files'[r.file] = r.tenant
                               /\ Recorded("reference_linked", <<"ref", r.file, r.ref>>)'
    /\ \A g \in got' \ got : /\ g.of = g.tenant
                             /\ g.item[1] = "bytes" =>
                                   Logged("retrieved", <<"file", g.item[2]>>)'
    /\ \A i \in DOMAIN log' \ DOMAIN log :
          TrueOf(log[i].action, log[i].tenant, log[i].item)'

LEMMA TrueStays ==
    ASSUME Grows, NEW action, NEW tenant, NEW item, TrueOf(action, tenant, item)
    PROVE  TrueOf(action, tenant, item)'
BY DEF Grows, Extends, TrueOf, OwnedRow

LEMMA OpStays ==
    ASSUME Grows, NEW o, OpSound(o)
    PROVE  OpSound(o)'
<1>1. o.pc = "to_log" => TrueOf(o.action, o.tenant, o.item)'
    BY TrueStays DEF OpSound
<1>2. o.pc \in {"row_read", "linking"} => OwnedRow(o.tenant, o.file)'
    BY DEF OpSound, Grows, Extends, OwnedRow
<1>3. o.pc = "bytes_written" => o.file \in DOMAIN disk' /\ disk'[o.file] = o.tenant
    BY DEF OpSound, Grows, Extends
<1> QED BY <1>1, <1>2, <1>3 DEF OpSound

LEMMA LoggedStays ==
    ASSUME Grows, NEW action, NEW item, Logged(action, item)
    PROVE  Logged(action, item)'
BY DEF Grows, Extends, Logged

(* A step of one process that adds sound rows and leaves no event behind.  *)
LEMMA Preserved ==
    ASSUME StoreInv, Grows, NewIsSound,
           NEW p \in Procs, NEW o, op' = [op EXCEPT ![p] = o], OpSound(o)',
           NEW was, was = op[p],
           was.pc = "to_log" =>
              Logged(was.action, was.item)' \/ <<was.action, was.item>> \in lost'
    PROVE  StoreInv'
<1>1. /\ DOMAIN op = Procs /\ DOMAIN op' = Procs /\ op'[p] = o
      /\ \A q \in Procs \ {p} : op'[q] = op[q]
    BY DEF StoreInv, CallsSound
<1>2. CallsSound'
    <2> SUFFICES ASSUME NEW q \in Procs
                 PROVE  OpSound(op[q])'
        BY <1>1 DEF CallsSound
    <2>1. CASE q = p
        BY <1>1, <2>1
    <2>2. CASE q # p
        <3>1. PICK r : r = op[q]
            OBVIOUS
        <3>2. OpSound(r)'
            BY <3>1, OpStays DEF StoreInv, CallsSound
        <3> QED BY <1>1, <2>2, <3>1, <3>2
    <2> QED BY <2>1, <2>2
<1>3. LogSound'
    <2> SUFFICES ASSUME NEW i \in DOMAIN log'
                 PROVE  TrueOf(log[i].action, log[i].tenant, log[i].item)'
        BY DEF LogSound
    <2>1. CASE i \in DOMAIN log
        <3>1. PICK e : e = log[i]
            OBVIOUS
        <3>2. TrueOf(e.action, e.tenant, e.item)'
            BY <2>1, <3>1, TrueStays DEF StoreInv, LogSound
        <3>3. log'[i] = e
            BY <2>1, <3>1 DEF Grows, Extends
        <3> QED BY <3>2, <3>3
    <2>2. CASE i \notin DOMAIN log
        BY <2>2 DEF NewIsSound
    <2> QED BY <2>1, <2>2
<1>4. TenantsKeepTheirOwn'
    BY DEF StoreInv, Tables, TenantsKeepTheirOwn, NewIsSound, Grows, Extends
<1>5. ASSUME NEW action, NEW item, Recorded(action, item)
      PROVE  Recorded(action, item)'
    <2>1. CASE Logged(action, item)
        BY <2>1, LoggedStays DEF Recorded
    <2>2. CASE <<action, item>> \in lost
        BY <2>2 DEF Recorded, Pending, Grows
    <2>3. ASSUME NEW q \in Procs,
                 op[q].pc = "to_log" /\ op[q].action = action /\ op[q].item = item
          PROVE  Recorded(action, item)'
        <3>1. CASE q = p
            BY <2>3, <3>1 DEF Recorded, Pending
        <3>2. CASE q # p
            BY <1>1, <2>3, <3>2 DEF Recorded, Pending
        <3> QED BY <3>1, <3>2
    <2> QED BY <1>5, <2>1, <2>2, <2>3 DEF Recorded, Pending
<1>6. RowsRecorded'
    <2>1. ASSUME NEW f \in DOMAIN files'
          PROVE  Recorded("stored", <<"file", f>>)'
        BY <1>5 DEF StoreInv, RowsRecorded, NewIsSound
    <2>2. ASSUME NEW n \in DOMAIN notes'
          PROVE  Recorded("scoped_insert", <<"note", n>>)'
        BY <1>5 DEF StoreInv, RowsRecorded, NewIsSound
    <2>3. ASSUME NEW r \in refs'
          PROVE  Recorded("reference_linked", <<"ref", r.file, r.ref>>)'
        BY <1>5 DEF StoreInv, RowsRecorded, NewIsSound
    <2>4. ASSUME NEW g \in got', g.item[1] = "bytes"
          PROVE  Logged("retrieved", <<"file", g.item[2]>>)'
        BY <2>4, LoggedStays DEF StoreInv, RowsRecorded, NewIsSound
    <2> QED BY <2>1, <2>2, <2>3, <2>4 DEF RowsRecorded
<1>7. Tables'
    BY DEF NewIsSound
<1> QED BY <1>2, <1>3, <1>4, <1>6, <1>7 DEF StoreInv

-----------------------------------------------------------------------------
(* Steps that leave the tables and the histories alone.                    *)
LEMMA Still ==
    ASSUME StoreInv, UNCHANGED <<disk, files, refs, notes, log, got, op, lost>>
    PROVE  StoreInv'
<1>1. Tables' /\ CallsSound' /\ LogSound' /\ TenantsKeepTheirOwn'
    BY DEF StoreInv, Tables, Rows, CallsSound, OpSound, LogSound, TrueOf, OwnedRow,
           TenantsKeepTheirOwn
<1>2. \A action, item : Recorded(action, item)' <=> Recorded(action, item)
    BY DEF Recorded, Logged, Pending
<1>3. \A action, item : Logged(action, item)' <=> Logged(action, item)
    BY DEF Logged
<1>4. RowsRecorded'
    BY <1>2, <1>3 DEF StoreInv, RowsRecorded
<1> QED BY <1>1, <1>4 DEF StoreInv

Quiet == UNCHANGED <<disk, files, refs, notes, log, got, lost>>

LEMMA QuietStep ==
    ASSUME StoreInv, Quiet, NEW p \in Procs, NEW o, op' = [op EXCEPT ![p] = o],
           OpSound(o)', op[p].pc # "to_log"
    PROVE  StoreInv'
<1>1. Grows
    BY DEF Quiet, Grows, Extends
<1>2. NewIsSound
    BY DEF Quiet, NewIsSound, StoreInv, Tables, Rows
<1>3. PICK was : was = op[p]
    OBVIOUS
<1> QED BY <1>1, <1>2, <1>3, Preserved

LEMMA StoreBytesStep ==
    ASSUME StoreInv, NEW p \in Procs, NEW tenant, StoreBytes(p, tenant)
    PROVE  StoreInv'
<1>1. PICK file : file = Len(disk) + 1
    OBVIOUS
<1>2. PICK o : o = [pc |-> "bytes_written", tenant |-> tenant, file |-> file]
    OBVIOUS
<1>3. /\ op[p] = Idle /\ op' = [op EXCEPT ![p] = o]
      /\ disk' = Append(disk, tenant) /\ UNCHANGED <<files, refs, notes, log, got, lost>>
    BY <1>1, <1>2 DEF StoreBytes, Begin, SetOp
<1>4. /\ Rows(disk') /\ Extends(disk', disk)
      /\ file \in DOMAIN disk' /\ disk'[file] = tenant
    BY <1>1, <1>3, RowsAppend DEF StoreInv, Tables, Extends
<1>5. Grows
    BY <1>3, <1>4 DEF Grows, Extends
<1>6. NewIsSound
    <2>1. Tables'
        BY <1>3, <1>4 DEF StoreInv, Tables, Rows, Extends
    <2> QED BY <1>3, <2>1 DEF NewIsSound
<1>7. OpSound(o)'
    BY <1>2, <1>4 DEF OpSound
<1>8. PICK was : was = op[p]
    OBVIOUS
<1>9. was.pc # "to_log"
    BY <1>3, <1>8 DEF Idle
<1> QED BY <1>3, <1>5, <1>6, <1>7, <1>8, <1>9, Preserved

LEMMA StoreRowStep ==
    ASSUME StoreInv, NEW p \in Procs, StoreRow(p)
    PROVE  StoreInv'
<1>1. PICK was : was = op[p]
    OBVIOUS
<1>2. PICK o : o = ToLog("stored", was.tenant, <<"file", was.file>>)
    OBVIOUS
<1>3. /\ was.pc = "bytes_written" /\ op' = [op EXCEPT ![p] = o]
      /\ files' = With(files, was.file, was.tenant)
      /\ UNCHANGED <<disk, refs, notes, log, got, lost>>
    BY <1>1, <1>2 DEF StoreRow, Step, SetOp
<1>4. was.file \in DOMAIN disk /\ disk[was.file] = was.tenant
    BY <1>1, <1>3 DEF StoreInv, CallsSound, OpSound
<1>5. /\ DOMAIN files' = DOMAIN files \cup {was.file}
      /\ files'[was.file] = was.tenant
      /\ \A f \in DOMAIN files : f # was.file => files'[f] = files[f]
    BY <1>3 DEF With
<1>6. was.file \in DOMAIN files => files[was.file] = was.tenant
    BY <1>4 DEF StoreInv, TenantsKeepTheirOwn
<1>7. Grows
    BY <1>3, <1>5, <1>6 DEF Grows, Extends
<1>8. op'[p] = o /\ p \in Procs
    BY <1>3 DEF StoreInv, CallsSound
<1>9. Recorded("stored", <<"file", was.file>>)'
    BY <1>2, <1>8 DEF Recorded, Pending, ToLog
<1>10. NewIsSound
    <2>1. Tables'
        BY <1>3, <1>4, <1>5 DEF StoreInv, Tables, Rows
    <2> QED BY <1>3, <1>4, <1>5, <1>9, <2>1 DEF NewIsSound
<1>11. OpSound(o)'
    BY <1>2, <1>5 DEF OpSound, ToLog, TrueOf, OwnedRow
<1> QED BY <1>1, <1>3, <1>7, <1>10, <1>11, Preserved

LEMMA RetrieveRowStep ==
    ASSUME StoreInv, NEW p \in Procs, NEW tenant, NEW file, RetrieveRow(p, tenant, file)
    PROVE  StoreInv'
<1>1. PICK o : o = IF OwnedRow(tenant, file)
                     THEN [pc |-> "row_read", tenant |-> tenant, file |-> file]
                     ELSE ToLog("retrieve_denied", tenant, <<"file", file>>)
    OBVIOUS
<1>2. op[p] = Idle /\ op' = [op EXCEPT ![p] = o] /\ Quiet
    BY <1>1 DEF RetrieveRow, Begin, SetOp, Quiet
<1>3. OpSound(o)'
    BY <1>1, <1>2 DEF OpSound, Quiet, ToLog, TrueOf, OwnedRow
<1>4. op[p].pc # "to_log"
    BY <1>2 DEF Idle
<1> QED BY <1>2, <1>3, <1>4, QuietStep

LEMMA RetrieveBytesStep ==
    ASSUME StoreInv, NEW p \in Procs, RetrieveBytes(p)
    PROVE  StoreInv'
<1>1. PICK was : was = op[p]
    OBVIOUS
<1>2. PICK o : o = IF disk[was.file] = was.tenant
                     THEN ToLog("retrieved", was.tenant, <<"file", was.file>>)
                     ELSE Idle
    OBVIOUS
<1>3. was.pc = "row_read" /\ op' = [op EXCEPT ![p] = o] /\ Quiet
    BY <1>1, <1>2 DEF RetrieveBytes, Step, SetOp, Quiet
<1>4. OwnedRow(was.tenant, was.file)
    BY <1>1, <1>3 DEF StoreInv, CallsSound, OpSound
<1>5. OpSound(o)'
    BY <1>2, <1>3, <1>4 DEF OpSound, Quiet, ToLog, Idle, TrueOf, OwnedRow
<1> QED BY <1>1, <1>3, <1>5, QuietStep

LEMMA LinkReadStep ==
    ASSUME StoreInv, NEW p \in Procs, NEW tenant, NEW file, NEW ref,
           LinkRead(p, tenant, file, ref)
    PROVE  StoreInv'
<1>1. PICK o : o = [pc |-> "linking", tenant |-> tenant, file |-> file, ref |-> ref]
    OBVIOUS
<1>2. op[p] = Idle /\ op' = [op EXCEPT ![p] = o] /\ Quiet /\ OwnedRow(tenant, file)
    BY <1>1 DEF LinkRead, Begin, SetOp, Quiet
<1>3. OpSound(o)'
    BY <1>1, <1>2 DEF OpSound, Quiet, OwnedRow
<1>4. op[p].pc # "to_log"
    BY <1>2 DEF Idle
<1> QED BY <1>2, <1>3, <1>4, QuietStep

LEMMA LinkWriteStep ==
    ASSUME StoreInv, NEW p \in Procs, LinkWrite(p)
    PROVE  StoreInv'
<1>1. PICK was : was = op[p]
    OBVIOUS
<1>2. PICK o : o = ToLog("reference_linked", was.tenant, <<"ref", was.file, was.ref>>)
    OBVIOUS
<1>3. PICK r : r = [file |-> was.file, tenant |-> was.tenant, ref |-> was.ref]
    OBVIOUS
<1>4. /\ was.pc = "linking" /\ op' = [op EXCEPT ![p] = o]
      /\ refs' = refs \cup {r}
      /\ UNCHANGED <<disk, files, notes, log, got, lost>>
    BY <1>1, <1>2, <1>3 DEF LinkWrite, Step, SetOp
<1>5. OwnedRow(was.tenant, was.file)
    BY <1>1, <1>4 DEF StoreInv, CallsSound, OpSound
<1>6. Grows
    BY <1>4 DEF Grows, Extends
<1>7. op'[p] = o
    BY <1>4 DEF StoreInv, CallsSound
<1>8. Recorded("reference_linked", <<"ref", r.file, r.ref>>)'
    BY <1>2, <1>3, <1>7 DEF Recorded, Pending, ToLog
<1>9. NewIsSound
    <2>1. Tables'
        BY <1>4 DEF StoreInv, Tables, Rows
    <2> QED BY <1>3, <1>4, <1>5, <1>8, <2>1 DEF NewIsSound, OwnedRow
<1>10. OpSound(o)'
    BY <1>2 DEF OpSound, ToLog, TrueOf
<1> QED BY <1>1, <1>4, <1>6, <1>9, <1>10, Preserved

(* Reads that leave no event: what they add to got, none of it bytes.      *)
LEMMA ReadStep ==
    ASSUME StoreInv, NEW p \in Procs, op[p] = Idle, op' = [op EXCEPT ![p] = Idle],
           UNCHANGED <<disk, files, refs, notes, log, lost>>,
           got \subseteq got',
           \A g \in got' \ got : g.of = g.tenant /\ g.item[1] # "bytes"
    PROVE  StoreInv'
<1>1. Grows
    BY DEF Grows, Extends
<1>2. NewIsSound
    <2>1. Tables'
        BY DEF StoreInv, Tables, Rows
    <2> QED BY <2>1 DEF NewIsSound
<1>3. PICK o, was : o = Idle /\ was = op[p]
    OBVIOUS
<1>4. OpSound(o)'
    BY <1>3 DEF OpSound, Idle
<1>5. was.pc # "to_log"
    BY <1>3 DEF Idle
<1> QED BY <1>1, <1>2, <1>3, <1>4, <1>5, Preserved

LEMMA ReadUnauditedStep ==
    ASSUME StoreInv, NEW p \in Procs, NEW tenant, ReadUnaudited(p, tenant)
    PROVE  StoreInv'
<1>1. /\ op[p] = Idle /\ op' = [op EXCEPT ![p] = Idle]
      /\ UNCHANGED <<disk, files, refs, notes, log, lost>> /\ got \subseteq got'
    BY DEF ReadUnaudited, Begin, SetOp
<1>2. ASSUME NEW g \in got' \ got
      PROVE  g.of = g.tenant /\ g.item[1] # "bytes"
    <2>1. CASE \E f \in DOMAIN files :
                  /\ OwnedRow(tenant, f)
                  /\ g = [tenant |-> tenant, item |-> <<"file", f>>, of |-> files[f]]
        BY <2>1 DEF OwnedRow
    <2>2. CASE \E r \in refs :
                  /\ r.tenant = tenant
                  /\ g = [tenant |-> tenant, item |-> <<"ref", r.file, r.ref>>,
                          of |-> files[r.file]]
        BY <2>2 DEF StoreInv, TenantsKeepTheirOwn
    <2> QED BY <1>2, <2>1, <2>2 DEF ReadUnaudited
<1> QED BY <1>1, <1>2, ReadStep

LEMMA ReadNotesStep ==
    ASSUME StoreInv, NEW p \in Procs, NEW tenant, ReadNotes(p, tenant)
    PROVE  StoreInv'
<1>1. /\ op[p] = Idle /\ op' = [op EXCEPT ![p] = Idle]
      /\ UNCHANGED <<disk, files, refs, notes, log, lost>> /\ got \subseteq got'
    BY DEF ReadNotes, Begin, SetOp
<1>2. ASSUME NEW g \in got' \ got
      PROVE  g.of = g.tenant /\ g.item[1] # "bytes"
    <2>1. PICK n \in DOMAIN notes :
             /\ notes[n] = tenant
             /\ g = [tenant |-> tenant, item |-> <<"note", n>>, of |-> notes[n]]
        BY <1>2 DEF ReadNotes
    <2> QED BY <2>1
<1> QED BY <1>1, <1>2, ReadStep

LEMMA InsertNoteStep ==
    ASSUME StoreInv, NEW p \in Procs, NEW tenant, InsertNote(p, tenant)
    PROVE  StoreInv'
<1>1. PICK n : n = Len(notes) + 1
    OBVIOUS
<1>2. PICK o : o = ToLog("scoped_insert", tenant, <<"note", n>>)
    OBVIOUS
<1>3. /\ op[p] = Idle /\ op' = [op EXCEPT ![p] = o]
      /\ notes' = Append(notes, tenant)
      /\ UNCHANGED <<disk, files, refs, log, got, lost>>
    BY <1>1, <1>2 DEF InsertNote, Begin, SetOp
<1>4. /\ Rows(notes') /\ Extends(notes', notes)
      /\ DOMAIN notes' = DOMAIN notes \cup {n} /\ notes'[n] = tenant
    BY <1>1, <1>3, RowsAppend DEF StoreInv, Tables, Extends
<1>5. Grows
    BY <1>3, <1>4 DEF Grows, Extends
<1>6. op'[p] = o
    BY <1>3 DEF StoreInv, CallsSound
<1>7. Recorded("scoped_insert", <<"note", n>>)'
    BY <1>2, <1>6 DEF Recorded, Pending, ToLog
<1>8. NewIsSound
    <2>1. Tables'
        BY <1>3, <1>4 DEF StoreInv, Tables, Rows
    <2> QED BY <1>3, <1>4, <1>7, <2>1 DEF NewIsSound
<1>9. OpSound(o)'
    BY <1>2, <1>4 DEF OpSound, ToLog, TrueOf
<1>10. PICK was : was = op[p]
    OBVIOUS
<1>11. was.pc # "to_log"
    BY <1>3, <1>10 DEF Idle
<1> QED BY <1>3, <1>5, <1>8, <1>9, <1>10, <1>11, Preserved

LEMMA CheckLimitStep ==
    ASSUME StoreInv, NEW p \in Procs, NEW tenant, CheckLimit(p, tenant)
    PROVE  StoreInv'
<1>1. PICK o : o = IF Exceeded(tenant, clock) THEN Idle
                   ELSE [pc |-> "allowed", tenant |-> tenant]
    OBVIOUS
<1>2. op[p] = Idle /\ op' = [op EXCEPT ![p] = o] /\ Quiet
    BY <1>1 DEF CheckLimit, Begin, SetOp, Quiet
<1>3. OpSound(o)'
    BY <1>1 DEF OpSound, Idle
<1>4. op[p].pc # "to_log"
    BY <1>2 DEF Idle
<1> QED BY <1>2, <1>3, <1>4, QuietStep

LEMMA RecordEventStep ==
    ASSUME StoreInv, NEW p \in Procs, RecordEvent(p)
    PROVE  StoreInv'
<1>1. PICK o : o = Idle
    OBVIOUS
<1>2. op[p].pc = "allowed" /\ op' = [op EXCEPT ![p] = o] /\ Quiet
    BY <1>1 DEF RecordEvent, Step, SetOp, Quiet
<1>3. OpSound(o)'
    BY <1>1 DEF OpSound, Idle
<1> QED BY <1>2, <1>3, QuietStep

(* One event more on the log.                                              *)
LEMMA LogGrows ==
    ASSUME StoreInv, NEW e, log' = Append(log, e)
    PROVE  /\ Rows(log') /\ Extends(log', log)
           /\ Logged(e.action, e.item)'
           /\ \A i \in DOMAIN log' \ DOMAIN log : log'[i] = e
BY RowsAppend DEF StoreInv, Tables, Extends, Logged

LEMMA AuditStep ==
    ASSUME StoreInv, NEW p \in Procs, Audit(p)
    PROVE  StoreInv'
<1>1. PICK was, o : was = op[p] /\ o = Idle
    OBVIOUS
<1>2. PICK e : e = [action |-> was.action, tenant |-> was.tenant, item |-> was.item]
    OBVIOUS
<1>3. /\ was.pc = "to_log" /\ op' = [op EXCEPT ![p] = o]
      /\ log' = Append(log, e)
      /\ UNCHANGED <<disk, files, refs, notes, lost>>
    BY <1>1, <1>2 DEF Audit, Step, SetOp
<1>4. got' = IF was.action # "retrieved" THEN got
             ELSE got \cup {[tenant |-> was.tenant, item |-> <<"bytes", was.item[2]>>,
                             of |-> files[was.item[2]]]}
    BY <1>1 DEF Audit
<1>5. TrueOf(was.action, was.tenant, was.item)
    BY <1>1, <1>3 DEF StoreInv, CallsSound, OpSound
<1>6. /\ Rows(log') /\ Extends(log', log)
      /\ Logged(was.action, was.item)'
      /\ \A i \in DOMAIN log' \ DOMAIN log : log'[i] = e
    BY <1>2, <1>3, LogGrows
<1>7. Grows
    BY <1>3, <1>4, <1>6 DEF Grows, Extends
<1>8. NewIsSound
    <2>1. Tables'
        BY <1>3, <1>6 DEF StoreInv, Tables, Rows
    <2>2. ASSUME NEW g \in got' \ got
          PROVE  /\ g.of = g.tenant
                 /\ Logged("retrieved", <<"file", g.item[2]>>)'
        <3>1. /\ was.action = "retrieved"
              /\ g = [tenant |-> was.tenant, item |-> <<"bytes", was.item[2]>>,
                      of |-> files[was.item[2]]]
            BY <1>4, <2>2
        <3>2. was.item = <<"file", was.item[2]>> /\ files[was.item[2]] = was.tenant
            BY <1>5, <3>1 DEF TrueOf, OwnedRow
        <3>3. g.item[2] = was.item[2]
            BY <3>1
        <3> QED BY <1>6, <3>1, <3>2, <3>3
    <2>3. ASSUME NEW i \in DOMAIN log' \ DOMAIN log
          PROVE  TrueOf(log[i].action, log[i].tenant, log[i].item)'
        <3>1. TrueOf(was.action, was.tenant, was.item)'
            BY <1>5, <1>7, TrueStays
        <3>2. log'[i] = e
            BY <1>6, <2>3
        <3> QED BY <1>2, <3>1, <3>2
    <2> QED BY <1>3, <2>1, <2>2, <2>3 DEF NewIsSound
<1>9. OpSound(o)'
    BY <1>1 DEF OpSound, Idle
<1> QED BY <1>1, <1>3, <1>6, <1>7, <1>8, <1>9, Preserved

(* A process breaks off its call: the event it had pending is lost.        *)
LEMMA BreakOffStep ==
    ASSUME StoreInv, NEW p \in Procs, op' = [op EXCEPT ![p] = Idle],
           UNCHANGED <<disk, files, refs, notes, log, got>>, lost \subseteq lost',
           op[p].pc = "to_log" => <<op[p].action, op[p].item>> \in lost'
    PROVE  StoreInv'
<1>1. PICK was, o : was = op[p] /\ o = Idle
    OBVIOUS
<1>2. Grows
    BY DEF Grows, Extends
<1>3. NewIsSound
    <2>1. Tables'
        BY DEF StoreInv, Tables, Rows
    <2> QED BY <2>1 DEF NewIsSound
<1>4. OpSound(o)'
    BY <1>1 DEF OpSound, Idle
<1>5. op' = [op EXCEPT ![p] = o]
    BY <1>1
<1>6. was.pc = "to_log" => <<was.action, was.item>> \in lost'
    BY <1>1
<1> QED BY <1>1, <1>2, <1>3, <1>4, <1>5, <1>6, Preserved

LEMMA DieStep ==
    ASSUME StoreInv, NEW p \in Procs, Die(p)
    PROVE  StoreInv'
<1>1. /\ op' = [op EXCEPT ![p] = Idle]
      /\ UNCHANGED <<disk, files, refs, notes, log, got>>
      /\ lost \subseteq lost'
      /\ op[p].pc = "to_log" => <<op[p].action, op[p].item>> \in lost'
    BY DEF Die, Step, SetOp
<1> QED BY <1>1, BreakOffStep

LEMMA StoreStep ==
    ASSUME StoreInv, StoreNext
    PROVE  StoreInv'
<1>1. ASSUME NEW p \in Procs, NEW tenant \in Tenants,
             \/ StoreBytes(p, tenant)
             \/ \E file \in FileIds : RetrieveRow(p, tenant, file)
             \/ \E file \in FileIds, ref \in Refs : LinkRead(p, tenant, file, ref)
             \/ ReadUnaudited(p, tenant)
             \/ InsertNote(p, tenant)
             \/ ReadNotes(p, tenant)
             \/ CheckLimit(p, tenant)
      PROVE  StoreInv'
    BY <1>1, StoreBytesStep, RetrieveRowStep, LinkReadStep, ReadUnauditedStep,
       InsertNoteStep, ReadNotesStep, CheckLimitStep
<1>2. ASSUME NEW p \in Procs,
             \/ StoreRow(p) \/ RetrieveBytes(p) \/ LinkWrite(p) \/ RecordEvent(p)
             \/ Audit(p) \/ Die(p)
      PROVE  StoreInv'
    BY <1>2, StoreRowStep, RetrieveBytesStep, LinkWriteStep, RecordEventStep, AuditStep,
       DieStep
<1>3. CASE Tick
    BY <1>3, Still DEF Tick
<1> QED BY <1>1, <1>2, <1>3 DEF StoreNext

-----------------------------------------------------------------------------
(* The demos' own events, of agent runs, speak of no row.                  *)
LEMMA RunEventStep ==
    ASSUME StoreInv, NEW p \in Procs, op[p].pc # "to_log",
           NEW run, NEW done, NEW all, op' = [op EXCEPT ![p] = Copying(p, run, done, all)],
           NEW e, log' = Append(log, e), e.action \in {"agent.run", "agent.rerecorded"},
           UNCHANGED <<disk, files, refs, notes, got, lost>>
    PROVE  StoreInv'
<1>1. PICK was, o : was = op[p] /\ o = Copying(p, run, done, all)
    OBVIOUS
<1>2. /\ Rows(log') /\ Extends(log', log)
      /\ \A i \in DOMAIN log' \ DOMAIN log : log'[i] = e
    BY LogGrows
<1>3. Grows
    BY <1>2 DEF Grows, Extends
<1>4. NewIsSound
    <2>1. Tables'
        BY <1>2 DEF StoreInv, Tables, Rows
    <2>2. ASSUME NEW i \in DOMAIN log' \ DOMAIN log
          PROVE  TrueOf(log[i].action, log[i].tenant, log[i].item)'
        BY <1>2, <2>2 DEF TrueOf
    <2> QED BY <2>1, <2>2 DEF NewIsSound
<1>5. OpSound(o)'
    BY <1>1 DEF OpSound, Copying, Idle
<1>6. op' = [op EXCEPT ![p] = o] /\ was.pc # "to_log"
    BY <1>1
<1> QED BY <1>1, <1>3, <1>4, <1>5, <1>6, Preserved

LEMMA RunAgentStep ==
    ASSUME StoreInv, NEW p \in Procs, NEW all, RunAgent(p, all)
    PROVE  StoreInv'
<1>1. PICK run, e : /\ run = calls + 1
                    /\ e = [action |-> "agent.run", tenant |-> tab[p].tenant,
                            item |-> <<"run", calls + 1, all>>]
    OBVIOUS
<1>2. /\ op[p] = Idle /\ op' = [op EXCEPT ![p] = Copying(p, run, 0, all)]
      /\ log' = Append(log, e)
      /\ UNCHANGED <<disk, files, refs, notes, got, lost>>
    BY <1>1 DEF RunAgent, Begin, SetOp, Append1
<1>3. op[p].pc # "to_log"
    BY <1>2 DEF Idle
<1>4. e.action \in {"agent.run", "agent.rerecorded"}
    BY <1>1
<1> QED BY <1>2, <1>3, <1>4, RunEventStep

LEMMA CopyEventStep ==
    ASSUME StoreInv, NEW p \in Procs, CopyEvent(p)
    PROVE  StoreInv'
<1>1. PICK run, done, all, e :
         /\ run = op[p].run /\ done = op[p].done + 1 /\ all = op[p].all
         /\ e = [action |-> "agent.rerecorded", tenant |-> tab[p].tenant,
                 item |-> <<"event", op[p].run, op[p].done + 1>>]
    OBVIOUS
<1>2. /\ op[p].pc = "copying" /\ op' = [op EXCEPT ![p] = Copying(p, run, done, all)]
      /\ log' = Append(log, e)
      /\ UNCHANGED <<disk, files, refs, notes, got, lost>>
    BY <1>1 DEF CopyEvent, Step, SetOp, Append1
<1>3. op[p].pc # "to_log" /\ e.action \in {"agent.run", "agent.rerecorded"}
    BY <1>1, <1>2
<1> QED BY <1>2, <1>3, RunEventStep

LEMMA EndScriptStep ==
    ASSUME StoreInv, NEW p \in Procs, EndScript(p)
    PROVE  StoreInv'
<1>1. CASE op[p].pc = "copying"
    <2>1. /\ op' = [op EXCEPT ![p] = Idle]
          /\ UNCHANGED <<disk, files, refs, notes, log, got>> /\ lost \subseteq lost'
        BY <1>1 DEF EndScript, Step, SetOp
    <2> QED BY <1>1, <2>1, BreakOffStep
<1>2. CASE Die(p)
    BY <1>2, DieStep
<1>3. CASE UNCHANGED storeVars
    BY <1>3, Still DEF storeVars
<1> QED BY <1>1, <1>2, <1>3 DEF EndScript

LEMMA StoreInvariant ==
    /\ DemoInit => StoreInv
    /\ StoreInv /\ [DemoNext]_<<storeVars, demoVars>> => StoreInv'
<1>1. DemoInit => StoreInv
    <2> SUFFICES ASSUME DemoInit
                 PROVE  StoreInv
        OBVIOUS
    <2>1. Tables /\ LogSound /\ TenantsKeepTheirOwn /\ RowsRecorded
        BY NoRows DEF DemoInit, StoreInit, Tables, LogSound, TenantsKeepTheirOwn, RowsRecorded
    <2>2. CallsSound
        BY DEF DemoInit, StoreInit, CallsSound, OpSound, Idle
    <2> QED BY <2>1, <2>2 DEF StoreInv
<1>2. StoreInv /\ [DemoNext]_<<storeVars, demoVars>> => StoreInv'
    <2> SUFFICES ASSUME StoreInv, [DemoNext]_<<storeVars, demoVars>>
                 PROVE  StoreInv'
        OBVIOUS
    <2>1. CASE StoreNext
        BY <2>1, StoreStep
    <2>2. CASE UNCHANGED storeVars
        BY <2>2, Still DEF storeVars
    <2>3. ASSUME NEW p \in Procs, SeedNote(p) \/ UseNotes(p) \/ Audit(p)
          PROVE  StoreInv'
        BY <2>3, InsertNoteStep, ReadNotesStep, AuditStep DEF SeedNote, UseNotes
    <2>4. ASSUME NEW p \in Procs,
                 (\E all \in RunLengths : RunAgent(p, all)) \/ CopyEvent(p) \/ EndScript(p)
          PROVE  StoreInv'
        BY <2>4, RunAgentStep, CopyEventStep, EndScriptStep
    <2> QED BY <2>1, <2>2, <2>3, <2>4
            DEF DemoNext, Open, SeedRow, Seeded, LogIn, LogOut
<1> QED BY <1>1, <1>2

(* However many processes use the stores and whoever dies in the middle of *)
(* a call: nothing leaves a store but to its tenant, a stored file can be  *)
(* retrieved, and a reference is to a file of one's own.                   *)
THEOREM TenantsSeparate == DemoSpec => []TenantsKeepTheirOwn
<1>1. StoreInv => TenantsKeepTheirOwn
    BY DEF StoreInv
<1> QED BY <1>1, StoreInvariant, PTL DEF DemoSpec

(* And of everything that is there or was handed out the audit log tells,  *)
(* unless the call is about to append its event or died before it; nothing *)
(* it tells is false.                                                      *)
THEOREM TrailComplete == DemoSpec => []TrailIsComplete
<1>1. StoreInv => TrailIsComplete
    BY StoreInvGives
<1> QED BY <1>1, StoreInvariant, PTL DEF DemoSpec

-----------------------------------------------------------------------------
(* The seed.  What took effect is a beginning of it, each step once; a tab *)
(* that got past the first step is the only one that did, and stands right *)
(* behind what took effect.                                                *)
Seeding(p) == tab[p].at = "seeding"

TabsSound ==
    /\ DOMAIN tab = Procs
    /\ \A p \in Procs : Seeding(p) =>
          /\ tab[p] = [at |-> "seeding", next |-> tab[p].next]
          /\ tab[p].next \in 1 .. Len(Seed) + 1

SownUpTo(k) == sown = [i \in DOMAIN Seed |-> IF i <= k THEN 1 ELSE 0]

SowersAt(k) ==
    /\ \A p \in Procs : Seeding(p) => tab[p].next \in {1, k + 1}
    /\ \A p, q \in Procs :
          Seeding(p) /\ Seeding(q) /\ tab[p].next > 1 /\ tab[q].next > 1 => p = q
    /\ \/ k \in {0, Len(Seed)}
       \/ torn
       \/ \E p \in Procs : Seeding(p) /\ tab[p].next = k + 1

SeedInv == TabsSound /\ \E k \in 0 .. Len(Seed) : SownUpTo(k) /\ SowersAt(k)

LEMMA SeedFacts ==
    /\ Len(Seed) \in Nat /\ Len(Seed) > 0 /\ DOMAIN Seed = 1 .. Len(Seed)
    /\ 1 \notin StepsOf("note")
    /\ \A i \in StepsOf("user"), j \in StepsOf("tenant") : j < i
BY SeedAssumption DEF StepsOf

LEMMA SeedInvGives ==
    ASSUME SeedInv
    PROVE  SeedIsSound
<1>1. PICK k \in 0 .. Len(Seed) : SownUpTo(k) /\ SowersAt(k)
    BY DEF SeedInv
<1>2. \A i \in DOMAIN Seed : sown[i] = IF i <= k THEN 1 ELSE 0
    BY <1>1 DEF SownUpTo
<1>3. \A i \in DOMAIN Seed : sown[i] <= 1
    BY <1>2
<1>4. \A i \in StepsOf("user"), j \in StepsOf("tenant") : sown[i] > 0 => sown[j] > 0
    <2> SUFFICES ASSUME NEW i \in StepsOf("user"), NEW j \in StepsOf("tenant"), sown[i] > 0
                 PROVE  sown[j] > 0
        OBVIOUS
    <2>1. i \in DOMAIN Seed /\ j \in DOMAIN Seed /\ j < i
        BY SeedFacts DEF StepsOf
    <2> QED BY <1>2, <2>1, SeedFacts
<1>5. ASSUME ~torn, \A p \in Procs : tab[p].at # "seeding"
      PROVE  Cardinality({sown[i] : i \in DOMAIN Seed}) <= 1
    <2>1. k \in {0, Len(Seed)}
        BY <1>1, <1>5 DEF SowersAt, Seeding
    <2>2. PICK n : n = IF k = 0 THEN 0 ELSE 1
        OBVIOUS
    <2>3. ASSUME NEW i \in DOMAIN Seed
          PROVE  sown[i] = n
        <3>1. i \in Nat /\ 0 < i /\ i <= Len(Seed)
            BY SeedFacts
        <3>2. sown[i] = IF i <= k THEN 1 ELSE 0
            BY <1>2
        <3> QED BY <2>1, <2>2, <3>1, <3>2
    <2>4. PICK values : values = {sown[i] : i \in DOMAIN Seed}
        OBVIOUS
    <2>5. values = {n}
        BY <2>3, <2>4, SeedFacts
    <2>6. Cardinality(values) = 1
        BY <2>5, FS_Singleton
    <2> QED BY <2>4, <2>6
<1> QED BY <1>3, <1>4, <1>5 DEF SeedIsSound

LEMMA InitSeedInv == DemoInit => SeedInv
<1> SUFFICES ASSUME DemoInit
             PROVE  SeedInv
    OBVIOUS
<1>1. \A p \in Procs : ~Seeding(p)
    BY DEF DemoInit, Closed, Seeding
<1>2. TabsSound /\ SowersAt(0)
    BY <1>1 DEF DemoInit, TabsSound, SowersAt
<1>3. SownUpTo(0)
    BY SeedFacts DEF DemoInit, SownUpTo
<1> QED BY <1>2, <1>3, SeedFacts DEF SeedInv

(* A step of the seed takes effect.                                        *)
LEMMA SowStep ==
    ASSUME SeedInv, NEW p \in Procs, Seeding(p), tab[p].next \in DOMAIN Seed,
           sown[tab[p].next] = 0 \/ tab[p].next # 1,
           sown' = [sown EXCEPT ![tab[p].next] = @ + 1],
           tab' = [tab EXCEPT ![p] = [tab[p] EXCEPT !.next = @ + 1]],
           torn' = torn
    PROVE  SeedInv'
<1>1. PICK k \in 0 .. Len(Seed) : SownUpTo(k) /\ SowersAt(k)
    BY DEF SeedInv
<1>2. PICK n : n = tab[p].next
    OBVIOUS
<1>3. n = k + 1 /\ n \in 1 .. Len(Seed)
    BY <1>1, <1>2, SeedFacts DEF SownUpTo, SowersAt
<1>4. /\ DOMAIN tab' = Procs
      /\ tab'[p] = [at |-> "seeding", next |-> n + 1]
      /\ \A q \in Procs \ {p} : tab'[q] = tab[q]
    BY <1>2 DEF SeedInv, TabsSound
<1>5. \A q \in Procs \ {p} : tab[q].at = "seeding" => tab[q].next = 1
    <2> SUFFICES ASSUME NEW q \in Procs \ {p}, tab[q].at = "seeding", tab[q].next # 1
                 PROVE  FALSE
        OBVIOUS
    <2>1. tab[q].next = k + 1 /\ tab[p].next = k + 1
        BY <1>1, <1>2, <1>3 DEF SowersAt, Seeding
    <2>2. k + 1 > 1
        BY <2>1, SeedFacts
    <2> QED BY <1>1, <2>1, <2>2 DEF SowersAt, Seeding
<1>6. TabsSound'
    BY <1>3, <1>4, SeedFacts DEF SeedInv, TabsSound, Seeding
<1>7. SownUpTo(n)'
    <2>1. /\ DOMAIN sown = DOMAIN Seed
          /\ \A i \in DOMAIN Seed : sown[i] = IF i <= k THEN 1 ELSE 0
        BY <1>1 DEF SownUpTo
    <2>2. sown' = [i \in DOMAIN Seed |-> IF i = n THEN sown[n] + 1 ELSE sown[i]]
        BY <1>2, <2>1
    <2>3. \A i \in DOMAIN Seed :
             (IF i = n THEN sown[n] + 1 ELSE sown[i]) = IF i <= n THEN 1 ELSE 0
        BY <1>3, <2>1, SeedFacts
    <2> QED BY <2>2, <2>3 DEF SownUpTo
<1>8. SowersAt(n)'
    <2>1. \A q \in Procs : tab'[q].at = "seeding" => tab'[q].next \in {1, n + 1}
        BY <1>4, <1>5
    <2>2. \A q \in Procs : tab'[q].at = "seeding" /\ tab'[q].next > 1 => q = p
        BY <1>4, <1>5
    <2>3. tab'[p].at = "seeding" /\ tab'[p].next = n + 1
        BY <1>4
    <2> QED BY <2>1, <2>2, <2>3 DEF SowersAt, Seeding
<1>9. n \in 0 .. Len(Seed)
    BY <1>3, SeedFacts
<1> QED BY <1>6, <1>7, <1>8, <1>9 DEF SeedInv

(* A tab goes elsewhere; if it was in the middle of the seed, the seed is  *)
(* torn.                                                                   *)
LEMMA LeaveStep ==
    ASSUME SeedInv, NEW p \in Procs, NEW to, tab' = [tab EXCEPT ![p] = to],
           to.at = "seeding" => to = [at |-> "seeding", next |-> 1],
           sown' = sown, torn => torn',
           Seeding(p) =>
              torn' \/ tab[p].next = Len(Seed) + 1
                    \/ (tab[p].next = 1 /\ sown[1] > 0)
    PROVE  SeedInv'
<1>1. PICK k \in 0 .. Len(Seed) : SownUpTo(k) /\ SowersAt(k)
    BY DEF SeedInv
<1>2. /\ DOMAIN tab' = Procs /\ tab'[p] = to
      /\ \A q \in Procs \ {p} : tab'[q] = tab[q]
    BY DEF SeedInv, TabsSound
<1>3. TabsSound'
    BY <1>2, SeedFacts DEF SeedInv, TabsSound, Seeding
<1>4. SownUpTo(k)'
    BY <1>1 DEF SownUpTo
<1>5. SowersAt(k)'
    <2>1. \A q \in Procs : tab'[q].at = "seeding" =>
             tab'[q].next = 1 \/ (q # p /\ tab'[q] = tab[q] /\ tab[q].at = "seeding")
        BY <1>2
    <2>2. \A q \in Procs : tab'[q].at = "seeding" => tab'[q].next \in {1, k + 1}
        BY <1>1, <2>1 DEF SowersAt, Seeding
    <2>3. \A q, r \in Procs :
             tab'[q].at = "seeding" /\ tab'[r].at = "seeding"
             /\ tab'[q].next > 1 /\ tab'[r].next > 1 => q = r
        BY <1>1, <2>1 DEF SowersAt, Seeding
    <2>4. k \in {0, Len(Seed)} \/ torn'
          \/ \E q \in Procs : tab'[q].at = "seeding" /\ tab'[q].next = k + 1
        <3>1. CASE k \in {0, Len(Seed)} \/ torn
            BY <3>1
        <3>2. ASSUME NEW q \in Procs, tab[q].at = "seeding", tab[q].next = k + 1,
                     k # 0, k # Len(Seed), q = p
              PROVE  torn'
            <4>1. k # 0 /\ k # Len(Seed)
                BY <3>2
            <4>2. Len(Seed) \in Nat
                BY SeedFacts
            <4>3. k + 1 # 1 /\ k + 1 # Len(Seed) + 1
                BY <4>1, <4>2
            <4>4. Seeding(p) /\ tab[p].next = k + 1
                BY <3>2 DEF Seeding
            <4> QED BY <4>3, <4>4
        <3>3. ASSUME NEW q \in Procs, tab[q].at = "seeding", tab[q].next = k + 1, q # p
              PROVE  tab'[q].at = "seeding" /\ tab'[q].next = k + 1
            BY <1>2, <3>3
        <3> QED BY <1>1, <3>1, <3>2, <3>3 DEF SowersAt, Seeding
    <2> QED BY <2>2, <2>3, <2>4 DEF SowersAt, Seeding
<1> QED BY <1>3, <1>4, <1>5 DEF SeedInv

LEMMA NextSeedInv ==
    ASSUME SeedInv, [DemoNext]_<<storeVars, demoVars>>
    PROVE  SeedInv'
<1>1. ASSUME NEW p \in Procs, Open(p)
      PROVE  SeedInv'
    <2>1. PICK to : to = IF sown[FirstUser] > 0 THEN [at |-> "login"]
                         ELSE [at |-> "seeding", next |-> 1]
        OBVIOUS
    <2>2. /\ tab' = [tab EXCEPT ![p] = to] /\ sown' = sown /\ torn' = torn
          /\ ~Seeding(p)
        BY <1>1, <2>1 DEF Open, Move, At, Seeding
    <2>3. to.at = "seeding" => to = [at |-> "seeding", next |-> 1]
        BY <2>1
    <2> QED BY <2>2, <2>3, LeaveStep
<1>2. ASSUME NEW p \in Procs, SeedRow(p)
      PROVE  SeedInv'
    <2>1. /\ Seeding(p) /\ tab[p].next \in DOMAIN Seed /\ torn' = torn
        BY <1>2 DEF SeedRow, At, Seeding, Move
    <2>2. PICK k \in 0 .. Len(Seed) : SownUpTo(k) /\ SowersAt(k)
        BY DEF SeedInv
    <2>3. CASE sown[tab[p].next] > 0
        <3>1. PICK to : to = [at |-> "broken"]
            OBVIOUS
        <3>2. tab' = [tab EXCEPT ![p] = to] /\ sown' = sown
            BY <1>2, <2>3, <3>1 DEF SeedRow, Move
        <3>3. tab[p].next = 1 /\ sown[1] > 0
            BY <2>1, <2>2, <2>3, SeedFacts DEF SownUpTo, SowersAt
        <3>4. to.at # "seeding"
            BY <3>1
        <3> QED BY <2>1, <3>2, <3>3, <3>4, LeaveStep
    <2>4. CASE ~(sown[tab[p].next] > 0)
        <3>1. sown[tab[p].next] = 0
            BY <2>1, <2>2, <2>4, SeedFacts DEF SownUpTo
        <3>2. /\ sown' = [sown EXCEPT ![tab[p].next] = @ + 1]
              /\ tab' = [tab EXCEPT ![p] = [tab[p] EXCEPT !.next = @ + 1]]
            BY <1>2, <2>4 DEF SeedRow, Move
        <3> QED BY <2>1, <3>1, <3>2, SowStep
    <2> QED BY <2>3, <2>4
<1>3. ASSUME NEW p \in Procs, SeedNote(p)
      PROVE  SeedInv'
    <2>1. /\ Seeding(p) /\ tab[p].next \in DOMAIN Seed /\ tab[p].next # 1
          /\ sown' = [sown EXCEPT ![tab[p].next] = @ + 1]
          /\ tab' = [tab EXCEPT ![p] = [tab[p] EXCEPT !.next = @ + 1]]
          /\ torn' = torn
        BY <1>3, SeedFacts DEF SeedNote, At, Seeding, Move, StepsOf
    <2> QED BY <2>1, SowStep
<1>4. ASSUME NEW p \in Procs, Seeded(p) \/ LogIn(p) \/ LogOut(p) \/ EndScript(p)
      PROVE  SeedInv'
    <2>1. ASSUME NEW to, tab' = [tab EXCEPT ![p] = to], to.at # "seeding",
                 sown' = sown, torn => torn',
                 Seeding(p) => torn' \/ tab[p].next = Len(Seed) + 1
          PROVE  SeedInv'
        BY <2>1, LeaveStep
    <2>2. PICK login : login = [at |-> "login"] /\ login.at # "seeding"
        <3>1. PICK login : login = [at |-> "login"]
            OBVIOUS
        <3>2. login.at # "seeding"
            BY <3>1
        <3> QED BY <3>1, <3>2
    <2>3. login.at # "seeding"
        BY <2>2
    <2>4. CASE Seeded(p)
        <3>1. /\ tab' = [tab EXCEPT ![p] = login] /\ sown' = sown /\ torn' = torn
              /\ tab[p].next = Len(Seed) + 1
            BY <2>2, <2>4 DEF Seeded, Move
        <3> QED BY <2>1, <2>3, <3>1
    <2>5. CASE LogIn(p)
        <3>1. PICK to : tab' = [tab EXCEPT ![p] = to] /\ to.at # "seeding"
            <4>1. PICK i \in StepsOf("member") :
                     tab' = [tab EXCEPT ![p] = [at |-> "in", tenant |-> Seed[i].tenant]]
                BY <2>5 DEF LogIn, Move
            <4>2. PICK to : to = [at |-> "in", tenant |-> Seed[i].tenant]
                OBVIOUS
            <4>3. tab' = [tab EXCEPT ![p] = to] /\ to.at # "seeding"
                BY <4>1, <4>2
            <4> WITNESS to
            <4> QED BY <4>3
        <3>2. sown' = sown /\ torn' = torn /\ ~Seeding(p)
            BY <2>5 DEF LogIn, Move, At, Seeding
        <3> QED BY <2>1, <3>1, <3>2
    <2>6. CASE LogOut(p)
        <3>1. /\ tab' = [tab EXCEPT ![p] = login] /\ sown' = sown /\ torn' = torn
              /\ ~Seeding(p)
            BY <2>2, <2>6 DEF LogOut, Move, At, Seeding
        <3> QED BY <2>1, <2>3, <3>1
    <2>7. CASE EndScript(p)
        <3>1. PICK to : to = Closed
            OBVIOUS
        <3>2. /\ tab' = [tab EXCEPT ![p] = to] /\ sown' = sown
              /\ torn' = (torn \/ Seeding(p))
            BY <2>7, <3>1 DEF EndScript, Seeding
        <3>3. to.at # "seeding"
            BY <3>1 DEF Closed
        <3> QED BY <2>1, <3>2, <3>3
    <2> QED BY <1>4, <2>4, <2>5, <2>6, <2>7
<1>5. CASE UNCHANGED demoVars
    BY <1>5 DEF demoVars, SeedInv, TabsSound, SownUpTo, SowersAt, Seeding
<1>6. ASSUME NEW p \in Procs,
             UseNotes(p) \/ (\E all \in RunLengths : RunAgent(p, all)) \/ CopyEvent(p)
      PROVE  UNCHANGED demoVars
    BY <1>6 DEF UseNotes, RunAgent, CopyEvent, demoVars
<1> QED BY <1>1, <1>2, <1>3, <1>4, <1>5, <1>6 DEF DemoNext

(* However many tabs start at once and wherever they die, nothing is seeded*)
(* twice, no user is there before the tenants, and without a death the     *)
(* seed is whole once no tab is in it.                                     *)
THEOREM SeedSound == DemoSpec => []SeedIsSound
<1>1. SeedInv /\ [DemoNext]_<<storeVars, demoVars>> => SeedInv'
    BY NextSeedInv
<1>2. SeedInv => SeedIsSound
    BY SeedInvGives
<1> QED BY <1>1, <1>2, InitSeedInv, PTL DEF DemoSpec

-----------------------------------------------------------------------------
(* The limit.  While calls do not overlap, nothing is recorded between a   *)
(* check that allowed a call and the record of it, and the clock only      *)
(* leaves events behind: so what the check counted still bounds the window *)
(* that ends now, and every window that holds the new event ends with it.  *)
Hits(tenant, times) == {i \in DOMAIN usage : usage[i].tenant = tenant /\ usage[i].at \in times}

Recent(now) == {t \in 0 .. MaxTime : t + Window >= now /\ t <= now}

From(start) == {t \in 0 .. MaxTime : start <= t /\ t < start + Window + 1}

UsageSound ==
    /\ Rows(usage) /\ clock \in 0 .. MaxTime
    /\ \A i \in DOMAIN usage : usage[i].at \in 0 .. clock

SerialInv ==
    /\ serial \in BOOLEAN /\ DOMAIN op = Procs
    /\ serial =>
          /\ \A p, q \in Procs : op[p] # Idle /\ op[q] # Idle => p = q
          /\ \A p \in Procs :
                op[p].pc = "allowed" => Cardinality(Hits(op[p].tenant, Recent(clock))) < Limit
          /\ \A tenant \in Tenants, start \in 0 .. MaxTime :
                Cardinality(Hits(tenant, From(start))) <= Limit

LimitInv == UsageSound /\ SerialInv

LEMMA LimitInvGives ==
    ASSUME LimitInv
    PROVE  SerialLimitHolds
BY DEF LimitInv, SerialInv, SerialLimitHolds, CountBetween, CountIn, Hits, From

(* Sets of usage events are finite, and more times are no fewer events.    *)
LEMMA HitsFinite ==
    ASSUME UsageSound, NEW tenant, NEW times
    PROVE  IsFiniteSet(Hits(tenant, times)) /\ Cardinality(Hits(tenant, times)) \in Nat
<1>1. DOMAIN usage = 1 .. Len(usage) /\ Len(usage) \in Nat
    BY RowsAppend DEF UsageSound
<1>2. IsFiniteSet(1 .. Len(usage)) /\ Hits(tenant, times) \in SUBSET (1 .. Len(usage))
    BY <1>1, FS_Interval DEF Hits
<1> QED BY <1>2, FS_Subset, FS_CardinalityType

LEMMA FewerHits ==
    ASSUME UsageSound, NEW tenant, NEW some, NEW more,
           \A i \in DOMAIN usage : usage[i].at \in some => usage[i].at \in more
    PROVE  Cardinality(Hits(tenant, some)) <= Cardinality(Hits(tenant, more))
<1>1. Hits(tenant, some) \in SUBSET Hits(tenant, more)
    BY DEF Hits
<1> QED BY <1>1, HitsFinite, FS_Subset

(* A step that records nothing: a call goes on to o.                       *)
Plain(p, o) ==
    /\ SetOp(p, o) /\ UNCHANGED <<usage, clock>>
    /\ o.pc = "allowed" => Cardinality(Hits(o.tenant, Recent(clock))) < Limit

LEMMA PlainStep ==
    ASSUME LimitInv, NEW p \in Procs, NEW o, Plain(p, o)
    PROVE  LimitInv'
<1>1. /\ DOMAIN op' = Procs /\ op'[p] = o /\ \A q \in Procs \ {p} : op'[q] = op[q]
      /\ serial' = (serial /\ \A q \in Procs \ {p} : o = Idle \/ op[q] = Idle)
      /\ UNCHANGED <<usage, clock>>
    BY DEF Plain, SetOp, LimitInv, SerialInv
<1>2. UsageSound'
    BY <1>1 DEF LimitInv, UsageSound, Rows
<1>3. serial' \in BOOLEAN
    BY <1>1
<1>4. ASSUME serial'
      PROVE  /\ serial
             /\ \A q, r \in Procs : op'[q] # Idle /\ op'[r] # Idle => q = r
    <2>1. serial /\ \A q \in Procs \ {p} : o = Idle \/ op[q] = Idle
        BY <1>1, <1>4
    <2>2. \A q, r \in Procs : op[q] # Idle /\ op[r] # Idle => q = r
        BY <2>1 DEF LimitInv, SerialInv
    <2> QED BY <1>1, <2>1, <2>2
<1>5. \A tenant, times : Hits(tenant, times)' = Hits(tenant, times)
    BY <1>1 DEF Hits
<1>6. ASSUME serial', NEW q \in Procs, op'[q].pc = "allowed"
      PROVE  Cardinality(Hits(op[q].tenant, Recent(clock))') < Limit
    <2>1. CASE q = p
        BY <1>1, <1>5, <1>6, <2>1 DEF Plain, Recent
    <2>2. CASE q # p
        BY <1>1, <1>4, <1>5, <1>6, <2>2 DEF LimitInv, SerialInv, Recent
    <2> QED BY <2>1, <2>2
<1>7. ASSUME serial', NEW tenant \in Tenants, NEW start \in 0 .. MaxTime
      PROVE  Cardinality(Hits(tenant, From(start))') <= Limit
    BY <1>4, <1>5, <1>7 DEF LimitInv, SerialInv, From
<1> QED BY <1>1, <1>2, <1>3, <1>4, <1>6, <1>7 DEF LimitInv, SerialInv

LEMMA TickStep ==
    ASSUME LimitInv, Tick
    PROVE  LimitInv'
<1>1. clock' = clock + 1 /\ clock < MaxTime /\ UNCHANGED <<usage, op, serial>>
    BY DEF Tick
<1>2. clock \in Nat /\ MaxTime \in Nat /\ Window \in Nat /\ clock <= MaxTime
    BY BoundsAssumption DEF LimitInv, UsageSound
<1>3. UsageSound'
    BY <1>1, <1>2 DEF LimitInv, UsageSound, Rows
<1>4. \A tenant, times : Hits(tenant, times)' = Hits(tenant, times)
    BY <1>1 DEF Hits
<1>5. ASSUME serial, NEW q \in Procs, op[q].pc = "allowed"
      PROVE  Cardinality(Hits(op[q].tenant, Recent(clock))') < Limit
    <2>1. PICK tenant, now : tenant = op[q].tenant /\ now = clock
        OBVIOUS
    <2>2. Cardinality(Hits(tenant, Recent(now))) < Limit
        BY <1>5, <2>1 DEF LimitInv, SerialInv
    <2>3. \A i \in DOMAIN usage : usage[i].at \in Recent(now + 1) => usage[i].at \in Recent(now)
        BY <1>2, <2>1 DEF LimitInv, UsageSound, Recent
    <2>4. Cardinality(Hits(tenant, Recent(now + 1))) <= Cardinality(Hits(tenant, Recent(now)))
        BY <2>3, FewerHits DEF LimitInv
    <2>5. Cardinality(Hits(tenant, Recent(now + 1))) \in Nat
          /\ Cardinality(Hits(tenant, Recent(now))) \in Nat
        BY HitsFinite DEF LimitInv
    <2>6. Cardinality(Hits(tenant, Recent(now + 1))) < Limit
        BY <2>2, <2>4, <2>5, BoundsAssumption
    <2> QED BY <1>1, <1>4, <2>1, <2>6
<1>6. ASSUME serial, NEW tenant \in Tenants, NEW start \in 0 .. MaxTime
      PROVE  Cardinality(Hits(tenant, From(start))') <= Limit
    BY <1>4, <1>6 DEF LimitInv, SerialInv
<1> QED BY <1>1, <1>3, <1>5, <1>6 DEF LimitInv, SerialInv

LEMMA RecordStep ==
    ASSUME LimitInv, NEW p \in Procs, RecordEvent(p)
    PROVE  LimitInv'
<1>1. PICK of, now, n : of = op[p].tenant /\ now = clock /\ n = Len(usage) + 1
    OBVIOUS
<1>2. /\ op[p].pc = "allowed" /\ usage' = Append(usage, [tenant |-> of, at |-> now])
      /\ clock' = now /\ DOMAIN op' = Procs /\ op'[p] = Idle
      /\ \A q \in Procs \ {p} : op'[q] = op[q]
      /\ serial' = serial
    BY <1>1 DEF RecordEvent, Step, SetOp, LimitInv, SerialInv
<1>3. /\ Rows(usage') /\ DOMAIN usage' = DOMAIN usage \cup {n}
      /\ usage'[n] = [tenant |-> of, at |-> now]
      /\ \A i \in DOMAIN usage : usage'[i] = usage[i] /\ i # n
    BY <1>1, <1>2, RowsAppend DEF LimitInv, UsageSound
<1>4. now \in Nat /\ MaxTime \in Nat /\ Window \in Nat /\ Limit \in Nat /\ now <= MaxTime
    BY <1>1, BoundsAssumption DEF LimitInv, UsageSound
<1>5. UsageSound'
    BY <1>1, <1>2, <1>3, <1>4 DEF LimitInv, UsageSound
<1>6. ASSUME serial
      PROVE  /\ \A q \in Procs : op'[q] = Idle
             /\ Cardinality(Hits(of, Recent(now))) < Limit
    <2>1. op[p] # Idle
        BY <1>2 DEF Idle
    <2> QED BY <1>1, <1>2, <1>6, <2>1 DEF LimitInv, SerialInv
<1>7. ASSUME serial, NEW tenant \in Tenants, NEW start \in 0 .. MaxTime
      PROVE  Cardinality(Hits(tenant, From(start))') <= Limit
    <2>1. PICK times : times = From(start)
        OBVIOUS
    <2>2. Cardinality(Hits(tenant, times)) <= Limit
        BY <1>7, <2>1 DEF LimitInv, SerialInv
    <2>3. CASE tenant = of /\ now \in times
        <3>1. \A i \in DOMAIN usage : usage[i].at \in times => usage[i].at \in Recent(now)
            <4>1. now < start + Window + 1 /\ start \in Nat
                BY <1>4, <2>1, <2>3 DEF From
            <4>2. ASSUME NEW i \in DOMAIN usage, usage[i].at \in times
                  PROVE  usage[i].at \in Recent(now)
                <5>1. usage[i].at \in 0 .. now /\ start <= usage[i].at
                    BY <1>1, <2>1, <4>2 DEF LimitInv, UsageSound, From
                <5> QED BY <1>4, <4>1, <5>1 DEF Recent
            <4> QED BY <4>2
        <3>2. Cardinality(Hits(of, times)) <= Cardinality(Hits(of, Recent(now)))
            BY <3>1, FewerHits DEF LimitInv
        <3>3. IsFiniteSet(Hits(of, times)) /\ Cardinality(Hits(of, times)) \in Nat
              /\ Cardinality(Hits(of, Recent(now))) \in Nat
            BY HitsFinite DEF LimitInv
        <3>4. Hits(tenant, times)' = Hits(of, times) \cup {n} /\ n \notin Hits(of, times)
            BY <1>3, <2>3 DEF Hits
        <3>5. Cardinality(Hits(tenant, times)') = Cardinality(Hits(of, times)) + 1
            BY <3>3, <3>4, FS_AddElement
        <3>6. Cardinality(Hits(of, Recent(now))) < Limit
            BY <1>6, <1>7
        <3>7. Cardinality(Hits(tenant, times)') <= Limit
            BY <1>4, <3>2, <3>3, <3>5, <3>6
        <3> QED BY <2>1, <3>7
    <2>4. CASE ~(tenant = of /\ now \in times)
        <3>1. Hits(tenant, times)' = Hits(tenant, times)
            BY <1>3, <2>4 DEF Hits
        <3> QED BY <2>1, <2>2, <3>1
    <2> QED BY <2>3, <2>4
<1>8. SerialInv'
    <2>1. \A q \in Procs : op'[q] = Idle => op'[q].pc # "allowed"
        BY DEF Idle
    <2> QED BY <1>2, <1>6, <1>7, <2>1 DEF LimitInv, SerialInv
<1> QED BY <1>5, <1>8 DEF LimitInv

(* Every other step of a call goes on to something else than recording.    *)
Elsewhere(p) == \E o : SetOp(p, o) /\ o.pc # "allowed" /\ UNCHANGED <<usage, clock>>

LEMMA ElsewhereStep ==
    ASSUME LimitInv, NEW p \in Procs, Elsewhere(p)
    PROVE  LimitInv'
BY PlainStep DEF Elsewhere, Plain

LEMMA CheckLimitKeeps ==
    ASSUME LimitInv, NEW p \in Procs, NEW tenant, CheckLimit(p, tenant)
    PROVE  LimitInv'
<1>1. CASE Exceeded(tenant, clock)
    <2>1. SetOp(p, Idle) /\ UNCHANGED <<usage, clock>>
        BY <1>1 DEF CheckLimit, Begin
    <2>2. Elsewhere(p)
        BY <2>1 DEF Elsewhere, Idle
    <2> QED BY <2>2, ElsewhereStep
<1>2. CASE ~Exceeded(tenant, clock)
    <2>1. PICK o : o = [pc |-> "allowed", tenant |-> tenant]
        OBVIOUS
    <2>2. SetOp(p, o) /\ UNCHANGED <<usage, clock>>
        BY <1>2, <2>1 DEF CheckLimit, Begin
    <2>3. Cardinality(Hits(tenant, Recent(clock))) < Limit
        <3>1. ~(Cardinality(Hits(tenant, Recent(clock))) >= Limit)
            BY <1>2 DEF Exceeded, CountIn, Hits, Recent
        <3>2. Cardinality(Hits(tenant, Recent(clock))) \in Nat
            BY HitsFinite DEF LimitInv
        <3> QED BY <3>1, <3>2, BoundsAssumption
    <2>4. Plain(p, o)
        BY <2>1, <2>2, <2>3 DEF Plain
    <2> QED BY <2>4, PlainStep
<1> QED BY <1>1, <1>2

LEMMA StoreElsewhere ==
    ASSUME NEW p \in Procs, NEW tenant
    PROVE  /\ StoreBytes(p, tenant) => Elsewhere(p)
           /\ \A file : RetrieveRow(p, tenant, file) => Elsewhere(p)
           /\ \A file, ref : LinkRead(p, tenant, file, ref) => Elsewhere(p)
           /\ ReadUnaudited(p, tenant) \/ ReadNotes(p, tenant) => Elsewhere(p)
           /\ InsertNote(p, tenant) => Elsewhere(p)
<1>1. StoreBytes(p, tenant) => Elsewhere(p)
    BY DEF StoreBytes, Begin, Elsewhere
<1>2. ASSUME NEW file, RetrieveRow(p, tenant, file)
      PROVE  Elsewhere(p)
    BY <1>2 DEF RetrieveRow, Begin, ToLog, Elsewhere
<1>3. \A file, ref : LinkRead(p, tenant, file, ref) => Elsewhere(p)
    BY DEF LinkRead, Begin, Elsewhere
<1>4. ReadUnaudited(p, tenant) \/ ReadNotes(p, tenant) => Elsewhere(p)
    BY DEF ReadUnaudited, ReadNotes, Begin, Idle, Elsewhere
<1>5. InsertNote(p, tenant) => Elsewhere(p)
    BY DEF InsertNote, Begin, ToLog, Elsewhere
<1> QED BY <1>1, <1>2, <1>3, <1>4, <1>5

LEMMA CallElsewhere ==
    ASSUME NEW p \in Procs
    PROVE  /\ StoreRow(p) => Elsewhere(p)
           /\ RetrieveBytes(p) => Elsewhere(p)
           /\ LinkWrite(p) => Elsewhere(p)
           /\ Audit(p) \/ Die(p) => Elsewhere(p)
           /\ \A all : RunAgent(p, all) => Elsewhere(p)
           /\ CopyEvent(p) => Elsewhere(p)
           /\ EndScript(p) => Elsewhere(p) \/ UNCHANGED storeVars
<1>1. StoreRow(p) => Elsewhere(p)
    BY DEF StoreRow, Step, ToLog, Elsewhere
<1>2. RetrieveBytes(p) => Elsewhere(p)
    BY DEF RetrieveBytes, Step, ToLog, Idle, Elsewhere
<1>3. LinkWrite(p) => Elsewhere(p)
    BY DEF LinkWrite, Step, ToLog, Elsewhere
<1>4. Audit(p) \/ Die(p) => Elsewhere(p)
    BY DEF Audit, Die, Step, Idle, Elsewhere
<1>5. \A run, done, all : Copying(p, run, done, all).pc # "allowed"
    BY DEF Copying, Idle
<1>6. \A all : RunAgent(p, all) => Elsewhere(p)
    BY <1>5 DEF RunAgent, Begin, Elsewhere
<1>7. CopyEvent(p) => Elsewhere(p)
    BY <1>5 DEF CopyEvent, Step, Elsewhere
<1>8. EndScript(p) => Elsewhere(p) \/ UNCHANGED storeVars
    BY <1>4 DEF EndScript, Step, Idle, Elsewhere
<1> QED BY <1>1, <1>2, <1>3, <1>4, <1>6, <1>7, <1>8

LEMMA LimitStill ==
    ASSUME LimitInv, UNCHANGED storeVars
    PROVE  LimitInv'
<1>1. \A tenant, times : Hits(tenant, times)' = Hits(tenant, times)
    BY DEF storeVars, Hits
<1>2. UsageSound'
    BY DEF storeVars, LimitInv, UsageSound, Rows
<1>3. SerialInv'
    BY <1>1 DEF storeVars, LimitInv, SerialInv, Recent, From
<1> QED BY <1>2, <1>3 DEF LimitInv

LEMMA LimitInvariant ==
    /\ StoreInit => LimitInv
    /\ LimitInv /\ StoreNext => LimitInv'
    /\ LimitInv /\ [DemoNext]_<<storeVars, demoVars>> => LimitInv'
<1>1. StoreInit => LimitInv
    <2> SUFFICES ASSUME StoreInit
                 PROVE  LimitInv
        OBVIOUS
    <2>1. UsageSound
        BY NoRows, BoundsAssumption DEF StoreInit, UsageSound
    <2>2. \A tenant, times : Hits(tenant, times) = {}
        BY NoRows DEF StoreInit, Hits
    <2>3. \A tenant, times : Cardinality(Hits(tenant, times)) <= Limit
        BY <2>2, FS_EmptySet, BoundsAssumption
    <2>4. SerialInv
        BY <2>3 DEF StoreInit, SerialInv, Idle
    <2> QED BY <2>1, <2>4 DEF LimitInv
<1>2. LimitInv /\ StoreNext => LimitInv'
    <2> SUFFICES ASSUME LimitInv, StoreNext
                 PROVE  LimitInv'
        OBVIOUS
    <2>1. ASSUME NEW p \in Procs, NEW tenant \in Tenants,
                 \/ StoreBytes(p, tenant)
                 \/ \E file \in FileIds : RetrieveRow(p, tenant, file)
                 \/ \E file \in FileIds, ref \in Refs : LinkRead(p, tenant, file, ref)
                 \/ ReadUnaudited(p, tenant)
                 \/ InsertNote(p, tenant)
                 \/ ReadNotes(p, tenant)
          PROVE  LimitInv'
        BY <2>1, StoreElsewhere, ElsewhereStep
    <2>2. ASSUME NEW p \in Procs,
                 StoreRow(p) \/ RetrieveBytes(p) \/ LinkWrite(p) \/ Audit(p) \/ Die(p)
          PROVE  LimitInv'
        BY <2>2, CallElsewhere, ElsewhereStep
    <2> QED BY <2>1, <2>2, CheckLimitKeeps, RecordStep, TickStep DEF StoreNext
<1>3. LimitInv /\ [DemoNext]_<<storeVars, demoVars>> => LimitInv'
    <2> SUFFICES ASSUME LimitInv, [DemoNext]_<<storeVars, demoVars>>
                 PROVE  LimitInv'
        OBVIOUS
    <2>1. ASSUME NEW p \in Procs, SeedNote(p) \/ UseNotes(p) \/ Audit(p)
          PROVE  LimitInv'
        BY <2>1, StoreElsewhere, CallElsewhere, ElsewhereStep DEF SeedNote, UseNotes
    <2>2. ASSUME NEW p \in Procs,
                 (\E all \in RunLengths : RunAgent(p, all)) \/ CopyEvent(p) \/ EndScript(p)
          PROVE  LimitInv'
        BY <2>2, CallElsewhere, ElsewhereStep, LimitStill
    <2>3. CASE UNCHANGED storeVars
        BY <2>3, LimitStill
    <2> QED BY <1>2, <2>1, <2>2, <2>3
            DEF DemoNext, Open, SeedRow, Seeded, LogIn, LogOut
<1> QED BY <1>1, <1>2, <1>3

(* A limit asked before each call is kept over every window, for any       *)
(* limit, window and number of processes, as long as no two calls overlap. *)
THEOREM LimitKept == DemoSpec => []SerialLimitHolds
<1>1. DemoInit => LimitInv
    BY LimitInvariant DEF DemoInit
<1> QED BY <1>1, LimitInvariant, LimitInvGives, PTL DEF DemoSpec

-----------------------------------------------------------------------------
(* The copies of an agent's events.  A run's number is new when its marker *)
(* is written, and one script copies it: what it has copied is all that is *)
(* on the log of this run, and the tab it copies for stays where it is.    *)
Earlier(run, i) == {j \in EventsOfRun(run) : j < i}

Copier(p, o) ==
    /\ program = "tabs" /\ tab[p].at = "in"
    /\ o.run \in 1 .. calls /\ o.done \in Nat
    /\ Cardinality(EventsOfRun(o.run)) = o.done + 1
    /\ \A q \in Procs : op[q].pc = "copying" /\ op[q].run = o.run => q = p
    /\ \A m \in EventsOfRun(o.run) :
          Earlier(o.run, m) = {} => log[m].item[3] = o.all /\ log[m].tenant = tab[p].tenant

RunTold(run, m) ==
    /\ log[m].action = "agent.run"
    /\ \A i \in EventsOfRun(run) \ {m} :
          /\ log[i].action = "agent.rerecorded"
          /\ log[i].item = <<"event", run, Cardinality(Earlier(run, i))>>
          /\ log[i].tenant = log[m].tenant

RunWhole(run, m) ==
    \/ Cardinality(EventsOfRun(run)) = log[m].item[3] + 1
    \/ <<"agent.run", run>> \in lost
    \/ \E p \in Procs : op[p].pc = "copying" /\ op[p].run = run

RunsInv ==
    /\ calls \in Nat
    /\ \A i \in DOMAIN log : IsOfRun(log[i]) => log[i].item[2] \in 1 .. calls
    /\ \A p \in Procs : op[p].pc = "to_log" => ~IsOfRun(op[p])
    /\ \A p \in Procs : op[p].pc = "copying" => Copier(p, op[p])
    /\ \A run \in 1 .. calls : \A m \in EventsOfRun(run) :
          Earlier(run, m) = {} => RunTold(run, m) /\ RunWhole(run, m)

CopyInv == StoreInv /\ SeedInv /\ RunsInv

LEMMA CopyInvGives ==
    ASSUME CopyInv
    PROVE  CopiesFollowMarker
<1> SUFFICES ASSUME NEW m \in DOMAIN log, IsOfRun(log[m]), Before(m) = {}
             PROVE  LET run == log[m].item[2]
                        all == log[m].item[3]
                    IN  /\ log[m].action = "agent.run"
                        /\ \A i \in EventsOfRun(run) \ {m} :
                              /\ log[i].action = "agent.rerecorded"
                              /\ log[i].item = <<"event", run, Cardinality(Before(i))>>
                              /\ log[i].tenant = log[m].tenant
                        /\ \/ Cardinality(EventsOfRun(run)) = all + 1
                           \/ <<"agent.run", run>> \in lost
                           \/ \E p \in Procs : op[p].pc = "copying" /\ op[p].run = run
    BY DEF CopiesFollowMarker
<1>1. PICK run : run = log[m].item[2]
    OBVIOUS
<1>2. run \in 1 .. calls /\ m \in EventsOfRun(run)
    BY <1>1 DEF CopyInv, RunsInv, EventsOfRun
<1>3. \A i \in EventsOfRun(run) : Before(i) = Earlier(run, i)
    BY DEF EventsOfRun, Before, Earlier
<1>4. RunTold(run, m) /\ RunWhole(run, m)
    BY <1>2, <1>3 DEF CopyInv, RunsInv
<1>5. \A i \in EventsOfRun(run) \ {m} :
         /\ log[i].action = "agent.rerecorded"
         /\ log[i].item = <<"event", run, Cardinality(Before(i))>>
         /\ log[i].tenant = log[m].tenant
    BY <1>3, <1>4 DEF RunTold
<1> QED BY <1>1, <1>4, <1>5 DEF RunTold, RunWhole

LEMMA RunSets ==
    ASSUME Rows(log), NEW run
    PROVE  /\ IsFiniteSet(EventsOfRun(run)) /\ Cardinality(EventsOfRun(run)) \in Nat
           /\ EventsOfRun(run) \subseteq 1 .. Len(log) /\ Len(log) \in Nat
           /\ DOMAIN log = 1 .. Len(log)
<1>1. DOMAIN log = 1 .. Len(log) /\ Len(log) \in Nat
    BY RowsAppend
<1>2. EventsOfRun(run) \in SUBSET (1 .. Len(log)) /\ IsFiniteSet(1 .. Len(log))
    BY <1>1, FS_Interval DEF EventsOfRun
<1> QED BY <1>1, <1>2, FS_Subset, FS_CardinalityType

(* Runs that no new event is of stay as they are.                          *)
SameRun(run) ==
    /\ EventsOfRun(run)' = EventsOfRun(run)
    /\ \A i \in EventsOfRun(run) : log'[i] = log[i]
    /\ \A i : Earlier(run, i)' = Earlier(run, i)

LEMMA OtherRuns ==
    ASSUME Rows(log), NEW run, NEW e, log' = Append(log, e),
           ~IsOfRun(e) \/ e.item[2] # run
    PROVE  SameRun(run)
<1>1. PICK n : n = Len(log) + 1
    OBVIOUS
<1>2. /\ DOMAIN log' = DOMAIN log \cup {n} /\ log'[n] = e
      /\ \A i \in DOMAIN log : log'[i] = log[i] /\ i # n
    BY <1>1, RowsAppend
<1>3. EventsOfRun(run)' = EventsOfRun(run)
    BY <1>2 DEF EventsOfRun, IsOfRun
<1>4. \A i \in EventsOfRun(run) : log'[i] = log[i]
    BY <1>2 DEF EventsOfRun
<1>5. \A i : Earlier(run, i)' = Earlier(run, i)
    BY <1>3 DEF Earlier
<1> QED BY <1>3, <1>4, <1>5 DEF SameRun

LEMMA SameLog ==
    ASSUME log' = log, NEW run
    PROVE  SameRun(run)
BY DEF SameRun, EventsOfRun, Earlier

LEMMA SameRunTold ==
    ASSUME NEW run, SameRun(run), NEW m \in EventsOfRun(run)
    PROVE  /\ RunTold(run, m) => RunTold(run, m)'
           /\ Cardinality(EventsOfRun(run))' = Cardinality(EventsOfRun(run))
           /\ log'[m].item[3] = log[m].item[3]
<1>1. /\ EventsOfRun(run)' = EventsOfRun(run) /\ log'[m] = log[m]
      /\ \A i \in EventsOfRun(run) : log'[i] = log[i]
      /\ \A i \in EventsOfRun(run) : Cardinality(Earlier(run, i)') = Cardinality(Earlier(run, i))
    BY DEF SameRun
<1> QED BY <1>1 DEF RunTold

(* A script that copies goes on doing so while others move.                *)
LEMMA CopierStays ==
    ASSUME NEW p \in Procs, NEW o, Copier(p, o), SameRun(o.run),
           program' = program, tab'[p] = tab[p], calls' \in Nat, calls <= calls', calls \in Nat,
           \A q \in Procs : op'[q].pc = "copying" /\ op'[q].run = o.run =>
              op[q].pc = "copying" /\ op[q].run = o.run
    PROVE  Copier(p, o)'
<1>1. /\ program' = "tabs" /\ tab'[p].at = "in"
      /\ o.run \in 1 .. calls' /\ o.done \in Nat
      /\ Cardinality(EventsOfRun(o.run)') = o.done + 1
    BY DEF Copier, SameRun
<1>2. \A q \in Procs : op'[q].pc = "copying" /\ op'[q].run = o.run => q = p
    BY DEF Copier
<1>3. \A m \in EventsOfRun(o.run)' :
          Earlier(o.run, m)' = {} => log'[m].item[3] = o.all /\ log'[m].tenant = tab'[p].tenant
    BY DEF Copier, SameRun
<1> QED BY <1>1, <1>2, <1>3 DEF Copier

(* A step of a call that copies nothing, before or after.                  *)
LEMMA NoCopyStep ==
    ASSUME CopyInv, NEW p \in Procs, NEW o, op' = [op EXCEPT ![p] = o],
           op[p].pc # "copying", o.pc # "copying", o.pc = "to_log" => ~IsOfRun(o),
           program' = program, \A q \in Procs : op[q].pc = "copying" => tab'[q] = tab[q],
           calls' \in Nat, calls <= calls', lost \subseteq lost',
           log' = log \/ \E e : ~IsOfRun(e) /\ log' = Append(log, e)
    PROVE  RunsInv'
<1>1. Rows(log) /\ RunsInv /\ calls \in Nat
    BY DEF CopyInv, StoreInv, Tables, RunsInv
<1>2. /\ op'[p] = o /\ \A q \in Procs \ {p} : op'[q] = op[q]
    BY DEF CopyInv, StoreInv, CallsSound
<1>3. \A run : SameRun(run)
    BY <1>1, SameLog, OtherRuns
<1>4. \A i \in DOMAIN log' : IsOfRun(log'[i]) => i \in DOMAIN log /\ log'[i] = log[i]
    BY <1>1, RowsAppend
<1>5. \A i \in DOMAIN log' : IsOfRun(log'[i]) => log'[i].item[2] \in 1 .. calls'
    BY <1>1, <1>4 DEF RunsInv
<1>6. \A q \in Procs : op'[q].pc = "to_log" => ~IsOfRun(op'[q])
    BY <1>1, <1>2 DEF RunsInv
<1>7. ASSUME NEW q \in Procs, op'[q].pc = "copying"
      PROVE  Copier(q, op[q])'
    <2>1. PICK c : c = op[q]
        OBVIOUS
    <2>2. q # p /\ op'[q] = c /\ c.pc = "copying"
        BY <1>2, <1>7, <2>1
    <2>3. Copier(q, c)
        BY <1>1, <2>1, <2>2 DEF RunsInv
    <2>4. \A r \in Procs : op'[r].pc = "copying" => op'[r] = op[r]
        BY <1>2
    <2>5. Copier(q, c)'
        BY <1>1, <1>3, <2>1, <2>2, <2>3, <2>4, CopierStays
    <2> QED BY <2>2, <2>5
<1>8. ASSUME NEW run \in 1 .. calls', NEW m \in EventsOfRun(run)', Earlier(run, m)' = {}
      PROVE  RunTold(run, m)' /\ RunWhole(run, m)'
    <2>1. m \in EventsOfRun(run) /\ Earlier(run, m) = {} /\ log'[m] = log[m]
        BY <1>3, <1>8 DEF SameRun
    <2>2. run \in 1 .. calls
        BY <1>1, <2>1 DEF RunsInv, EventsOfRun
    <2>3. RunTold(run, m) /\ RunWhole(run, m)
        BY <1>1, <2>1, <2>2 DEF RunsInv
    <2>4. RunTold(run, m)' /\ Cardinality(EventsOfRun(run))' = Cardinality(EventsOfRun(run))
        BY <1>3, <2>1, <2>3, SameRunTold
    <2>5. ASSUME NEW q \in Procs, op[q].pc = "copying", op[q].run = run
          PROVE  op'[q].pc = "copying" /\ op'[q].run = run
        BY <1>2, <2>5
    <2>6. RunWhole(run, m)'
        BY <2>1, <2>3, <2>4, <2>5 DEF RunWhole
    <2> QED BY <2>4, <2>6
<1> QED BY <1>5, <1>6, <1>7, <1>8 DEF RunsInv

(* _record_agent_run() begins: a new run, with the marker for its first.   *)
LEMMA MarkerStep ==
    ASSUME CopyInv, NEW p \in Procs, NEW all, RunAgent(p, all)
    PROVE  RunsInv'
<1>1. PICK n, r, tenant, e : /\ n = Len(log) + 1 /\ r = calls + 1 /\ tenant = tab[p].tenant
                             /\ e = [action |-> "agent.run", tenant |-> tenant,
                                     item |-> <<"run", r, all>>]
    OBVIOUS
<1>2. PICK o : o = Copying(p, r, 0, all)
    OBVIOUS
<1>3. /\ op[p] = Idle /\ op' = [op EXCEPT ![p] = o] /\ calls' = r
      /\ log' = Append(log, e) /\ UNCHANGED <<lost, program, tab>>
      /\ program = "tabs" /\ tab[p].at = "in"
    BY <1>1, <1>2 DEF RunAgent, Begin, SetOp, Append1, At, demoVars
<1>4. Rows(log) /\ RunsInv /\ calls \in Nat /\ r \in Nat /\ calls <= r /\ r \notin 1 .. calls
    BY <1>1 DEF CopyInv, StoreInv, Tables, RunsInv
<1>5. op'[p] = o /\ \A q \in Procs \ {p} : op'[q] = op[q]
    BY <1>3 DEF CopyInv, StoreInv, CallsSound
<1>6. /\ DOMAIN log' = DOMAIN log \cup {n} /\ log'[n] = e /\ n \notin DOMAIN log
      /\ \A i \in DOMAIN log : log'[i] = log[i]
    BY <1>1, <1>3, <1>4, RowsAppend
<1>7. /\ IsOfRun(e) /\ e.item[2] = r /\ e.action = "agent.run" /\ e.item[3] = all
      /\ e.tenant = tenant
    BY <1>1 DEF IsOfRun
<1>8. \A run \in 1 .. calls : SameRun(run)
    BY <1>3, <1>4, <1>7, OtherRuns
<1>9. /\ EventsOfRun(r)' = {n} /\ Earlier(r, n)' = {} /\ Cardinality(EventsOfRun(r)') = 1
    <2>1. EventsOfRun(r) = {}
        BY <1>4 DEF EventsOfRun, RunsInv
    <2>2. EventsOfRun(r)' = {n}
        BY <1>6, <1>7, <2>1 DEF EventsOfRun, IsOfRun
    <2>3. n \in Nat
        BY <1>1, <1>4, RowsAppend
    <2>4. Earlier(r, n)' = {}
        BY <2>2, <2>3 DEF Earlier
    <2>5. Cardinality(EventsOfRun(r)') = 1
        BY <2>2, FS_Singleton, Zenon
    <2> QED BY <2>2, <2>4, <2>5
<1>10. /\ o.pc \in {"idle", "copying"} /\ (o.pc = "idle" => all = 0)
       /\ o.pc = "copying" => o.run = r /\ o.done = 0 /\ o.all = all
    BY <1>2 DEF Copying, Idle
<1>11. \A i \in DOMAIN log' : IsOfRun(log'[i]) => log'[i].item[2] \in 1 .. calls'
    BY <1>1, <1>3, <1>4, <1>6, <1>7 DEF RunsInv
<1>12. \A q \in Procs : op'[q].pc = "to_log" => ~IsOfRun(op'[q])
    BY <1>4, <1>5, <1>10 DEF RunsInv
<1>13. \A q \in Procs \ {p} : op[q].pc = "copying" => op[q].run \in 1 .. calls
    BY <1>4 DEF RunsInv, Copier
<1>14. ASSUME NEW q \in Procs, op'[q].pc = "copying"
       PROVE  Copier(q, op[q])'
    <2>1. CASE q = p
        <3>1. o.run = r /\ o.done = 0 /\ o.all = all
            BY <1>5, <1>10, <1>14, <2>1
        <3>2. \A s \in Procs : op'[s].pc = "copying" /\ op'[s].run = o.run => s = p
            BY <1>4, <1>5, <1>13, <3>1
        <3>3. \A m \in EventsOfRun(r)' : log'[m].item[3] = o.all /\ log'[m].tenant = tab'[p].tenant
            BY <1>1, <1>3, <1>6, <1>7, <1>9, <3>1
        <3>4. /\ program' = "tabs" /\ tab'[p].at = "in" /\ o.run \in 1 .. calls' /\ o.done \in Nat
              /\ Cardinality(EventsOfRun(r)') = o.done + 1
            BY <1>1, <1>3, <1>4, <1>9, <3>1
        <3>5. Copier(p, o)'
            BY <3>1, <3>2, <3>3, <3>4 DEF Copier
        <3> QED BY <1>5, <2>1, <3>5
    <2>2. CASE q # p
        <3>1. PICK c : c = op[q]
            OBVIOUS
        <3>2. op'[q] = c /\ c.pc = "copying" /\ Copier(q, c) /\ c.run \in 1 .. calls
            BY <1>4, <1>5, <1>13, <1>14, <2>2, <3>1 DEF RunsInv
        <3>3. \A s \in Procs : op'[s].pc = "copying" /\ op'[s].run = c.run =>
                 op[s].pc = "copying" /\ op[s].run = c.run
            BY <1>4, <1>5, <1>10, <3>2
        <3>4. Copier(q, c)'
            BY <1>3, <1>4, <1>8, <3>2, <3>3, CopierStays
        <3> QED BY <3>2, <3>4
    <2> QED BY <2>1, <2>2
<1>15. ASSUME NEW run \in 1 .. calls', NEW m \in EventsOfRun(run)', Earlier(run, m)' = {}
       PROVE  RunTold(run, m)' /\ RunWhole(run, m)'
    <2>1. CASE run = r
        <3>1. m = n /\ EventsOfRun(run)' \ {m} = {}
            BY <1>9, <1>15, <2>1
        <3>2. RunTold(run, m)'
            BY <1>6, <1>7, <3>1 DEF RunTold
        <3>3. CASE o.pc = "idle"
            <4>1. Cardinality(EventsOfRun(run)') = log'[m].item[3] + 1
                BY <1>6, <1>7, <1>9, <1>10, <2>1, <3>1, <3>3
            <4>2. RunWhole(run, m)'
                BY <4>1 DEF RunWhole
            <4> QED BY <3>2, <4>2
        <3>4. CASE o.pc = "copying"
            <4>1. op'[p].pc = "copying" /\ op'[p].run = run
                BY <1>5, <1>10, <2>1, <3>4
            <4>2. RunWhole(run, m)'
                BY <4>1 DEF RunWhole
            <4> QED BY <3>2, <4>2
        <3> QED BY <1>10, <3>3, <3>4
    <2>2. CASE run # r
        <3>1. run \in 1 .. calls
            BY <1>1, <1>3, <1>4, <1>15, <2>2
        <3>2. m \in EventsOfRun(run) /\ Earlier(run, m) = {} /\ log'[m] = log[m]
            BY <1>8, <1>15, <3>1 DEF SameRun
        <3>3. RunTold(run, m) /\ RunWhole(run, m)
            BY <1>4, <3>1, <3>2 DEF RunsInv
        <3>4. RunTold(run, m)' /\ Cardinality(EventsOfRun(run))' = Cardinality(EventsOfRun(run))
            BY <1>8, <3>1, <3>2, <3>3, SameRunTold
        <3>5. \A q \in Procs : op[q].pc = "copying" => q # p
            BY <1>3 DEF Idle
        <3>6. RunWhole(run, m)'
            BY <1>3, <1>5, <3>2, <3>3, <3>4, <3>5 DEF RunWhole
        <3> QED BY <3>4, <3>6
    <2> QED BY <2>1, <2>2
<1> QED BY <1>3, <1>4, <1>11, <1>12, <1>14, <1>15 DEF RunsInv

(* One more copy: its number is what is there of the run.                  *)
LEMMA CopyStep ==
    ASSUME CopyInv, NEW p \in Procs, CopyEvent(p)
    PROVE  RunsInv'
<1>1. PICK n, was, tenant : n = Len(log) + 1 /\ was = op[p] /\ tenant = tab[p].tenant
    OBVIOUS
<1>2. PICK r, done, all : r = was.run /\ done = was.done /\ all = was.all
    OBVIOUS
<1>3. PICK o, e : /\ o = Copying(p, r, done + 1, all)
                  /\ e = [action |-> "agent.rerecorded", tenant |-> tenant,
                          item |-> <<"event", r, done + 1>>]
    OBVIOUS
<1>4. /\ was.pc = "copying" /\ op' = [op EXCEPT ![p] = o] /\ calls' = calls
      /\ log' = Append(log, e) /\ UNCHANGED <<lost, program, tab>>
    BY <1>1, <1>2, <1>3 DEF CopyEvent, Step, SetOp, Append1, demoVars
<1>5. Rows(log) /\ RunsInv /\ calls \in Nat
    BY DEF CopyInv, StoreInv, Tables, RunsInv
<1>6. op'[p] = o /\ \A q \in Procs \ {p} : op'[q] = op[q]
    BY <1>4 DEF CopyInv, StoreInv, CallsSound
<1>7. /\ DOMAIN log' = DOMAIN log \cup {n} /\ log'[n] = e /\ n \notin DOMAIN log
      /\ \A i \in DOMAIN log : log'[i] = log[i]
    BY <1>1, <1>4, <1>5, RowsAppend
<1>8. /\ IsOfRun(e) /\ e.action = "agent.rerecorded" /\ e.tenant = tenant
      /\ e.item[2] = r /\ e.item = <<"event", r, done + 1>>
    BY <1>3 DEF IsOfRun
<1>9. Copier(p, was)
    BY <1>1, <1>4, <1>5 DEF RunsInv
<1>10. /\ r \in 1 .. calls /\ done \in Nat /\ Cardinality(EventsOfRun(r)) = done + 1
       /\ program = "tabs" /\ tab[p].at = "in"
       /\ \A q \in Procs : op[q].pc = "copying" /\ op[q].run = r => q = p
       /\ \A m \in EventsOfRun(r) :
             Earlier(r, m) = {} => log[m].item[3] = all /\ log[m].tenant = tenant
    BY <1>1, <1>2, <1>9 DEF Copier
<1>11. \A run : run # r => SameRun(run)
    BY <1>4, <1>5, <1>8, OtherRuns
<1>12. PICK old : old = EventsOfRun(r)
    OBVIOUS
<1>13. /\ IsFiniteSet(old) /\ old \subseteq 1 .. n - 1 /\ n \in Nat /\ old # {}
       /\ n \notin old /\ \A i \in old : i < n
    <2>1. IsFiniteSet(old) /\ old \subseteq 1 .. n - 1 /\ n \in Nat
        BY <1>1, <1>5, <1>12, RunSets
    <2>2. old # {}
        BY <1>10, <1>12, FS_EmptySet
    <2> QED BY <2>1, <2>2
<1>14. /\ EventsOfRun(r)' = old \cup {n} /\ \A i \in old : log'[i] = log[i]
    BY <1>7, <1>8, <1>12 DEF EventsOfRun
<1>15. \A i \in old : Earlier(r, i)' = Earlier(r, i)
    BY <1>12, <1>13, <1>14 DEF Earlier
<1>16. Earlier(r, n)' = old /\ Cardinality(Earlier(r, n)') = done + 1
    <2>1. Earlier(r, n)' = old
        <3>1. \A j : j \in EventsOfRun(r)' <=> j \in old \/ j = n
            BY <1>14, Zenon
        <3>2. ~(n < n) /\ \A j \in old : j < n
            BY <1>13
        <3>3. \A j : j \in EventsOfRun(r)' /\ j < n <=> j \in old
            BY <3>1, <3>2, Zenon
        <3> QED BY <3>3 DEF Earlier
    <2> QED BY <1>10, <1>12, <2>1
<1>17. Cardinality(EventsOfRun(r)') = done + 2
    <2>1. Cardinality(old \cup {n}) = Cardinality(old) + 1
        BY <1>13, FS_AddElement
    <2>2. Cardinality(EventsOfRun(r)') = Cardinality(old \cup {n})
        BY <1>14
    <2>3. Cardinality(old) = done + 1 /\ done \in Nat
        BY <1>10, <1>12
    <2> QED BY <2>1, <2>2, <2>3
<1>18. /\ o.pc \in {"idle", "copying"} /\ (o.pc = "idle" => all = done + 1)
       /\ o.pc = "copying" => o.run = r /\ o.done = done + 1 /\ o.all = all
    BY <1>3 DEF Copying, Idle
<1>19. \A i \in DOMAIN log' : IsOfRun(log'[i]) => log'[i].item[2] \in 1 .. calls'
    BY <1>4, <1>5, <1>7, <1>8, <1>10 DEF RunsInv
<1>20. \A q \in Procs : op'[q].pc = "to_log" => ~IsOfRun(op'[q])
    BY <1>5, <1>6, <1>18 DEF RunsInv
<1>21. \A m \in EventsOfRun(r)' : Earlier(r, m)' = {} =>
          m \in old /\ Earlier(r, m) = {} /\ log'[m] = log[m] /\ m # n
    BY <1>13, <1>14, <1>15, <1>16
<1>22. \A q \in Procs \ {p} : op[q].pc = "copying" => op[q].run # r
    BY <1>10
<1>23. ASSUME NEW q \in Procs, op'[q].pc = "copying"
       PROVE  Copier(q, op[q])'
    <2>1. CASE q = p
        <3>1. o.run = r /\ o.done = done + 1 /\ o.all = all
            BY <1>6, <1>18, <1>23, <2>1
        <3>2. \A s \in Procs : op'[s].pc = "copying" /\ op'[s].run = o.run => s = p
            BY <1>6, <1>22, <3>1
        <3>3. ASSUME NEW m \in EventsOfRun(r)', Earlier(r, m)' = {}
              PROVE  log'[m].item[3] = o.all /\ log'[m].tenant = tab'[p].tenant
            <4>1. m \in EventsOfRun(r) /\ Earlier(r, m) = {} /\ log'[m] = log[m]
                BY <1>12, <1>21, <3>3
            <4>2. log[m].item[3] = all /\ log[m].tenant = tenant
                BY <1>10, <4>1
            <4> QED BY <1>1, <1>4, <3>1, <4>1, <4>2
        <3>4. /\ program' = "tabs" /\ tab'[p].at = "in" /\ o.run \in 1 .. calls' /\ o.done \in Nat
              /\ Cardinality(EventsOfRun(r)') = o.done + 1
            BY <1>4, <1>10, <1>17, <3>1
        <3>5. Copier(p, o)'
            BY <3>1, <3>2, <3>3, <3>4 DEF Copier
        <3> QED BY <1>6, <2>1, <3>5
    <2>2. CASE q # p
        <3>1. PICK c : c = op[q]
            OBVIOUS
        <3>2. op'[q] = c /\ c.pc = "copying" /\ Copier(q, c) /\ c.run # r
            BY <1>5, <1>6, <1>22, <1>23, <2>2, <3>1 DEF RunsInv
        <3>3. \A s \in Procs : op'[s].pc = "copying" /\ op'[s].run = c.run =>
                 op[s].pc = "copying" /\ op[s].run = c.run
            BY <1>6, <1>18, <3>2
        <3>4. Copier(q, c)'
            BY <1>4, <1>5, <1>11, <3>2, <3>3, CopierStays
        <3> QED BY <3>2, <3>4
    <2> QED BY <2>1, <2>2
<1>24. ASSUME NEW run \in 1 .. calls', NEW m \in EventsOfRun(run)', Earlier(run, m)' = {}
       PROVE  RunTold(run, m)' /\ RunWhole(run, m)'
    <2>1. CASE run = r
        <3>1. /\ m \in old /\ Earlier(r, m) = {} /\ log'[m] = log[m] /\ m # n
              /\ log[m].item[3] = all /\ log[m].tenant = tenant
            BY <1>10, <1>12, <1>21, <1>24, <2>1
        <3>2. RunTold(r, m)
            BY <1>5, <1>10, <1>12, <3>1 DEF RunsInv
        <3>3. ASSUME NEW i \in EventsOfRun(r)' \ {m}
              PROVE  /\ log'[i].action = "agent.rerecorded"
                     /\ log'[i].item = <<"event", r, Cardinality(Earlier(r, i)')>>
                     /\ log'[i].tenant = log'[m].tenant
            <4>1. CASE i = n
                BY <1>7, <1>8, <1>16, <3>1, <4>1
            <4>2. CASE i \in old
                <5>1. /\ log[i].action = "agent.rerecorded"
                      /\ log[i].item = <<"event", r, Cardinality(Earlier(r, i))>>
                      /\ log[i].tenant = log[m].tenant
                    BY <1>12, <3>2, <3>3, <4>2 DEF RunTold
                <5>2. Cardinality(Earlier(r, i)') = Cardinality(Earlier(r, i))
                    BY <1>15, <4>2
                <5> QED BY <1>14, <3>1, <4>2, <5>1, <5>2
            <4> QED BY <1>14, <3>3, <4>1, <4>2
        <3>4. RunTold(r, m)'
            BY <3>1, <3>2, <3>3 DEF RunTold
        <3>5. CASE o.pc = "idle"
            <4>1. Cardinality(EventsOfRun(r)') = log'[m].item[3] + 1
                BY <1>10, <1>17, <1>18, <3>1, <3>5
            <4>2. RunWhole(r, m)'
                BY <4>1 DEF RunWhole
            <4> QED BY <2>1, <3>4, <4>2
        <3>6. CASE o.pc = "copying"
            <4>1. op'[p].pc = "copying" /\ op'[p].run = r
                BY <1>6, <1>18, <3>6
            <4>2. RunWhole(r, m)'
                BY <4>1 DEF RunWhole
            <4> QED BY <2>1, <3>4, <4>2
        <3> QED BY <1>18, <3>5, <3>6
    <2>2. CASE run # r
        <3>1. /\ run \in 1 .. calls /\ m \in EventsOfRun(run) /\ Earlier(run, m) = {}
              /\ log'[m] = log[m]
            BY <1>4, <1>11, <1>24, <2>2 DEF SameRun
        <3>2. RunTold(run, m) /\ RunWhole(run, m)
            BY <1>5, <3>1 DEF RunsInv
        <3>3. RunTold(run, m)' /\ Cardinality(EventsOfRun(run))' = Cardinality(EventsOfRun(run))
            BY <1>11, <2>2, <3>1, <3>2, SameRunTold
        <3>4. \A q \in Procs : op[q].pc = "copying" /\ op[q].run = run => q # p
            BY <1>1, <1>2, <2>2
        <3>5. RunWhole(run, m)'
            BY <1>4, <1>6, <3>1, <3>2, <3>3, <3>4 DEF RunWhole
        <3> QED BY <3>3, <3>5
    <2> QED BY <2>1, <2>2
<1> QED BY <1>4, <1>5, <1>19, <1>20, <1>23, <1>24 DEF RunsInv

(* The script dies with copies missing: the run is among the lost.         *)
LEMMA BreakCopyStep ==
    ASSUME CopyInv, NEW p \in Procs, EndScript(p), op[p].pc = "copying"
    PROVE  RunsInv'
<1>1. PICK r : r = op[p].run
    OBVIOUS
<1>2. /\ op' = [op EXCEPT ![p] = Idle] /\ lost' = lost \cup {<<"agent.run", r>>}
      /\ calls' = calls /\ log' = log /\ program' = program /\ tab' = [tab EXCEPT ![p] = Closed]
    BY <1>1 DEF EndScript, Step, SetOp
<1>3. Rows(log) /\ RunsInv /\ calls \in Nat
    BY DEF CopyInv, StoreInv, Tables, RunsInv
<1>4. /\ op'[p] = Idle /\ \A q \in Procs \ {p} : op'[q] = op[q] /\ tab'[q] = tab[q]
    BY <1>2 DEF CopyInv, StoreInv, CallsSound, SeedInv, TabsSound
<1>5. \A run : SameRun(run)
    BY <1>2, SameLog
<1>6. Idle.pc \notin {"copying", "to_log"}
    BY DEF Idle
<1>7. /\ \A i \in DOMAIN log' : IsOfRun(log'[i]) => log'[i].item[2] \in 1 .. calls'
      /\ \A q \in Procs : op'[q].pc = "to_log" => ~IsOfRun(op'[q])
    BY <1>2, <1>3, <1>4, <1>6 DEF RunsInv
<1>8. ASSUME NEW q \in Procs, op'[q].pc = "copying"
      PROVE  Copier(q, op[q])'
    <2>1. PICK c : c = op[q]
        OBVIOUS
    <2>2. q # p /\ op'[q] = c /\ c.pc = "copying" /\ Copier(q, c) /\ tab'[q] = tab[q]
        BY <1>3, <1>4, <1>6, <1>8, <2>1 DEF RunsInv
    <2>3. \A s \in Procs : op'[s].pc = "copying" => op'[s] = op[s]
        BY <1>4, <1>6
    <2>4. Copier(q, c)'
        BY <1>2, <1>3, <1>5, <2>2, <2>3, CopierStays
    <2> QED BY <2>2, <2>4
<1>9. ASSUME NEW run \in 1 .. calls', NEW m \in EventsOfRun(run)', Earlier(run, m)' = {}
      PROVE  RunTold(run, m)' /\ RunWhole(run, m)'
    <2>1. /\ run \in 1 .. calls /\ m \in EventsOfRun(run) /\ Earlier(run, m) = {}
          /\ log'[m] = log[m]
        BY <1>2, <1>5, <1>9 DEF SameRun
    <2>2. RunTold(run, m) /\ RunWhole(run, m)
        BY <1>3, <2>1 DEF RunsInv
    <2>3. RunTold(run, m)' /\ Cardinality(EventsOfRun(run))' = Cardinality(EventsOfRun(run))
        BY <1>5, <2>1, <2>2, SameRunTold
    <2>4. ASSUME NEW q \in Procs, op[q].pc = "copying", op[q].run = run
          PROVE  \/ <<"agent.run", run>> \in lost'
                 \/ op'[q].pc = "copying" /\ op'[q].run = run
        BY <1>1, <1>2, <1>4, <2>4
    <2>5. lost \subseteq lost'
        BY <1>2
    <2>6. RunWhole(run, m)'
        BY <2>1, <2>2, <2>3, <2>4, <2>5 DEF RunWhole
    <2> QED BY <2>3, <2>6
<1> QED BY <1>2, <1>3, <1>7, <1>8, <1>9 DEF RunsInv

LEMMA CopyStill ==
    ASSUME CopyInv,
           UNCHANGED <<log, op, calls, lost, program>>,
           \A q \in Procs : op[q].pc = "copying" => tab'[q] = tab[q]
    PROVE  RunsInv'
<1>1. RunsInv /\ calls \in Nat
    BY DEF CopyInv, RunsInv
<1>2. \A run : SameRun(run)
    BY SameLog
<1>3. ASSUME NEW q \in Procs, op'[q].pc = "copying"
      PROVE  Copier(q, op[q])'
    <2>1. PICK c : c = op[q]
        OBVIOUS
    <2>2. op'[q] = c /\ Copier(q, c) /\ tab'[q] = tab[q]
        BY <1>1, <1>3, <2>1 DEF RunsInv
    <2>3. Copier(q, c)'
        BY <1>1, <1>2, <2>2, CopierStays
    <2> QED BY <2>2, <2>3
<1>4. ASSUME NEW run \in 1 .. calls', NEW m \in EventsOfRun(run)', Earlier(run, m)' = {}
      PROVE  RunTold(run, m)' /\ RunWhole(run, m)'
    <2>1. run \in 1 .. calls /\ m \in EventsOfRun(run) /\ Earlier(run, m) = {}
        BY <1>2, <1>4 DEF SameRun
    <2>2. RunTold(run, m) /\ RunWhole(run, m)
        BY <1>1, <2>1 DEF RunsInv
    <2>3. RunTold(run, m)' /\ Cardinality(EventsOfRun(run))' = Cardinality(EventsOfRun(run))
        BY <1>2, <2>1, <2>2, SameRunTold
    <2> QED BY <2>2, <2>3 DEF RunWhole
<1> QED BY <1>1, <1>3, <1>4 DEF RunsInv

(* The steps of calls that NoCopyStep is about: they begin one, or go on   *)
(* with what they began, and neither copy nor append an event of a run.    *)
NoRun(o) == o.pc # "copying" /\ (o.pc = "to_log" => ~IsOfRun(o))

Apart(p) ==
    /\ \E o : SetOp(p, o) /\ NoRun(o)
    /\ op[p].pc # "copying" /\ calls' \in {calls, calls + 1}
    /\ lost \subseteq lost'
    /\ log' = log \/ \E e : ~IsOfRun(e) /\ log' = Append(log, e)

LEMMA ApartStep ==
    ASSUME CopyInv, NEW p \in Procs, Apart(p), program' = program,
           \A q \in Procs : op[q].pc = "copying" => tab'[q] = tab[q]
    PROVE  RunsInv'
<1>1. calls' \in Nat /\ calls <= calls'
    BY DEF CopyInv, RunsInv, Apart
<1>2. PICK o : /\ op' = [op EXCEPT ![p] = o] /\ o.pc # "copying"
               /\ o.pc = "to_log" => ~IsOfRun(o)
    BY DEF Apart, SetOp, NoRun
<1>3. /\ op[p].pc # "copying" /\ lost \subseteq lost'
      /\ log' = log \/ \E e : ~IsOfRun(e) /\ log' = Append(log, e)
    BY DEF Apart
<1> QED BY <1>1, <1>2, <1>3, NoCopyStep

LEMMA NoRunCalls ==
    /\ NoRun(Idle) /\ Idle.pc = "idle"
    /\ \A action, tenant, item :
          action \notin {"agent.run", "agent.rerecorded"} => NoRun(ToLog(action, tenant, item))
    /\ \A o : o.pc \notin {"copying", "to_log"} => NoRun(o)
BY DEF NoRun, Idle, ToLog, IsOfRun

(* A call that begins, or goes on, and appends nothing.                    *)
LEMMA ApartCalls ==
    ASSUME NEW p \in Procs, NEW o, NoRun(o), lost' = lost, log' = log
    PROVE  /\ Begin(p, o) => Apart(p)
           /\ Step(p, o) /\ op[p].pc # "copying" => Apart(p)
<1>1. Begin(p, o) => Apart(p)
    BY DEF Begin, Apart, Idle
<1>2. Step(p, o) /\ op[p].pc # "copying" => Apart(p)
    BY DEF Step, Apart
<1> QED BY <1>1, <1>2

LEMMA StoreApart ==
    ASSUME NEW p \in Procs, NEW tenant
    PROVE  /\ StoreBytes(p, tenant) => Apart(p)
           /\ \A file : RetrieveRow(p, tenant, file) => Apart(p)
           /\ \A file, ref : LinkRead(p, tenant, file, ref) => Apart(p)
           /\ ReadUnaudited(p, tenant) \/ ReadNotes(p, tenant) => Apart(p)
           /\ InsertNote(p, tenant) => Apart(p)
           /\ CheckLimit(p, tenant) => Apart(p)
<1>1. StoreBytes(p, tenant) => Apart(p)
    BY NoRunCalls, ApartCalls DEF StoreBytes
<1>2. ASSUME NEW file, RetrieveRow(p, tenant, file)
      PROVE  Apart(p)
    <2>1. PICK o : o = IF OwnedRow(tenant, file)
                         THEN [pc |-> "row_read", tenant |-> tenant, file |-> file]
                         ELSE ToLog("retrieve_denied", tenant, <<"file", file>>)
        OBVIOUS
    <2>2. NoRun(o)
        BY <2>1, NoRunCalls
    <2> QED BY <1>2, <2>1, <2>2, ApartCalls DEF RetrieveRow
<1>3. \A file, ref : LinkRead(p, tenant, file, ref) => Apart(p)
    BY NoRunCalls, ApartCalls DEF LinkRead
<1>4. ReadUnaudited(p, tenant) \/ ReadNotes(p, tenant) => Apart(p)
    BY NoRunCalls, ApartCalls DEF ReadUnaudited, ReadNotes
<1>5. InsertNote(p, tenant) => Apart(p)
    <2>1. NoRun(ToLog("scoped_insert", tenant, <<"note", Len(notes) + 1>>))
        BY NoRunCalls
    <2> QED BY <2>1, ApartCalls DEF InsertNote
<1>6. ASSUME CheckLimit(p, tenant)
      PROVE  Apart(p)
    <2>1. PICK o : o = IF Exceeded(tenant, clock) THEN Idle
                       ELSE [pc |-> "allowed", tenant |-> tenant]
        OBVIOUS
    <2>2. NoRun(o)
        BY <2>1, NoRunCalls
    <2> QED BY <1>6, <2>1, <2>2, ApartCalls DEF CheckLimit
<1> QED BY <1>1, <1>2, <1>3, <1>4, <1>5, <1>6

LEMMA CallApart ==
    ASSUME CopyInv, NEW p \in Procs
    PROVE  /\ StoreRow(p) => Apart(p)
           /\ RetrieveBytes(p) => Apart(p)
           /\ LinkWrite(p) => Apart(p)
           /\ RecordEvent(p) => Apart(p)
           /\ Audit(p) => Apart(p)
           /\ Die(p) /\ op[p].pc # "copying" => Apart(p)
<1>1. ASSUME StoreRow(p)
      PROVE  Apart(p)
    <2>1. NoRun(ToLog("stored", op[p].tenant, <<"file", op[p].file>>))
        BY NoRunCalls
    <2> QED BY <1>1, <2>1, ApartCalls DEF StoreRow
<1>2. ASSUME RetrieveBytes(p)
      PROVE  Apart(p)
    <2>1. NoRun(ToLog("retrieved", op[p].tenant, <<"file", op[p].file>>))
        BY NoRunCalls
    <2> QED BY <1>2, <2>1, NoRunCalls, ApartCalls DEF RetrieveBytes
<1>3. ASSUME LinkWrite(p)
      PROVE  Apart(p)
    <2>1. NoRun(ToLog("reference_linked", op[p].tenant, <<"ref", op[p].file, op[p].ref>>))
        BY NoRunCalls
    <2> QED BY <1>3, <2>1, ApartCalls DEF LinkWrite
<1>4. RecordEvent(p) => Apart(p)
    BY NoRunCalls, ApartCalls DEF RecordEvent
<1>5. ASSUME Audit(p)
      PROVE  Apart(p)
    <2>1. PICK e : e = [action |-> op[p].action, tenant |-> op[p].tenant, item |-> op[p].item]
        OBVIOUS
    <2>2. ~IsOfRun(e)
        BY <1>5, <2>1 DEF Audit, CopyInv, RunsInv, IsOfRun
    <2>3. /\ SetOp(p, Idle) /\ calls' = calls /\ lost' = lost
          /\ op[p].pc = "to_log" /\ log' = Append(log, e)
        BY <1>5, <2>1 DEF Audit, Step
    <2> QED BY <2>2, <2>3, NoRunCalls DEF Apart
<1>6. Die(p) /\ op[p].pc # "copying" => Apart(p)
    BY NoRunCalls DEF Die, Step, Apart
<1> QED BY <1>1, <1>2, <1>3, <1>4, <1>5, <1>6

LEMMA NextRunsInv ==
    ASSUME CopyInv, [DemoNext]_<<storeVars, demoVars>>
    PROVE  RunsInv'
<1>1. \A q \in Procs : op[q].pc = "copying" => program = "tabs" /\ tab[q].at = "in" /\ op[q] # Idle
    BY DEF CopyInv, RunsInv, Copier, Idle
<1>2. ASSUME program = "services", StoreNext, UNCHANGED demoVars
      PROVE  RunsInv'
    <2>1. program' = program /\ tab' = tab /\ \A q \in Procs : op[q].pc # "copying"
        BY <1>1, <1>2 DEF demoVars
    <2>2. ASSUME NEW p \in Procs, Apart(p)
          PROVE  RunsInv'
        BY <2>1, <2>2, ApartStep
    <2>3. ASSUME NEW p \in Procs, NEW tenant \in Tenants,
                 \/ StoreBytes(p, tenant)
                 \/ \E file \in FileIds : RetrieveRow(p, tenant, file)
                 \/ \E file \in FileIds, ref \in Refs : LinkRead(p, tenant, file, ref)
                 \/ ReadUnaudited(p, tenant)
                 \/ InsertNote(p, tenant)
                 \/ ReadNotes(p, tenant)
                 \/ CheckLimit(p, tenant)
          PROVE  RunsInv'
        BY <2>2, <2>3, StoreApart
    <2>4. ASSUME NEW p \in Procs,
                 \/ StoreRow(p) \/ RetrieveBytes(p) \/ LinkWrite(p) \/ RecordEvent(p)
                 \/ Audit(p) \/ Die(p)
          PROVE  RunsInv'
        BY <2>1, <2>2, <2>4, CallApart
    <2>5. CASE Tick
        BY <2>1, <2>5, CopyStill DEF Tick
    <2> QED BY <1>2, <2>3, <2>4, <2>5 DEF StoreNext
<1>3. ASSUME NEW p \in Procs, NEW to, tab' = [tab EXCEPT ![p] = to], op[p].pc # "copying",
             program' = program
      PROVE  \A q \in Procs : op[q].pc = "copying" => tab'[q] = tab[q]
    BY <1>3 DEF CopyInv, SeedInv, TabsSound
<1>4. ASSUME NEW p \in Procs, Open(p) \/ SeedRow(p) \/ Seeded(p) \/ LogIn(p) \/ LogOut(p)
      PROVE  RunsInv'
    <2>1. UNCHANGED storeVars /\ program' = program /\ op[p].pc # "copying"
        BY <1>1, <1>4 DEF Open, SeedRow, Seeded, LogIn, LogOut, At, Move
    <2>2. \E to : tab' = [tab EXCEPT ![p] = to]
        BY <1>4 DEF Open, SeedRow, Seeded, LogIn, LogOut, Move
    <2>3. \A q \in Procs : op[q].pc = "copying" => tab'[q] = tab[q]
        BY <1>3, <2>1, <2>2
    <2> QED BY <2>1, <2>3, CopyStill DEF storeVars
<1>5. ASSUME NEW p \in Procs, SeedNote(p)
      PROVE  RunsInv'
    <2>1. Apart(p) /\ program' = program /\ op[p].pc # "copying"
        BY <1>1, <1>5, StoreApart DEF SeedNote, At, Move
    <2>2. \E to : tab' = [tab EXCEPT ![p] = to]
        BY <1>5 DEF SeedNote, Move
    <2>3. \A q \in Procs : op[q].pc = "copying" => tab'[q] = tab[q]
        BY <1>3, <2>1, <2>2
    <2> QED BY <2>1, <2>3, ApartStep
<1>6. ASSUME NEW p \in Procs, UseNotes(p)
      PROVE  RunsInv'
    <2>1. Apart(p) /\ program' = program /\ tab' = tab
        BY <1>6, StoreApart DEF UseNotes, demoVars
    <2> QED BY <2>1, ApartStep
<1>7. ASSUME NEW p \in Procs, Audit(p), UNCHANGED demoVars
      PROVE  RunsInv'
    BY <1>7, CallApart, ApartStep DEF demoVars
<1>8. ASSUME NEW p \in Procs, EndScript(p)
      PROVE  RunsInv'
    <2>1. CASE op[p].pc = "copying"
        BY <1>8, <2>1, BreakCopyStep
    <2>2. CASE op[p].pc # "copying"
        <3>1. program' = program /\ tab' = [tab EXCEPT ![p] = Closed]
            BY <1>8 DEF EndScript
        <3>2. \A q \in Procs : op[q].pc = "copying" => tab'[q] = tab[q]
            BY <1>3, <2>2, <3>1
        <3>3. CASE Die(p)
            BY <2>2, <3>1, <3>2, <3>3, CallApart, ApartStep
        <3>4. CASE UNCHANGED storeVars
            BY <3>1, <3>2, <3>4, CopyStill DEF storeVars
        <3> QED BY <1>8, <2>2, <3>3, <3>4 DEF EndScript
    <2> QED BY <2>1, <2>2
<1>9. CASE UNCHANGED <<storeVars, demoVars>>
    BY <1>9, CopyStill DEF storeVars, demoVars
<1>10. ASSUME NEW p \in Procs, (\E all \in RunLengths : RunAgent(p, all)) \/ CopyEvent(p)
       PROVE  RunsInv'
    BY <1>10, MarkerStep, CopyStep
<1> QED BY <1>2, <1>4, <1>5, <1>6, <1>7, <1>8, <1>9, <1>10 DEF DemoNext

(* However many tabs write to the shared log and whoever dies in between,  *)
(* the copies of an agent's events stand behind their marker, each once,   *)
(* in order and under its tenant, and they are all there unless the script *)
(* is still copying or died before the end.                                *)
THEOREM CopiesInOrder == DemoSpec => []CopiesFollowMarker
<1>1. DemoInit => CopyInv
    <2> SUFFICES ASSUME DemoInit
                 PROVE  RunsInv
        BY StoreInvariant, InitSeedInv DEF CopyInv
    <2>1. DOMAIN log = {} /\ calls = 0 /\ \A p \in Procs : op[p].pc = "idle"
        BY NoRows DEF DemoInit, StoreInit, Idle
    <2> QED BY <2>1 DEF RunsInv
<1>2. CopyInv /\ [DemoNext]_<<storeVars, demoVars>> => CopyInv'
    BY StoreInvariant, NextSeedInv, NextRunsInv DEF CopyInv
<1> QED BY <1>1, <1>2, CopyInvGives, PTL DEF DemoSpec
=============================================================================
