------------------------------ MODULE AuditLog ------------------------------
(***************************************************************************)
(* platform/audit-log: the append-only, hash-chained event store every     *)
(* agent and every infrastructure component writes to.                     *)
(*                                                                         *)
(* Each connection of Conns is an AuditLogStore object open on the same    *)
(* SQLite file.  append() is two SQLite statements with Python in between: *)
(* a SELECT of the newest record_hash, outside any transaction, and the    *)
(* INSERT that is committed at once.  They are two steps here, so that     *)
(* other connections can run between them.                                 *)
(*                                                                         *)
(* SHA-256 is taken to be collision free: a record's hash IS the sequence  *)
(* of events hashed into it.  An event stands for the hashed columns of a  *)
(* row other than prev_hash; its inputs and output are JSON documents with *)
(* string keys, which json.dumps/json.loads give back unchanged.           *)
(***************************************************************************)
EXTENDS Naturals, Sequences, FiniteSets

CONSTANTS
    Conns,      \* AuditLogStore objects open on the database
    Events,     \* what can be appended
    MaxRows     \* bound on the rows the exploration writes

ASSUME MaxRowsAssumption == MaxRows \in Nat

VARIABLES
    rows,       \* the events table, in id order
    lastId,     \* sqlite_sequence of the AUTOINCREMENT id: never reused
    op,         \* what each connection is in the middle of
    appended,   \* history: the events whose append() committed, in order
    pack        \* the evidence pack written last: a verdict and the events

vars == <<rows, lastId, op, appended, pack>>

Hash == Seq(Events)

GENESIS_HASH == << >>

RecordHash(event, prevHash) == Append(prevHash, event)

Row == [id : Nat, event : Events, prev_hash : Hash, record_hash : Hash]

Idle == [pc |-> "idle"]
Hashed == [pc : {"hashed"}, event : Events, prev_hash : Hash]
Verdict == [ok : BOOLEAN, broken_record_id : Nat]
Verified == [pc : {"verified"}, verification : Verdict]
Pack == [verification : Verdict, events : Seq(Row)]

LastHash == IF rows = << >> THEN GENESIS_HASH ELSE rows[Len(rows)].record_hash

-----------------------------------------------------------------------------
(* verify_chain() walks the rows in id order and stops at the first one    *)
(* whose prev_hash is not the hash of the row before it, or whose own hash *)
(* does not recompute.                                                     *)

ExpectedPrev(s, i) == IF i = 1 THEN GENESIS_HASH ELSE s[i - 1].record_hash

(* Slip: the links are compared but the hashes are not recomputed.         *)
M_LinksNoRecompute(s, i) == s[i].prev_hash = ExpectedPrev(s, i)

Links(s, i) ==
    /\ s[i].prev_hash = ExpectedPrev(s, i)
    /\ s[i].record_hash = RecordHash(s[i].event, s[i].prev_hash)

ChainOk(s) == \A i \in DOMAIN s : Links(s, i)

(* Slip: the walk goes on after a mismatch and reports the last one.       *)
M_BrokenRecordLast(s) == CHOOSE i \in DOMAIN s :
                            ~Links(s, i) /\ \A j \in i + 1 .. Len(s) : Links(s, j)

BrokenRecord(s) == CHOOSE i \in DOMAIN s :
                      ~Links(s, i) /\ \A j \in 1 .. i - 1 : Links(s, j)

VerifyChain(s) ==
    IF ChainOk(s) THEN [ok |-> TRUE, broken_record_id |-> 0]
                  ELSE [ok |-> FALSE, broken_record_id |-> s[BrokenRecord(s)].id]

-----------------------------------------------------------------------------
Init ==
    /\ rows = << >>
    /\ lastId = 0
    /\ op = [c \in Conns |-> Idle]
    /\ appended = << >>
    /\ pack = [verification |-> VerifyChain(<< >>), events |-> << >>]

(* append(), first half: read the newest hash and compute the new record.  *)
ReadLastHash(c, event) ==
    /\ op[c].pc = "idle"
    /\ op' = [op EXCEPT ![c] =
                 [pc |-> "hashed", event |-> event, prev_hash |-> LastHash]]
    /\ UNCHANGED <<rows, lastId, appended, pack>>

(* Slip: the hash is computed from the newest row at INSERT time while     *)
(* prev_hash is the one read before.                                       *)
M_InsertRehashes(c) ==
    /\ op[c].pc = "hashed"
    /\ lastId < MaxRows
    /\ rows' = Append(rows,
                  [id          |-> lastId + 1,
                   event       |-> op[c].event,
                   prev_hash   |-> op[c].prev_hash,
                   record_hash |-> RecordHash(op[c].event, LastHash)])
    /\ lastId' = lastId + 1
    /\ appended' = Append(appended, op[c].event)
    /\ op' = [op EXCEPT ![c] = Idle]
    /\ UNCHANGED pack

(* append(), second half: INSERT and commit.                               *)
Insert(c) ==
    /\ op[c].pc = "hashed"
    /\ lastId < MaxRows
    /\ rows' = Append(rows,
                  [id          |-> lastId + 1,
                   event       |-> op[c].event,
                   prev_hash   |-> op[c].prev_hash,
                   record_hash |-> RecordHash(op[c].event, op[c].prev_hash)])
    /\ lastId' = lastId + 1
    /\ appended' = Append(appended, op[c].event)
    /\ op' = [op EXCEPT ![c] = Idle]
    /\ UNCHANGED pack

(* The process dies, or the INSERT raises (the database stays locked, a    *)
(* value cannot be encoded): append() and export leave nothing behind.       *)
OperationFails(c) ==
    /\ op[c].pc # "idle"
    /\ op' = [op EXCEPT ![c] = Idle]
    /\ UNCHANGED <<rows, lastId, appended, pack>>

(* export_evidence_pack(): one SELECT for the verdict, a second one for    *)
(* the events that go into the file.                                       *)
ExportVerify(c) ==
    /\ op[c].pc = "idle"
    /\ op' = [op EXCEPT ![c] =
                 [pc |-> "verified", verification |-> VerifyChain(rows)]]
    /\ UNCHANGED <<rows, lastId, appended, pack>>

(* Slip: the pack keeps the events of the previous export.                 *)
M_ExportWriteStaleEvents(c) ==
    /\ op[c].pc = "verified"
    /\ pack' = [pack EXCEPT !.verification = op[c].verification]
    /\ op' = [op EXCEPT ![c] = Idle]
    /\ UNCHANGED <<rows, lastId, appended>>

ExportWrite(c) ==
    /\ op[c].pc = "verified"
    /\ pack' = [verification |-> op[c].verification, events |-> rows]
    /\ op' = [op EXCEPT ![c] = Idle]
    /\ UNCHANGED <<rows, lastId, appended>>

Next ==
    \E c \in Conns :
        \/ \E event \in Events : ReadLastHash(c, event)
        \/ Insert(c)
        \/ ExportVerify(c)
        \/ ExportWrite(c)
        \/ OperationFails(c)

Spec == Init /\ [][Next]_vars

-----------------------------------------------------------------------------
(* Damage done to the file with the triggers out of the way, which          *)
(* verify_chain() is there to report: the columns of a row changed in      *)
(* place, or a row that is not the newest one removed.  (Losing the newest *)
(* rows leaves a shorter chain that is itself intact.)                     *)

DamageRow(i, event) ==
    /\ i \in DOMAIN rows
    /\ rows' = [rows EXCEPT ![i].event = event]
    /\ UNCHANGED <<lastId, op, appended, pack>>

LoseRow(i) ==
    /\ i \in 1 .. Len(rows) - 1
    /\ rows' = SubSeq(rows, 1, i - 1) \o SubSeq(rows, i + 1, Len(rows))
    /\ UNCHANGED <<lastId, op, appended, pack>>

DamageNext ==
    \/ Next
    \/ \E i \in 1 .. MaxRows :
          \/ \E event \in Events : DamageRow(i, event)
          \/ LoseRow(i)

DamageSpec == Init /\ [][DamageNext]_vars

-----------------------------------------------------------------------------
TypeOK ==
    /\ rows \in Seq(Row)
    /\ lastId \in Nat
    /\ op \in [Conns -> {Idle} \cup Hashed \cup Verified]
    /\ appended \in Seq(Events)
    /\ pack \in Pack

(* What is stored is what was appended, in that order.                     *)
StoredIsAppended ==
    /\ Len(rows) = Len(appended)
    /\ \A i \in DOMAIN rows : rows[i].event = appended[i]

(* One unbroken chain: verify_chain() accepts every log that only append() *)
(* has written, whatever crashed in between.                               *)
ChainIntact == VerifyChain(rows).ok

(* With several connections the records still form a tree: each record's   *)
(* own hash recomputes, and its prev_hash is the hash of some older record *)
(* or genesis.  No event is ever linked to a record that was not stored.   *)
ChainIsTree ==
    \A i \in DOMAIN rows :
        /\ rows[i].record_hash = RecordHash(rows[i].event, rows[i].prev_hash)
        /\ \/ rows[i].prev_hash = GENESIS_HASH
           \/ \E j \in 1 .. i - 1 : rows[i].prev_hash = rows[j].record_hash

(* verify_chain() is exact: after any sequence of appends, damaged rows    *)
(* and lost inner rows it says ok precisely when the surviving rows are    *)
(* the events that were appended (a row damaged and put back counts as     *)
(* undamaged).                                                             *)
VerifyIsExact == VerifyChain(rows).ok <=> StoredIsAppended

(* The record named as broken is the first that cannot be trusted: every   *)
(* row older than it still holds the event that was appended there.        *)
BrokenIdIsFirst ==
    ~VerifyChain(rows).ok =>
        \A i \in DOMAIN rows :
            rows[i].id < VerifyChain(rows).broken_record_id
                => rows[i].event = appended[i] /\ rows[i].id = i

(* An evidence pack whose verdict is "broken" is right about its own       *)
(* events, whatever other connections appended between the two SELECTs     *)
(* that fill it: a broken chain cannot be mended by appending to it.  (The *)
(* verdict "ok" is only as good as the events there were when it was read.)*)
PackBrokenIsRight ==
    ~pack.verification.ok => VerifyChain(pack.events) = pack.verification
=============================================================================
