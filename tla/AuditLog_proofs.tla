--------------------------- MODULE AuditLog_proofs ---------------------------
(***************************************************************************)
(* Proofs about AuditLog, for every set of connections and of events.      *)
(*                                                                         *)
(* verify_chain() reports the first broken record: when the chain is       *)
(* broken there is one, since of any positions there is a least.           *)
(***************************************************************************)
EXTENDS AuditLog, SequenceTheorems, WellFoundedInduction, TLAPS

FirstBroken(s, i) ==
    /\ i \in DOMAIN s
    /\ ~Links(s, i)
    /\ \A j \in 1 .. i - 1 : Links(s, j)

-----------------------------------------------------------------------------
(* Sets of positions.                                                      *)
Less == {pair \in Nat \X Nat : pair[1] < pair[2]}

LEMMA LessWellFounded == IsWellFoundedOn(Less, Nat)
BY NatLessThanWellFounded, Zenon DEF OpToRel, Less

LEMMA Least ==
    ASSUME NEW T \in SUBSET Nat, T # {}
    PROVE  \E n \in T : \A m \in T : n <= m
<1>1. PICK n \in T : \A m \in T : ~(<<m, n>> \in Less)
    BY LessWellFounded, WFMin
<1>2. \A m \in T : ~(m < n)
    BY <1>1 DEF Less
<1> QED BY <1>2

LEMMA FirstExists ==
    ASSUME NEW s \in Seq(Row), ~ChainOk(s)
    PROVE  FirstBroken(s, BrokenRecord(s))
<1> DEFINE T == {i \in DOMAIN s : ~Links(s, i)}
<1>1. Len(s) \in Nat /\ DOMAIN s = 1 .. Len(s)
    BY LenProperties
<1>2. T \in SUBSET Nat /\ T # {}
    BY <1>1 DEF ChainOk
<1>3. PICK i \in T : \A j \in T : i <= j
    BY <1>2, Least
<1>4. \A j \in 1 .. i - 1 : j \in DOMAIN s /\ ~(i <= j)
    BY <1>1
<1>5. \A j \in 1 .. i - 1 : Links(s, j)
    BY <1>3, <1>4
<1>6. \E k \in DOMAIN s : ~Links(s, k) /\ \A j \in 1 .. k - 1 : Links(s, j)
    BY <1>5
<1> QED BY <1>6 DEF BrokenRecord, FirstBroken

LEMMA FirstIsUnique ==
    ASSUME NEW s \in Seq(Row), NEW i, FirstBroken(s, i)
    PROVE  ~ChainOk(s) /\ BrokenRecord(s) = i
<1>1. ~ChainOk(s) /\ i \in DOMAIN s
    BY DEF FirstBroken, ChainOk
<1>2. PICK k : k = BrokenRecord(s)
    OBVIOUS
<1>3. FirstBroken(s, k)
    BY <1>1, <1>2, FirstExists
<1>4. DOMAIN s = 1 .. Len(s) /\ Len(s) \in Nat
    BY LenProperties
<1>5. ~(i < k) /\ ~(k < i)
    BY <1>3, <1>4 DEF FirstBroken
<1> QED BY <1>1, <1>2, <1>3, <1>4, <1>5 DEF FirstBroken

-----------------------------------------------------------------------------
(* A link only looks at its own record and the one before it, so a record  *)
(* appended to a table leaves the older links as they were.                *)
LEMMA LinksOfAppend ==
    ASSUME NEW s \in Seq(Row), NEW r \in Row, NEW i \in DOMAIN s
    PROVE  Links(Append(s, r), i) <=> Links(s, i)
<1>1. i \in 1 .. Len(s) /\ Len(s) \in Nat
    BY LenProperties
<1>2. Append(s, r)[i] = s[i]
    BY <1>1, AppendProperties
<1>3. ExpectedPrev(Append(s, r), i) = ExpectedPrev(s, i)
    <2>1. CASE i = 1
        BY <2>1 DEF ExpectedPrev
    <2>2. CASE i # 1
        <3>1. i - 1 \in 1 .. Len(s)
            BY <1>1, <2>2
        <3>2. Append(s, r)[i - 1] = s[i - 1]
            BY <3>1, AppendProperties
        <3> QED BY <2>2, <3>2 DEF ExpectedPrev
    <2> QED BY <2>1, <2>2
<1> QED BY <1>2, <1>3 DEF Links

(* A broken chain cannot be mended by appending to it.                     *)
LEMMA BrokenStays ==
    ASSUME NEW s \in Seq(Row), NEW r \in Row, ~VerifyChain(s).ok
    PROVE  VerifyChain(Append(s, r)) = VerifyChain(s)
<1>1. PICK t, i : t = Append(s, r) /\ i = BrokenRecord(s)
    OBVIOUS
<1>2. ~ChainOk(s)
    BY DEF VerifyChain
<1>3. FirstBroken(s, i)
    BY <1>1, <1>2, FirstExists
<1>4. /\ t \in Seq(Row) /\ Len(s) \in Nat /\ DOMAIN s = 1 .. Len(s)
      /\ Len(t) = Len(s) + 1 /\ \A j \in 1 .. Len(s) : t[j] = s[j]
    BY <1>1, LenProperties, AppendProperties
<1>5. DOMAIN t = 1 .. Len(s) + 1
    BY <1>4, LenProperties
<1>6. \A j \in DOMAIN s : Links(t, j) <=> Links(s, j)
    BY <1>1, LinksOfAppend
<1>7. i \in DOMAIN t /\ t[i] = s[i] /\ \A j \in 1 .. i - 1 : j \in DOMAIN s
    BY <1>3, <1>4, <1>5 DEF FirstBroken
<1>8. FirstBroken(t, i)
    BY <1>3, <1>6, <1>7 DEF FirstBroken
<1>9. ~ChainOk(t) /\ BrokenRecord(t) = i
    BY <1>4, <1>8, FirstIsUnique
<1> QED BY <1>1, <1>2, <1>7, <1>9 DEF VerifyChain

LEMMA VerdictType ==
    ASSUME NEW s \in Seq(Row)
    PROVE  VerifyChain(s) \in Verdict
<1>1. CASE ChainOk(s)
    BY <1>1 DEF VerifyChain, Verdict
<1>2. CASE ~ChainOk(s)
    <2>1. BrokenRecord(s) \in DOMAIN s
        BY <1>2, FirstExists DEF FirstBroken
    <2>2. s[BrokenRecord(s)] \in Row
        BY <2>1, LenProperties, ElementOfSeq
    <2> QED BY <1>2, <2>2 DEF VerifyChain, Verdict, Row
<1> QED BY <1>1, <1>2

LEMMA LastHashType ==
    ASSUME TypeOK
    PROVE  LastHash \in Hash
<1>1. CASE rows = << >>
    BY <1>1, EmptySeq DEF LastHash, Hash, GENESIS_HASH
<1>2. CASE rows # << >>
    <2>1. Len(rows) \in 1 .. Len(rows)
        BY <1>2, EmptySeq, LenProperties DEF TypeOK
    <2>2. rows[Len(rows)] \in Row
        BY <2>1, ElementOfSeq DEF TypeOK
    <2> QED BY <1>2, <2>2 DEF LastHash, Row
<1> QED BY <1>1, <1>2

LEMMA NewRowType ==
    ASSUME TypeOK, NEW c \in Conns, op[c].pc = "hashed"
    PROVE  /\ op[c] \in Hashed
           /\ [id          |-> lastId + 1,
               event       |-> op[c].event,
               prev_hash   |-> op[c].prev_hash,
               record_hash |-> RecordHash(op[c].event, op[c].prev_hash)] \in Row
<1>1. op[c] \in Hashed
    BY DEF TypeOK, Idle, Hashed, Verified
<1>2. RecordHash(op[c].event, op[c].prev_hash) \in Hash
    BY <1>1, AppendProperties DEF RecordHash, Hash, Hashed
<1> QED BY <1>1, <1>2 DEF Row, Hashed, TypeOK

-----------------------------------------------------------------------------
LEMMA InitTypeOK == Init => TypeOK
<1> SUFFICES ASSUME Init PROVE TypeOK
    OBVIOUS
<1>1. << >> \in Seq(Row) /\ << >> \in Seq(Events) /\ DOMAIN << >> = {}
    BY EmptySeq
<1>2. ChainOk(<< >>)
    BY <1>1 DEF ChainOk
<1> QED BY <1>1, <1>2 DEF Init, TypeOK, Idle, VerifyChain, Pack, Verdict

LEMMA NextTypeOK == TypeOK /\ [Next]_vars => TypeOK'
<1> SUFFICES ASSUME TypeOK, [Next]_vars PROVE TypeOK'
    OBVIOUS
<1>1. ASSUME NEW c \in Conns, NEW event \in Events, ReadLastHash(c, event)
      PROVE  TypeOK'
    <2>1. [pc |-> "hashed", event |-> event, prev_hash |-> LastHash] \in Hashed
        BY LastHashType DEF Hashed
    <2> QED BY <1>1, <2>1 DEF ReadLastHash, TypeOK
<1>2. ASSUME NEW c \in Conns, Insert(c)
      PROVE  TypeOK'
    <2>1. PICK r \in Row : rows' = Append(rows, r)
        BY <1>2, NewRowType DEF Insert
    <2>2. rows' \in Seq(Row)
        BY <2>1, AppendProperties DEF TypeOK
    <2>3. appended' \in Seq(Events)
        BY <1>2, NewRowType, AppendProperties DEF Insert, TypeOK, Hashed
    <2> QED BY <1>2, <2>2, <2>3 DEF Insert, TypeOK
<1>3. ASSUME NEW c \in Conns, OperationFails(c)
      PROVE  TypeOK'
    BY <1>3 DEF OperationFails, TypeOK
<1>4. ASSUME NEW c \in Conns, ExportVerify(c)
      PROVE  TypeOK'
    <2>1. [pc |-> "verified", verification |-> VerifyChain(rows)] \in Verified
        BY VerdictType DEF Verified, TypeOK
    <2> QED BY <1>4, <2>1 DEF ExportVerify, TypeOK
<1>5. ASSUME NEW c \in Conns, ExportWrite(c)
      PROVE  TypeOK'
    <2>1. op[c] \in Verified
        BY <1>5 DEF ExportWrite, TypeOK, Idle, Hashed, Verified
    <2>2. pack' \in Pack
        BY <1>5, <2>1 DEF ExportWrite, TypeOK, Verified, Pack
    <2> QED BY <1>5, <2>2 DEF ExportWrite, TypeOK
<1>6. CASE UNCHANGED vars
    BY <1>6 DEF vars, TypeOK
<1> QED BY <1>1, <1>2, <1>3, <1>4, <1>5, <1>6 DEF Next

(* The stores' state stays well typed, whatever connections do and         *)
(* wherever they die; in particular a broken chain always has a first      *)
(* broken record for verify_chain() to name.                               *)
THEOREM TypeCorrect == Spec => []TypeOK
BY InitTypeOK, NextTypeOK, PTL DEF Spec

-----------------------------------------------------------------------------
(* With any number of connections the inductive invariant says what a      *)
(* pending append() holds: the hash of some stored record, or genesis.     *)
KnownHash(h) ==
    \/ h = GENESIS_HASH
    \/ \E j \in DOMAIN rows : h = rows[j].record_hash

PendingKnown == \A c \in Conns : op[c].pc = "hashed" => KnownHash(op[c].prev_hash)

TreeInv == TypeOK /\ ChainIsTree /\ PendingKnown

LEMMA LastHashKnown ==
    ASSUME TypeOK
    PROVE  KnownHash(LastHash)
<1>1. CASE rows = << >>
    BY <1>1 DEF LastHash, KnownHash
<1>2. CASE rows # << >>
    <2>1. Len(rows) \in DOMAIN rows
        BY <1>2, EmptySeq, LenProperties DEF TypeOK
    <2> QED BY <1>2, <2>1 DEF LastHash, KnownHash
<1> QED BY <1>1, <1>2

LEMMA InitTreeInv == Init => TreeInv
<1> SUFFICES ASSUME Init PROVE TreeInv
    OBVIOUS
<1>1. rows = << >> /\ DOMAIN rows = {}
    BY EmptySeq DEF Init
<1>2. ChainIsTree
    BY <1>1 DEF ChainIsTree
<1>3. PendingKnown
    BY DEF Init, PendingKnown, Idle
<1> QED BY <1>2, <1>3, InitTypeOK DEF TreeInv

LEMMA NextTreeInv == TreeInv /\ [Next]_vars => TreeInv'
<1> SUFFICES ASSUME TreeInv, [Next]_vars PROVE TreeInv'
    OBVIOUS
<1> USE DEF TreeInv
<1>1. TypeOK'
    BY NextTypeOK
<1>2. ASSUME NEW c \in Conns, NEW event \in Events, ReadLastHash(c, event)
      PROVE  ChainIsTree' /\ PendingKnown'
    <2>1. rows' = rows
        BY <1>2 DEF ReadLastHash
    <2>2. ChainIsTree'
        BY <2>1 DEF ChainIsTree
    <2>3. PendingKnown'
        <3> SUFFICES ASSUME NEW d \in Conns, op'[d].pc = "hashed"
                     PROVE  KnownHash(op'[d].prev_hash)
            BY <2>1 DEF PendingKnown, KnownHash
        <3>1. CASE d = c
            BY <1>2, <3>1, LastHashKnown DEF ReadLastHash, TypeOK
        <3>2. CASE d # c
            BY <1>2, <3>2 DEF ReadLastHash, TypeOK, PendingKnown
        <3> QED BY <3>1, <3>2
    <2> QED BY <2>2, <2>3
<1>3. ASSUME NEW c \in Conns, Insert(c)
      PROVE  ChainIsTree' /\ PendingKnown'
    <2> DEFINE r == [id          |-> lastId + 1,
                     event       |-> op[c].event,
                     prev_hash   |-> op[c].prev_hash,
                     record_hash |-> RecordHash(op[c].event, op[c].prev_hash)]
    <2>1. /\ rows \in Seq(Row) /\ r \in Row /\ rows' = Append(rows, r)
          /\ Len(rows) \in Nat /\ DOMAIN rows = 1 .. Len(rows)
        BY <1>3, NewRowType, LenProperties DEF Insert, TypeOK
    <2> HIDE DEF r
    <2>2. /\ DOMAIN rows' = 1 .. Len(rows) + 1
          /\ \A i \in 1 .. Len(rows) : rows'[i] = rows[i]
          /\ rows'[Len(rows) + 1] = r
        BY <2>1, AppendProperties, LenProperties
    <2>3. KnownHash(r.prev_hash)
        BY <1>3 DEF r, Insert, PendingKnown
    <2>4. r.record_hash = RecordHash(r.event, r.prev_hash)
        BY DEF r
    <2>5. ASSUME NEW i \in 1 .. Len(rows)
          PROVE  /\ rows'[i].record_hash = RecordHash(rows'[i].event, rows'[i].prev_hash)
                 /\ \/ rows'[i].prev_hash = GENESIS_HASH
                    \/ \E j \in 1 .. i - 1 : rows'[i].prev_hash = rows'[j].record_hash
        <3>1. \A j \in 1 .. i - 1 : rows'[j] = rows[j]
            BY <2>1, <2>2
        <3> QED BY <2>1, <2>2, <3>1 DEF ChainIsTree
    <2>6. ChainIsTree'
        BY <2>1, <2>2, <2>3, <2>4, <2>5 DEF ChainIsTree, KnownHash
    <2>7. PendingKnown'
        <3> SUFFICES ASSUME NEW d \in Conns, op'[d].pc = "hashed"
                     PROVE  \/ op'[d].prev_hash = GENESIS_HASH
                            \/ \E j \in DOMAIN rows' :
                                  op'[d].prev_hash = rows'[j].record_hash
            BY DEF PendingKnown, KnownHash
        <3>1. op'[d] = op[d]
            BY <1>3 DEF Insert, Idle, TypeOK
        <3>2. KnownHash(op[d].prev_hash)
            BY <3>1 DEF PendingKnown
        <3> QED BY <2>1, <2>2, <3>1, <3>2 DEF KnownHash
    <2> QED BY <2>6, <2>7
<1>4. ASSUME NEW c \in Conns,
             OperationFails(c) \/ ExportVerify(c) \/ ExportWrite(c)
      PROVE  ChainIsTree' /\ PendingKnown'
    <2>1. rows' = rows
        BY <1>4 DEF OperationFails, ExportVerify, ExportWrite
    <2>2. ASSUME NEW d \in Conns, op'[d].pc = "hashed"
          PROVE  op'[d] = op[d]
        BY <1>4, <2>2 DEF OperationFails, ExportVerify, ExportWrite, Idle, TypeOK
    <2> QED BY <2>1, <2>2 DEF ChainIsTree, PendingKnown, KnownHash
<1>5. CASE UNCHANGED vars
    BY <1>1, <1>5 DEF vars, ChainIsTree, PendingKnown, KnownHash
<1> QED BY <1>1, <1>2, <1>3, <1>4, <1>5 DEF Next

(* However many connections append and wherever they die, no record is     *)
(* ever linked to anything but an older stored record, and every record's  *)
(* own hash recomputes: concurrency can fork the chain, not corrupt it.    *)
THEOREM ForksStayLinked == Spec => []ChainIsTree
<1>1. TreeInv => ChainIsTree
    BY DEF TreeInv
<1> QED BY <1>1, InitTreeInv, NextTreeInv, PTL DEF Spec

-----------------------------------------------------------------------------
(* With one connection nothing is appended between the SELECT and the      *)
(* INSERT, so a pending append() still holds the newest hash.              *)
PendingIsNewest == \A c \in Conns : op[c].pc = "hashed" => op[c].prev_hash = LastHash

ChainInv == TypeOK /\ ChainOk(rows) /\ PendingIsNewest

LEMMA ChainOkOfAppend ==
    ASSUME TypeOK, ChainOk(rows), NEW r \in Row,
           r.prev_hash = LastHash,
           r.record_hash = RecordHash(r.event, r.prev_hash)
    PROVE  ChainOk(Append(rows, r))
<1> DEFINE t == Append(rows, r)
           n == Len(rows)
<1>1. /\ rows \in Seq(Row) /\ n \in Nat /\ DOMAIN rows = 1 .. n
      /\ DOMAIN t = 1 .. n + 1
      /\ t[n + 1] = r
      /\ \A i \in 1 .. n : t[i] = rows[i]
    BY LenProperties, AppendProperties DEF TypeOK
<1>2. \A i \in 1 .. n : Links(t, i)
    BY <1>1, LinksOfAppend DEF ChainOk
<1>3. ExpectedPrev(t, n + 1) = LastHash
    <2>1. CASE rows = << >>
        BY <2>1, EmptySeq DEF ExpectedPrev, LastHash
    <2>2. CASE rows # << >>
        <3>1. n \in 1 .. n
            BY <1>1, <2>2, EmptySeq
        <3> QED BY <1>1, <2>2, <3>1 DEF ExpectedPrev, LastHash
    <2> QED BY <2>1, <2>2
<1>4. Links(t, n + 1)
    BY <1>1, <1>3 DEF Links
<1> QED BY <1>1, <1>2, <1>4 DEF ChainOk

LEMMA NextChainInv ==
    ASSUME \A c, d \in Conns : c = d
    PROVE  ChainInv /\ [Next]_vars => ChainInv'
<1> SUFFICES ASSUME ChainInv, [Next]_vars PROVE ChainInv'
    OBVIOUS
<1> USE DEF ChainInv
<1>1. TypeOK'
    BY NextTypeOK
<1>2. ASSUME NEW c \in Conns, NEW event \in Events, ReadLastHash(c, event)
      PROVE  ChainOk(rows)' /\ PendingIsNewest'
    <2>1. rows' = rows /\ op'[c].prev_hash = LastHash
        BY <1>2 DEF ReadLastHash, TypeOK
    <2> QED BY <2>1 DEF PendingIsNewest, LastHash
<1>3. ASSUME NEW c \in Conns, Insert(c)
      PROVE  ChainOk(rows)' /\ PendingIsNewest'
    <2> DEFINE r == [id          |-> lastId + 1,
                     event       |-> op[c].event,
                     prev_hash   |-> op[c].prev_hash,
                     record_hash |-> RecordHash(op[c].event, op[c].prev_hash)]
    <2>1. r \in Row /\ rows' = Append(rows, r)
        BY <1>3, NewRowType DEF Insert, TypeOK
    <2>2. r.prev_hash = LastHash
        BY <1>3 DEF Insert, PendingIsNewest
    <2>3. ChainOk(rows)'
        BY <2>1, <2>2, ChainOkOfAppend DEF TypeOK
    <2>4. \A d \in Conns : op'[d].pc # "hashed"
        BY <1>3 DEF Insert, Idle, TypeOK
    <2> QED BY <2>3, <2>4 DEF PendingIsNewest
<1>4. ASSUME NEW c \in Conns,
             OperationFails(c) \/ ExportVerify(c) \/ ExportWrite(c)
      PROVE  ChainOk(rows)' /\ PendingIsNewest'
    <2>1. rows' = rows /\ op'[c].pc # "hashed"
        BY <1>4 DEF OperationFails, ExportVerify, ExportWrite, Idle, TypeOK
    <2> QED BY <2>1 DEF PendingIsNewest
<1>5. CASE UNCHANGED vars
    BY <1>1, <1>5 DEF vars, PendingIsNewest, LastHash
<1> QED BY <1>1, <1>2, <1>3, <1>4, <1>5 DEF Next

(* Whatever the number of connections, the table holds the events in the   *)
(* order append() was given them.                                          *)
LEMMA NextStoredIsAppended ==
    TypeOK /\ StoredIsAppended /\ [Next]_vars => StoredIsAppended'
<1> SUFFICES ASSUME TypeOK, StoredIsAppended, [Next]_vars PROVE StoredIsAppended'
    OBVIOUS
<1>1. ASSUME NEW c \in Conns, Insert(c)
      PROVE  StoredIsAppended'
    <2> DEFINE r == [id          |-> lastId + 1,
                     event       |-> op[c].event,
                     prev_hash   |-> op[c].prev_hash,
                     record_hash |-> RecordHash(op[c].event, op[c].prev_hash)]
               n == Len(rows)
    <2>1. /\ rows' = Append(rows, r) /\ appended' = Append(appended, op[c].event)
          /\ r \in Row /\ op[c].event \in Events
        BY <1>1, NewRowType DEF Insert, TypeOK, Row
    <2>2. r.event = op[c].event
        OBVIOUS
    <2> HIDE DEF r
    <2>3. /\ rows \in Seq(Row) /\ appended \in Seq(Events)
          /\ n \in Nat /\ Len(appended) = n /\ DOMAIN rows = 1 .. n
        BY LenProperties DEF TypeOK, StoredIsAppended
    <2>4. /\ Len(rows') = n + 1 /\ DOMAIN rows' = 1 .. n + 1
          /\ rows'[n + 1] = r /\ \A i \in 1 .. n : rows'[i] = rows[i]
        BY <2>1, <2>3, AppendProperties, LenProperties
    <2>5. /\ Len(appended') = n + 1 /\ appended'[n + 1] = r.event
          /\ \A i \in 1 .. n : appended'[i] = appended[i]
        BY <2>1, <2>2, <2>3, AppendProperties
    <2>6. ASSUME NEW i \in 1 .. n + 1
          PROVE  rows'[i].event = appended'[i]
        <3>1. CASE i = n + 1
            BY <3>1, <2>4, <2>5
        <3>2. CASE i \in 1 .. n
            BY <3>2, <2>3, <2>4, <2>5 DEF StoredIsAppended
        <3> QED BY <3>1, <3>2, <2>3
    <2> QED BY <2>4, <2>5, <2>6 DEF StoredIsAppended
<1>2. ASSUME NEW c \in Conns,
             \/ \E event \in Events : ReadLastHash(c, event)
             \/ OperationFails(c) \/ ExportVerify(c) \/ ExportWrite(c)
      PROVE  StoredIsAppended'
    BY <1>2 DEF ReadLastHash, OperationFails, ExportVerify, ExportWrite, StoredIsAppended
<1>3. CASE UNCHANGED vars
    BY <1>3 DEF vars, StoredIsAppended
<1> QED BY <1>1, <1>2, <1>3 DEF Next

(* A log written through one connection is one unbroken chain of just the  *)
(* events append() was given, whatever fails in between: verify_chain()    *)
(* accepts it, and is right to.                                            *)
THEOREM SingleWriterChain ==
    ASSUME \A c, d \in Conns : c = d
    PROVE  Spec => [](ChainIntact /\ VerifyIsExact)
<1>1. Init => ChainInv /\ StoredIsAppended
    <2> SUFFICES ASSUME Init PROVE ChainInv /\ StoredIsAppended
        OBVIOUS
    <2>1. ChainOk(rows)
        BY EmptySeq DEF Init, ChainOk
    <2>2. PendingIsNewest
        BY DEF Init, PendingIsNewest, Idle
    <2>3. StoredIsAppended
        BY EmptySeq DEF Init, StoredIsAppended
    <2> QED BY <2>1, <2>2, <2>3, InitTypeOK DEF ChainInv
<1>2. ChainInv /\ StoredIsAppended /\ [Next]_vars => (ChainInv /\ StoredIsAppended)'
    BY NextChainInv, NextStoredIsAppended DEF ChainInv
<1>3. ChainInv /\ StoredIsAppended => ChainIntact /\ VerifyIsExact
    BY DEF ChainInv, ChainIntact, VerifyIsExact, VerifyChain
<1> QED BY <1>1, <1>2, <1>3, PTL DEF Spec

-----------------------------------------------------------------------------
(* Evidence packs: a verdict "broken" that an export holds stays right,    *)
(* because the rows are only appended to until it writes its file.         *)
VerdictStands ==
    \A c \in Conns : op[c].pc = "verified" /\ ~op[c].verification.ok =>
        VerifyChain(rows) = op[c].verification

PackInv == TypeOK /\ VerdictStands /\ PackBrokenIsRight

LEMMA InitPackInv == Init => PackInv
<1> SUFFICES ASSUME Init PROVE PackInv
    OBVIOUS
<1>1. VerdictStands
    BY DEF Init, VerdictStands, Idle
<1>2. VerifyChain(<< >>) = pack.verification /\ pack.events = << >>
    BY DEF Init
<1> QED BY <1>1, <1>2, InitTypeOK DEF PackInv, PackBrokenIsRight

LEMMA NextPackInv == PackInv /\ [Next]_vars => PackInv'
<1> SUFFICES ASSUME PackInv, [Next]_vars PROVE PackInv'
    OBVIOUS
<1> USE DEF PackInv
<1>1. TypeOK'
    BY NextTypeOK
<1>2. ASSUME NEW c \in Conns, NEW event \in Events, ReadLastHash(c, event)
      PROVE  VerdictStands' /\ PackBrokenIsRight'
    <2>1. rows' = rows /\ pack' = pack /\ \A d \in Conns : d # c => op'[d] = op[d]
        BY <1>2 DEF ReadLastHash, TypeOK
    <2>2. op'[c].pc = "hashed"
        BY <1>2 DEF ReadLastHash, TypeOK
    <2> QED BY <2>1, <2>2 DEF VerdictStands, PackBrokenIsRight
<1>3. ASSUME NEW c \in Conns, Insert(c)
      PROVE  VerdictStands' /\ PackBrokenIsRight'
    <2>1. PICK r \in Row : rows' = Append(rows, r)
        BY <1>3, NewRowType DEF Insert
    <2>2. pack' = pack /\ \A d \in Conns : d # c => op'[d] = op[d]
        BY <1>3 DEF Insert, TypeOK
    <2>3. op'[c].pc = "idle"
        BY <1>3 DEF Insert, TypeOK, Idle
    <2>4. ASSUME NEW d \in Conns, op'[d].pc = "verified", ~op'[d].verification.ok
          PROVE  VerifyChain(rows') = op'[d].verification
        <3>1. op'[d] = op[d]
            BY <2>2, <2>3, <2>4
        <3>2. VerifyChain(rows) = op[d].verification /\ ~VerifyChain(rows).ok
            BY <2>4, <3>1 DEF VerdictStands
        <3>3. VerifyChain(rows') = VerifyChain(rows)
            BY <2>1, <3>2, BrokenStays DEF TypeOK
        <3> QED BY <3>1, <3>2, <3>3
    <2> QED BY <2>2, <2>4 DEF VerdictStands, PackBrokenIsRight
<1>4. ASSUME NEW c \in Conns, OperationFails(c)
      PROVE  VerdictStands' /\ PackBrokenIsRight'
    <2>1. rows' = rows /\ pack' = pack /\ \A d \in Conns : d # c => op'[d] = op[d]
        BY <1>4 DEF OperationFails, TypeOK
    <2>2. op'[c].pc = "idle"
        BY <1>4 DEF OperationFails, TypeOK, Idle
    <2> QED BY <2>1, <2>2 DEF VerdictStands, PackBrokenIsRight
<1>5. ASSUME NEW c \in Conns, ExportVerify(c)
      PROVE  VerdictStands' /\ PackBrokenIsRight'
    <2>1. rows' = rows /\ pack' = pack /\ \A d \in Conns : d # c => op'[d] = op[d]
        BY <1>5 DEF ExportVerify, TypeOK
    <2>2. op'[c].verification = VerifyChain(rows)
        BY <1>5 DEF ExportVerify, TypeOK
    <2> QED BY <2>1, <2>2 DEF VerdictStands, PackBrokenIsRight
<1>6. ASSUME NEW c \in Conns, ExportWrite(c)
      PROVE  VerdictStands' /\ PackBrokenIsRight'
    <2>1. rows' = rows /\ \A d \in Conns : d # c => op'[d] = op[d]
        BY <1>6 DEF ExportWrite, TypeOK
    <2>2. op'[c].pc = "idle"
        BY <1>6 DEF ExportWrite, TypeOK, Idle
    <2>3. pack'.verification = op[c].verification /\ pack'.events = rows
        BY <1>6 DEF ExportWrite
    <2>4. ~op[c].verification.ok => VerifyChain(rows) = op[c].verification
        BY <1>6 DEF ExportWrite, VerdictStands
    <2> QED BY <2>1, <2>2, <2>3, <2>4 DEF VerdictStands, PackBrokenIsRight
<1>7. CASE UNCHANGED vars
    BY <1>1, <1>7 DEF vars, VerdictStands, PackBrokenIsRight
<1> QED BY <1>1, <1>2, <1>3, <1>4, <1>5, <1>6, <1>7 DEF Next

(* However many connections append while a pack is exported, a pack that   *)
(* says "broken" names the first broken record of the very events in it.   *)
THEOREM BrokenPackIsRight == Spec => []PackBrokenIsRight
<1>1. PackInv => PackBrokenIsRight
    BY DEF PackInv
<1> QED BY <1>1, InitPackInv, NextPackInv, PTL DEF Spec

-----------------------------------------------------------------------------
(* A damaged log of one connection.  Whatever is done to the rows, their   *)
(* hashes are still those of the events appended up to their ids, and the  *)
(* ids stay in order, the newest being the last one given out.             *)
HashOf(h, n) == h \in Seq(Events) /\ Len(h) = n /\ \A k \in 1 .. n : h[k] = appended[k]

RowKept(i) ==
    /\ rows[i].id \in 1 .. lastId
    /\ HashOf(rows[i].record_hash, rows[i].id)
    /\ HashOf(rows[i].prev_hash, rows[i].id - 1)

IdsInOrder ==
    \A i, j \in DOMAIN rows : i <= j => j - i <= rows[j].id - rows[i].id

KeptInv ==
    /\ TypeOK
    /\ Len(appended) = lastId
    /\ \A i \in DOMAIN rows : RowKept(i)
    /\ IdsInOrder
    /\ IF rows = << >> THEN lastId = 0 ELSE rows[Len(rows)].id = lastId
    /\ \A c \in Conns : op[c].pc = "hashed" => HashOf(op[c].prev_hash, lastId)

LEMMA HashesEqual ==
    ASSUME NEW h, NEW g, NEW n, HashOf(h, n), HashOf(g, n)
    PROVE  h = g
<1>1. h \in Seq(Events) /\ g \in Seq(Events) /\ Len(h) = Len(g)
    BY DEF HashOf
<1>2. \A k \in 1 .. Len(h) : h[k] = g[k]
    BY DEF HashOf
<1> QED BY <1>1, <1>2, SeqEqual

LEMMA HashNext ==
    ASSUME NEW h, NEW n \in Nat, HashOf(h, n), NEW event \in Events, NEW g,
           g = RecordHash(event, h)
    PROVE  HashOf(g, n + 1) <=> event = appended[n + 1]
<1>1. /\ g \in Seq(Events) /\ Len(g) = n + 1 /\ g[n + 1] = event
      /\ \A k \in 1 .. n : g[k] = h[k]
    <2>1. h \in Seq(Events) /\ Len(h) = n
        BY DEF HashOf
    <2> QED BY <2>1, AppendProperties DEF RecordHash
<1>2. \A k \in 1 .. n : g[k] = appended[k]
    BY <1>1 DEF HashOf
<1>3. \A k \in 1 .. n + 1 : k \in 1 .. n \/ k = n + 1
    OBVIOUS
<1>4. n + 1 \in 1 .. n + 1
    OBVIOUS
<1> QED BY <1>1, <1>2, <1>3, <1>4 DEF HashOf

LEMMA KeptRows ==
    ASSUME KeptInv
    PROVE  /\ rows \in Seq(Row) /\ Len(rows) \in Nat /\ DOMAIN rows = 1 .. Len(rows)
           /\ \A i \in DOMAIN rows : rows[i] \in Row /\ rows[i].id \in Nat
           /\ lastId \in Nat
<1>1. rows \in Seq(Row) /\ lastId \in Nat
    BY DEF KeptInv, TypeOK
<1>2. Len(rows) \in Nat /\ DOMAIN rows = 1 .. Len(rows) /\ \A i \in DOMAIN rows : rows[i] \in Row
    BY <1>1, LenProperties, ElementOfSeq
<1> QED BY <1>1, <1>2 DEF Row

(* What verify_chain() sees of a record: its event is the one appended     *)
(* under its id, and the id is the one after the previous record's.        *)
LEMMA LinkMeans ==
    ASSUME KeptInv, NEW i \in DOMAIN rows
    PROVE  Links(rows, i) <=>
              /\ rows[i].event = appended[rows[i].id]
              /\ rows[i].id = IF i = 1 THEN 1 ELSE rows[i - 1].id + 1
<1>1. /\ i \in Nat /\ rows[i] \in Row /\ rows[i].id \in 1 .. lastId /\ lastId \in Nat
      /\ HashOf(rows[i].record_hash, rows[i].id)
      /\ HashOf(rows[i].prev_hash, rows[i].id - 1)
    BY KeptRows DEF KeptInv, RowKept
<1>2. PICK n \in Nat : rows[i].id = n + 1
    <2>1. rows[i].id - 1 \in Nat /\ rows[i].id = (rows[i].id - 1) + 1
        BY <1>1
    <2> QED BY <2>1
<1>3. HashOf(rows[i].record_hash, n + 1) /\ HashOf(rows[i].prev_hash, n)
    BY <1>1, <1>2
<1>4. rows[i].record_hash = RecordHash(rows[i].event, rows[i].prev_hash)
         <=> rows[i].event = appended[rows[i].id]
    <2>1. PICK g : g = RecordHash(rows[i].event, rows[i].prev_hash)
        OBVIOUS
    <2>2. rows[i].event \in Events
        BY <1>1 DEF Row
    <2>3. HashOf(g, n + 1) <=> rows[i].event = appended[n + 1]
        BY <1>3, <2>1, <2>2, HashNext
    <2>4. HashOf(g, n + 1) <=> g = rows[i].record_hash
        BY <1>3, HashesEqual
    <2> QED BY <1>2, <2>1, <2>3, <2>4
<1>5. rows[i].prev_hash = ExpectedPrev(rows, i)
         <=> n = IF i = 1 THEN 0 ELSE rows[i - 1].id
    <2>1. CASE i = 1
        <3>1. << >> \in Seq(Events) /\ Len(<< >>) = 0
            BY EmptySeq
        <3>2. n = 0 => HashOf(<< >>, n)
            BY <3>1 DEF HashOf
        <3>3. n = 0 => rows[i].prev_hash = << >>
            BY <1>3, <3>2, HashesEqual
        <3>4. rows[i].prev_hash = << >> => n = 0
            BY <1>3, <3>1 DEF HashOf
        <3> QED BY <2>1, <3>3, <3>4 DEF ExpectedPrev, GENESIS_HASH
    <2>2. CASE i # 1
        <3>1. PICK j \in DOMAIN rows : j = i - 1
            BY <2>2, KeptRows
        <3>2. HashOf(rows[j].record_hash, rows[j].id)
            BY DEF KeptInv, RowKept
        <3>3. n = rows[j].id => rows[i].prev_hash = rows[j].record_hash
            BY <1>3, <3>2, HashesEqual
        <3>4. rows[i].prev_hash = rows[j].record_hash => n = rows[j].id
            BY <1>3, <3>2 DEF HashOf
        <3> QED BY <2>2, <3>1, <3>3, <3>4 DEF ExpectedPrev
    <2> QED BY <2>1, <2>2
<1>6. rows[i].id = (IF i = 1 THEN 1 ELSE rows[i - 1].id + 1)
         <=> n = IF i = 1 THEN 0 ELSE rows[i - 1].id
    <2>1. CASE i = 1
        BY <1>2, <2>1
    <2>2. CASE i # 1
        <3>1. rows[i - 1].id \in Nat
            BY <2>2, KeptRows
        <3> QED BY <1>2, <2>2, <3>1
    <2> QED BY <2>1, <2>2
<1> QED BY <1>4, <1>5, <1>6 DEF Links

(* As long as the records link, their ids count them.                      *)
LEMMA IdsCount ==
    ASSUME KeptInv, NEW n \in Nat, n <= Len(rows), \A i \in 1 .. n : Links(rows, i)
    PROVE  \A i \in 1 .. n : rows[i].id = i
<1> DEFINE T == {i \in 1 .. n : rows[i].id # i}
<1>1. SUFFICES ASSUME T # {} PROVE FALSE
    OBVIOUS
<1>2. T \in SUBSET Nat
    OBVIOUS
<1>3. PICK i \in T : \A j \in T : i <= j
    BY <1>1, <1>2, Least
<1>4. i \in 1 .. n /\ rows[i].id # i /\ i \in DOMAIN rows
    BY KeptRows
<1>5. rows[i].id = IF i = 1 THEN 1 ELSE rows[i - 1].id + 1
    BY <1>4, LinkMeans
<1>6. CASE i = 1
    BY <1>4, <1>5, <1>6
<1>7. CASE i # 1
    <2>1. i - 1 \in 1 .. n /\ ~(i <= i - 1)
        BY <1>4, <1>7
    <2>2. rows[i - 1].id = i - 1
        BY <1>3, <2>1
    <2> QED BY <1>4, <1>5, <1>7, <2>2
<1> QED BY <1>6, <1>7


LEMMA NewestHash ==
    ASSUME KeptInv
    PROVE  HashOf(LastHash, lastId)
<1>1. CASE rows = << >>
    <2>1. lastId = 0 /\ LastHash = << >>
        BY <1>1 DEF KeptInv, LastHash, GENESIS_HASH
    <2> QED BY <2>1, EmptySeq DEF HashOf
<1>2. CASE rows # << >>
    <2>1. PICK n : n = Len(rows)
        OBVIOUS
    <2>2. n \in DOMAIN rows
        BY <1>2, <2>1, KeptRows, EmptySeq
    <2>3. rows[n].id = lastId /\ LastHash = rows[n].record_hash
        BY <1>2, <2>1 DEF KeptInv, LastHash
    <2> QED BY <2>2, <2>3 DEF KeptInv, RowKept
<1> QED BY <1>1, <1>2

LEMMA InitKeptInv == Init => KeptInv
<1> SUFFICES ASSUME Init PROVE KeptInv
    OBVIOUS
<1>1. rows = << >> /\ DOMAIN rows = {} /\ lastId = 0 /\ Len(appended) = 0
    BY EmptySeq DEF Init
<1>2. \A c \in Conns : op[c].pc # "hashed"
    BY DEF Init, Idle
<1> QED BY <1>1, <1>2, InitTypeOK DEF KeptInv, IdsInOrder

(* Rows that keep their ids and hashes under appended events that grow.    *)
LEMMA HashKept ==
    ASSUME NEW h, NEW n \in Nat, HashOf(h, n), n <= Len(appended), Len(appended) \in Nat,
           \A k \in 1 .. Len(appended) : appended'[k] = appended[k]
    PROVE  HashOf(h, n)'
<1>1. \A k \in 1 .. n : k \in 1 .. Len(appended)
    OBVIOUS
<1> QED BY <1>1 DEF HashOf

LEMMA InsertKeeps ==
    ASSUME KeptInv, NEW c \in Conns, Insert(c), \A d \in Conns : c = d
    PROVE  KeptInv'
<1>1. TypeOK'
    BY NextTypeOK DEF KeptInv, Next
<1>2. PICK r : r = [id          |-> lastId + 1,
                    event       |-> op[c].event,
                    prev_hash   |-> op[c].prev_hash,
                    record_hash |-> RecordHash(op[c].event, op[c].prev_hash)]
    OBVIOUS
<1>3. /\ r \in Row /\ r.id = lastId + 1 /\ r.prev_hash = op[c].prev_hash
      /\ r.record_hash = RecordHash(r.event, r.prev_hash)
      /\ r.event = op[c].event /\ r.event \in Events
    BY <1>2, NewRowType DEF Insert, KeptInv, Row
<1>4. /\ rows' = Append(rows, r) /\ lastId' = lastId + 1 /\ op[c].pc = "hashed"
      /\ appended' = Append(appended, r.event)
    BY <1>2, <1>3 DEF Insert
<1>5. /\ op'[c].pc = "idle"
    BY DEF Insert, Idle, KeptInv, TypeOK
<1>6. PICK n : n = Len(rows)
    OBVIOUS
<1>7. /\ n \in Nat /\ DOMAIN rows = 1 .. n /\ DOMAIN rows' = 1 .. n + 1 /\ rows'[n + 1] = r
      /\ \A i \in 1 .. n : rows'[i] = rows[i]
    <2>1. rows \in Seq(Row)
        BY DEF KeptInv, TypeOK
    <2>2. /\ Len(rows') = n + 1 /\ rows'[n + 1] = r /\ \A i \in 1 .. n : rows'[i] = rows[i]
          /\ rows' \in Seq(Row)
        BY <1>3, <1>4, <1>6, <2>1, AppendProperties
    <2> QED BY <1>6, <2>1, <2>2, LenProperties
<1>8. /\ Len(appended) = lastId /\ lastId \in Nat /\ Len(appended') = lastId + 1
      /\ appended'[lastId + 1] = r.event
      /\ \A k \in 1 .. lastId : appended'[k] = appended[k]
    <2>1. appended \in Seq(Events) /\ Len(appended) = lastId /\ lastId \in Nat
        BY DEF KeptInv, TypeOK
    <2> QED BY <1>3, <1>4, <2>1, AppendProperties
<1>9. \A h : \A k \in Nat : HashOf(h, k) /\ k <= lastId => HashOf(h, k)'
    BY <1>8, HashKept
<1>10. ASSUME NEW i \in 1 .. n
       PROVE  RowKept(i)' /\ rows[i].id \in 1 .. lastId
    <2>1. RowKept(i)
        BY <1>7 DEF KeptInv
    <2>2. rows[i].id \in Nat /\ rows[i].id - 1 \in Nat /\ rows[i].id <= lastId
        BY <1>8, <2>1 DEF RowKept
    <2>3. HashOf(rows[i].record_hash, rows[i].id)' /\ HashOf(rows[i].prev_hash, rows[i].id - 1)'
        <3>1. PICK h, g, k, l :
                 /\ h = rows[i].record_hash /\ g = rows[i].prev_hash
                 /\ k = rows[i].id /\ l = rows[i].id - 1
            OBVIOUS
        <3>2. /\ HashOf(h, k) /\ HashOf(g, l)
              /\ k \in Nat /\ l \in Nat /\ k <= lastId /\ l <= lastId
            BY <1>8, <2>1, <2>2, <3>1 DEF RowKept
        <3>3. HashOf(h, k)' /\ HashOf(g, l)'
            BY <1>9, <3>2
        <3>4. rows'[i] = rows[i]
            BY <1>7
        <3> QED BY <3>1, <3>3, <3>4
    <2>4. rows[i].id \in 1 .. lastId'
        BY <1>4, <1>8, <2>1 DEF RowKept
    <2> QED BY <1>7, <2>1, <2>3, <2>4 DEF RowKept
<1>11. RowKept(n + 1)'
    <2>1. PICK h, g, top : h = r.prev_hash /\ g = r.record_hash /\ top = lastId
        OBVIOUS
    <2>2. top \in Nat /\ HashOf(h, top)
        BY <1>3, <1>4, <1>8, <2>1 DEF KeptInv
    <2>3. HashOf(h, top)'
        BY <1>8, <1>9, <2>1, <2>2
    <2>4. /\ h \in Seq(Events) /\ Len(h) = top
          /\ \A k \in 1 .. top : h[k] = appended'[k]
        BY <2>3 DEF HashOf
    <2>5. /\ g \in Seq(Events) /\ Len(g) = top + 1 /\ g[top + 1] = r.event
          /\ \A k \in 1 .. top : g[k] = h[k]
        BY <1>3, <2>1, <2>4, AppendProperties DEF RecordHash
    <2>6. \A k \in 1 .. top + 1 : k \in 1 .. top \/ k = top + 1
        BY <2>2
    <2>7. \A k \in 1 .. top + 1 : g[k] = appended'[k]
        BY <1>8, <2>1, <2>4, <2>5, <2>6
    <2>8. HashOf(g, top + 1)'
        BY <2>5, <2>7 DEF HashOf
    <2>9. rows'[n + 1].id = top + 1 /\ top + 1 \in 1 .. lastId' /\ (top + 1) - 1 = top
        BY <1>3, <1>4, <1>7, <2>1, <2>2
    <2>10. rows'[n + 1].record_hash = g /\ rows'[n + 1].prev_hash = h
        BY <1>7, <2>1
    <2> QED BY <2>3, <2>8, <2>9, <2>10 DEF RowKept
<1>12. IdsInOrder'
    <2>1. ASSUME NEW i \in 1 .. n + 1, NEW j \in 1 .. n + 1, i <= j
          PROVE  j - i <= rows'[j].id - rows'[i].id
        <3>1. CASE j \in 1 .. n
            <4>1. i \in 1 .. n
                BY <1>7, <2>1, <3>1
            <4> QED BY <1>7, <2>1, <3>1, <4>1 DEF KeptInv, IdsInOrder
        <3>2. CASE j = n + 1 /\ i \in 1 .. n
            <4>1. n \in 1 .. n /\ i <= n
                BY <1>7, <3>2
            <4>2. n - i <= rows[n].id - rows[i].id
                BY <1>7, <3>2, <4>1 DEF KeptInv, IdsInOrder
            <4>3. rows[n].id \in Nat /\ rows[n].id <= lastId /\ rows[i].id \in Nat
                BY <1>8, <1>10, <3>2, <4>1
            <4>4. rows'[j].id = lastId + 1 /\ rows'[i].id = rows[i].id
                BY <1>3, <1>7, <3>2
            <4> QED BY <1>7, <1>8, <3>2, <4>2, <4>3, <4>4
        <3>3. CASE j = n + 1 /\ i = n + 1
            <4>1. rows'[j].id \in Nat
                BY <1>3, <1>7, <1>8, <3>3
            <4> QED BY <1>7, <3>3, <4>1
        <3> QED BY <1>7, <2>1, <3>1, <3>2, <3>3
    <2> QED BY <1>7, <2>1 DEF IdsInOrder
<1>13. \A i \in DOMAIN rows' : RowKept(i)'
    <2>1. \A i \in 1 .. n + 1 : i \in 1 .. n \/ i = n + 1
        BY <1>7
    <2> QED BY <1>7, <1>10, <1>11, <2>1
<1>14. rows' # << >> /\ Len(rows') = n + 1 /\ rows'[n + 1].id = lastId'
    <2>1. rows' \in Seq(Row)
        BY <1>1 DEF TypeOK
    <2>2. Len(rows') = n + 1
        BY <1>7, <2>1, LenProperties
    <2> QED BY <1>3, <1>4, <1>7, <2>2
<1> QED BY <1>1, <1>4, <1>5, <1>8, <1>12, <1>13, <1>14 DEF KeptInv

(* Damage to the rows: ids and hashes of those that stay, and the newest.  *)
LEMMA DamageRowKeeps ==
    ASSUME KeptInv, NEW i, NEW event \in Events, DamageRow(i, event)
    PROVE  KeptInv'
<1>1. /\ i \in DOMAIN rows /\ rows' = [rows EXCEPT ![i].event = event]
      /\ lastId' = lastId /\ op' = op /\ appended' = appended /\ pack' = pack
    BY DEF DamageRow
<1>2. PICK r : r = [rows[i] EXCEPT !.event = event]
    OBVIOUS
<1>3. r \in Row
    BY <1>1, <1>2, KeptRows DEF Row
<1>4. rows' = [rows EXCEPT ![i] = r]
    BY <1>1, <1>2, KeptRows
<1>5. rows' \in Seq(Row) /\ Len(rows') = Len(rows) /\ DOMAIN rows' = DOMAIN rows
    <2>1. /\ [rows EXCEPT ![i] = r] \in Seq(Row)
          /\ Len([rows EXCEPT ![i] = r]) = Len(rows)
        BY <1>1, <1>3, KeptRows, ExceptSeq
    <2> QED BY <1>4, <2>1
<1>6. \A j \in DOMAIN rows :
         /\ rows'[j].id = rows[j].id /\ rows'[j].prev_hash = rows[j].prev_hash
         /\ rows'[j].record_hash = rows[j].record_hash
    BY <1>1, KeptRows DEF Row
<1>7. TypeOK'
    BY <1>1, <1>5 DEF KeptInv, TypeOK
<1>8. \A h, n : HashOf(h, n)' <=> HashOf(h, n)
    BY <1>1 DEF HashOf
<1>9. \A j \in DOMAIN rows' : RowKept(j)'
    BY <1>1, <1>5, <1>6 DEF KeptInv, RowKept, HashOf
<1>10. IdsInOrder'
    BY <1>5, <1>6 DEF KeptInv, IdsInOrder
<1>11. IF rows' = << >> THEN lastId' = 0 ELSE rows'[Len(rows')].id = lastId'
    <2>1. rows # << >> /\ Len(rows) \in DOMAIN rows
        BY <1>1, KeptRows, EmptySeq
    <2>2. rows[Len(rows)].id = lastId
        BY <2>1 DEF KeptInv
    <2>3. rows' # << >>
        BY <1>5, <2>1, EmptySeq
    <2> QED BY <1>1, <1>5, <1>6, <2>1, <2>2, <2>3
<1> QED BY <1>1, <1>7, <1>8, <1>9, <1>10, <1>11 DEF KeptInv

LEMMA LoseRowKeeps ==
    ASSUME KeptInv, NEW i, LoseRow(i)
    PROVE  KeptInv'
<1>1. /\ i \in 1 .. Len(rows) - 1
      /\ rows' = SubSeq(rows, 1, i - 1) \o SubSeq(rows, i + 1, Len(rows))
      /\ lastId' = lastId /\ op' = op /\ appended' = appended /\ pack' = pack
    BY DEF LoseRow
<1>2. PICK n, s, t : n = Len(rows) /\ s = SubSeq(rows, 1, i - 1) /\ t = SubSeq(rows, i + 1, n)
    OBVIOUS
<1>3. n \in Nat /\ i \in Nat /\ 1 <= i /\ i <= n - 1 /\ DOMAIN rows = 1 .. n
    BY <1>1, <1>2, KeptRows
<1>4. /\ s \in Seq(Row) /\ Len(s) = i - 1 /\ \A j \in 1 .. i - 1 : s[j] = rows[j]
    <2>1. 1 \in Int /\ i - 1 \in Int /\ \A j \in 1 .. i - 1 : rows[j] \in Row
        BY <1>3, KeptRows
    <2>2. /\ s \in Seq(Row) /\ Len(s) = IF 1 <= i - 1 THEN (i - 1) - 1 + 1 ELSE 0
          /\ \A j \in 1 .. (i - 1) - 1 + 1 : s[j] = rows[1 + j - 1]
        BY <1>2, <2>1, SubSeqProperties
    <2> QED BY <1>3, <2>2
<1>5. /\ t \in Seq(Row) /\ Len(t) = n - i /\ \A j \in 1 .. n - i : t[j] = rows[i + j]
    <2>1. i + 1 \in Int /\ n \in Int /\ \A j \in i + 1 .. n : rows[j] \in Row
        BY <1>3, KeptRows
    <2>2. /\ t \in Seq(Row) /\ Len(t) = IF i + 1 <= n THEN n - (i + 1) + 1 ELSE 0
          /\ \A j \in 1 .. n - (i + 1) + 1 : t[j] = rows[(i + 1) + j - 1]
        BY <1>2, <2>1, SubSeqProperties
    <2> QED BY <1>3, <2>2
<1>6. /\ rows' \in Seq(Row) /\ Len(rows') = n - 1
      /\ \A j \in 1 .. n - 1 : rows'[j] = IF j < i THEN rows[j] ELSE rows[j + 1]
    <2>1. /\ rows' \in Seq(Row) /\ Len(rows') = Len(s) + Len(t)
          /\ \A j \in 1 .. Len(s) + Len(t) :
                rows'[j] = IF j <= Len(s) THEN s[j] ELSE t[j - Len(s)]
        BY <1>1, <1>2, <1>4, <1>5, ConcatProperties
    <2>2. Len(s) + Len(t) = n - 1
        BY <1>3, <1>4, <1>5
    <2>3. ASSUME NEW j \in 1 .. n - 1
          PROVE  rows'[j] = IF j < i THEN rows[j] ELSE rows[j + 1]
        <3>1. CASE j < i
            <4>1. j \in 1 .. i - 1 /\ j <= Len(s)
                BY <1>3, <1>4, <3>1
            <4> QED BY <1>4, <2>1, <2>2, <3>1, <4>1
        <3>2. CASE ~(j < i)
            <4>1. j - (i - 1) \in 1 .. n - i /\ ~(j <= Len(s)) /\ i + (j - (i - 1)) = j + 1
                BY <1>3, <1>4, <3>2
            <4> QED BY <1>4, <1>5, <2>1, <2>2, <3>2, <4>1
        <3> QED BY <3>1, <3>2
    <2> QED BY <2>1, <2>2, <2>3
<1>7. DOMAIN rows' = 1 .. n - 1
    BY <1>6, LenProperties
<1>8. TypeOK'
    BY <1>1, <1>6 DEF KeptInv, TypeOK
<1>9. \A h, k : HashOf(h, k)' <=> HashOf(h, k)
    BY <1>1 DEF HashOf
<1>10. ASSUME NEW j \in DOMAIN rows'
       PROVE  RowKept(j)'
    <2>1. PICK k : k = IF j < i THEN j ELSE j + 1
        OBVIOUS
    <2>2. k \in 1 .. n /\ rows'[j] = rows[k]
        BY <1>3, <1>6, <1>7, <2>1
    <2>3. RowKept(k)
        BY <1>3, <2>2 DEF KeptInv
    <2> QED BY <1>1, <2>2, <2>3 DEF RowKept, HashOf
<1>11. IdsInOrder'
    <2>1. ASSUME NEW j \in 1 .. n - 1, NEW k \in 1 .. n - 1, j <= k
          PROVE  k - j <= rows'[k].id - rows'[j].id
        <3>1. PICK a, b : a = (IF j < i THEN j ELSE j + 1) /\ b = IF k < i THEN k ELSE k + 1
            OBVIOUS
        <3>2. a \in 1 .. n /\ b \in 1 .. n /\ a <= b /\ k - j <= b - a
            BY <1>3, <2>1, <3>1
        <3>3. rows'[j] = rows[a] /\ rows'[k] = rows[b]
            BY <1>6, <3>1
        <3>4. b - a <= rows[b].id - rows[a].id
            BY <1>3, <3>2 DEF KeptInv, IdsInOrder
        <3>5. rows[a].id \in Nat /\ rows[b].id \in Nat
            BY <1>3, <3>2, KeptRows
        <3> QED BY <3>2, <3>3, <3>4, <3>5
    <2> QED BY <1>7, <2>1 DEF IdsInOrder
<1>12. IF rows' = << >> THEN lastId' = 0 ELSE rows'[Len(rows')].id = lastId'
    <2>1. rows # << >>
        BY <1>2, <1>3, EmptySeq
    <2>2. rows[n].id = lastId
        BY <1>2, <2>1 DEF KeptInv
    <2>3. n - 1 \in 1 .. n - 1 /\ ~(n - 1 < i) /\ (n - 1) + 1 = n
        BY <1>3
    <2>4. rows'[n - 1] = rows[n]
        BY <1>6, <2>3
    <2>5. rows' # << >>
        BY <1>3, <1>6, EmptySeq
    <2> QED BY <1>1, <1>6, <2>2, <2>4, <2>5
<1> QED BY <1>1, <1>8, <1>9, <1>10, <1>11, <1>12 DEF KeptInv

LEMMA DamageKeeps ==
    ASSUME \A c, d \in Conns : c = d
    PROVE  KeptInv /\ [DamageNext]_vars => KeptInv'
<1> SUFFICES ASSUME KeptInv, [DamageNext]_vars PROVE KeptInv'
    OBVIOUS
<1>1. ASSUME NEW c \in Conns, NEW event \in Events, ReadLastHash(c, event)
      PROVE  KeptInv'
    <2>1. TypeOK'
        BY <1>1, NextTypeOK DEF KeptInv, Next
    <2>2. rows' = rows /\ lastId' = lastId /\ appended' = appended /\ op'[c].prev_hash = LastHash
        BY <1>1 DEF ReadLastHash, KeptInv, TypeOK
    <2>3. \A d \in Conns : op'[d].prev_hash = LastHash
        BY <2>2
    <2> QED BY <2>1, <2>2, <2>3, NewestHash DEF KeptInv, RowKept, HashOf, IdsInOrder
<1>2. ASSUME NEW c \in Conns, Insert(c)
      PROVE  KeptInv'
    BY <1>2, InsertKeeps
<1>3. ASSUME NEW c \in Conns, OperationFails(c) \/ ExportVerify(c) \/ ExportWrite(c)
      PROVE  KeptInv'
    <2>1. TypeOK'
        BY <1>3, NextTypeOK DEF KeptInv, Next
    <2>2. /\ rows' = rows /\ lastId' = lastId /\ appended' = appended
          /\ op'[c].pc # "hashed"
        BY <1>3 DEF OperationFails, ExportVerify, ExportWrite, KeptInv, TypeOK, Idle
    <2> QED BY <2>1, <2>2 DEF KeptInv, RowKept, HashOf, IdsInOrder
<1>4. ASSUME NEW i, NEW event \in Events, DamageRow(i, event)
      PROVE  KeptInv'
    BY <1>4, DamageRowKeeps
<1>5. ASSUME NEW i, LoseRow(i)
      PROVE  KeptInv'
    BY <1>5, LoseRowKeeps
<1>6. CASE UNCHANGED vars
    BY <1>6 DEF vars, KeptInv, TypeOK, RowKept, HashOf, IdsInOrder
<1> QED BY <1>1, <1>2, <1>3, <1>4, <1>5, <1>6 DEF DamageNext, Next

(* verify_chain() is exact on a log of one connection, however many of its *)
(* rows were changed in place and inner rows lost, before, between and     *)
(* after appends: it says ok just when the rows are the events appended.   *)
THEOREM DamageIsNoticed ==
    ASSUME \A c, d \in Conns : c = d
    PROVE  DamageSpec => []VerifyIsExact
<1>1. ASSUME KeptInv PROVE VerifyIsExact
    <2>1. VerifyChain(rows).ok <=> ChainOk(rows)
        BY DEF VerifyChain
    <2>2. PICK n : n = Len(rows)
        OBVIOUS
    <2>3. n \in Nat /\ DOMAIN rows = 1 .. n /\ Len(appended) = lastId /\ lastId \in Nat
        BY <1>1, <2>2, KeptRows DEF KeptInv
    <2>4. CASE rows = << >>
        <3>1. DOMAIN rows = {} /\ n = 0 /\ lastId = 0
            BY <1>1, <2>2, <2>3, <2>4, EmptySeq DEF KeptInv
        <3> QED BY <2>1, <2>2, <2>3, <3>1 DEF VerifyIsExact, StoredIsAppended, ChainOk
    <2>5. CASE rows # << >>
        <3>1. rows[n].id = lastId /\ n \in 1 .. n
            BY <1>1, <2>2, <2>3, <2>5, EmptySeq, KeptRows DEF KeptInv
        <3>2. ASSUME ChainOk(rows) PROVE StoredIsAppended
            <4>1. \A i \in 1 .. n : rows[i].id = i
                BY <1>1, <2>2, <2>3, <3>2, IdsCount DEF ChainOk
            <4>2. \A i \in 1 .. n : rows[i].event = appended[i]
                BY <1>1, <2>3, <3>2, <4>1, LinkMeans DEF ChainOk
            <4> QED BY <2>2, <2>3, <3>1, <4>1, <4>2 DEF StoredIsAppended
        <3>3. ASSUME StoredIsAppended PROVE ChainOk(rows)
            <4>1. n = lastId
                BY <2>2, <2>3, <3>3 DEF StoredIsAppended
            <4>2. ASSUME NEW i \in 1 .. n
                  PROVE  rows[i].id = i
                <5>1. 1 \in 1 .. n /\ 1 <= i /\ i <= n
                    BY <2>3
                <5>2. i - 1 <= rows[i].id - rows[1].id /\ n - i <= rows[n].id - rows[i].id
                    BY <1>1, <2>3, <3>1, <5>1 DEF KeptInv, IdsInOrder
                <5>3. rows[1].id \in Nat /\ 1 <= rows[1].id /\ rows[i].id \in Nat
                    BY <1>1, <2>3, <5>1, KeptRows DEF KeptInv, RowKept
                <5> QED BY <2>3, <3>1, <4>1, <5>1, <5>2, <5>3
            <4>3. ASSUME NEW i \in 1 .. n
                  PROVE  Links(rows, i)
                <5>1. rows[i].event = appended[rows[i].id]
                    BY <2>3, <3>3, <4>2 DEF StoredIsAppended
                <5>2. rows[i].id = IF i = 1 THEN 1 ELSE rows[i - 1].id + 1
                    <6>1. CASE i = 1
                        BY <4>2, <6>1
                    <6>2. CASE i # 1
                        <7>1. i - 1 \in 1 .. n /\ (i - 1) + 1 = i
                            BY <2>3, <6>2
                        <7> QED BY <4>2, <6>2, <7>1
                    <6> QED BY <6>1, <6>2
                <5> QED BY <1>1, <2>3, <5>1, <5>2, LinkMeans
            <4> QED BY <2>3, <4>3 DEF ChainOk
        <3> QED BY <2>1, <3>2, <3>3 DEF VerifyIsExact
    <2> QED BY <2>4, <2>5
<1> QED BY <1>1, InitKeptInv, DamageKeeps, PTL DEF DamageSpec

(* Of a damaged log, every row with an id below the one verify_chain()     *)
(* names is still the event that append() stored there.                    *)
THEOREM NamedRowIsFirst ==
    ASSUME \A c, d \in Conns : c = d
    PROVE  DamageSpec => []BrokenIdIsFirst
<1>1. ASSUME KeptInv PROVE BrokenIdIsFirst
    <2>1. ASSUME ~VerifyChain(rows).ok, NEW i \in DOMAIN rows,
                 rows[i].id < VerifyChain(rows).broken_record_id
          PROVE  rows[i].event = appended[i] /\ rows[i].id = i
        <3>1. PICK b : b = BrokenRecord(rows)
            OBVIOUS
        <3>2. ~ChainOk(rows) /\ VerifyChain(rows).broken_record_id = rows[b].id
            BY <2>1, <3>1 DEF VerifyChain
        <3>3. FirstBroken(rows, b)
            BY <1>1, <3>1, <3>2, FirstExists, KeptRows
        <3>4. PICK n : n = Len(rows)
            OBVIOUS
        <3>5. /\ n \in Nat /\ DOMAIN rows = 1 .. n /\ b \in 1 .. n /\ i \in 1 .. n
              /\ rows[i].id \in Nat /\ rows[b].id \in Nat
            BY <1>1, <3>3, <3>4, KeptRows DEF FirstBroken
        <3>6. i < b
            <4>1. SUFFICES ASSUME ~(i < b) PROVE FALSE
                OBVIOUS
            <4>2. b <= i
                BY <3>5, <4>1
            <4>3. i - b <= rows[i].id - rows[b].id
                BY <1>1, <3>5, <4>2 DEF KeptInv, IdsInOrder
            <4> QED BY <2>1, <3>2, <3>5, <4>2, <4>3
        <3>7. b - 1 \in Nat /\ b - 1 <= Len(rows) /\ \A j \in 1 .. b - 1 : Links(rows, j)
            BY <3>3, <3>4, <3>5 DEF FirstBroken
        <3>8. i \in 1 .. b - 1
            BY <3>5, <3>6
        <3>9. rows[i].id = i
            BY <1>1, <3>7, <3>8, IdsCount
        <3> QED BY <1>1, <3>7, <3>8, <3>9, LinkMeans
    <2> QED BY <2>1 DEF BrokenIdIsFirst
<1> QED BY <1>1, InitKeptInv, DamageKeeps, PTL DEF DamageSpec

-----------------------------------------------------------------------------
(* Changing what one record of an intact log says, without recomputing its *)
(* hash, makes verify_chain() fail and name that very record.              *)
THEOREM DamagedRowIsNamed ==
    ASSUME NEW s \in Seq(Row), ChainOk(s),
           NEW k \in DOMAIN s, NEW e \in Events, e # s[k].event
    PROVE  VerifyChain([s EXCEPT ![k].event = e])
              = [ok |-> FALSE, broken_record_id |-> s[k].id]
<1> DEFINE t == [s EXCEPT ![k].event = e]
<1>1. /\ Len(s) \in Nat /\ DOMAIN s = 1 .. Len(s) /\ DOMAIN t = DOMAIN s
      /\ \A i \in DOMAIN s : s[i] \in Row
    BY LenProperties, ElementOfSeq
<1>2. /\ t[k] = [s[k] EXCEPT !.event = e]
      /\ \A i \in DOMAIN s : i # k => t[i] = s[i]
    BY <1>1
<1> HIDE DEF t
<1>3. ~Links(t, k)
    <2>1. s[k].record_hash = Append(s[k].prev_hash, s[k].event)
        BY DEF ChainOk, Links, RecordHash
    <2>2. s[k].prev_hash \in Seq(Events) /\ s[k].event \in Events
        BY <1>1 DEF Row, Hash
    <2>3. Append(s[k].prev_hash, e) # Append(s[k].prev_hash, s[k].event)
        BY <2>2, AppendInjective
    <2>4. t[k].record_hash # Append(t[k].prev_hash, t[k].event)
        BY <1>1, <1>2, <2>1, <2>3 DEF Row
    <2> QED BY <2>4 DEF Links, RecordHash
<1>4. ASSUME NEW j \in 1 .. k - 1
      PROVE  Links(t, j)
    <2>1. j \in DOMAIN s /\ t[j] = s[j] /\ (j # 1 => t[j - 1] = s[j - 1])
        BY <1>1, <1>2
    <2> QED BY <2>1 DEF ChainOk, Links, ExpectedPrev
<1>5. BrokenRecord(t) = k
    <2>1. ASSUME NEW i \in DOMAIN t, ~Links(t, i), \A j \in 1 .. i - 1 : Links(t, j)
          PROVE  i = k
        <3>1. ~(i < k) /\ ~(k < i)
            BY <1>1, <1>3, <1>4, <2>1
        <3> QED BY <1>1, <3>1
    <2> QED BY <1>1, <1>3, <1>4, <2>1 DEF BrokenRecord
<1>6. ~ChainOk(t)
    BY <1>1, <1>3 DEF ChainOk
<1>7. t[k].id = s[k].id
    BY <1>1, <1>2 DEF Row
<1> QED BY <1>5, <1>6, <1>7 DEF VerifyChain, t
=============================================================================
