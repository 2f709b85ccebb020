-------------------------- MODULE ClaimStoreProofs --------------------------
(***************************************************************************)
(* Theorems about the receiver's store, for every set of clients, batches  *)
(* and snapshots and every value of the limits.                            *)
(*                                                                         *)
(* The argument rests on one inductive invariant about the transaction of  *)
(* apply_events: after n turns of the loop its working copy is what the    *)
(* first n events mean (AfterFirst), no event so far rebound an identity,  *)
(* and its new history rows are those of the first n events, with ids the  *)
(* table does not have and sequences above the stored one.                 *)
(***************************************************************************)
EXTENDS ClaimStore, FiniteSetTheorems, TLAPS

NewHistory(t) == {HistoryRow(t.client, t.batch[i], t.at) : i \in 1 .. t.done}

TransactionFollowsBatch ==
    txn # None =>
        /\ txn.client \in Client
        /\ txn.at \in Clock
        /\ txn.batch \in Batches
        /\ txn.done \in 0 .. Len(txn.batch)
        /\ FirstSeq(txn.batch) > lastSeq[txn.client]
        /\ \A i \in 1 .. Len(txn.batch) : Prior(events, txn.client, txn.batch[i]) = {}
        /\ txn.claims = AfterFirst(claims, txn.client, txn.batch, txn.done)
        /\ txn.events = events \cup NewHistory(txn)
        /\ \A i \in 1 .. txn.done :
              ~Rebinds(AfterFirst(claims, txn.client, txn.batch, i - 1), txn.client, txn.batch[i])

-----------------------------------------------------------------------------
(***************************************************************************)
(* Lemmas about batches and the operators on claims.                       *)
(***************************************************************************)

\* What validate_events guarantees of the sequences and ids of a batch.
LEMMA BatchFacts ==
    ASSUME NEW b, ValidBatch(b)
    PROVE  /\ b \in Seq(Event)
           /\ Len(b) \in Nat
           /\ 1 \in 1 .. Len(b)
           /\ Len(b) \in 1 .. Len(b)
           /\ \A i \in 1 .. Len(b) : b[i] \in Event /\ b[i].seq \in Seqs /\ b[i].id \in RequestId
           /\ FirstSeq(b) \in Seqs
           /\ LastSeq(b) \in Seqs
           /\ \A i \in 1 .. Len(b) : FirstSeq(b) <= b[i].seq /\ b[i].seq <= LastSeq(b)
<1>1. b \in Seq(Event) /\ b # <<>>
  BY DEF ValidBatch
<1>2. Len(b) \in Nat /\ Len(b) >= 1
  BY <1>1
<1>3. \A i \in 1 .. Len(b) : b[i] \in Event
  BY <1>1
<1>4. \A i \in 1 .. Len(b) : b[i].seq \in Seqs /\ b[i].id \in RequestId
  BY <1>3 DEF Event
<1>5. Seqs \subseteq Nat
  BY MaxSeqAssumption DEF Seqs
<1>6. \A i, j \in 1 .. Len(b) : i < j => b[i].seq < b[j].seq
  BY DEF ValidBatch
<1>7. 1 \in 1 .. Len(b) /\ Len(b) \in 1 .. Len(b)
  BY <1>2
<1>8. \A i \in 1 .. Len(b) : b[1].seq <= b[i].seq /\ b[i].seq <= b[Len(b)].seq
  BY <1>2, <1>4, <1>5, <1>6, <1>7
<1> QED
  BY <1>1, <1>2, <1>3, <1>4, <1>7, <1>8 DEF FirstSeq, LastSeq

\* An empty prefix changes nothing.
LEMMA AfterNone ==
    ASSUME NEW rows, NEW c, NEW b
    PROVE  AfterFirst(rows, c, b, 0) = rows
  BY DEF AfterFirst

\* The rows a batch leaves are rows of the table.
LEMMA AfterFirstType ==
    ASSUME NEW c \in Client, NEW b, ValidBatch(b), NEW n \in 0 .. Len(b),
           NEW rows \in SUBSET Row
    PROVE  AfterFirst(rows, c, b, n) \in SUBSET Row
<1>1. \A i \in 1 .. n : b[i] \in Event
  BY BatchFacts
<1>2. \A i \in 1 .. n : RowOf(c, b[i]) \in Row
  BY <1>1 DEF RowOf, Row, Event
<1> QED
  BY <1>2 DEF AfterFirst

\* One turn of the loop does to the rows what one more event means.  The
\* DELETE of an unban names the address as well; it removes the claim all the
\* same, since a claim with another address was refused just before.
LEMMA AfterFirstStep ==
    ASSUME NEW c \in Client, NEW b, ValidBatch(b), NEW n \in Nat, n < Len(b),
           NEW rows \in SUBSET Row,
           ~Rebinds(AfterFirst(rows, c, b, n), c, b[n + 1])
    PROVE  WriteClaim(AfterFirst(rows, c, b, n), c, b[n + 1])
              = AfterFirst(rows, c, b, n + 1)
<1> DEFINE A == AfterFirst(rows, c, b, n)
           e == b[n + 1]
           H == {r \in A : r.client = c /\ Identity(r) = Identity(e)}
<1>0. n + 1 \in 1 .. Len(b) /\ \A i \in 1 .. (n + 1) : b[i] \in Event
  BY BatchFacts
<1>1. Held(A, c, e) = H
  BY DEF Held, Of
<1>2. \A r \in H : r.ip = e.ip
  BY <1>1 DEF Rebinds
<1>3. \A i \in 1 .. (n + 1) : /\ RowOf(c, b[i]).client = c
                              /\ Identity(RowOf(c, b[i])) = Identity(b[i])
  BY DEF RowOf, Identity
<1>4. e.op \in {"ban", "unban"}
  BY <1>0 DEF Event
<1>5. A \ H = {r \in rows : r.client = c => \A i \in 1 .. (n + 1) : Identity(b[i]) # Identity(r)}
              \cup {RowOf(c, b[i]) : i \in {k \in 1 .. n :
                    /\ b[k].op = "ban"
                    /\ \A j \in (k + 1) .. (n + 1) : Identity(b[j]) # Identity(b[k])}}
  <2> DEFINE Kept == {r \in rows : r.client = c => \A i \in 1 .. (n + 1) : Identity(b[i]) # Identity(r)}
             Added == {RowOf(c, b[i]) : i \in {k \in 1 .. n :
                          /\ b[k].op = "ban"
                          /\ \A j \in (k + 1) .. (n + 1) : Identity(b[j]) # Identity(b[k])}}
  <2>1. ASSUME NEW x \in A \ H
        PROVE  x \in Kept \cup Added
    <3>1. x.client = c => Identity(x) # Identity(e)
      OBVIOUS
    <3>2. CASE x \in rows /\ (x.client = c => \A i \in 1 .. n : Identity(b[i]) # Identity(x))
      <4>1. \A i \in 1 .. (n + 1) : i \in 1 .. n \/ i = n + 1
        OBVIOUS
      <4> QED
        BY <3>1, <3>2, <4>1
    <3>3. CASE ~(x \in rows /\ (x.client = c => \A i \in 1 .. n : Identity(b[i]) # Identity(x)))
      <4>1. PICK i \in 1 .. n : /\ b[i].op = "ban"
                                /\ \A j \in (i + 1) .. n : Identity(b[j]) # Identity(b[i])
                                /\ x = RowOf(c, b[i])
        BY <3>3 DEF AfterFirst
      <4>2. x.client = c /\ Identity(x) = Identity(b[i])
        BY <1>3, <4>1
      <4>3. \A j \in (i + 1) .. (n + 1) : j \in (i + 1) .. n \/ j = n + 1
        OBVIOUS
      <4>4. \A j \in (i + 1) .. (n + 1) : Identity(b[j]) # Identity(b[i])
        BY <3>1, <4>1, <4>2, <4>3
      <4> QED
        BY <4>1, <4>4
    <3> QED
      BY <3>2, <3>3
  <2>2. ASSUME NEW x \in Kept
        PROVE  x \in A \ H
    <3>1. x \in A
      BY DEF AfterFirst
    <3>2. n + 1 \in 1 .. (n + 1)
      OBVIOUS
    <3>3. x \notin H
      BY <3>2
    <3> QED
      BY <3>1, <3>3
  <2>3. ASSUME NEW x \in Added
        PROVE  x \in A \ H
    <3>1. PICK i \in 1 .. n : /\ b[i].op = "ban"
                              /\ \A j \in (i + 1) .. (n + 1) : Identity(b[j]) # Identity(b[i])
                              /\ x = RowOf(c, b[i])
      OBVIOUS
    <3>2. \A j \in (i + 1) .. n : j \in (i + 1) .. (n + 1)
      OBVIOUS
    <3>3. x \in A
      BY <3>1, <3>2 DEF AfterFirst
    <3>4. n + 1 \in (i + 1) .. (n + 1)
      OBVIOUS
    <3>5. Identity(x) # Identity(e)
      BY <1>3, <3>1, <3>4
    <3> QED
      BY <3>3, <3>5
  <2> HIDE DEF Kept, Added
  <2>4. A \ H = Kept \cup Added
    BY <2>1, <2>2, <2>3
  <2> QED
    BY <2>4 DEF Kept, Added
<1>6. CASE e.op = "ban"
  <2>1. WriteClaim(A, c, e) = (A \ H) \cup {RowOf(c, e)}
    BY <1>1, <1>6 DEF WriteClaim
  <2> DEFINE Last(m) == {k \in 1 .. m : b[k].op = "ban"
                /\ \A j \in (k + 1) .. (n + 1) : Identity(b[j]) # Identity(b[k])}
  <2>2. Last(n + 1) = Last(n) \cup {n + 1}
    BY <1>6
  <2>3. {RowOf(c, b[i]) : i \in Last(n + 1)} = {RowOf(c, b[i]) : i \in Last(n)} \cup {RowOf(c, e)}
    <3> HIDE DEF Last
    <3> QED
      BY <2>2
  <2> QED
    BY <1>5, <2>1, <2>3 DEF AfterFirst
<1>7. CASE e.op = "unban"
  <2>1. {r \in Held(A, c, e) : r.ip = e.ip} = H
    BY <1>1, <1>2
  <2>2. WriteClaim(A, c, e) = A \ H
    BY <1>7, <2>1 DEF WriteClaim
  <2>3. {k \in 1 .. (n + 1) : b[k].op = "ban" /\ \A j \in (k + 1) .. (n + 1) : Identity(b[j]) # Identity(b[k])}
        = {k \in 1 .. n : b[k].op = "ban" /\ \A j \in (k + 1) .. (n + 1) : Identity(b[j]) # Identity(b[k])}
    BY <1>7
  <2> QED
    BY <1>5, <2>2, <2>3 DEF AfterFirst
<1> QED
  BY <1>4, <1>6, <1>7

-----------------------------------------------------------------------------
(***************************************************************************)
(* The inductive invariant.                                                *)
(***************************************************************************)

StoreIInv == StoreTypeOK /\ TransactionFollowsBatch

\* The actions that answer without a transaction of their own or end one:
\* whatever they keep of the tables, no transaction is left.
LEMMA NoTransactionLeft ==
    ASSUME txn' = None
    PROVE  TransactionFollowsBatch'
  BY DEF TransactionFollowsBatch

LEMMA SnapshotFacts ==
    ASSUME NEW s, ValidSnapshot(s), NEW c \in Client
    PROVE  /\ s \in Snapshot
           /\ s.seq \in Seqs
           /\ s.id \in RequestId
           /\ {RowOf(c, x) : x \in s.claims} \in SUBSET Row
           /\ \A t \in Clock : HistoryRow(c, s, t) \in SnapshotRow
<1>1. s \in Snapshot
  BY DEF ValidSnapshot
<1>2. \A x \in s.claims : RowOf(c, x) \in Row
  BY <1>1 DEF Snapshot, Claim, RowOf, Row
<1> QED
  BY <1>1, <1>2 DEF Snapshot, HistoryRow, SnapshotRow

LEMMA HistoryRowType ==
    ASSUME NEW e \in Event, NEW c \in Client, NEW t \in Clock
    PROVE  HistoryRow(c, e, t) \in EventRow
  BY DEF HistoryRow, EventRow, Event

\* A typed answer.
LEMMA AnswerType ==
    ASSUME NEW c \in Client, NEW n \in Seqs, NEW result \in Results, Answer(c, n, result)
    PROVE  reply' \in Reply
  BY DEF Answer, Reply

\* One turn of the loop keeps the invariant.
LEMMA LoopTurn ==
    ASSUME StoreIInv, ApplyEvent
    PROVE  StoreIInv'
<1> DEFINE c == txn.client
           b == txn.batch
           n == txn.done
           e == b[n + 1]
<1>1. /\ txn # None /\ txn \in Txn
      /\ c \in Client /\ txn.at \in Clock /\ b \in Batches
      /\ n \in 0 .. Len(b) /\ n < Len(b)
      /\ txn.claims = AfterFirst(claims, c, b, n)
      /\ txn.events = events \cup NewHistory(txn)
      /\ claims \in SUBSET Row /\ events \in SUBSET EventRow
  BY DEF StoreIInv, StoreTypeOK, TransactionFollowsBatch, ApplyEvent, Working
<1>2. ValidBatch(b)
  BY <1>1, BatchesAssumption
<1>3. Len(b) \in Nat /\ n \in Nat /\ n + 1 \in 1 .. Len(b) /\ e \in Event
  BY <1>1, <1>2, BatchFacts
<1>4. Current = e
  BY DEF Current
<1>5. ~Rebinds(AfterFirst(claims, c, b, n), c, e)
  BY <1>1, <1>4 DEF ApplyEvent
<1>6. /\ txn' = [txn EXCEPT !.done = n + 1,
                   !.claims = WriteClaim(AfterFirst(claims, c, b, n), c, e),
                   !.events = txn.events \cup {HistoryRow(c, e, txn.at)}]
      /\ UNCHANGED <<lastSeq, claims, events, snapshots, now, reply>>
  BY <1>1, <1>4 DEF ApplyEvent, tables
<1>7. WriteClaim(AfterFirst(claims, c, b, n), c, e) = AfterFirst(claims, c, b, n + 1)
  BY <1>1, <1>2, <1>3, <1>5, AfterFirstStep
<1>8. /\ txn'.client = c /\ txn'.batch = b /\ txn'.at = txn.at /\ txn'.done = n + 1
      /\ txn'.claims = AfterFirst(claims, c, b, n + 1)
      /\ txn'.events = txn.events \cup {HistoryRow(c, e, txn.at)}
  BY <1>1, <1>6, <1>7 DEF Txn
<1>9. txn' \in Txn
  <2>1. AfterFirst(claims, c, b, n + 1) \in SUBSET Row
    BY <1>1, <1>2, <1>3, AfterFirstType
  <2>2. HistoryRow(c, e, txn.at) \in EventRow
    BY <1>1, <1>3, HistoryRowType
  <2>3. txn.events \cup {HistoryRow(c, e, txn.at)} \in SUBSET EventRow
    BY <1>1, <2>2 DEF Txn
  <2>4. txn' = [client |-> c, batch |-> b, done |-> n + 1, at |-> txn.at,
                claims |-> AfterFirst(claims, c, b, n + 1),
                events |-> txn.events \cup {HistoryRow(c, e, txn.at)}]
    BY <1>1, <1>6, <1>7 DEF Txn
  <2>5. b \in Seq(Event) /\ n + 1 \in Nat
    BY <1>2, <1>3, BatchFacts
  <2> QED
    BY <1>1, <2>1, <2>3, <2>4, <2>5 DEF Txn
<1>10. NewHistory(txn)' = NewHistory(txn) \cup {HistoryRow(c, e, txn.at)}
  <2>1. 1 .. (n + 1) = (1 .. n) \cup {n + 1}
    BY <1>3
  <2> QED
    BY <1>8, <2>1 DEF NewHistory
<1>11. \A i \in 1 .. (n + 1) : ~Rebinds(AfterFirst(claims, c, b, i - 1), c, b[i])
  <2>1. \A i \in 1 .. n : ~Rebinds(AfterFirst(claims, c, b, i - 1), c, b[i])
    BY <1>1 DEF StoreIInv, TransactionFollowsBatch
  <2>2. (n + 1) - 1 = n /\ \A i \in 1 .. (n + 1) : i \in 1 .. n \/ i = n + 1
    BY <1>3
  <2> QED
    BY <1>5, <2>1, <2>2
<1>12. StoreTypeOK'
  BY <1>6, <1>9 DEF StoreIInv, StoreTypeOK
<1>13. TransactionFollowsBatch'
  <2>1. /\ FirstSeq(b) > lastSeq[c]
        /\ \A i \in 1 .. Len(b) : Prior(events, c, b[i]) = {}
    BY <1>1 DEF StoreIInv, TransactionFollowsBatch
  <2>2. n + 1 \in 0 .. Len(b)
    BY <1>3
  <2>3. txn'.events = events \cup NewHistory(txn)'
    BY <1>1, <1>8, <1>10
  <2> QED
    BY <1>1, <1>6, <1>8, <1>11, <2>1, <2>2, <2>3 DEF TransactionFollowsBatch
<1> QED
  BY <1>12, <1>13 DEF StoreIInv

\* The transaction begins with a copy of the tables.
LEMMA TransactionBegins ==
    ASSUME StoreIInv, NEW c \in Client, NEW b \in Batches, BeginBatch(c, b)
    PROVE  StoreIInv'
<1>1. ValidBatch(b)
  BY BatchesAssumption
<1>2. /\ txn' = [client |-> c, batch |-> b, done |-> 0, at |-> now,
                 claims |-> claims, events |-> events]
      /\ UNCHANGED <<lastSeq, claims, events, snapshots, now, reply>>
  BY DEF BeginBatch, tables
<1>3. /\ b \in Seq(Event) /\ Len(b) \in Nat /\ FirstSeq(b) \in Seqs /\ 0 \in 0 .. Len(b)
  BY <1>1, BatchFacts
<1>4. StoreTypeOK'
  <2>1. txn' \in Txn
    BY <1>2, <1>3 DEF Txn, StoreIInv, StoreTypeOK
  <2> QED
    BY <1>2, <2>1 DEF StoreIInv, StoreTypeOK
<1>5. FirstSeq(b) > lastSeq[c]
  <2>1. lastSeq[c] \in Nat /\ FirstSeq(b) \in Nat
    BY <1>3, MaxSeqAssumption DEF StoreIInv, StoreTypeOK, Seqs
  <2> QED
    BY <2>1 DEF BeginBatch, Old
<1>6. \A i \in 1 .. Len(b) : Prior(events, c, b[i]) = {}
  BY DEF BeginBatch, AnyKnown
<1>7. claims = AfterFirst(claims, c, b, 0)
  BY AfterNone
<1>8. NewHistory(txn)' = {}
  BY <1>2 DEF NewHistory
<1>9. TransactionFollowsBatch'
  <2>1. now \in Clock
    BY DEF StoreIInv, StoreTypeOK
  <2>2. /\ txn'.client = c /\ txn'.batch = b /\ txn'.done = 0 /\ txn'.at = now
        /\ txn'.claims = claims /\ txn'.events = events
    BY <1>2
  <2>3. \A i \in 1 .. 0 : FALSE
    OBVIOUS
  <2> QED
    BY <1>2, <1>3, <1>5, <1>6, <1>7, <1>8, <2>1, <2>2, <2>3 DEF TransactionFollowsBatch
<1> QED
  BY <1>4, <1>9 DEF StoreIInv

LEMMA StoreIInvInit == StoreInit => StoreIInv
<1>1. StoreInit => StoreTypeOK
  BY MaxSeqAssumption DEF StoreInit, StoreTypeOK
<1>2. StoreInit => TransactionFollowsBatch
  BY DEF StoreInit, TransactionFollowsBatch
<1> QED
  BY <1>1, <1>2 DEF StoreIInv

LEMMA StoreIInvStep == StoreIInv /\ [StoreNext]_storeVars => StoreIInv'
<1> SUFFICES ASSUME StoreIInv, [StoreNext]_storeVars
             PROVE  StoreIInv'
  OBVIOUS
<1> USE DEF StoreIInv
<1>1. ASSUME NEW c \in Client, NEW b \in Batches, RejectBatch(c, b)
      PROVE  StoreIInv'
  <2>1. ValidBatch(b) /\ LastSeq(b) \in Seqs
    BY BatchesAssumption, BatchFacts
  <2>2. reply' \in Reply
    BY <1>1, <2>1, AnswerType DEF RejectBatch, Results
  <2>3. txn' = None
    BY <1>1 DEF RejectBatch, Unlocked
  <2> QED
    BY <1>1, <2>2, <2>3, NoTransactionLeft DEF RejectBatch, StoreTypeOK, tables
<1>2. ASSUME NEW c \in Client, NEW b \in Batches, AnswerOldBatch(c, b)
      PROVE  StoreIInv'
  <2>1. ValidBatch(b) /\ LastSeq(b) \in Seqs
    BY BatchesAssumption, BatchFacts
  <2>2. reply' \in Reply
    BY <1>2, <2>1, AnswerType DEF AnswerOldBatch, Results
  <2>3. txn' = None
    BY <1>2 DEF AnswerOldBatch, Unlocked
  <2> QED
    BY <1>2, <2>2, <2>3, NoTransactionLeft DEF AnswerOldBatch, StoreTypeOK, tables
<1>3. ASSUME NEW c \in Client, NEW b \in Batches, BeginBatch(c, b)
      PROVE  StoreIInv'
  BY <1>3, TransactionBegins
<1>4. ASSUME NEW c \in Client, NEW s \in SnapshotRequests, RejectSnapshot(c, s)
      PROVE  StoreIInv'
  <2>1. s.seq \in Seqs
    BY SnapshotsAssumption, SnapshotFacts
  <2>2. \E result \in Results : Answer(c, s.seq, result)
    BY <1>4 DEF RejectSnapshot, Results
  <2>3. reply' \in Reply
    BY <2>1, <2>2, AnswerType
  <2>4. txn' = None
    BY <1>4 DEF RejectSnapshot, Unlocked
  <2> QED
    BY <1>4, <2>3, <2>4, NoTransactionLeft DEF RejectSnapshot, StoreTypeOK, tables
<1>5. ASSUME NEW c \in Client, NEW s \in SnapshotRequests, AnswerOldSnapshot(c, s)
      PROVE  StoreIInv'
  <2>1. s.seq \in Seqs
    BY SnapshotsAssumption, SnapshotFacts
  <2>2. reply' \in Reply
    BY <1>5, <2>1, AnswerType DEF AnswerOldSnapshot, Results
  <2>3. txn' = None
    BY <1>5 DEF AnswerOldSnapshot, Unlocked
  <2> QED
    BY <1>5, <2>2, <2>3, NoTransactionLeft DEF AnswerOldSnapshot, StoreTypeOK, tables
<1>6. ASSUME NEW c \in Client, NEW s \in SnapshotRequests, CommitSnapshot(c, s)
      PROVE  StoreIInv'
  <2>1. /\ s.seq \in Seqs
        /\ {RowOf(c, x) : x \in s.claims} \in SUBSET Row
        /\ HistoryRow(c, s, now) \in SnapshotRow
    BY SnapshotsAssumption, SnapshotFacts DEF StoreTypeOK
  <2>2. reply' \in Reply
    BY <1>6, <2>1, AnswerType DEF CommitSnapshot, Results
  <2>3. claims' \subseteq Row
    BY <1>6, <2>1 DEF CommitSnapshot, WriteSnapshot, StoreTypeOK
  <2>4. snapshots' \subseteq SnapshotRow
    BY <1>6, <2>1 DEF CommitSnapshot, KeepNewest, StoreTypeOK
  <2>5. lastSeq' \in [Client -> 0 .. MaxSeq]
    BY <1>6, <2>1, MaxSeqAssumption DEF CommitSnapshot, StoreTypeOK, Seqs
  <2>6. txn' = None
    BY <1>6 DEF CommitSnapshot, Unlocked
  <2> QED
    BY <1>6, <2>2, <2>3, <2>4, <2>5, <2>6, NoTransactionLeft DEF CommitSnapshot, StoreTypeOK
<1>7. ASSUME ApplyEvent
      PROVE  StoreIInv'
  BY <1>7, LoopTurn
<1>8. ASSUME txn # None
      PROVE  /\ txn \in Txn /\ txn.client \in Client /\ LastSeq(txn.batch) \in Seqs
             /\ \A result \in Results : Rollback(result) => StoreIInv'
  <2>1. txn \in Txn /\ txn.client \in Client /\ ValidBatch(txn.batch)
    BY <1>8, BatchesAssumption DEF StoreTypeOK, TransactionFollowsBatch
  <2>2. LastSeq(txn.batch) \in Seqs
    BY <2>1, BatchFacts
  <2>3. ASSUME NEW result \in Results, Rollback(result)
        PROVE  StoreIInv'
    <3>1. reply' \in Reply
      BY <2>1, <2>2, <2>3, AnswerType DEF Rollback
    <3> QED
      BY <2>3, <3>1, NoTransactionLeft DEF Rollback, StoreTypeOK, tables
  <2> QED
    BY <2>1, <2>2, <2>3
<1>9. ASSUME RejectRebind \/ RejectTooMany \/ StoreFails
      PROVE  StoreIInv'
  BY <1>8, <1>9 DEF RejectRebind, RejectTooMany, StoreFails, Working, LoopDone, Results
<1>10. ASSUME CommitBatch
       PROVE  StoreIInv'
  <2>1. /\ txn \in Txn /\ txn.client \in Client /\ LastSeq(txn.batch) \in Seqs
    BY <1>8, <1>10 DEF CommitBatch, LoopDone
  <2>2. reply' \in Reply
    BY <1>10, <2>1, AnswerType DEF CommitBatch, Results
  <2>3. claims' \subseteq Row /\ events' \subseteq EventRow
    BY <1>10, <2>1 DEF CommitBatch, KeepNewest, Txn
  <2>4. lastSeq' \in [Client -> 0 .. MaxSeq]
    BY <1>10, <2>1, MaxSeqAssumption DEF CommitBatch, StoreTypeOK, Seqs
  <2> QED
    BY <1>10, <2>2, <2>3, <2>4, NoTransactionLeft DEF CommitBatch, StoreTypeOK
<1>11. ASSUME PruneHistory
       PROVE  StoreIInv'
  BY <1>11, NoTransactionLeft DEF PruneHistory, Unlocked, StoreTypeOK
<1>12. ASSUME SetClock
       PROVE  StoreIInv'
  <2>1. StoreTypeOK'
    BY <1>12 DEF SetClock, StoreTypeOK, tables
  <2>2. UNCHANGED <<lastSeq, claims, events, txn>>
    BY <1>12 DEF SetClock, tables
  <2>3. TransactionFollowsBatch'
    BY <2>2 DEF TransactionFollowsBatch, NewHistory
  <2> QED
    BY <2>1, <2>3
<1>13. ASSUME StoreCrash
       PROVE  StoreIInv'
  BY <1>13, NoTransactionLeft DEF StoreCrash, StoreTypeOK, tables
<1>14. ASSUME UNCHANGED storeVars
       PROVE  StoreIInv'
  BY <1>14 DEF storeVars, StoreTypeOK, TransactionFollowsBatch, NewHistory
<1> QED
  BY <1>1, <1>2, <1>3, <1>4, <1>5, <1>6, <1>7, <1>9, <1>10, <1>11, <1>12, <1>13, <1>14
     DEF StoreNext, StoreWrite, StoreLoop

THEOREM StoreInvariant == StoreSpec => []StoreIInv
  BY StoreIInvInit, StoreIInvStep, PTL DEF StoreSpec

\* Type correctness of the store: every table, the open transaction and every
\* answer stay well formed.
THEOREM StoreTypeCorrect == StoreSpec => []StoreTypeOK
<1>1. StoreIInv => StoreTypeOK
  BY DEF StoreIInv
<1> QED
  BY <1>1, StoreInvariant, PTL

-----------------------------------------------------------------------------
(***************************************************************************)
(* A sequence number is spent once.                                        *)
(***************************************************************************)

\* Forgetting history keeps it.
LEMMA HistoryShrinks ==
    ASSUME SequenceSpentOnce, lastSeq' = lastSeq,
           events' \subseteq events, snapshots' \subseteq snapshots
    PROVE  SequenceSpentOnce'
<1>1. \A c \in Client : Of(c, events)' \subseteq Of(c, events)
                        /\ Of(c, snapshots)' \subseteq Of(c, snapshots)
                        /\ Of(c, events \cup snapshots)' \subseteq Of(c, events \cup snapshots)
  BY DEF Of
<1> QED
  BY <1>1 DEF SequenceSpentOnce

\* What a transaction that commits adds to the history of its client: rows
\* above the stored sequence, all different, none with a known id.
LEMMA NewHistoryFacts ==
    ASSUME StoreIInv, LoopDone
    PROVE  /\ txn.client \in Client
           /\ LastSeq(txn.batch) \in Nat
           /\ lastSeq[txn.client] < LastSeq(txn.batch)
           /\ txn.events = events \cup NewHistory(txn)
           /\ \A h \in NewHistory(txn) :
                 /\ h.client = txn.client
                 /\ h.seq \in Nat /\ h.seq > lastSeq[txn.client]
                 /\ h.seq <= LastSeq(txn.batch)
                 /\ \A g \in Of(txn.client, events) : g.id # h.id
                 /\ \A g \in NewHistory(txn) : h.seq = g.seq \/ h.id = g.id => h = g
<1> DEFINE c == txn.client
           b == txn.batch
<1>1. /\ txn # None /\ c \in Client /\ b \in Batches /\ txn.done = Len(b)
      /\ FirstSeq(b) > lastSeq[c]
      /\ \A i \in 1 .. Len(b) : Prior(events, c, b[i]) = {}
      /\ txn.events = events \cup NewHistory(txn)
  BY DEF StoreIInv, TransactionFollowsBatch, LoopDone
<1>9. lastSeq[c] \in Nat
  BY <1>1, MaxSeqAssumption DEF StoreIInv, StoreTypeOK
<1>2. ValidBatch(b)
  BY <1>1, BatchesAssumption
<1>3. Seqs \subseteq Nat
  BY MaxSeqAssumption DEF Seqs
<1>4. /\ FirstSeq(b) \in Nat /\ LastSeq(b) \in Nat /\ Len(b) \in Nat
      /\ 1 \in 1 .. Len(b)
      /\ \A i \in 1 .. Len(b) : /\ b[i].seq \in Nat
                                /\ FirstSeq(b) <= b[i].seq /\ b[i].seq <= LastSeq(b)
  BY <1>2, <1>3, BatchFacts
<1>5. \A i, j \in 1 .. Len(b) : i # j => b[i].seq # b[j].seq /\ b[i].id # b[j].id
  <2>1. \A i, j \in 1 .. Len(b) : i < j => b[i].seq < b[j].seq /\ b[i].id # b[j].id
    BY <1>2 DEF ValidBatch
  <2>2. \A i, j \in 1 .. Len(b) : i # j => i < j \/ j < i
    BY <1>4
  <2> QED
    BY <1>4, <2>1, <2>2
<1>6. ASSUME NEW i \in 1 .. Len(b), NEW g \in Of(c, events)
      PROVE  g.id # b[i].id
  BY <1>1 DEF Prior
<1>7. ASSUME NEW h \in NewHistory(txn)
      PROVE  /\ h.client = c
             /\ h.seq \in Nat /\ h.seq > lastSeq[c]
             /\ h.seq <= LastSeq(b)
             /\ \A g \in Of(c, events) : g.id # h.id
             /\ \A g \in NewHistory(txn) : h.seq = g.seq \/ h.id = g.id => h = g
  <2>1. PICK i \in 1 .. Len(b) : h = HistoryRow(c, b[i], txn.at)
    BY <1>1 DEF NewHistory
  <2>2. h.client = c /\ h.seq = b[i].seq /\ h.id = b[i].id
    BY <2>1 DEF HistoryRow
  <2>3. h.seq \in Nat /\ h.seq > lastSeq[c] /\ h.seq <= LastSeq(b)
    BY <1>1, <1>4, <1>9, <2>2
  <2>4. ASSUME NEW g \in NewHistory(txn), h.seq = g.seq \/ h.id = g.id
        PROVE  h = g
    <3>1. PICK j \in 1 .. Len(b) : g = HistoryRow(c, b[j], txn.at)
      BY <1>1 DEF NewHistory
    <3>2. g.seq = b[j].seq /\ g.id = b[j].id
      BY <3>1 DEF HistoryRow
    <3>3. i = j
      BY <1>5, <2>2, <2>4, <3>2
    <3> QED
      BY <2>1, <3>1, <3>3
  <2> QED
    BY <1>6, <2>2, <2>3, <2>4
<1>8. lastSeq[c] < LastSeq(b)
  BY <1>1, <1>4, <1>9
<1> QED
  BY <1>1, <1>4, <1>7, <1>8

LEMMA SequenceSpentOnceStep ==
    StoreIInv /\ SequenceSpentOnce /\ [StoreNext]_storeVars => SequenceSpentOnce'
<1> SUFFICES ASSUME StoreIInv, SequenceSpentOnce, [StoreNext]_storeVars
             PROVE  SequenceSpentOnce'
  OBVIOUS
<1>1. ASSUME CommitBatch
      PROVE  SequenceSpentOnce'
  <2> DEFINE c == txn.client
             New == NewHistory(txn)
  <2>1. LoopDone
    BY <1>1 DEF CommitBatch
  <2>2. /\ c \in Client
        /\ LastSeq(txn.batch) \in Nat
        /\ lastSeq[c] < LastSeq(txn.batch)
        /\ txn.events = events \cup New
        /\ \A h \in New : /\ h.client = c
                          /\ h.seq \in Nat /\ h.seq > lastSeq[c]
                          /\ h.seq <= LastSeq(txn.batch)
                          /\ \A g \in Of(c, events) : g.id # h.id
                          /\ \A g \in New : h.seq = g.seq \/ h.id = g.id => h = g
    BY <2>1, NewHistoryFacts
  <2>3. events' \subseteq events \cup New /\ snapshots' = snapshots
    BY <1>1, <2>2 DEF CommitBatch, KeepNewest
  <2>4. lastSeq' = [lastSeq EXCEPT ![c] = LastSeq(txn.batch)]
    BY <1>1 DEF CommitBatch
  <2>5. \A d \in Client : lastSeq[d] \in Nat
    BY MaxSeqAssumption DEF StoreIInv, StoreTypeOK
  <2>6. \A d \in Client : lastSeq'[d] = IF d = c THEN LastSeq(txn.batch) ELSE lastSeq[d]
    BY <2>2, <2>4 DEF StoreIInv, StoreTypeOK
  <2>7. \A h \in events \cup snapshots : h.seq \in Nat
    BY MaxSeqAssumption DEF StoreIInv, StoreTypeOK, EventRow, SnapshotRow, Seqs
  <2> HIDE DEF New
  <2>8. ASSUME NEW d \in Client, d # c
        PROVE  /\ Of(d, events') \subseteq Of(d, events)
               /\ Of(d, events' \cup snapshots') \subseteq Of(d, events \cup snapshots)
               /\ Of(d, snapshots') = Of(d, snapshots)
    BY <2>2, <2>3, <2>8 DEF Of
  <2>9. /\ Of(c, events') \subseteq Of(c, events) \cup New
        /\ Of(c, snapshots') = Of(c, snapshots)
        /\ Of(c, events' \cup snapshots') \subseteq Of(c, events \cup snapshots) \cup New
    BY <2>3 DEF Of
  <2>10. /\ \A h \in Of(c, events \cup snapshots) : h.seq \in Nat /\ h.seq <= lastSeq[c]
         /\ \A h, g \in Of(c, events) : h.seq = g.seq \/ h.id = g.id => h = g
         /\ \A h, g \in Of(c, snapshots) : h.seq = g.seq \/ h.id = g.id => h = g
         /\ \A h \in Of(c, events), g \in Of(c, snapshots) : h.seq # g.seq
         /\ Of(c, events) \subseteq Of(c, events \cup snapshots)
         /\ Of(c, snapshots) \subseteq Of(c, events \cup snapshots)
    BY <2>2, <2>7 DEF SequenceSpentOnce, Of
  <2>11. \A h \in New, g \in Of(c, events \cup snapshots) : h.seq # g.seq
    BY <2>2, <2>5, <2>10
  <2>12. ASSUME NEW h \in Of(c, events' \cup snapshots')
         PROVE  h.seq <= LastSeq(txn.batch)
    <3>1. CASE h \in New
      BY <2>2, <3>1
    <3>2. CASE h \in Of(c, events \cup snapshots)
      <4>1. h.seq \in Nat /\ h.seq <= lastSeq[c] /\ lastSeq[c] \in Nat
        BY <2>2, <2>5, <2>10, <3>2
      <4> QED
        BY <2>2, <4>1
    <3> QED
      BY <2>9, <3>1, <3>2
  <2>13. \A h, g \in Of(c, events') : h.seq = g.seq \/ h.id = g.id => h = g
    BY <2>2, <2>9, <2>10, <2>11
  <2>14. \A h \in Of(c, events'), g \in Of(c, snapshots') : h.seq # g.seq
    BY <2>9, <2>10, <2>11
  <2>15. ASSUME NEW d \in Client
         PROVE  /\ \A h \in Of(d, events' \cup snapshots') : h.seq <= lastSeq'[d]
                /\ \A h, g \in Of(d, events') : h.seq = g.seq \/ h.id = g.id => h = g
                /\ \A h, g \in Of(d, snapshots') : h.seq = g.seq \/ h.id = g.id => h = g
                /\ \A h \in Of(d, events'), g \in Of(d, snapshots') : h.seq # g.seq
    <3>1. CASE d = c
      <4>1. lastSeq'[d] = LastSeq(txn.batch)
        BY <2>6, <3>1
      <4>2. \A h, g \in Of(c, snapshots') : h.seq = g.seq \/ h.id = g.id => h = g
        BY <2>9, <2>10
      <4> QED
        BY <2>12, <2>13, <2>14, <3>1, <4>1, <4>2
    <3>2. CASE d # c
      <4>1. /\ \A h \in Of(d, events \cup snapshots) : h.seq <= lastSeq[d]
            /\ \A h, g \in Of(d, events) : h.seq = g.seq \/ h.id = g.id => h = g
            /\ \A h, g \in Of(d, snapshots) : h.seq = g.seq \/ h.id = g.id => h = g
            /\ \A h \in Of(d, events), g \in Of(d, snapshots) : h.seq # g.seq
        BY DEF SequenceSpentOnce
      <4>2. lastSeq'[d] = lastSeq[d]
        BY <2>6, <3>2
      <4>3. /\ Of(d, events') \subseteq Of(d, events)
            /\ Of(d, snapshots') \subseteq Of(d, snapshots)
            /\ Of(d, events' \cup snapshots') \subseteq Of(d, events \cup snapshots)
        BY <2>8, <3>2
      <4> QED
        BY <4>1, <4>2, <4>3
    <3> QED
      BY <3>1, <3>2
  <2> QED
    BY <2>15 DEF SequenceSpentOnce, Of
<1>2. ASSUME NEW c \in Client, NEW s \in SnapshotRequests, CommitSnapshot(c, s)
      PROVE  SequenceSpentOnce'
  <2> DEFINE row == HistoryRow(c, s, now)
  <2>1. /\ s.seq \in Nat /\ s.seq > lastSeq[c]
        /\ snapshots' \subseteq snapshots \cup {row} /\ events' = events
        /\ lastSeq' = [lastSeq EXCEPT ![c] = s.seq]
    BY <1>2, SnapshotsAssumption, SnapshotFacts, MaxSeqAssumption DEF CommitSnapshot, KeepNewest, Seqs
  <2>2. row.client = c /\ row.seq = s.seq /\ row.id = s.id
    BY DEF HistoryRow
  <2>3. \A d \in Client : /\ lastSeq[d] \in Nat
                          /\ lastSeq'[d] = IF d = c THEN s.seq ELSE lastSeq[d]
    BY <2>1, MaxSeqAssumption DEF StoreIInv, StoreTypeOK
  <2>4. \A h \in events \cup snapshots : h.seq \in Nat
    BY MaxSeqAssumption DEF StoreIInv, StoreTypeOK, EventRow, SnapshotRow, Seqs
  <2> HIDE DEF row
  <2>5. /\ \A h \in Of(c, events \cup snapshots) : h.seq \in Nat /\ h.seq <= lastSeq[c]
        /\ \A h, g \in Of(c, events) : h.seq = g.seq \/ h.id = g.id => h = g
        /\ \A h, g \in Of(c, snapshots) : h.seq = g.seq \/ h.id = g.id => h = g
        /\ \A h \in Of(c, events), g \in Of(c, snapshots) : h.seq # g.seq
        /\ Of(c, events) \subseteq Of(c, events \cup snapshots)
        /\ Of(c, snapshots) \subseteq Of(c, events \cup snapshots)
    BY <2>4 DEF SequenceSpentOnce, Of
  <2>6. \A h \in Of(c, events \cup snapshots) : h.seq # row.seq
    BY <2>1, <2>2, <2>3, <2>5
  <2>7. \A h \in Of(c, snapshots) : h.id # row.id
    <3> SUFFICES ASSUME NEW h \in Of(c, snapshots), h.id = row.id
                 PROVE  FALSE
      OBVIOUS
    <3>1. h \in Prior(snapshots, c, s)
      BY <2>2 DEF Prior
    <3>2. h.seq = s.seq
      BY <1>2, <3>1 DEF CommitSnapshot, Reused
    <3> QED
      BY <2>2, <2>5, <2>6, <3>2
  <2>8. /\ Of(c, events') = Of(c, events)
        /\ Of(c, snapshots') \subseteq Of(c, snapshots) \cup {row}
        /\ Of(c, events' \cup snapshots') \subseteq Of(c, events \cup snapshots) \cup {row}
    BY <2>1 DEF Of
  <2>9. \A d \in Client : d # c =>
           /\ Of(d, events') = Of(d, events)
           /\ Of(d, snapshots') \subseteq Of(d, snapshots)
           /\ Of(d, events' \cup snapshots') \subseteq Of(d, events \cup snapshots)
    BY <2>1, <2>2 DEF Of
  <2>10. ASSUME NEW d \in Client
         PROVE  /\ \A h \in Of(d, events' \cup snapshots') : h.seq <= lastSeq'[d]
                /\ \A h, g \in Of(d, events') : h.seq = g.seq \/ h.id = g.id => h = g
                /\ \A h, g \in Of(d, snapshots') : h.seq = g.seq \/ h.id = g.id => h = g
                /\ \A h \in Of(d, events'), g \in Of(d, snapshots') : h.seq # g.seq
    <3>1. CASE d = c
      <4>1. ASSUME NEW h \in Of(c, events' \cup snapshots')
            PROVE  h.seq <= s.seq
        <5>1. CASE h = row
          BY <2>1, <2>2, <5>1
        <5>2. CASE h \in Of(c, events \cup snapshots)
          <6>1. h.seq \in Nat /\ h.seq <= lastSeq[c] /\ lastSeq[c] \in Nat
            BY <2>3, <2>5, <5>2
          <6> QED
            BY <2>1, <6>1
        <5> QED
          BY <2>8, <5>1, <5>2
      <4>2. \A h, g \in Of(c, snapshots') : h.seq = g.seq \/ h.id = g.id => h = g
        BY <2>5, <2>6, <2>7, <2>8
      <4>3. \A h \in Of(c, events'), g \in Of(c, snapshots') : h.seq # g.seq
        BY <2>5, <2>6, <2>8
      <4>4. lastSeq'[d] = s.seq
        BY <2>3, <3>1
      <4>5. \A h, g \in Of(c, events') : h.seq = g.seq \/ h.id = g.id => h = g
        BY <2>5, <2>8
      <4> QED
        BY <3>1, <4>1, <4>2, <4>3, <4>4, <4>5
    <3>2. CASE d # c
      <4>1. /\ \A h \in Of(d, events \cup snapshots) : h.seq <= lastSeq[d]
            /\ \A h, g \in Of(d, events) : h.seq = g.seq \/ h.id = g.id => h = g
            /\ \A h, g \in Of(d, snapshots) : h.seq = g.seq \/ h.id = g.id => h = g
            /\ \A h \in Of(d, events), g \in Of(d, snapshots) : h.seq # g.seq
        BY DEF SequenceSpentOnce
      <4>2. lastSeq'[d] = lastSeq[d]
        BY <2>3, <3>2
      <4>3. /\ Of(d, events') \subseteq Of(d, events)
            /\ Of(d, snapshots') \subseteq Of(d, snapshots)
            /\ Of(d, events' \cup snapshots') \subseteq Of(d, events \cup snapshots)
        BY <2>9, <3>2
      <4> QED
        BY <4>1, <4>2, <4>3
    <3> QED
      BY <3>1, <3>2
  <2> QED
    BY <2>10 DEF SequenceSpentOnce, Of
<1>3. ASSUME UNCHANGED <<lastSeq, events, snapshots>>
      PROVE  SequenceSpentOnce'
  BY <1>3, HistoryShrinks
<1>4. ASSUME PruneHistory
      PROVE  SequenceSpentOnce'
  BY <1>4, HistoryShrinks DEF PruneHistory
<1>5. ASSUME NEW c \in Client, NEW b \in Batches,
             RejectBatch(c, b) \/ AnswerOldBatch(c, b) \/ BeginBatch(c, b)
      PROVE  UNCHANGED <<lastSeq, events, snapshots>>
  BY <1>5 DEF RejectBatch, AnswerOldBatch, BeginBatch, tables
<1>6. ASSUME NEW c \in Client, NEW s \in SnapshotRequests,
             RejectSnapshot(c, s) \/ AnswerOldSnapshot(c, s)
      PROVE  UNCHANGED <<lastSeq, events, snapshots>>
  BY <1>6 DEF RejectSnapshot, AnswerOldSnapshot, tables
<1>7. ASSUME ApplyEvent \/ RejectRebind \/ RejectTooMany \/ StoreFails \/ StoreCrash \/ SetClock
             \/ UNCHANGED storeVars
      PROVE  UNCHANGED <<lastSeq, events, snapshots>>
  BY <1>7 DEF ApplyEvent, RejectRebind, RejectTooMany, StoreFails, StoreCrash, SetClock,
              Rollback, tables, storeVars
<1> QED
  BY <1>1, <1>2, <1>3, <1>4, <1>5, <1>6, <1>7 DEF StoreNext, StoreWrite, StoreLoop

\* No sequence number and no id is stored twice for a client, and none above
\* its last_seq: the UNIQUE constraints of the history tables never fire.
THEOREM SequenceSpentOnceHolds == StoreSpec => []SequenceSpentOnce
<1>1. StoreInit => SequenceSpentOnce
  BY DEF StoreInit, SequenceSpentOnce, Of
<1> QED
  BY <1>1, StoreInvariant, SequenceSpentOnceStep, PTL DEF StoreSpec

-----------------------------------------------------------------------------
(***************************************************************************)
(* The primary key of the claims table.                                    *)
(***************************************************************************)

\* INSERT ... ON CONFLICT DO UPDATE keeps one row per identity.
LEMMA WriteKeepsKey ==
    ASSUME NEW rows, OneRowPerIdentity(rows), NEW c, NEW e
    PROVE  OneRowPerIdentity(WriteClaim(rows, c, e))
<1> DEFINE H == Held(rows, c, e)
<1>1. RowOf(c, e).client = c /\ Identity(RowOf(c, e)) = Identity(e)
  BY DEF RowOf, Identity
<1>2. \A r \in rows \ H : ~(r.client = c /\ Identity(r) = Identity(e))
  BY DEF Held, Of
<1>3. OneRowPerIdentity((rows \ H) \cup {RowOf(c, e)})
  BY <1>1, <1>2 DEF OneRowPerIdentity
<1>4. OneRowPerIdentity(rows \ {r \in H : r.ip = e.ip})
  BY DEF OneRowPerIdentity
<1> QED
  BY <1>3, <1>4 DEF WriteClaim

LEMMA SnapshotKeepsKey ==
    ASSUME NEW rows, OneRowPerIdentity(rows), NEW c, NEW s, ValidSnapshot(s)
    PROVE  OneRowPerIdentity(WriteSnapshot(rows, c, s))
<1>1. \A x, y \in s.claims : Identity(x) = Identity(y) => x = y
  BY DEF ValidSnapshot
<1>2. \A x : RowOf(c, x).client = c /\ Identity(RowOf(c, x)) = Identity(x)
  BY DEF RowOf, Identity
<1> QED
  BY <1>1, <1>2 DEF WriteSnapshot, OneRowPerIdentity

LEMMA KeysAreUniqueStep ==
    StoreIInv /\ KeysAreUnique /\ [StoreNext]_storeVars => KeysAreUnique'
<1> SUFFICES ASSUME StoreIInv, KeysAreUnique, [StoreNext]_storeVars
             PROVE  KeysAreUnique'
  OBVIOUS
<1>1. ASSUME UNCHANGED claims, txn' = None \/ UNCHANGED txn
      PROVE  KeysAreUnique'
  BY <1>1 DEF KeysAreUnique, OneRowPerIdentity
<1>2. ASSUME NEW c \in Client, NEW b \in Batches, RejectBatch(c, b) \/ AnswerOldBatch(c, b)
      PROVE  KeysAreUnique'
  BY <1>1, <1>2 DEF RejectBatch, AnswerOldBatch, tables
<1>3. ASSUME NEW c \in Client, NEW b \in Batches, BeginBatch(c, b)
      PROVE  KeysAreUnique'
  BY <1>3 DEF BeginBatch, tables, KeysAreUnique, OneRowPerIdentity
<1>4. ASSUME NEW c \in Client, NEW s \in SnapshotRequests,
             RejectSnapshot(c, s) \/ AnswerOldSnapshot(c, s)
      PROVE  KeysAreUnique'
  BY <1>1, <1>4 DEF RejectSnapshot, AnswerOldSnapshot, tables
<1>5. ASSUME NEW c \in Client, NEW s \in SnapshotRequests, CommitSnapshot(c, s)
      PROVE  KeysAreUnique'
  <2>1. OneRowPerIdentity(claims')
    BY <1>5, SnapshotsAssumption, SnapshotKeepsKey DEF CommitSnapshot, KeysAreUnique
  <2>2. txn' = None
    BY <1>5 DEF CommitSnapshot, Unlocked
  <2> QED
    BY <2>1, <2>2 DEF KeysAreUnique, OneRowPerIdentity
<1>6. ASSUME ApplyEvent
      PROVE  KeysAreUnique'
  <2>1. /\ txn # None /\ txn \in Txn /\ UNCHANGED claims
        /\ txn'.claims = WriteClaim(txn.claims, txn.client, Current)
    BY <1>6 DEF ApplyEvent, Working, tables, StoreIInv, StoreTypeOK, Txn
  <2>2. OneRowPerIdentity(txn'.claims)
    BY <2>1, WriteKeepsKey DEF KeysAreUnique
  <2> QED
    BY <2>1, <2>2 DEF KeysAreUnique, OneRowPerIdentity
<1>7. ASSUME RejectRebind \/ RejectTooMany \/ StoreFails \/ StoreCrash \/ SetClock
             \/ PruneHistory \/ UNCHANGED storeVars
      PROVE  KeysAreUnique'
  BY <1>1, <1>7 DEF RejectRebind, RejectTooMany, StoreFails, StoreCrash, SetClock,
                    PruneHistory, Rollback, tables, storeVars
<1>8. ASSUME CommitBatch
      PROVE  KeysAreUnique'
  BY <1>8 DEF CommitBatch, LoopDone, KeysAreUnique, OneRowPerIdentity
<1> QED
  BY <1>2, <1>3, <1>4, <1>5, <1>6, <1>7, <1>8 DEF StoreNext, StoreWrite, StoreLoop

\* One row, hence one address, for a claim identity of a client, in the table
\* and in the working copy of a transaction.
THEOREM KeysAreUniqueHolds == StoreSpec => []KeysAreUnique
<1>1. StoreInit => KeysAreUnique
  BY DEF StoreInit, KeysAreUnique, OneRowPerIdentity
<1> QED
  BY <1>1, StoreInvariant, KeysAreUniqueStep, PTL DEF StoreSpec

-----------------------------------------------------------------------------
(***************************************************************************)
(* Limits.                                                                 *)
(***************************************************************************)

\* A batch of one client leaves the rows of every other client alone.
LEMMA OthersUntouched ==
    ASSUME NEW c, NEW d, d # c, NEW rows, NEW b, NEW n
    PROVE  Of(d, AfterFirst(rows, c, b, n)) = Of(d, rows)
<1>1. \A i : RowOf(c, b[i]).client = c
  BY DEF RowOf
<1> QED
  BY <1>1 DEF Of, AfterFirst

\* A snapshot stores no more rows than it has claims.
LEMMA SnapshotSize ==
    ASSUME NEW c, NEW s, ValidSnapshot(s), NEW rows, ~SnapshotTooLarge(s)
    PROVE  Cardinality(Of(c, WriteSnapshot(rows, c, s))) <= ClaimsLimit
<1> DEFINE S == s.claims
           T == {RowOf(c, x) : x \in S}
           f == [x \in S |-> RowOf(c, x)]
<1>1. IsFiniteSet(S)
  BY DEF ValidSnapshot
<1>2. f \in Surjection(S, T)
  BY DEF Surjection
<1>3. IsFiniteSet(T) /\ Cardinality(T) <= Cardinality(S)
  BY <1>1, <1>2, FS_Surjection
<1>4. Cardinality(S) \in Nat /\ Cardinality(T) \in Nat
  BY <1>1, <1>3, FS_CardinalityType
<1>5. Cardinality(S) <= ClaimsLimit
  BY <1>4, LimitsAssumption DEF SnapshotTooLarge
<1>6. \A x : RowOf(c, x).client = c
  BY DEF RowOf
<1>7. Of(c, WriteSnapshot(rows, c, s)) = T
  BY <1>6 DEF Of, WriteSnapshot
<1> HIDE DEF S, T
<1>8. Cardinality(T) <= ClaimsLimit
  BY <1>3, <1>4, <1>5, LimitsAssumption
<1> QED
  BY <1>7, <1>8

LEMMA WithinLimitsStep ==
    StoreIInv /\ WithinLimits /\ [StoreNext]_storeVars => WithinLimits'
<1> SUFFICES ASSUME StoreIInv, WithinLimits, [StoreNext]_storeVars
             PROVE  WithinLimits'
  OBVIOUS
<1>1. ASSUME UNCHANGED claims
      PROVE  WithinLimits'
  BY <1>1 DEF WithinLimits, Of
<1>2. ASSUME CommitBatch
      PROVE  WithinLimits'
  <2> DEFINE c == txn.client
  <2>1. FitsLimits(claims', c)
    BY <1>2 DEF CommitBatch
  <2>2. claims' = AfterFirst(claims, c, txn.batch, txn.done)
    BY <1>2 DEF CommitBatch, LoopDone, StoreIInv, TransactionFollowsBatch
  <2>3. \A d \in Client : d # c => Of(d, claims') = Of(d, claims)
    BY <2>2, OthersUntouched
  <2>4. ASSUME NEW d \in Client
        PROVE  Cardinality(Of(d, claims')) <= ClaimsLimit
    <3>1. CASE d = c
      BY <2>1, <3>1 DEF FitsLimits
    <3>2. CASE d # c
      BY <2>3, <3>2 DEF WithinLimits
    <3> QED
      BY <3>1, <3>2
  <2>5. Cardinality(claims') <= TotalLimit
    BY <2>1 DEF FitsLimits
  <2> QED
    BY <2>4, <2>5 DEF WithinLimits, Of
<1>3. ASSUME NEW c \in Client, NEW s \in SnapshotRequests, CommitSnapshot(c, s)
      PROVE  WithinLimits'
  <2>1. /\ claims' = WriteSnapshot(claims, c, s)
        /\ ~SnapshotTooLarge(s)
        /\ Cardinality(claims') <= TotalLimit
    BY <1>3 DEF CommitSnapshot
  <2>2. Cardinality(Of(c, claims')) <= ClaimsLimit
    BY <2>1, SnapshotsAssumption, SnapshotSize
  <2>3. \A x : RowOf(c, x).client = c
    BY DEF RowOf
  <2>4. \A d \in Client : d # c => Of(d, claims') = Of(d, claims)
    BY <2>1, <2>3 DEF Of, WriteSnapshot
  <2>5. ASSUME NEW d \in Client
        PROVE  Cardinality(Of(d, claims')) <= ClaimsLimit
    <3>1. CASE d = c
      BY <2>2, <3>1
    <3>2. CASE d # c
      BY <2>4, <3>2 DEF WithinLimits
    <3> QED
      BY <3>1, <3>2
  <2> QED
    BY <2>1, <2>5 DEF WithinLimits, Of
<1>4. ASSUME NEW c \in Client, NEW b \in Batches,
             RejectBatch(c, b) \/ AnswerOldBatch(c, b) \/ BeginBatch(c, b)
      PROVE  UNCHANGED claims
  BY <1>4 DEF RejectBatch, AnswerOldBatch, BeginBatch, tables
<1>5. ASSUME NEW c \in Client, NEW s \in SnapshotRequests,
             RejectSnapshot(c, s) \/ AnswerOldSnapshot(c, s)
      PROVE  UNCHANGED claims
  BY <1>5 DEF RejectSnapshot, AnswerOldSnapshot, tables
<1>6. ASSUME ApplyEvent \/ RejectRebind \/ RejectTooMany \/ StoreFails \/ StoreCrash \/ SetClock
             \/ PruneHistory \/ UNCHANGED storeVars
      PROVE  UNCHANGED claims
  BY <1>6 DEF ApplyEvent, RejectRebind, RejectTooMany, StoreFails, StoreCrash, SetClock,
              PruneHistory, Rollback, tables, storeVars
<1> QED
  BY <1>1, <1>2, <1>3, <1>4, <1>5, <1>6 DEF StoreNext, StoreWrite, StoreLoop

\* The per-client and the global claim limits hold after every commit.
THEOREM WithinLimitsHolds == StoreSpec => []WithinLimits
<1>1. StoreInit => WithinLimits
  <2>1. \A c \in Client : Of(c, {}) = {}
    BY DEF Of
  <2>2. Cardinality({}) = 0
    BY FS_EmptySet
  <2> QED
    BY <2>1, <2>2, LimitsAssumption DEF StoreInit, WithinLimits
<1> QED
  BY <1>1, StoreInvariant, WithinLimitsStep, PTL DEF StoreSpec

-----------------------------------------------------------------------------
(***************************************************************************)
(* Answers.                                                                *)
(***************************************************************************)

LEMMA AcceptedIsCoveredStep ==
    StoreIInv /\ AcceptedIsCovered /\ [StoreNext]_storeVars => AcceptedIsCovered'
<1> SUFFICES ASSUME StoreIInv, AcceptedIsCovered, [StoreNext]_storeVars
             PROVE  AcceptedIsCovered'
  OBVIOUS
<1>0. \A c \in Client : lastSeq[c] \in Nat
  BY MaxSeqAssumption DEF StoreIInv, StoreTypeOK
<1>1. ASSUME UNCHANGED <<lastSeq, reply>>
      PROVE  AcceptedIsCovered'
  BY <1>1 DEF AcceptedIsCovered
<1>2. ASSUME NEW c, NEW n, NEW result, result \notin AcceptedResults, Answer(c, n, result)
      PROVE  AcceptedIsCovered'
  BY <1>2 DEF AcceptedIsCovered, Answer
<1>3. ASSUME NEW c \in Client, NEW n, NEW result, lastSeq'[c] >= n, Answer(c, n, result)
      PROVE  AcceptedIsCovered'
  BY <1>3 DEF AcceptedIsCovered, Answer
<1>4. ASSUME NEW c \in Client, NEW b \in Batches, RejectBatch(c, b)
      PROVE  AcceptedIsCovered'
  BY <1>2, <1>4 DEF RejectBatch, AcceptedResults
<1>5. ASSUME NEW c \in Client, NEW b \in Batches, AnswerOldBatch(c, b)
      PROVE  AcceptedIsCovered'
  <2>1. LastSeq(b) \in Nat
    BY BatchesAssumption, BatchFacts, MaxSeqAssumption DEF Seqs
  <2>2. lastSeq[c] >= LastSeq(b) /\ lastSeq' = lastSeq
    BY <1>0, <1>5, <2>1 DEF AnswerOldBatch, Crosses, tables
  <2> QED
    BY <1>3, <1>5, <2>2 DEF AnswerOldBatch
<1>6. ASSUME NEW c \in Client, NEW b \in Batches, BeginBatch(c, b)
      PROVE  AcceptedIsCovered'
  BY <1>1, <1>6 DEF BeginBatch, tables
<1>7. ASSUME NEW c \in Client, NEW s \in SnapshotRequests, RejectSnapshot(c, s)
      PROVE  AcceptedIsCovered'
  BY <1>2, <1>7 DEF RejectSnapshot, AcceptedResults
<1>8. ASSUME NEW c \in Client, NEW s \in SnapshotRequests, AnswerOldSnapshot(c, s)
      PROVE  AcceptedIsCovered'
  BY <1>3, <1>8 DEF AnswerOldSnapshot, tables
<1>9. ASSUME NEW c \in Client, NEW s \in SnapshotRequests, CommitSnapshot(c, s)
      PROVE  AcceptedIsCovered'
  <2>1. s.seq \in Nat
    BY SnapshotsAssumption, SnapshotFacts, MaxSeqAssumption DEF Seqs
  <2>2. lastSeq'[c] = s.seq
    BY <1>9 DEF CommitSnapshot, StoreIInv, StoreTypeOK
  <2> QED
    BY <1>3, <1>9, <2>1, <2>2 DEF CommitSnapshot
<1>10. ASSUME RejectRebind \/ RejectTooMany \/ StoreFails
       PROVE  AcceptedIsCovered'
  BY <1>2, <1>10 DEF RejectRebind, RejectTooMany, StoreFails, Rollback, AcceptedResults
<1>11. ASSUME CommitBatch
       PROVE  AcceptedIsCovered'
  <2>1. LoopDone
    BY <1>11 DEF CommitBatch
  <2>2. txn.client \in Client /\ LastSeq(txn.batch) \in Nat
    BY <2>1, NewHistoryFacts
  <2>3. lastSeq'[txn.client] = LastSeq(txn.batch)
    BY <1>11, <2>2 DEF CommitBatch, StoreIInv, StoreTypeOK
  <2> QED
    BY <1>3, <1>11, <2>2, <2>3 DEF CommitBatch
<1>12. ASSUME ApplyEvent \/ PruneHistory \/ SetClock \/ UNCHANGED storeVars
       PROVE  AcceptedIsCovered'
  BY <1>1, <1>12 DEF ApplyEvent, PruneHistory, SetClock, tables, storeVars
<1>13. ASSUME StoreCrash
       PROVE  AcceptedIsCovered'
  BY <1>13 DEF StoreCrash, AcceptedIsCovered
<1> QED
  BY <1>4, <1>5, <1>6, <1>7, <1>8, <1>9, <1>10, <1>11, <1>12, <1>13
     DEF StoreNext, StoreWrite, StoreLoop

\* A sender that is told accepted: true may forget the request: the stored
\* sequence of its client has reached it.
THEOREM AcceptedIsCoveredHolds == StoreSpec => []AcceptedIsCovered
<1>1. StoreInit => AcceptedIsCovered
  BY DEF StoreInit, AcceptedIsCovered
<1> QED
  BY <1>1, StoreInvariant, AcceptedIsCoveredStep, PTL DEF StoreSpec

-----------------------------------------------------------------------------
(***************************************************************************)
(* The store implements the ledger.                                        *)
(***************************************************************************)

LEMMA LedgerOperators ==
    ASSUME NEW rows, NEW c, NEW b, NEW n, NEW s
    PROVE  /\ Ledger!AfterFirst(rows, c, b, n) = AfterFirst(rows, c, b, n)
           /\ Ledger!AfterSnapshot(rows, c, s) = WriteSnapshot(rows, c, s)
           /\ Ledger!SnapshotRebinds(rows, c, s) = SnapshotRebinds(rows, c, s)
           /\ Ledger!FirstSeq(b) = FirstSeq(b)
           /\ Ledger!LastSeq(b) = LastSeq(b)
<1>1. Ledger!AfterFirst(rows, c, b, n) = AfterFirst(rows, c, b, n)
  BY DEF Ledger!AfterFirst, AfterFirst, Ledger!RowOf, RowOf, Ledger!Identity, Identity
<1>2. Ledger!AfterSnapshot(rows, c, s) = WriteSnapshot(rows, c, s)
  BY DEF Ledger!AfterSnapshot, WriteSnapshot, Ledger!Of, Ledger!RowOf, RowOf
<1>3. Ledger!SnapshotRebinds(rows, c, s) = SnapshotRebinds(rows, c, s)
  BY DEF Ledger!SnapshotRebinds, SnapshotRebinds, Ledger!Of, Of, Ledger!Identity, Identity
<1> QED
  BY <1>1, <1>2, <1>3 DEF Ledger!FirstSeq, Ledger!LastSeq, FirstSeq, LastSeq

\* A commit of apply_events is one ApplyBatch of the ledger.
LEMMA CommitBatchRefines ==
    ASSUME StoreIInv, CommitBatch
    PROVE  Ledger!ApplyBatch(txn.client, txn.batch)
<1> DEFINE c == txn.client
           b == txn.batch
<1>1. /\ txn # None /\ txn.done = Len(b) /\ FirstSeq(b) > lastSeq[c]
      /\ claims' = AfterFirst(claims, c, b, Len(b))
      /\ lastSeq' = [lastSeq EXCEPT ![c] = LastSeq(b)]
      /\ \A i \in 1 .. Len(b) : ~Rebinds(AfterFirst(claims, c, b, i - 1), c, b[i])
  BY DEF StoreIInv, TransactionFollowsBatch, CommitBatch, LoopDone
<1>2. ASSUME NEW i \in 1 .. Len(b), NEW r \in Ledger!Of(c, Ledger!AfterFirst(claims, c, b, i - 1)),
             Ledger!Identity(r) = Ledger!Identity(b[i])
      PROVE  r.ip = b[i].ip
  <2>1. r \in Held(AfterFirst(claims, c, b, i - 1), c, b[i])
    BY <1>2, LedgerOperators DEF Held, Of, Ledger!Of, Identity, Ledger!Identity
  <2> QED
    BY <1>1, <2>1 DEF Rebinds
<1>3. Ledger!NeverRebinds(claims, c, b)
  BY <1>2 DEF Ledger!NeverRebinds
<1> QED
  BY <1>1, <1>3, LedgerOperators DEF Ledger!ApplyBatch

LEMMA LedgerStep ==
    StoreIInv /\ [StoreNext]_storeVars => [Ledger!LedgerNext]_(Ledger!ledgerVars)
<1> SUFFICES ASSUME StoreIInv, [StoreNext]_storeVars
             PROVE  Ledger!LedgerNext \/ UNCHANGED <<lastSeq, claims>>
  BY DEF Ledger!ledgerVars
<1>1. ASSUME CommitBatch
      PROVE  Ledger!LedgerNext
  <2>1. txn.client \in Client /\ txn.batch \in Batches
    BY <1>1 DEF CommitBatch, LoopDone, StoreIInv, TransactionFollowsBatch
  <2> QED
    BY <1>1, <2>1, CommitBatchRefines DEF Ledger!LedgerNext
<1>2. ASSUME NEW c \in Client, NEW s \in SnapshotRequests, CommitSnapshot(c, s)
      PROVE  Ledger!LedgerNext
  <2>1. Ledger!ReplaceClaims(c, s)
    BY <1>2, LedgerOperators DEF CommitSnapshot, Ledger!ReplaceClaims
  <2> QED
    BY <2>1 DEF Ledger!LedgerNext
<1>3. ASSUME NEW c \in Client, NEW b \in Batches,
             RejectBatch(c, b) \/ AnswerOldBatch(c, b) \/ BeginBatch(c, b)
      PROVE  UNCHANGED <<lastSeq, claims>>
  BY <1>3 DEF RejectBatch, AnswerOldBatch, BeginBatch, tables
<1>4. ASSUME NEW c \in Client, NEW s \in SnapshotRequests,
             RejectSnapshot(c, s) \/ AnswerOldSnapshot(c, s)
      PROVE  UNCHANGED <<lastSeq, claims>>
  BY <1>4 DEF RejectSnapshot, AnswerOldSnapshot, tables
<1>5. ASSUME ApplyEvent \/ RejectRebind \/ RejectTooMany \/ StoreFails \/ StoreCrash \/ SetClock
             \/ PruneHistory \/ UNCHANGED storeVars
      PROVE  UNCHANGED <<lastSeq, claims>>
  BY <1>5 DEF ApplyEvent, RejectRebind, RejectTooMany, StoreFails, StoreCrash, SetClock,
              PruneHistory, Rollback, tables, storeVars
<1> QED
  BY <1>1, <1>2, <1>3, <1>4, <1>5 DEF StoreNext, StoreWrite, StoreLoop

\* Every behaviour of the store, its transactions, rollbacks, crashes and
\* retention included, is one of the ledger.
THEOREM StoreImplementsLedger == StoreSpec => LedgerImplemented
<1>1. StoreInit => Ledger!LedgerInit
  BY DEF StoreInit, Ledger!LedgerInit
<1>2. StoreSpec => Ledger!LedgerInit /\ [][Ledger!LedgerNext]_(Ledger!ledgerVars)
  BY <1>1, StoreInvariant, LedgerStep, PTL DEF StoreSpec
<1> QED
  BY <1>2 DEF LedgerImplemented, Ledger!LedgerSpec
=============================================================================
