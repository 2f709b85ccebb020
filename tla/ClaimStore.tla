----------------------------- MODULE ClaimStore -----------------------------
(***************************************************************************)
(* The receiver's durable store: class ClaimStore of f2bguard/store.py on  *)
(* one SQLite database.                                                    *)
(*                                                                         *)
(* Each table is a set of rows that carry their client, so that every      *)
(* WHERE clause of the code is visible.  A write runs inside BEGIN         *)
(* IMMEDIATE: apply_events keeps its loop, one action per event, on the    *)
(* working copies held in txn, and other connections see the committed     *)
(* tables until COMMIT.  apply_snapshot has no intermediate test that sees *)
(* its own writes but the total, so it is one action per outcome.          *)
(*                                                                         *)
(* The wall clock may be stepped in either direction.                      *)
(***************************************************************************)
EXTENDS Claims

CONSTANTS
    Batches,            \* event batches that clients may send
    SnapshotRequests,   \* snapshots that clients may send
    ClaimsLimit,        \* claims_per_client of the configuration
    TotalLimit,         \* MAX_TOTAL_CLAIMS
    HistoryEvents,      \* MAX_HISTORY_EVENTS_PER_CLIENT
    HistorySnapshots,   \* MAX_HISTORY_SNAPSHOTS_PER_CLIENT
    HistoryDays,        \* history_days, in ticks of the clock
    MaxClock,           \* bound on the wall clock
    None                \* no transaction, no answer

ASSUME BatchesAssumption == \A b \in Batches : ValidBatch(b)
ASSUME SnapshotsAssumption == \A s \in SnapshotRequests : ValidSnapshot(s)
ASSUME LimitsAssumption ==
    /\ ClaimsLimit \in Nat
    /\ TotalLimit \in Nat
    /\ HistoryEvents \in Nat
    /\ HistorySnapshots \in Nat
    /\ HistoryDays \in Nat
    /\ MaxClock \in Nat

VARIABLES
    lastSeq,    \* client_state.last_seq, 0 for a client without a row
    claims,     \* table claims
    events,     \* table events: [client, seq, id, payload, at]
    snapshots,  \* table snapshots, the same columns
    now,        \* time.time()
    txn,        \* the write transaction of apply_events, or None
    reply       \* what the last write returned or raised, or None

tables == <<lastSeq, claims, events, snapshots>>
storeVars == <<lastSeq, claims, events, snapshots, now, txn, reply>>

Clock == 0 .. MaxClock
EventRow == [client : Client, seq : Seqs, id : RequestId, payload : Event, at : Clock]
SnapshotRow == [client : Client, seq : Seqs, id : RequestId, payload : Snapshot, at : Clock]
Txn == [client : Client, batch : Seq(Event), done : Nat, at : Clock,
        claims : SUBSET Row, events : SUBSET EventRow]
Results == {"accepted", "duplicate", "stale", "conflict", "limit", "unavailable"}
Reply == [client : Client, seq : Seqs, result : Results]

\* Mutants: every answer is taken for accepted; only a new write is.
AcceptedResults_AnyAnswer == Results \ {"conflict"}
AcceptedResults_NewOnly == {"accepted"}

\* ApplyResult.accepted is true.
AcceptedResults == {"accepted", "duplicate", "stale"}

StoreTypeOK ==
    /\ lastSeq \in [Client -> 0 .. MaxSeq]
    /\ claims \subseteq Row
    /\ events \subseteq EventRow
    /\ snapshots \subseteq SnapshotRow
    /\ now \in Clock
    /\ txn \in Txn \cup {None}
    /\ reply \in Reply \cup {None}

StoreInit ==
    /\ lastSeq = [c \in Client |-> 0]
    /\ claims = {}
    /\ events = {}
    /\ snapshots = {}
    /\ now \in Clock
    /\ txn = None
    /\ reply = None

-----------------------------------------------------------------------------
(***************************************************************************)
(* Queries.                                                                *)
(***************************************************************************)

\* Mutant: the columns id and seq are swapped.
HistoryRow_Swapped(c, x, t) ==
    [client |-> c, seq |-> x.seq, id |-> x.seq, payload |-> x, at |-> t]

HistoryRow(c, x, t) ==
    [client |-> c, seq |-> x.seq, id |-> x.id, payload |-> x, at |-> t]

\* The history rows that already use the id of x.
Prior(rows, c, x) == {h \in Of(c, rows) : h.id = x.id}

\* The id of x is known with another sequence or another payload hash.
Reused(rows, c, x) == \E h \in Prior(rows, c, x) : h.seq # x.seq \/ h.payload # x

\* ORDER BY received_at DESC, seq DESC
Newer(h, g) == h.at > g.at \/ (h.at = g.at /\ h.seq > g.seq)

\* DELETE the rows of client c past OFFSET n of that order.
KeepNewest(rows, c, n) ==
    {g \in rows : g.client = c => Cardinality({h \in Of(c, rows) : Newer(h, g)}) < n}

Answer(c, seq, result) == reply' = [client |-> c, seq |-> seq, result |-> result]

\* A write transaction starts only when no other one holds the lock.
Unlocked == txn = None

-----------------------------------------------------------------------------
(***************************************************************************)
(* apply_events: the decisions taken before the loop.                      *)
(***************************************************************************)

AnyReused(c, b) == \E i \in 1 .. Len(b) : Reused(events, c, b[i])
AllKnown(c, b) == \A i \in 1 .. Len(b) : Prior(events, c, b[i]) # {}
AnyKnown(c, b) == \E i \in 1 .. Len(b) : Prior(events, c, b[i]) # {}
\* Mutant: < for <=.
Old_OffByOne(c, b) == FirstSeq(b) < lastSeq[c]

Old(c, b) == FirstSeq(b) <= lastSeq[c]

\* Mutant: a batch across the boundary is not told from an old one.
Crosses_Never(c, b) == FALSE

Crosses(c, b) == Old(c, b) /\ LastSeq(b) > lastSeq[c]

RejectBatch(c, b) ==
    /\ Unlocked
    /\ \/ AnyReused(c, b)
       \/ Crosses(c, b)
       \/ ~Old(c, b) /\ AnyKnown(c, b)
    /\ Answer(c, LastSeq(b), "conflict")
    /\ UNCHANGED <<tables, now, txn>>

AnswerOldBatch(c, b) ==
    /\ Unlocked
    /\ ~AnyReused(c, b)
    /\ Old(c, b)
    /\ ~Crosses(c, b)
    /\ Answer(c, LastSeq(b), IF AllKnown(c, b) THEN "duplicate" ELSE "stale")
    /\ UNCHANGED <<tables, now, txn>>

BeginBatch(c, b) ==
    /\ Unlocked
    /\ ~AnyReused(c, b)
    /\ ~Old(c, b)
    /\ ~AnyKnown(c, b)
    /\ txn' = [client |-> c, batch |-> b, done |-> 0, at |-> now,
               claims |-> claims, events |-> events]
    /\ UNCHANGED <<tables, now, reply>>

-----------------------------------------------------------------------------
(***************************************************************************)
(* apply_events: the loop and what follows it, on the working copies.      *)
(***************************************************************************)

\* Mutants: the row is looked up by its address too, or without its client.
Held_ByAddress(rows, c, e) ==
    {r \in Of(c, rows) : Identity(r) = Identity(e) /\ r.ip = e.ip}
Held_AnyClient(rows, c, e) == {r \in rows : Identity(r) = Identity(e)}

\* The claim the current event is about.
Held(rows, c, e) == {r \in Of(c, rows) : Identity(r) = Identity(e)}

Rebinds(rows, c, e) == \E r \in Held(rows, c, e) : r.ip # e.ip

\* INSERT ... ON CONFLICT DO UPDATE, or DELETE ... AND ip = ?
WriteClaim(rows, c, e) ==
    IF e.op = "ban"
    THEN (rows \ Held(rows, c, e)) \cup {RowOf(c, e)}
    ELSE rows \ {r \in Held(rows, c, e) : r.ip = e.ip}

Working == txn # None /\ txn.done < Len(txn.batch)
LoopDone == txn # None /\ txn.done = Len(txn.batch)
Current == txn.batch[txn.done + 1]

ApplyEvent ==
    /\ Working
    /\ ~Rebinds(txn.claims, txn.client, Current)
    /\ txn' = [txn EXCEPT
          !.done = @ + 1,
          !.claims = WriteClaim(@, txn.client, Current),
          !.events = @ \cup {HistoryRow(txn.client, Current, txn.at)}]
    /\ UNCHANGED <<tables, now, reply>>

\* conn.rollback(): the working copies are dropped.
Rollback(result) ==
    /\ txn' = None
    /\ Answer(txn.client, LastSeq(txn.batch), result)
    /\ UNCHANGED <<tables, now>>

RejectRebind ==
    /\ Working
    /\ Rebinds(txn.claims, txn.client, Current)
    /\ Rollback("conflict")

\* Mutant: the limit on all claims together is not tested.
FitsLimits_PerClient(rows, c) == Cardinality(Of(c, rows)) <= ClaimsLimit

FitsLimits(rows, c) ==
    Cardinality(Of(c, rows)) <= ClaimsLimit /\ Cardinality(rows) <= TotalLimit

RejectTooMany ==
    /\ LoopDone
    /\ ~FitsLimits(txn.claims, txn.client)
    /\ Rollback("limit")

CommitBatch ==
    /\ LoopDone
    /\ FitsLimits(txn.claims, txn.client)
    /\ lastSeq' = [lastSeq EXCEPT ![txn.client] = LastSeq(txn.batch)]
    /\ claims' = txn.claims
    /\ events' = KeepNewest(txn.events, txn.client, HistoryEvents)
    /\ txn' = None
    /\ Answer(txn.client, LastSeq(txn.batch), "accepted")
    /\ UNCHANGED <<snapshots, now>>

-----------------------------------------------------------------------------
(***************************************************************************)
(* apply_snapshot.                                                         *)
(***************************************************************************)

SnapshotTooLarge(s) == Cardinality(s.claims) > ClaimsLimit

\* The snapshot is refused before or inside the transaction.
RejectSnapshot(c, s) ==
    /\ Unlocked
    /\ \/ /\ SnapshotTooLarge(s)
          /\ Answer(c, s.seq, "limit")
       \/ /\ ~SnapshotTooLarge(s)
          /\ \/ Reused(snapshots, c, s)
             \/ s.seq > lastSeq[c] /\ SnapshotRebinds(claims, c, s)
          /\ Answer(c, s.seq, "conflict")
       \/ /\ ~SnapshotTooLarge(s)
          /\ ~Reused(snapshots, c, s)
          /\ s.seq > lastSeq[c]
          /\ ~SnapshotRebinds(claims, c, s)
          /\ Cardinality(AfterSnapshot(claims, c, s)) > TotalLimit
          /\ Answer(c, s.seq, "limit")
    /\ UNCHANGED <<tables, now, txn>>

AnswerOldSnapshot(c, s) ==
    /\ Unlocked
    /\ ~SnapshotTooLarge(s)
    /\ ~Reused(snapshots, c, s)
    /\ s.seq <= lastSeq[c]
    /\ Answer(c, s.seq, IF Prior(snapshots, c, s) # {} THEN "duplicate" ELSE "stale")
    /\ UNCHANGED <<tables, now, txn>>

\* Mutant: the DELETE is missing.
WriteSnapshot_Merge(rows, c, s) == rows \cup {RowOf(c, x) : x \in s.claims}

\* DELETE every claim of the client, then INSERT those of the snapshot.
WriteSnapshot(rows, c, s) == {r \in rows : r.client # c} \cup {RowOf(c, x) : x \in s.claims}

CommitSnapshot(c, s) ==
    /\ Unlocked
    /\ ~SnapshotTooLarge(s)
    /\ ~Reused(snapshots, c, s)
    /\ s.seq > lastSeq[c]
    /\ ~SnapshotRebinds(claims, c, s)
    /\ Cardinality(WriteSnapshot(claims, c, s)) <= TotalLimit
    /\ claims' = WriteSnapshot(claims, c, s)
    /\ snapshots' = KeepNewest(snapshots \cup {HistoryRow(c, s, now)}, c, HistorySnapshots)
    /\ lastSeq' = [lastSeq EXCEPT ![c] = s.seq]
    /\ Answer(c, s.seq, "accepted")
    /\ UNCHANGED <<events, now, txn>>

-----------------------------------------------------------------------------
(***************************************************************************)
(* Retention, the clock and failures.                                      *)
(***************************************************************************)

\* prune_history: two DELETEs, each a transaction of its own.  They share one
\* boundary, read before; a clock that moves in between stands for its age.
PruneHistory ==
    /\ Unlocked
    /\ \/ /\ events' = {h \in events : h.at + HistoryDays >= now}
          /\ UNCHANGED snapshots
       \/ /\ snapshots' = {h \in snapshots : h.at + HistoryDays >= now}
          /\ UNCHANGED events
    /\ UNCHANGED <<lastSeq, claims, now, txn, reply>>

\* Time passes, or the wall clock is stepped.
SetClock ==
    /\ now' \in Clock \ {now}
    /\ UNCHANGED <<tables, txn, reply>>

\* SQLite raises inside the transaction: rolled back, answered 503.
StoreFails ==
    /\ txn # None
    /\ Rollback("unavailable")

\* The process dies: the open transaction and the answer go with it.
StoreCrash ==
    /\ txn' = None
    /\ reply' = None
    /\ UNCHANGED <<tables, now>>

StoreWrite ==
    \E c \in Client :
        \/ \E b \in Batches :
              RejectBatch(c, b) \/ AnswerOldBatch(c, b) \/ BeginBatch(c, b)
        \/ \E s \in SnapshotRequests :
              RejectSnapshot(c, s) \/ AnswerOldSnapshot(c, s) \/ CommitSnapshot(c, s)

StoreLoop == ApplyEvent \/ RejectRebind \/ RejectTooMany \/ CommitBatch

StoreNext ==
    \/ StoreWrite
    \/ StoreLoop
    \/ PruneHistory
    \/ SetClock
    \/ StoreFails
    \/ StoreCrash

StoreSpec == StoreInit /\ [][StoreNext]_storeVars

-----------------------------------------------------------------------------
(***************************************************************************)
(* Properties.                                                             *)
(***************************************************************************)

\* The implementation of the abstract ledger: every step of apply_events and
\* apply_snapshot applies a whole newer write of one client, or nothing.
Ledger == INSTANCE ClaimLedger
LedgerImplemented == Ledger!LedgerSpec

\* An answer with accepted: true, whether the write was applied now, was a
\* duplicate or was called stale, means that the client's stored sequence has
\* reached it: the sender drops the request on this answer.
AcceptedIsCovered ==
    reply # None /\ reply.result \in AcceptedResults
        => reply.seq <= lastSeq[reply.client]

\* A sequence number is spent once per client, by an event or by a snapshot,
\* and an id names one history row: the UNIQUE constraints of the two history
\* tables can never fire, whatever pruning and the clock removed.
SequenceSpentOnce ==
    \A c \in Client :
        /\ \A h \in Of(c, events \cup snapshots) : h.seq <= lastSeq[c]
        /\ \A h, g \in Of(c, events) : h.seq = g.seq \/ h.id = g.id => h = g
        /\ \A h, g \in Of(c, snapshots) : h.seq = g.seq \/ h.id = g.id => h = g
        /\ \A h \in Of(c, events), g \in Of(c, snapshots) : h.seq # g.seq

\* Neither the claims of one client nor all claims together ever exceed their
\* limits, though a batch goes over them inside its transaction.
WithinLimits ==
    /\ \A c \in Client : Cardinality(Of(c, claims)) <= ClaimsLimit
    /\ Cardinality(claims) <= TotalLimit

\* The primary key of the claims table: one row for an identity, hence one
\* address, also in the working copy of a transaction.
OneRowPerIdentity(rows) ==
    \A r, q \in rows : r.client = q.client /\ Identity(r) = Identity(q) => r = q
KeysAreUnique ==
    /\ OneRowPerIdentity(claims)
    /\ txn # None => OneRowPerIdentity(txn.claims)
=============================================================================
