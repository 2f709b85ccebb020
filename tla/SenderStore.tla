---------------------------- MODULE SenderStore -----------------------------
(***************************************************************************)
(* The sender's durable state on a Fail2Ban host: class SenderStore of     *)
(* client/sender.py, one SQLite database per client.                       *)
(*                                                                         *)
(* Every operation that writes is one transaction under BEGIN IMMEDIATE    *)
(* and one action here; a ROLLBACK leaves everything unchanged.  Each      *)
(* command of the program opens the store first, which prunes the rows     *)
(* already delivered, so the actions of the enqueue and snapshot commands  *)
(* include that DELETE.  The module gives the operations; Fail2BanHost and *)
(* Delivery say who calls them and when.                                   *)
(*                                                                         *)
(* A UUID is a value never handed out before (drawn).  The id of an outbox *)
(* row is drawn in the transaction that gives the row its sequence, so the *)
(* sequence names it.  Time is not modelled: a row that waits for its      *)
(* backoff is not due, and becomes due at some later moment.               *)
(***************************************************************************)
EXTENDS Claims

CONSTANTS
    Forever,        \* the pair permanent = True, expires_at = None
    MaxPending,     \* max_pending: bound of the outbox
    NoRow           \* no row for a key

ASSUME SenderAssumption ==
    /\ Forever \in Terms
    /\ MaxPending \in Nat \ {0}
    /\ RequestId = Seqs

VARIABLES
    seq,        \* seq[c]: metadata.seq, the last sequence allocated
    rows,       \* rows[c]: table claims, by its key (jail, ip)
    outbox,     \* outbox[c]: table outbox
    drawn       \* drawn[c]: every ban id ever drawn

senderVars == <<seq, rows, outbox, drawn>>

Key == Jail \X IP
ClaimRow == [ban : BanId, active : BOOLEAN]
ASSUME NoRowAssumption == NoRow \notin ClaimRow

OutboxRow ==
    [seq : Seqs, kind : {"event"}, body : Event, due : BOOLEAN, delivered : BOOLEAN]
    \cup
    [seq : Seqs, kind : {"snapshot"}, body : Snapshot, due : BOOLEAN, delivered : BOOLEAN]

SenderTypeOK ==
    /\ seq \in [Client -> 0 .. MaxSeq]
    /\ rows \in [Client -> [Key -> ClaimRow \cup {NoRow}]]
    /\ outbox \in [Client -> SUBSET OutboxRow]
    /\ drawn \in [Client -> SUBSET BanId]

SenderInit ==
    /\ seq = [c \in Client |-> 0]
    /\ rows = [c \in Client |-> [k \in Key |-> NoRow]]
    /\ outbox = [c \in Client |-> {}]
    /\ drawn = [c \in Client |-> {}]

-----------------------------------------------------------------------------
IsActive(table, k) == table[k] # NoRow /\ table[k].active
ActiveKeys(table) == {k \in Key : IsActive(table, k)}

\* The claim of key k under ban id b, as it goes over the wire.
ClaimOf(k, b) == [jail |-> k[1], ban |-> b, ip |-> k[2], terms |-> Forever]

\* The claims a table presents as active.
ActiveClaims(table) == {ClaimOf(k, table[k].ban) : k \in ActiveKeys(table)}

Undelivered(c) == {r \in outbox[c] : ~r.delivered}
HasRoom(c) == Cardinality(Undelivered(c)) < MaxPending

EventOf(n, op, k, b) ==
    [id |-> n, seq |-> n, op |-> op, jail |-> k[1], ban |-> b, ip |-> k[2],
     terms |-> Forever]

\* _next_seq and the INSERT INTO outbox of the same transaction.
AppendRow(c, kind, body) ==
    /\ seq' = [seq EXCEPT ![c] = @ + 1]
    /\ outbox' = [outbox EXCEPT ![c] = Undelivered(c) \cup
          {[seq |-> seq[c] + 1, kind |-> kind, body |-> body,
            due |-> TRUE, delivered |-> FALSE]}]

-----------------------------------------------------------------------------
(***************************************************************************)
(* The enqueue command: one Fail2Ban ban or unban of key k.                *)
(***************************************************************************)

\* A ban of an active claim, an unban of none: committed without a change.
IsNoOp(c, op, k) == (op = "ban") = IsActive(rows[c], k)

EnqueueNothing(c, op, k) ==
    /\ IsNoOp(c, op, k)
    /\ outbox' = [outbox EXCEPT ![c] = Undelivered(c)]
    /\ UNCHANGED <<seq, rows, drawn>>

EnqueueBan(c, k) ==
    /\ ~IsNoOp(c, "ban", k)
    /\ HasRoom(c)
    /\ seq[c] < MaxSeq
    /\ \E b \in BanId \ drawn[c] :
          /\ rows' = [rows EXCEPT ![c][k] = [ban |-> b, active |-> TRUE]]
          /\ drawn' = [drawn EXCEPT ![c] = @ \cup {b}]
          /\ AppendRow(c, "event", EventOf(seq[c] + 1, "ban", k, b))

EnqueueUnban(c, k) ==
    /\ ~IsNoOp(c, "unban", k)
    /\ HasRoom(c)
    /\ seq[c] < MaxSeq
    /\ rows' = [rows EXCEPT ![c][k].active = FALSE]
    /\ AppendRow(c, "event", EventOf(seq[c] + 1, "unban", k, rows[c][k].ban))
    /\ UNCHANGED drawn

Enqueue(c, op, k) ==
    \/ EnqueueNothing(c, op, k)
    \/ op = "ban" /\ EnqueueBan(c, k)
    \/ op = "unban" /\ EnqueueUnban(c, k)

\* StoreFullError: the hook exits with an error and nothing is recorded.
EnqueueRefused(c, op, k) ==
    /\ ~IsNoOp(c, op, k)
    /\ ~HasRoom(c)
    /\ outbox' = [outbox EXCEPT ![c] = Undelivered(c)]
    /\ UNCHANGED <<seq, rows, drawn>>

-----------------------------------------------------------------------------
(***************************************************************************)
(* The snapshot command.  found is the set of keys enumerated; candidate   *)
(* gives each one the ban id read or drawn before the transaction.         *)
(***************************************************************************)

\* Mutant: one id is drawn for all the claims that have none.
Candidates_OneDraw(c, found) ==
    {[k \in found |-> IF IsActive(rows[c], k) THEN rows[c][k].ban ELSE fresh] :
        fresh \in BanId \ drawn[c]}

\* The ids the pre-read of enqueue_snapshot may choose for the keys found:
\* that of the active claim, or a new one, all different.
Candidates(c, found) ==
    {f \in [found -> BanId] :
        \A k \in found :
            /\ IF IsActive(rows[c], k) THEN f[k] = rows[c][k].ban ELSE f[k] \notin drawn[c]
            /\ \A m \in found : f[m] = f[k] => m = k \/ IsActive(rows[c], k)}

\* Mutant: a released claim lends its identity to the new one.
SnapshotBan_Reuse(c, candidate, k) ==
    IF rows[c][k] # NoRow THEN rows[c][k].ban ELSE candidate[k]

\* existing_map.get(key, claim["ban_id"]), read inside the transaction.
SnapshotBan(c, candidate, k) ==
    IF IsActive(rows[c], k) THEN rows[c][k].ban ELSE candidate[k]

\* Mutant: claims that were not enumerated are not released.
Reconciled_KeepsAll(c, candidate) ==
    [k \in Key |->
        IF k \in DOMAIN candidate
        THEN [ban |-> SnapshotBan(c, candidate, k), active |-> TRUE]
        ELSE rows[c][k]]

\* The claims table once the snapshot's set is authoritative.
Reconciled(c, candidate) ==
    [k \in Key |->
        IF k \in DOMAIN candidate
        THEN [ban |-> SnapshotBan(c, candidate, k), active |-> TRUE]
        ELSE IF IsActive(rows[c], k)
        THEN [ban |-> rows[c][k].ban, active |-> FALSE]
        ELSE rows[c][k]]

\* Mutant: the expected sequence is not compared.
FenceHolds_Dropped(c, observed) == TRUE

\* The sequence moved since it was observed: SnapshotRace.
FenceHolds(c, observed) == seq[c] = observed

EnqueueSnapshot(c, candidate, observed) ==
    /\ FenceHolds(c, observed)
    /\ HasRoom(c)
    /\ seq[c] < MaxSeq
    /\ rows' = [rows EXCEPT ![c] = Reconciled(c, candidate)]
    /\ drawn' = [drawn EXCEPT ![c] = @ \cup {candidate[k] : k \in DOMAIN candidate}]
    /\ AppendRow(c, "snapshot",
          [id |-> seq[c] + 1, seq |-> seq[c] + 1,
           claims |-> {ClaimOf(k, SnapshotBan(c, candidate, k)) : k \in DOMAIN candidate}])

-----------------------------------------------------------------------------
(***************************************************************************)
(* What the worker asks of the store.                                      *)
(***************************************************************************)

\* Mutant: any row that is due is sent, whatever older row still waits.
NextDue_AnyDue(c) == {r \in Undelivered(c) : r.due}

\* next_due: the undelivered row with the lowest sequence, once it is due.
NextDue(c) ==
    {r \in Undelivered(c) : r.due /\ \A q \in Undelivered(c) : r.seq <= q.seq}

\* UPDATE outbox ... WHERE id = ? AND delivered_at IS NULL
Update(c, n, change(_)) ==
    outbox' = [outbox EXCEPT ![c] =
        {IF r.seq = n /\ ~r.delivered THEN change(r) ELSE r : r \in @}]

MarkDelivered(c, n) ==
    /\ Update(c, n, LAMBDA r : [r EXCEPT !.delivered = TRUE])
    /\ UNCHANGED <<seq, rows, drawn>>

MarkRetry(c, n) ==
    /\ Update(c, n, LAMBDA r : [r EXCEPT !.due = FALSE])
    /\ UNCHANGED <<seq, rows, drawn>>

\* The backoff of a waiting row runs out.
BackoffExpires(c) ==
    \E r \in Undelivered(c) :
        /\ ~r.due
        /\ Update(c, r.seq, LAMBDA q : [q EXCEPT !.due = TRUE])
        /\ UNCHANGED <<seq, rows, drawn>>

-----------------------------------------------------------------------------
(***************************************************************************)
(* Properties shared by the specifications that run a sender.              *)
(***************************************************************************)

\* UNIQUE (jail, ban_id) and UNIQUE (seq) never fire: an id drawn for one
\* address is never stored for another address of the same jail, and a
\* sequence never names two rows.
SenderKeysUnique ==
    \A c \in Client :
        /\ \A k, m \in Key :
              /\ rows[c][k] # NoRow /\ rows[c][m] # NoRow
              /\ k[1] = m[1] /\ rows[c][k].ban = rows[c][m].ban
              => k = m
        /\ \A r, q \in outbox[c] : r.seq = q.seq => r = q

\* An address that is banned again after its claim was released gets an
\* identity it did not have before: an old unban can never release the new
\* ban.  The snapshot's read before its transaction is where this could fail.
ReBanGetsFreshIdentity ==
    [][\A c \in Client, k \in Key :
          /\ rows[c][k] # NoRow
          /\ ~IsActive(rows[c], k)
          /\ IsActive(rows[c], k)'
          => rows[c][k].ban # rows[c][k].ban']_senderVars
=============================================================================
