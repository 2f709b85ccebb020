---------------------------- MODULE SenderProofs ----------------------------
(***************************************************************************)
(* Lemmas about the operations of the sender's store, for every client and *)
(* every set of jails, addresses and ids: what the specifications that run *)
(* a sender need to know of them.                                          *)
(*                                                                         *)
(* The invariant says why the two UNIQUE constraints never fire: every     *)
(* stored id was drawn before, so that a new one is none of them, and no   *)
(* row has a sequence above metadata.seq.                                  *)
(***************************************************************************)
EXTENDS SenderStore, TLAPS

\* Every stored id was drawn, and belongs to one address.
IdsAreDrawn ==
    \A c \in Client, k \in Key : rows[c][k] # NoRow => rows[c][k].ban \in drawn[c]
IdsAreUnique ==
    \A c \in Client : \A k, m \in Key :
        /\ rows[c][k] # NoRow
        /\ rows[c][m] # NoRow
        /\ rows[c][k].ban = rows[c][m].ban
        => k = m

\* A sequence names one row of the outbox, and none is ahead of metadata.seq.
SequencesAreUnique ==
    \A c \in Client :
        /\ \A r \in outbox[c] : r.seq <= seq[c]
        /\ \A r, q \in outbox[c] : r.seq = q.seq => r = q

SenderIInv == SenderTypeOK /\ IdsAreDrawn /\ IdsAreUnique /\ SequencesAreUnique

\* The ids that a snapshot command holds are still good: that of the claim for
\* an active one, and for the others ids that no claim and no other key has.
Prepared(c, candidate) ==
    /\ DOMAIN candidate \subseteq Key
    /\ candidate \in [DOMAIN candidate -> BanId]
    /\ \A k \in DOMAIN candidate :
          /\ IsActive(rows[c], k) => candidate[k] = rows[c][k].ban
          /\ ~IsActive(rows[c], k) =>
                \A m \in Key : rows[c][m] # NoRow => rows[c][m].ban # candidate[k]
          /\ \A m \in DOMAIN candidate : candidate[m] = candidate[k] => m = k

-----------------------------------------------------------------------------
(***************************************************************************)
(* Rows of the outbox.                                                     *)
(***************************************************************************)

\* A new row of the outbox, as AppendRow writes it.
NewRow(n, kind, body) ==
    [seq |-> n, kind |-> kind, body |-> body, due |-> TRUE, delivered |-> FALSE]

LEMMA SequenceFacts ==
    /\ MaxSeq \in Nat
    /\ Seqs = 1 .. MaxSeq
    /\ RequestId = Seqs
    /\ Forever \in Terms
  BY MaxSeqAssumption, SenderAssumption DEF Seqs

LEMMA NewEventRow ==
    ASSUME NEW n \in Seqs, NEW op \in {"ban", "unban"}, NEW k \in Key, NEW b \in BanId
    PROVE  /\ EventOf(n, op, k, b) \in Event
           /\ NewRow(n, "event", EventOf(n, op, k, b)) \in OutboxRow
  BY SequenceFacts DEF EventOf, Event, NewRow, OutboxRow, Key

LEMMA NewSnapshotRow ==
    ASSUME NEW n \in Seqs, NEW S \in SUBSET Claim
    PROVE  NewRow(n, "snapshot", [id |-> n, seq |-> n, claims |-> S]) \in OutboxRow
  BY SequenceFacts DEF Snapshot, NewRow, OutboxRow

\* What a step may do to the outbox of a client: keep some rows, change the
\* flags of others, and add one with the next sequence.
LEMMA OutboxKeepsSequences ==
    ASSUME SenderTypeOK, SequencesAreUnique, NEW c \in Client,
           NEW new \in SUBSET Undelivered(c),
           outbox' = [outbox EXCEPT ![c] = new],
           seq' = seq
    PROVE  SequencesAreUnique' /\ outbox' \in [Client -> SUBSET OutboxRow]
<1>1. new \subseteq outbox[c]
  BY DEF Undelivered
<1>2. outbox \in [Client -> SUBSET OutboxRow]
  BY DEF SenderTypeOK
<1>3. \A d \in Client : outbox'[d] \subseteq outbox[d]
  BY <1>1, <1>2
<1>4. outbox' \in [Client -> SUBSET OutboxRow]
  BY <1>1, <1>2
<1> QED
  BY <1>3, <1>4 DEF SequencesAreUnique

LEMMA PruneKeeps ==
    ASSUME SenderIInv, NEW c \in Client,
           outbox' = [outbox EXCEPT ![c] = Undelivered(c)],
           UNCHANGED <<seq, rows, drawn>>
    PROVE  SenderIInv'
<1>1. SequencesAreUnique' /\ outbox' \in [Client -> SUBSET OutboxRow]
  BY OutboxKeepsSequences DEF SenderIInv
<1> QED
  BY <1>1 DEF SenderIInv, SenderTypeOK, IdsAreDrawn, IdsAreUnique

\* Changing the flags of a row leaves its sequence alone.
LEMMA UpdateKeeps ==
    ASSUME SenderIInv, NEW c \in Client,
           NEW new \in [outbox[c] -> OutboxRow],
           \A r \in outbox[c] : new[r].seq = r.seq,
           outbox' = [outbox EXCEPT ![c] = {new[r] : r \in outbox[c]}],
           UNCHANGED <<seq, rows, drawn>>
    PROVE  SenderIInv'
<1>1. outbox \in [Client -> SUBSET OutboxRow]
  BY DEF SenderIInv, SenderTypeOK
<1>2. outbox' \in [Client -> SUBSET OutboxRow]
  BY <1>1
<1>3. SenderTypeOK'
  BY <1>2 DEF SenderIInv, SenderTypeOK
<1>4. \A d \in Client : d # c => outbox'[d] = outbox[d]
  BY <1>1
<1>5. outbox'[c] = {new[r] : r \in outbox[c]}
  BY <1>1
<1>6. \A r \in outbox'[c] : \E q \in outbox[c] : r = new[q] /\ r.seq = q.seq
  BY <1>5
<1>7. SequencesAreUnique'
  BY <1>4, <1>6 DEF SenderIInv, SequencesAreUnique
<1> QED
  BY <1>3, <1>7 DEF SenderIInv, IdsAreDrawn, IdsAreUnique

LEMMA MarkDeliveredKeeps ==
    ASSUME SenderIInv, NEW c \in Client, NEW n, MarkDelivered(c, n)
    PROVE  SenderIInv'
<1> DEFINE new == [r \in outbox[c] |->
                      IF r.seq = n /\ ~r.delivered THEN [r EXCEPT !.delivered = TRUE] ELSE r]
<1>1. outbox[c] \subseteq OutboxRow
  BY DEF SenderIInv, SenderTypeOK
<1>2. \A r \in OutboxRow : [r EXCEPT !.delivered = TRUE] \in OutboxRow
                           /\ [r EXCEPT !.delivered = TRUE].seq = r.seq
  BY DEF OutboxRow
<1>3. new \in [outbox[c] -> OutboxRow] /\ \A r \in outbox[c] : new[r].seq = r.seq
  BY <1>1, <1>2
<1>4. outbox' = [outbox EXCEPT ![c] = {new[r] : r \in outbox[c]}]
  BY DEF MarkDelivered, Update
<1> HIDE DEF new
<1> QED
  BY <1>3, <1>4, UpdateKeeps DEF MarkDelivered

LEMMA DueKeeps ==
    ASSUME SenderIInv, NEW c \in Client, NEW n, NEW due \in BOOLEAN,
           Update(c, n, LAMBDA r : [r EXCEPT !.due = due]),
           UNCHANGED <<seq, rows, drawn>>
    PROVE  SenderIInv'
<1> DEFINE new == [r \in outbox[c] |->
                      IF r.seq = n /\ ~r.delivered THEN [r EXCEPT !.due = due] ELSE r]
<1>1. outbox[c] \subseteq OutboxRow
  BY DEF SenderIInv, SenderTypeOK
<1>2. \A r \in OutboxRow : [r EXCEPT !.due = due] \in OutboxRow
                           /\ [r EXCEPT !.due = due].seq = r.seq
  BY DEF OutboxRow
<1>3. new \in [outbox[c] -> OutboxRow] /\ \A r \in outbox[c] : new[r].seq = r.seq
  BY <1>1, <1>2
<1>4. outbox' = [outbox EXCEPT ![c] = {new[r] : r \in outbox[c]}]
  BY DEF Update
<1> HIDE DEF new
<1> QED
  BY <1>3, <1>4, UpdateKeeps

LEMMA MarkRetryKeeps ==
    ASSUME SenderIInv, NEW c \in Client, NEW n, MarkRetry(c, n)
    PROVE  SenderIInv'
  BY DueKeeps DEF MarkRetry

LEMMA BackoffKeeps ==
    ASSUME SenderIInv, NEW c \in Client, BackoffExpires(c)
    PROVE  SenderIInv'
  BY DueKeeps DEF BackoffExpires

\* A row with the next sequence is one more row.
LEMMA AppendKeeps ==
    ASSUME SenderTypeOK, SequencesAreUnique, NEW c \in Client, NEW kind, NEW body,
           seq[c] < MaxSeq, NewRow(seq[c] + 1, kind, body) \in OutboxRow,
           AppendRow(c, kind, body)
    PROVE  /\ seq' \in [Client -> 0 .. MaxSeq]
           /\ outbox' \in [Client -> SUBSET OutboxRow]
           /\ SequencesAreUnique'
<1> DEFINE row == NewRow(seq[c] + 1, kind, body)
<1>1. /\ seq \in [Client -> 0 .. MaxSeq] /\ outbox \in [Client -> SUBSET OutboxRow]
      /\ MaxSeq \in Nat
  BY SequenceFacts DEF SenderTypeOK
<1>2. seq' = [seq EXCEPT ![c] = seq[c] + 1]
      /\ outbox' = [outbox EXCEPT ![c] = Undelivered(c) \cup {row}]
  BY DEF AppendRow, NewRow
<1>3. row.seq = seq[c] + 1
  BY DEF NewRow
<1>4. Undelivered(c) \subseteq outbox[c]
  BY DEF Undelivered
<1> HIDE DEF row
<1>5. seq' \in [Client -> 0 .. MaxSeq] /\ outbox' \in [Client -> SUBSET OutboxRow]
  BY <1>1, <1>2, <1>4 DEF row
<1>6. \A d \in Client : d # c => outbox'[d] = outbox[d] /\ seq'[d] = seq[d]
  BY <1>1, <1>2
<1>7. outbox'[c] = Undelivered(c) \cup {row} /\ seq'[c] = seq[c] + 1
  BY <1>1, <1>2
<1>8. \A r \in outbox[c] : r.seq <= seq[c] /\ r.seq \in Nat
  BY <1>1, SequenceFacts DEF SequencesAreUnique, OutboxRow
<1>9. seq[c] \in Nat
  BY <1>1
<1>10. \A r \in outbox'[c] : r.seq <= seq'[c]
  BY <1>3, <1>4, <1>7, <1>8, <1>9
<1>11. \A r, q \in outbox'[c] : r.seq = q.seq => r = q
  BY <1>3, <1>4, <1>7, <1>8, <1>9 DEF SequencesAreUnique
<1>12. SequencesAreUnique'
  BY <1>6, <1>10, <1>11 DEF SequencesAreUnique
<1> QED
  BY <1>5, <1>12

-----------------------------------------------------------------------------
(***************************************************************************)
(* The commands that fill the outbox.                                      *)
(***************************************************************************)

\* A claim of a key that had none, or a released one, gets another id.
FreshIds(c) ==
    \A k \in Key : rows[c][k] # NoRow /\ ~IsActive(rows[c], k) /\ IsActive(rows'[c], k)
                      => rows[c][k].ban # rows'[c][k].ban

LEMMA RowFacts ==
    ASSUME SenderTypeOK, NEW c \in Client, NEW k \in Key
    PROVE  /\ rows[c] \in [Key -> ClaimRow \cup {NoRow}]
           /\ rows[c][k] # NoRow => /\ rows[c][k] \in ClaimRow
                                    /\ rows[c][k].ban \in BanId
                                    /\ rows[c][k].active \in BOOLEAN
  BY DEF SenderTypeOK, ClaimRow

LEMMA EnqueueBanStep ==
    ASSUME SenderIInv, NEW c \in Client, NEW k \in Key, EnqueueBan(c, k)
    PROVE  /\ SenderIInv'
           /\ seq' = [seq EXCEPT ![c] = @ + 1]
           /\ \A d \in Client, m \in Key :
                 ~(d = c /\ m = k) => rows'[d][m] = rows[d][m]
           /\ IsActive(rows'[c], k)
           /\ FreshIds(c)
<1>0. SenderTypeOK /\ IdsAreDrawn /\ IdsAreUnique /\ SequencesAreUnique
  BY DEF SenderIInv
<1>1. PICK b \in BanId \ drawn[c] :
          /\ rows' = [rows EXCEPT ![c][k] = [ban |-> b, active |-> TRUE]]
          /\ drawn' = [drawn EXCEPT ![c] = @ \cup {b}]
          /\ AppendRow(c, "event", EventOf(seq[c] + 1, "ban", k, b))
  BY DEF EnqueueBan
<1> DEFINE row == [ban |-> b, active |-> TRUE]
<1>2. row \in ClaimRow /\ row # NoRow /\ row.ban = b /\ row.active = TRUE
  <2>1. b \in BanId
    OBVIOUS
  <2>2. row \in ClaimRow
    BY <2>1 DEF ClaimRow
  <2> QED
    BY <2>2, NoRowAssumption
<1>3. rows' = [rows EXCEPT ![c] = [rows[c] EXCEPT ![k] = row]]
  BY <1>1
<1> HIDE DEF row
<1>4. /\ rows \in [Client -> [Key -> ClaimRow \cup {NoRow}]]
      /\ drawn \in [Client -> SUBSET BanId]
      /\ seq[c] \in Nat
  BY <1>0, SequenceFacts DEF SenderTypeOK
<1>5. rows' \in [Client -> [Key -> ClaimRow \cup {NoRow}]]
  BY <1>2, <1>3, <1>4
<1>6. /\ rows'[c][k] = row
      /\ \A d \in Client, m \in Key : ~(d = c /\ m = k) => rows'[d][m] = rows[d][m]
  BY <1>3, <1>4
<1>7. /\ drawn' \in [Client -> SUBSET BanId]
      /\ \A d \in Client : drawn[d] \subseteq drawn'[d]
      /\ b \in drawn'[c]
  BY <1>1, <1>4
<1>8. seq[c] < MaxSeq /\ seq[c] + 1 \in Seqs
  BY <1>4, SequenceFacts DEF EnqueueBan
<1>9. NewRow(seq[c] + 1, "event", EventOf(seq[c] + 1, "ban", k, b)) \in OutboxRow
  BY <1>8, NewEventRow
<1>10. /\ seq' \in [Client -> 0 .. MaxSeq]
       /\ outbox' \in [Client -> SUBSET OutboxRow]
       /\ SequencesAreUnique'
  BY <1>0, <1>1, <1>8, <1>9, AppendKeeps
<1>11. SenderTypeOK'
  BY <1>5, <1>7, <1>10 DEF SenderTypeOK
<1>12. IdsAreDrawn'
  BY <1>0, <1>2, <1>6, <1>7 DEF IdsAreDrawn
<1>13. \A m \in Key : rows[c][m] # NoRow => rows[c][m].ban # b
  BY <1>0, <1>1 DEF IdsAreDrawn
<1>14. IdsAreUnique'
  BY <1>0, <1>2, <1>6, <1>13 DEF IdsAreUnique
<1>15. FreshIds(c)
  BY <1>2, <1>6, <1>13 DEF FreshIds, IsActive
<1> QED
  BY <1>1, <1>2, <1>6, <1>10, <1>11, <1>12, <1>14, <1>15 DEF SenderIInv, IsActive, AppendRow

LEMMA EnqueueUnbanStep ==
    ASSUME SenderIInv, NEW c \in Client, NEW k \in Key, EnqueueUnban(c, k)
    PROVE  /\ SenderIInv'
           /\ seq' = [seq EXCEPT ![c] = @ + 1]
           /\ \A d \in Client, m \in Key :
                 ~(d = c /\ m = k) => rows'[d][m] = rows[d][m]
           /\ ~IsActive(rows'[c], k)
           /\ FreshIds(c)
<1>0. SenderTypeOK /\ IdsAreDrawn /\ IdsAreUnique /\ SequencesAreUnique
  BY DEF SenderIInv
<1> DEFINE row == [rows[c][k] EXCEPT !.active = FALSE]
<1>1. IsActive(rows[c], k) /\ rows[c][k] # NoRow
  BY DEF EnqueueUnban, IsNoOp, IsActive
<1>2. rows[c][k] \in ClaimRow /\ rows[c][k].ban \in BanId
  BY <1>0, <1>1, RowFacts
<1>3. row \in ClaimRow /\ row.ban = rows[c][k].ban /\ ~row.active
  BY <1>2 DEF ClaimRow
<1>4. rows' = [rows EXCEPT ![c] = [rows[c] EXCEPT ![k] = row]]
  BY DEF EnqueueUnban
<1> HIDE DEF row
<1>5. /\ rows \in [Client -> [Key -> ClaimRow \cup {NoRow}]]
      /\ drawn \in [Client -> SUBSET BanId]
      /\ seq[c] \in Nat /\ seq[c] < MaxSeq /\ seq[c] + 1 \in Seqs
  BY <1>0, SequenceFacts DEF SenderTypeOK, EnqueueUnban
<1>6. rows' \in [Client -> [Key -> ClaimRow \cup {NoRow}]]
  BY <1>3, <1>4, <1>5
<1>7. /\ rows'[c][k] = row
      /\ \A d \in Client, m \in Key : ~(d = c /\ m = k) => rows'[d][m] = rows[d][m]
  BY <1>4, <1>5
<1>8. NewRow(seq[c] + 1, "event", EventOf(seq[c] + 1, "unban", k, rows[c][k].ban)) \in OutboxRow
  BY <1>2, <1>5, NewEventRow
<1>9. AppendRow(c, "event", EventOf(seq[c] + 1, "unban", k, rows[c][k].ban))
  BY DEF EnqueueUnban
<1>10. /\ seq' \in [Client -> 0 .. MaxSeq]
       /\ outbox' \in [Client -> SUBSET OutboxRow]
       /\ SequencesAreUnique'
  BY <1>0, <1>5, <1>8, <1>9, AppendKeeps
<1>11. drawn' = drawn
  BY DEF EnqueueUnban
<1>12. SenderTypeOK'
  BY <1>5, <1>6, <1>10, <1>11 DEF SenderTypeOK
<1>13. \A d \in Client, m \in Key : rows'[d][m] # NoRow =>
           rows[d][m] # NoRow /\ rows'[d][m].ban = rows[d][m].ban
  BY <1>1, <1>3, <1>7
<1>14. IdsAreDrawn' /\ IdsAreUnique'
  BY <1>0, <1>11, <1>13 DEF IdsAreDrawn, IdsAreUnique
<1>15. ~IsActive(rows'[c], k)
  BY <1>3, <1>7 DEF IsActive
<1>16. FreshIds(c)
  BY <1>7, <1>15 DEF FreshIds, IsActive
<1> QED
  BY <1>7, <1>9, <1>10, <1>12, <1>14, <1>15, <1>16 DEF SenderIInv, AppendRow

\* A hook that changes nothing, or is refused, still prunes.
LEMMA EnqueueNothingStep ==
    ASSUME SenderIInv, NEW c \in Client, NEW op, NEW k,
           EnqueueNothing(c, op, k) \/ EnqueueRefused(c, op, k)
    PROVE  SenderIInv' /\ UNCHANGED <<seq, rows, drawn>>
  BY PruneKeeps DEF EnqueueNothing, EnqueueRefused

\* A hook leaves the claim of its key as it says, and every other claim alone;
\* unless this was so before, the sequence moves.
LEMMA EnqueueStep ==
    ASSUME SenderIInv, NEW c \in Client, NEW op \in {"ban", "unban"}, NEW k \in Key,
           Enqueue(c, op, k)
    PROVE  /\ SenderIInv'
           /\ \A d \in Client, m \in Key :
                 ~(d = c /\ m = k) => rows'[d][m] = rows[d][m]
           /\ IsActive(rows'[c], k) <=> op = "ban"
           /\ FreshIds(c)
           /\ \/ UNCHANGED <<seq, rows>> /\ (IsActive(rows[c], k) <=> op = "ban")
              \/ seq' = [seq EXCEPT ![c] = @ + 1]
<1>1. CASE EnqueueNothing(c, op, k)
  <2>1. SenderIInv' /\ UNCHANGED <<seq, rows, drawn>>
    BY <1>1, EnqueueNothingStep
  <2>2. IsActive(rows[c], k) <=> op = "ban"
    BY <1>1 DEF EnqueueNothing, IsNoOp, IsActive
  <2> QED
    BY <2>1, <2>2 DEF FreshIds
<1>2. CASE op = "ban" /\ EnqueueBan(c, k)
  BY <1>2, EnqueueBanStep
<1>3. CASE op = "unban" /\ EnqueueUnban(c, k)
  BY <1>3, EnqueueUnbanStep
<1> QED
  BY <1>1, <1>2, <1>3 DEF Enqueue

\* What the pre-read of enqueue_snapshot chooses is good, and stays so while
\* the claims do.
LEMMA CandidatesPrepared ==
    ASSUME SenderIInv, NEW c \in Client, NEW found \in SUBSET Key,
           NEW f \in Candidates(c, found)
    PROVE  DOMAIN f = found /\ Prepared(c, f)
<1>1. /\ f \in [found -> BanId]
      /\ \A k \in found :
            /\ IF IsActive(rows[c], k) THEN f[k] = rows[c][k].ban ELSE f[k] \notin drawn[c]
            /\ \A m \in found : f[m] = f[k] => m = k \/ IsActive(rows[c], k)
  BY DEF Candidates
<1>2. IdsAreDrawn /\ IdsAreUnique
  BY DEF SenderIInv
<1>3. \A k \in found : ~IsActive(rows[c], k) =>
          \A m \in Key : rows[c][m] # NoRow => rows[c][m].ban # f[k]
  BY <1>1, <1>2 DEF IdsAreDrawn
<1>4. \A k, m \in found : f[m] = f[k] => m = k
  <2>1. SUFFICES ASSUME NEW k \in found, NEW m \in found, f[m] = f[k], m # k
                 PROVE  FALSE
    OBVIOUS
  <2>2. IsActive(rows[c], k) /\ IsActive(rows[c], m)
    BY <1>1, <2>1
  <2>3. rows[c][k] # NoRow /\ rows[c][m] # NoRow /\ rows[c][k].ban = rows[c][m].ban
    BY <1>1, <2>1, <2>2 DEF IsActive
  <2> QED
    BY <1>2, <2>1, <2>3 DEF IdsAreUnique
<1> QED
  BY <1>1, <1>3, <1>4 DEF Prepared

\* The snapshot's transaction makes exactly the keys it presents active.
LEMMA EnqueueSnapshotStep ==
    ASSUME SenderIInv, NEW c \in Client, NEW candidate, NEW observed,
           Prepared(c, candidate), EnqueueSnapshot(c, candidate, observed)
    PROVE  /\ SenderIInv'
           /\ seq' = [seq EXCEPT ![c] = @ + 1]
           /\ \A d \in Client : d # c => rows'[d] = rows[d]
           /\ \A k \in Key : IsActive(rows'[c], k) <=> k \in DOMAIN candidate
           /\ FreshIds(c)
<1> DEFINE D == DOMAIN candidate
<1>p. /\ D \subseteq Key
      /\ candidate \in [D -> BanId]
      /\ \A k \in D :
            /\ IsActive(rows[c], k) => candidate[k] = rows[c][k].ban
            /\ ~IsActive(rows[c], k) =>
                  \A m \in Key : rows[c][m] # NoRow => rows[c][m].ban # candidate[k]
            /\ \A m \in D : candidate[m] = candidate[k] => m = k
  BY DEF Prepared
<1> USE <1>p
<1>0. SenderTypeOK /\ IdsAreDrawn /\ IdsAreUnique /\ SequencesAreUnique
  BY DEF SenderIInv
<1>1. /\ rows \in [Client -> [Key -> ClaimRow \cup {NoRow}]]
      /\ drawn \in [Client -> SUBSET BanId]
      /\ seq[c] \in Nat /\ seq[c] < MaxSeq /\ seq[c] + 1 \in Seqs
  BY <1>0, SequenceFacts DEF SenderTypeOK, EnqueueSnapshot
<1>2. \A k \in D : SnapshotBan(c, candidate, k) = candidate[k] /\ candidate[k] \in BanId
  BY DEF SnapshotBan
<1>3. \A k \in Key :
        /\ k \in D => Reconciled(c, candidate)[k] = [ban |-> candidate[k], active |-> TRUE]
        /\ k \notin D /\ IsActive(rows[c], k) =>
              Reconciled(c, candidate)[k] = [ban |-> rows[c][k].ban, active |-> FALSE]
        /\ k \notin D /\ ~IsActive(rows[c], k) => Reconciled(c, candidate)[k] = rows[c][k]
  BY <1>2 DEF Reconciled
<1>4. \A k \in Key : rows[c][k] # NoRow => rows[c][k] \in ClaimRow /\ rows[c][k].ban \in BanId
  BY <1>0, RowFacts
<1>5. \A b \in BanId, a \in BOOLEAN :
          /\ [ban |-> b, active |-> a] \in ClaimRow
          /\ [ban |-> b, active |-> a] # NoRow
  BY NoRowAssumption DEF ClaimRow
<1>6. \A k \in Key : Reconciled(c, candidate)[k] \in ClaimRow \cup {NoRow}
  BY <1>1, <1>2, <1>3, <1>4, <1>5 DEF IsActive
<1>7. Reconciled(c, candidate) \in [Key -> ClaimRow \cup {NoRow}]
  BY <1>6 DEF Reconciled
<1>8. /\ rows'[c] = Reconciled(c, candidate)
      /\ \A d \in Client : d # c => rows'[d] = rows[d]
      /\ rows' \in [Client -> [Key -> ClaimRow \cup {NoRow}]]
  BY <1>1, <1>7 DEF EnqueueSnapshot
<1>9. \A k \in Key :
        /\ k \in D => /\ rows'[c][k] # NoRow /\ rows'[c][k].active = TRUE
                      /\ rows'[c][k].ban = candidate[k]
        /\ k \notin D /\ rows'[c][k] # NoRow =>
              /\ rows[c][k] # NoRow /\ rows'[c][k].ban = rows[c][k].ban
        /\ k \notin D => ~IsActive(rows'[c], k)
  <2>1. SUFFICES ASSUME NEW k \in Key
                 PROVE  /\ k \in D => /\ rows'[c][k] # NoRow /\ rows'[c][k].active = TRUE
                                      /\ rows'[c][k].ban = candidate[k]
                        /\ k \notin D /\ rows'[c][k] # NoRow =>
                              /\ rows[c][k] # NoRow /\ rows'[c][k].ban = rows[c][k].ban
                        /\ k \notin D => ~IsActive(rows'[c], k)
    OBVIOUS
  <2>2. CASE k \in D
    <3>1. rows'[c][k] = [ban |-> candidate[k], active |-> TRUE]
      BY <1>3, <1>8, <2>2
    <3>2. rows'[c][k] # NoRow
      BY <1>2, <1>5, <2>2, <3>1
    <3> QED
      BY <2>2, <3>1, <3>2
  <2>3. CASE k \notin D /\ IsActive(rows[c], k)
    <3>1. rows'[c][k] = [ban |-> rows[c][k].ban, active |-> FALSE] /\ rows[c][k] # NoRow
      BY <1>3, <1>8, <2>3 DEF IsActive
    <3> QED
      BY <2>3, <3>1 DEF IsActive
  <2>4. CASE k \notin D /\ ~IsActive(rows[c], k)
    <3>1. rows'[c][k] = rows[c][k]
      BY <1>3, <1>8, <2>4
    <3> QED
      BY <2>4, <3>1 DEF IsActive
  <2> QED
    BY <2>2, <2>3, <2>4
<1>10. /\ drawn' \in [Client -> SUBSET BanId]
       /\ \A d \in Client : drawn[d] \subseteq drawn'[d]
       /\ \A k \in D : candidate[k] \in drawn'[c]
  BY <1>1, <1>2 DEF EnqueueSnapshot
<1>11. {ClaimOf(k, SnapshotBan(c, candidate, k)) : k \in D} \in SUBSET Claim
  BY <1>2, SequenceFacts DEF ClaimOf, Claim, Key
<1>12. NewRow(seq[c] + 1, "snapshot",
              [id |-> seq[c] + 1, seq |-> seq[c] + 1,
               claims |-> {ClaimOf(k, SnapshotBan(c, candidate, k)) : k \in D}]) \in OutboxRow
  BY <1>1, <1>11, NewSnapshotRow
<1>13. AppendRow(c, "snapshot",
              [id |-> seq[c] + 1, seq |-> seq[c] + 1,
               claims |-> {ClaimOf(k, SnapshotBan(c, candidate, k)) : k \in D}])
  BY DEF EnqueueSnapshot
<1>14. /\ seq' \in [Client -> 0 .. MaxSeq]
       /\ outbox' \in [Client -> SUBSET OutboxRow]
       /\ SequencesAreUnique'
  BY <1>0, <1>1, <1>12, <1>13, AppendKeeps
<1>15. SenderTypeOK'
  BY <1>8, <1>10, <1>14 DEF SenderTypeOK
<1>16. IdsAreDrawn'
  BY <1>0, <1>8, <1>9, <1>10 DEF IdsAreDrawn
<1>17. IdsAreUnique'
  <2>1. SUFFICES ASSUME NEW k \in Key, NEW m \in Key,
                        rows'[c][k] # NoRow, rows'[c][m] # NoRow,
                        rows'[c][k].ban = rows'[c][m].ban
                 PROVE  k = m
    BY <1>0, <1>8 DEF IdsAreUnique
  <2>2. CASE k \in D /\ m \in D
    BY <1>9, <2>1, <2>2
  <2>3. CASE k \notin D /\ m \notin D
    BY <1>0, <1>9, <2>1, <2>3 DEF IdsAreUnique
  <2>4. ASSUME NEW x \in D, NEW y \in Key, y \notin D, rows[c][y] # NoRow
        PROVE  rows[c][y].ban # candidate[x]
    <3>1. CASE IsActive(rows[c], x)
      BY <1>0, <2>4, <3>1 DEF IdsAreUnique, IsActive
    <3>2. CASE ~IsActive(rows[c], x)
      BY <2>4, <3>2
    <3> QED
      BY <3>1, <3>2
  <2>5. CASE k \in D /\ m \notin D
    BY <1>9, <2>1, <2>4, <2>5
  <2>6. CASE k \notin D /\ m \in D
    BY <1>9, <2>1, <2>4, <2>6
  <2> QED
    BY <2>2, <2>3, <2>5, <2>6
<1>18. \A k \in Key : IsActive(rows'[c], k) <=> k \in D
  BY <1>9 DEF IsActive
<1>19. FreshIds(c)
  BY <1>9, <1>18 DEF FreshIds
<1>20. seq' = [seq EXCEPT ![c] = @ + 1]
  BY <1>13 DEF AppendRow
<1> QED
  BY <1>8, <1>14, <1>15, <1>16, <1>17, <1>18, <1>19, <1>20 DEF SenderIInv

-----------------------------------------------------------------------------
(***************************************************************************)
(* The invariant at the start, and what it says.                           *)
(***************************************************************************)

LEMMA SenderIInvInit == SenderInit => SenderIInv
<1> SUFFICES ASSUME SenderInit PROVE SenderIInv
  OBVIOUS
<1>1. SenderTypeOK
  BY SequenceFacts DEF SenderInit, SenderTypeOK
<1> QED
  BY <1>1 DEF SenderInit, SenderIInv, IdsAreDrawn, IdsAreUnique, SequencesAreUnique

LEMMA SenderIInvKeys == SenderIInv => SenderKeysUnique
  BY DEF SenderIInv, IdsAreUnique, SequencesAreUnique, SenderKeysUnique

\* No claim is taken up, whatever else happens to the others: nothing to show.
LEMMA QuietIsFresh ==
    ASSUME NEW c, rows'[c] = rows[c]
    PROVE  FreshIds(c)
  BY DEF FreshIds
=============================================================================
