------------------------------- MODULE Claims -------------------------------
(***************************************************************************)
(* What a sender and the receiver exchange, and what it means to apply it. *)
(*                                                                         *)
(* A claim says "this client's jail has this address banned" and is named  *)
(* by the pair (jail, ban_id) inside its client.  Events add and remove    *)
(* one claim each; a snapshot replaces every claim of its client.          *)
(*                                                                         *)
(* A payload hash stands for the payload itself: SHA-256 collisions are    *)
(* outside the model.  The pair (permanent, expires_at) is one opaque      *)
(* value of Terms, since the store only carries it.                        *)
(***************************************************************************)
EXTENDS Naturals, Sequences, FiniteSets

CONSTANTS
    Client,     \* client ids of the receiver's configuration
    Jail,       \* Fail2Ban jails
    BanId,      \* lifecycle ids a sender draws, one per ban
    IP,         \* canonical address literals
    Terms,      \* values of the pair (permanent, expires_at)
    RequestId,  \* event and snapshot ids
    MaxSeq      \* bound on the sequence numbers the model looks at

ASSUME MaxSeqAssumption == MaxSeq \in Nat \ {0}

Seqs == 1 .. MaxSeq

Claim == [jail : Jail, ban : BanId, ip : IP, terms : Terms]

Event == [id : RequestId, seq : Seqs, op : {"ban", "unban"},
          jail : Jail, ban : BanId, ip : IP, terms : Terms]

Snapshot == [id : RequestId, seq : Seqs, claims : SUBSET Claim]

\* A row of the receiver's claims table.
Row == [client : Client, jail : Jail, ban : BanId, ip : IP, terms : Terms]

\* The row an event or a snapshot claim of client c stores.
RowOf(c, x) == [client |-> c, jail |-> x.jail, ban |-> x.ban,
                ip |-> x.ip, terms |-> x.terms]

\* The primary key of a claims row, without its client.
Identity(x) == <<x.jail, x.ban>>

\* SELECT ... WHERE client_id = c
Of(c, rows) == {r \in rows : r.client = c}

-----------------------------------------------------------------------------
(***************************************************************************)
(* What the parsers let through to the store.                              *)
(***************************************************************************)

\* A batch of events: not empty, sequences strictly increasing, ids distinct.
ValidBatch(b) ==
    /\ b \in Seq(Event)
    /\ b # <<>>
    /\ \A i, j \in 1 .. Len(b) :
          i < j => b[i].seq < b[j].seq /\ b[i].id # b[j].id

\* A snapshot: no claim identity twice.
ValidSnapshot(s) ==
    /\ s \in Snapshot
    /\ IsFiniteSet(s.claims)
    /\ \A x, y \in s.claims : Identity(x) = Identity(y) => x = y

FirstSeq(b) == b[1].seq
LastSeq(b) == b[Len(b)].seq

-----------------------------------------------------------------------------
(***************************************************************************)
(* The reference meaning of a batch, without a loop: of the first n events *)
(* of b, the last one that names an identity decides whether it is there.  *)
(***************************************************************************)

AfterFirst(rows, c, b, n) ==
    {r \in rows : r.client = c =>
        \A i \in 1 .. n : Identity(b[i]) # Identity(r)}
    \cup
    {RowOf(c, b[i]) : i \in {k \in 1 .. n :
        /\ b[k].op = "ban"
        /\ \A j \in (k + 1) .. n : Identity(b[j]) # Identity(b[k])}}

\* No event of b meets a claim of its identity that holds another address.
NeverRebinds(rows, c, b) ==
    \A i \in 1 .. Len(b) : \A r \in Of(c, AfterFirst(rows, c, b, i - 1)) :
        Identity(r) = Identity(b[i]) => r.ip = b[i].ip

\* Every claim of c is replaced by the snapshot's.
AfterSnapshot(rows, c, s) ==
    (rows \ Of(c, rows)) \cup {RowOf(c, x) : x \in s.claims}

\* Some claim of the snapshot moves a stored identity to another address.
SnapshotRebinds(rows, c, s) ==
    \E r \in Of(c, rows), x \in s.claims :
        Identity(r) = Identity(x) /\ r.ip # x.ip
=============================================================================
