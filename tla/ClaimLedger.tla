---------------------------- MODULE ClaimLedger -----------------------------
(***************************************************************************)
(* What the receiver's durable store promises to its clients, whatever it  *)
(* does inside: a write is applied as a whole or not at all, a client's    *)
(* sequence only moves forward and skips nothing it acknowledged, and no   *)
(* write of one client touches the claims of another.                      *)
(***************************************************************************)
EXTENDS Claims

CONSTANTS
    Batches,            \* event batches that clients may send
    SnapshotRequests    \* snapshots that clients may send

VARIABLES
    lastSeq,    \* lastSeq[c]: the highest sequence applied for client c
    claims      \* the claims of all clients

ledgerVars == <<lastSeq, claims>>

LedgerInit ==
    /\ lastSeq = [c \in Client |-> 0]
    /\ claims = {}

\* A whole batch, all of it newer than anything applied before.
ApplyBatch(c, b) ==
    /\ FirstSeq(b) > lastSeq[c]
    /\ NeverRebinds(claims, c, b)
    /\ lastSeq' = [lastSeq EXCEPT ![c] = LastSeq(b)]
    /\ claims' = AfterFirst(claims, c, b, Len(b))

\* A snapshot newer than anything applied before replaces the client's claims.
ReplaceClaims(c, s) ==
    /\ s.seq > lastSeq[c]
    /\ ~SnapshotRebinds(claims, c, s)
    /\ lastSeq' = [lastSeq EXCEPT ![c] = s.seq]
    /\ claims' = AfterSnapshot(claims, c, s)

LedgerNext ==
    \E c \in Client :
        \/ \E b \in Batches : ApplyBatch(c, b)
        \/ \E s \in SnapshotRequests : ReplaceClaims(c, s)

LedgerSpec == LedgerInit /\ [][LedgerNext]_ledgerVars
=============================================================================
