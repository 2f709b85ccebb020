----------------------------- MODULE MCDelivery -----------------------------
(***************************************************************************)
(* Small instances of Delivery for TLC.  The requests come from the        *)
(* outboxes, so the store's own request sets stay empty.                   *)
(***************************************************************************)
EXTENDS Delivery, TLC

MCSymmetry == Permutations(BanId)
CONSTANTS c1, c2, j1, j2
MCAllJails == {[c \in Client |-> Jail]}
\* The second client is taken out of the configuration, and put back.
MCSomeClients == {(c1 :> {j1}) @@ (c2 :> js) : js \in {{j1}, {}}}
\* One of two jails is taken from the client, and given back.
MCSomeJails == {(c1 :> js) : js \in {{j1}, {j1, j2}}}
=============================================================================
