---------------------------- MODULE MCClaimStore ----------------------------
(***************************************************************************)
(* A small receiver store for TLC: two clients, one jail, batches of one   *)
(* and two events that re-ban, unban, rebind and reuse ids, and snapshots. *)
(***************************************************************************)
EXTENDS ClaimStore

CONSTANTS c1, c2, j1, b1, b2, ip1, ip2, forever, r1, r2, r3

Ban(id, seq, b, ip) == [id |-> id, seq |-> seq, op |-> "ban", jail |-> j1,
                        ban |-> b, ip |-> ip, terms |-> forever]
Unban(id, seq, b, ip) == [id |-> id, seq |-> seq, op |-> "unban", jail |-> j1,
                          ban |-> b, ip |-> ip, terms |-> forever]
MCClaim(b, ip) == [jail |-> j1, ban |-> b, ip |-> ip, terms |-> forever]

MCBatches == {
    <<Ban(r1, 1, b1, ip1)>>,
    <<Ban(r1, 2, b1, ip1)>>,                            \* id of the first one, another seq
    <<Ban(r2, 2, b1, ip2)>>,                            \* tries to move b1
    <<Unban(r2, 2, b1, ip1), Ban(r3, 3, b1, ip2)>>,     \* b1 comes back elsewhere
    <<Ban(r1, 1, b1, ip1), Ban(r2, 3, b2, ip2)>>,       \* over a limit of one
    <<Ban(r2, 1, b1, ip1), Unban(r3, 2, b1, ip2)>> }    \* fails in the middle

MCSnapshots == {
    [id |-> r1, seq |-> 2, claims |-> {}],
    [id |-> r2, seq |-> 3, claims |-> {MCClaim(b1, ip1)}],
    [id |-> r2, seq |-> 2, claims |-> {MCClaim(b1, ip2), MCClaim(b2, ip1)}] }
=============================================================================
