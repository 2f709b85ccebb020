------------------------------ MODULE Replica -------------------------------
(***************************************************************************)
(* What the senders and the receiver promise together: the receiver's view *)
(* of a client goes through the states of that client's claims one by one, *)
(* in the order in which the client went through them.  It may lag behind; *)
(* it never skips a state, goes back, or shows one that never was.         *)
(***************************************************************************)
EXTENDS Naturals, Sequences

CONSTANTS
    Client,
    Contents    \* the values a client's claim set may have

VARIABLES
    log,        \* log[c]: the states of client c so far, oldest first
    applied,    \* applied[c]: how many of them the receiver has gone through
    view        \* view[c]: the client's claims as the receiver has them

replicaVars == <<log, applied, view>>

ReplicaInit ==
    /\ log = [c \in Client |-> <<>>]
    /\ applied = [c \in Client |-> 0]
    /\ view = [c \in Client |-> {}]

Publish(c) ==
    /\ \E S \in Contents : log' = [log EXCEPT ![c] = Append(@, S)]
    /\ UNCHANGED <<applied, view>>

CatchUp(c) ==
    /\ applied[c] < Len(log[c])
    /\ applied' = [applied EXCEPT ![c] = @ + 1]
    /\ view' = [view EXCEPT ![c] = log[c][applied[c] + 1]]
    /\ UNCHANGED log

ReplicaNext == \E c \in Client : Publish(c) \/ CatchUp(c)

ReplicaSpec == ReplicaInit /\ [][ReplicaNext]_replicaVars
=============================================================================
