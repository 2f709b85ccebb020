------------------------------ MODULE Delivery ------------------------------
(***************************************************************************)
(* Senders and the receiver's store: hooks and snapshots fill the outbox   *)
(* of each client, its worker (class Worker of client/sender.py) posts the *)
(* oldest row until it is accepted, and a handler thread of the receiver   *)
(* (GuardHandler.do_POST of f2bguard/server.py) applies it to the          *)
(* ClaimStore and answers.                                                 *)
(*                                                                         *)
(* Requests and answers get lost; a worker that gives up leaves behind a   *)
(* request the receiver may still handle, before or after the worker's     *)
(* next attempt or even the next row; both processes may crash between any *)
(* two steps.  An answer may be refused after the commit, when the         *)
(* enforcement that follows it fails (503, "durable").                     *)
(*                                                                         *)
(* The order of the hooks is free here: any legal or useless hook may run  *)
(* at any time, and a snapshot may present any set of addresses.           *)
(***************************************************************************)
EXTENDS SenderStore, ClaimStore

CONSTANTS
    Configurations, \* what allowed_jails may be, {} for a client not configured
    Failures,       \* subset of {"timeout", "crash", "reconfigure", "store", "enforce"}
    Idle            \* the worker has no request under way

ASSUME DeliveryAssumption ==
    /\ Configurations \subseteq [Client -> SUBSET Jail]
    /\ Failures \subseteq {"timeout", "crash", "reconfigure", "store", "enforce"}

VARIABLES
    allowed,    \* allowed[c]: allowed_jails of the receiver's configuration
    worker,     \* worker[c]: the request the worker waits for, or Idle
    late,       \* late[c]: requests given up by the worker, not yet handled
    open,       \* the request that owns the store's transaction, or Idle
    image       \* history: image[c][n] is the active claim set after seq n

deliveryVars == <<senderVars, storeVars, allowed, worker, late, open, image>>

Request == [kind : {"event"}, body : Event] \cup [kind : {"snapshot"}, body : Snapshot]
Stages == {"sent", "handled", "answered", "broken"}
Waiting == [request : Request, stage : Stages,
            result : Results \cup {"forbidden", None}]
Owner == [client : Client, live : BOOLEAN]
ASSUME IdleAssumption == Idle \notin Waiting \cup Owner

DeliveryTypeOK ==
    /\ SenderTypeOK
    /\ StoreTypeOK
    /\ allowed \in Configurations
    /\ worker \in [Client -> Waiting \cup {Idle}]
    /\ late \in [Client -> SUBSET Request]
    /\ open \in Owner \cup {Idle}
    /\ \A c \in Client : Len(image[c]) = seq[c] /\ \A n \in 1 .. seq[c] : image[c][n] \subseteq Claim

DeliveryInit ==
    /\ SenderInit
    /\ StoreInit
    /\ allowed \in Configurations
    /\ worker = [c \in Client |-> Idle]
    /\ late = [c \in Client |-> {}]
    /\ open = Idle
    /\ image = [c \in Client |-> <<>>]

-----------------------------------------------------------------------------
(***************************************************************************)
(* The host side: what fills the outbox.                                   *)
(***************************************************************************)

\* The history follows the sequence: a step that allocates one records the
\* claims that are active after it.
RecordImage(c) ==
    image' = IF seq'[c] = seq[c] THEN image
             ELSE [image EXCEPT ![c] = Append(@, ActiveClaims(rows'[c]))]

HookEnqueues(c, op, k) ==
    /\ Enqueue(c, op, k) \/ EnqueueRefused(c, op, k)
    /\ RecordImage(c)
    /\ UNCHANGED <<allowed, storeVars, worker, late, open>>

SnapshotEnqueues(c, found) ==
    /\ \E f \in Candidates(c, found) : EnqueueSnapshot(c, f, seq[c])
    /\ RecordImage(c)
    /\ UNCHANGED <<allowed, storeVars, worker, late, open>>

-----------------------------------------------------------------------------
(***************************************************************************)
(* The worker.                                                             *)
(***************************************************************************)

\* Mutant: a snapshot is posted to /events.
RequestOf_AlwaysEvent(r) == [kind |-> "event", body |-> r.body]

RequestOf(r) == [kind |-> r.kind, body |-> r.body]

\* next_due and the POST.
WorkerSends(c) ==
    /\ worker[c] = Idle
    /\ \E r \in NextDue(c) :
          worker' = [worker EXCEPT ![c] =
              [request |-> RequestOf(r), stage |-> "sent", result |-> None]]
    /\ UNCHANGED <<allowed, senderVars, storeVars, late, open, image>>

\* The answer arrives and says accepted: true.
WorkerAccepted(c) ==
    /\ worker[c] # Idle
    /\ worker[c].stage = "answered"
    /\ worker[c].result \in AcceptedResults
    /\ MarkDelivered(c, worker[c].request.body.seq)
    /\ worker' = [worker EXCEPT ![c] = Idle]
    /\ UNCHANGED <<allowed, storeVars, late, open, image>>

\* Any other answer, or a broken connection: the row waits and is sent again.
WorkerRefused(c) ==
    /\ worker[c] # Idle
    /\ \/ worker[c].stage = "broken"
       \/ worker[c].stage = "answered" /\ worker[c].result \notin AcceptedResults
    /\ MarkRetry(c, worker[c].request.body.seq)
    /\ worker' = [worker EXCEPT ![c] = Idle]
    /\ UNCHANGED <<allowed, storeVars, late, open, image>>

\* The receiver has a request whose worker is gone: either it never arrives,
\* or it is handled later; a transaction already open goes on without it.
Abandon(c) ==
    /\ IF worker[c] # Idle /\ worker[c].stage = "sent"
       THEN late' \in {late, [late EXCEPT ![c] = @ \cup {worker[c].request}]}
       ELSE late' = late
    /\ open' = IF open # Idle /\ open.client = c THEN [open EXCEPT !.live = FALSE] ELSE open
    /\ worker' = [worker EXCEPT ![c] = Idle]

\* request_timeout, or the answer is lost.
WorkerTimesOut(c) ==
    /\ "timeout" \in Failures
    /\ worker[c] # Idle
    /\ Abandon(c)
    /\ MarkRetry(c, worker[c].request.body.seq)
    /\ UNCHANGED <<allowed, storeVars, image>>

\* The worker dies and is started again, which opens the store.
WorkerRestarts(c) ==
    /\ "crash" \in Failures
    /\ Abandon(c)
    /\ outbox' = [outbox EXCEPT ![c] = Undelivered(c)]
    /\ UNCHANGED <<allowed, seq, rows, drawn, storeVars, image>>

-----------------------------------------------------------------------------
(***************************************************************************)
(* The receiver's handler threads.                                         *)
(***************************************************************************)

JailsOf(q) ==
    IF q.kind = "event" THEN {q.body.jail} ELSE {x.jail : x \in q.body.claims}
\* A client that is not configured is refused even with nothing to report.
Permitted(c, q) == allowed[c] # {} /\ JailsOf(q) \subseteq allowed[c]

\* The store decides without opening a transaction that lasts.
DecidesAtOnce(c, q) ==
    IF q.kind = "event"
    THEN RejectBatch(c, <<q.body>>) \/ AnswerOldBatch(c, <<q.body>>)
    ELSE RejectSnapshot(c, q.body) \/ AnswerOldSnapshot(c, q.body) \/ CommitSnapshot(c, q.body)

OpensTransaction(c, q) == q.kind = "event" /\ BeginBatch(c, <<q.body>>)

\* The worker of c gets this answer; an enforcement that fails after the
\* commit turns an accepted one into 503.
Respond(c, result) ==
    \E r \in {result} \cup IF "enforce" \in Failures /\ result \in AcceptedResults
                           THEN {"unavailable"} ELSE {} :
        worker' = [worker EXCEPT ![c].stage = "answered", ![c].result = r]

\* do_POST for the request the worker waits for.
HandleSent(c) ==
    /\ worker[c] # Idle
    /\ worker[c].stage = "sent"
    /\ LET q == worker[c].request IN
          \/ /\ ~Permitted(c, q)
             /\ Respond(c, "forbidden")
             /\ UNCHANGED <<storeVars, open>>
          \/ /\ Permitted(c, q)
             /\ DecidesAtOnce(c, q)
             /\ Respond(c, reply'.result)
             /\ UNCHANGED open
          \/ /\ Permitted(c, q)
             /\ OpensTransaction(c, q)
             /\ open' = [client |-> c, live |-> TRUE]
             /\ worker' = [worker EXCEPT ![c].stage = "handled"]
    /\ UNCHANGED <<allowed, senderVars, late, image>>

\* do_POST for a request nobody waits for any more.
HandleLate(c) ==
    /\ \E q \in late[c] :
          /\ late' = [late EXCEPT ![c] = @ \ {q}]
          /\ \/ ~Permitted(c, q) /\ UNCHANGED <<storeVars, open>>
             \/ Permitted(c, q) /\ DecidesAtOnce(c, q) /\ UNCHANGED open
             \/ /\ Permitted(c, q)
                /\ OpensTransaction(c, q)
                /\ open' = [client |-> c, live |-> FALSE]
    /\ UNCHANGED <<allowed, senderVars, worker, image>>

\* The transaction goes on: one event is applied.
HandlerApplies ==
    /\ ApplyEvent
    /\ UNCHANGED <<allowed, senderVars, worker, late, open, image>>

\* The transaction ends, and whoever still waits for it is answered.
HandlerEnds ==
    /\ RejectRebind \/ RejectTooMany \/ CommitBatch \/ ("store" \in Failures /\ StoreFails)
    /\ open' = Idle
    /\ IF open.live THEN Respond(open.client, reply'.result) ELSE UNCHANGED worker
    /\ UNCHANGED <<allowed, senderVars, late, image>>

\* The receiver dies, or is stopped, and is started again, perhaps with another
\* configuration: the open transaction is rolled back and every connection
\* breaks, with the answers not yet read.
ReceiverRestarts ==
    /\ {"crash", "reconfigure"} \cap Failures # {}
    /\ allowed' \in Configurations
    /\ StoreCrash
    /\ open' = Idle
    /\ late' = [c \in Client |-> {}]
    /\ worker' = [c \in Client |->
          IF worker[c] = Idle THEN Idle ELSE [worker[c] EXCEPT !.stage = "broken"]]
    /\ UNCHANGED <<senderVars, image>>

\* Backoff and retention.
RowBecomesDue(c) ==
    /\ BackoffExpires(c)
    /\ UNCHANGED <<allowed, storeVars, worker, late, open, image>>

ReceiverPrunes ==
    /\ PruneHistory
    /\ UNCHANGED <<allowed, senderVars, worker, late, open, image>>

ClockMoves ==
    /\ SetClock
    /\ UNCHANGED <<allowed, senderVars, worker, late, open, image>>

DeliveryNext ==
    \/ \E c \in Client :
          \/ \E k \in Key : HookEnqueues(c, "ban", k) \/ HookEnqueues(c, "unban", k)
          \/ \E found \in SUBSET Key : SnapshotEnqueues(c, found)
          \/ WorkerSends(c)
          \/ WorkerAccepted(c)
          \/ WorkerRefused(c)
          \/ WorkerTimesOut(c)
          \/ WorkerRestarts(c)
          \/ RowBecomesDue(c)
          \/ HandleSent(c)
          \/ HandleLate(c)
    \/ HandlerApplies
    \/ HandlerEnds
    \/ ReceiverRestarts
    \/ ReceiverPrunes
    \/ ClockMoves

DeliverySpec == DeliveryInit /\ [][DeliveryNext]_deliveryVars

-----------------------------------------------------------------------------
(***************************************************************************)
(* Safety.                                                                 *)
(***************************************************************************)

ImageAt(c, n) == IF n = 0 THEN {} ELSE image[c][n]

\* The receiver's claims of a client are exactly those the client had when it
\* allocated the receiver's stored sequence, whatever was lost, repeated,
\* reordered, refused or cut short by a crash.
ReceiverHoldsAPrefix ==
    \A c \in Client :
        Of(c, claims) = {RowOf(c, x) : x \in ImageAt(c, lastSeq[c])}

\* No change is lost: every sequence the receiver has not applied is still
\* waiting in the outbox of its client.
NothingIsDropped ==
    \A c \in Client : \A n \in (lastSeq[c] + 1) .. seq[c] :
        \E r \in Undelivered(c) : r.seq = n

\* A sender that keeps its database is never told 409: no retry, late copy or
\* restart makes its rows look like a reuse of an id, a rebinding or a batch
\* across the boundary.
NoConflict == reply # None => reply.result # "conflict"

\* The receiver goes through the states of a client one by one, in order.
Replicated == INSTANCE Replica WITH
    Contents <- SUBSET Claim,
    log <- image,
    applied <- lastSeq,
    view <- [c \in Client |->
        {[jail |-> r.jail, ban |-> r.ban, ip |-> r.ip, terms |-> r.terms] :
            r \in Of(c, claims)}]
ReplicaImplemented == Replicated!ReplicaSpec

-----------------------------------------------------------------------------
(***************************************************************************)
(* Liveness.  The worker runs whenever it can, the receiver handles what   *)
(* reaches it, and attempts that are repeated for ever do not all fail:    *)
(* the strong fairness of the steps a timeout or a crash can take away.    *)
(***************************************************************************)

DeliveryFairness ==
    /\ \A c \in Client :
          /\ WF_deliveryVars(WorkerSends(c))
          /\ WF_deliveryVars(WorkerRefused(c))
          /\ WF_deliveryVars(RowBecomesDue(c))
          /\ SF_deliveryVars(WorkerAccepted(c))
          /\ SF_deliveryVars(HandleSent(c))
    /\ SF_deliveryVars(HandlerApplies)
    /\ SF_deliveryVars(HandlerEnds)

FairDeliverySpec == DeliverySpec /\ DeliveryFairness

\* The hooks are bounded by MaxSeq, so they stop; from then on the receiver
\* comes to hold the last state of every sender, and keeps it.
CatchesUp == \A c \in Client : <>[](lastSeq[c] = seq[c])

\* "An IP remains blocked only while at least one authorized endpoint reports
\* an active qualifying claim" (README.md): a claim that its host released
\* leaves the receiver, unless the host takes it up again.
Claimed(c, k) == \E r \in Of(c, claims) : r.jail = k[1] /\ r.ip = k[2]
ReleasesReachReceiver ==
    \A c \in Client, k \in Key :
        Claimed(c, k) /\ ~IsActive(rows[c], k) ~> ~Claimed(c, k) \/ IsActive(rows[c], k)
=============================================================================
