---------------------------- MODULE Fail2BanHost ----------------------------
(***************************************************************************)
(* One Fail2Ban host: Fail2Ban with its action hooks, and the snapshot     *)
(* command of client/sender.py that a timer starts every minute, all on    *)
(* one SenderStore.                                                        *)
(*                                                                         *)
(* Fail2Ban itself is not in the repository.  As client/f2bguard-action    *)
(* .conf uses it: it changes its ban list, then runs the ban or unban hook *)
(* for that address; the hooks of one jail run one after another and those *)
(* of different jails side by side.  Stopping or reloading a jail empties  *)
(* its list without unban hooks, since actionflush is /usr/bin/true, and   *)
(* the bans come back with ban hooks.                                      *)
(*                                                                         *)
(* The snapshot command reads the sequence, then asks Fail2Ban for one     *)
(* jail at a time, then reads the identities, and only then opens its      *)
(* transaction: everything else may happen between any two of these steps. *)
(***************************************************************************)
EXTENDS SenderStore

CONSTANTS
    Self,           \* the client of this host
    MaxAttempts,    \* range(5) in the snapshot command
    MaxChanges,     \* bound on the changes Fail2Ban makes
    Faults,         \* subset of {"flush", "hook"}: what may go wrong
    NoHook          \* no hook of the jail is running

ASSUME HostAssumption ==
    /\ Client = {Self}
    /\ MaxAttempts \in Nat \ {0}
    /\ MaxChanges \in Nat
    /\ Faults \subseteq {"flush", "hook"}

VARIABLES
    banned,     \* keys in Fail2Ban's lists of permanent bans
    hook,       \* hook[j]: the hook process of jail j, or NoHook
    snap,       \* the snapshot process
    changes,    \* changes Fail2Ban made so far
    missed      \* history: the keys of which the sender missed a change

fail2banVars == <<banned, hook, changes, missed>>
hostVars == <<seq, rows, outbox, drawn, banned, hook, snap, changes, missed>>

Hook == [op : {"ban", "unban"}, key : Key]
ASSUME NoHookAssumption == NoHook \notin Hook

Phases == {"idle", "observe", "enumerate", "identify", "commit"}
NoSnap == [phase |-> "idle", attempt |-> 0, observed |-> 0, todo |-> {},
           found |-> {}, candidate |-> [k \in {} |-> k], calm |-> FALSE]

HostTypeOK ==
    /\ SenderTypeOK
    /\ banned \subseteq Key
    /\ hook \in [Jail -> Hook \cup {NoHook}]
    /\ snap.phase \in Phases
    /\ snap.attempt \in 0 .. (MaxAttempts - 1)
    /\ snap.observed \in 0 .. MaxSeq
    /\ snap.todo \subseteq Jail
    /\ snap.found \subseteq Key
    /\ DOMAIN snap.candidate \subseteq Key
    /\ \A k \in DOMAIN snap.candidate : snap.candidate[k] \in BanId
    /\ snap.calm \in BOOLEAN
    /\ changes \in 0 .. MaxChanges
    /\ missed \subseteq Key

HostInit ==
    /\ SenderInit
    /\ banned = {}
    /\ hook = [j \in Jail |-> NoHook]
    /\ snap = NoSnap
    /\ changes = 0
    /\ missed = {}

-----------------------------------------------------------------------------
(***************************************************************************)
(* Fail2Ban and its hooks.                                                 *)
(***************************************************************************)

Pending(k) == hook[k[1]] # NoHook /\ hook[k[1]].key = k

\* calm: nothing of Fail2Ban moved since the snapshot attempt began.
Changed ==
    /\ changes < MaxChanges
    /\ changes' = changes + 1
    /\ snap' = [snap EXCEPT !.calm = FALSE]

Fail2BanBans(k) ==
    /\ hook[k[1]] = NoHook
    /\ k \notin banned
    /\ Changed
    /\ banned' = banned \cup {k}
    /\ hook' = [hook EXCEPT ![k[1]] = [op |-> "ban", key |-> k]]
    /\ UNCHANGED <<senderVars, missed>>

Fail2BanUnbans(k) ==
    /\ hook[k[1]] = NoHook
    /\ k \in banned
    /\ Changed
    /\ banned' = banned \ {k}
    /\ hook' = [hook EXCEPT ![k[1]] = [op |-> "unban", key |-> k]]
    /\ UNCHANGED <<senderVars, missed>>

\* A jail stops: actionflush succeeds without telling the sender.
Fail2BanFlushes(j) ==
    /\ "flush" \in Faults
    /\ hook[j] = NoHook
    /\ \E k \in banned : k[1] = j
    /\ Changed
    /\ banned' = {k \in banned : k[1] # j}
    /\ missed' = missed \cup (banned \ banned')
    /\ UNCHANGED <<senderVars, hook>>

\* The hook's enqueue commits.
HookRuns(j) ==
    /\ hook[j] # NoHook
    /\ Enqueue(Self, hook[j].op, hook[j].key)
    /\ hook' = [hook EXCEPT ![j] = NoHook]
    /\ UNCHANGED <<banned, snap, changes, missed>>

\* The hook finds the outbox full, or dies before it commits.  Fail2Ban does
\* not run it again.
HookFails(j) ==
    /\ hook[j] # NoHook
    /\ \/ EnqueueRefused(Self, hook[j].op, hook[j].key)
       \/ "hook" \in Faults /\ UNCHANGED senderVars
    /\ missed' = missed \cup {hook[j].key}
    /\ hook' = [hook EXCEPT ![j] = NoHook]
    /\ UNCHANGED <<banned, snap, changes>>

-----------------------------------------------------------------------------
(***************************************************************************)
(* The snapshot command.                                                   *)
(***************************************************************************)

SnapshotStarts ==
    /\ snap.phase = "idle"
    /\ seq[Self] < MaxSeq
    /\ snap' = [NoSnap EXCEPT !.phase = "observe"]
    /\ outbox' = [outbox EXCEPT ![Self] = Undelivered(Self)]
    /\ UNCHANGED <<seq, rows, drawn, fail2banVars>>

\* observed_seq = store.current_seq()
ObserveSeq ==
    /\ snap.phase = "observe"
    /\ snap' = [snap EXCEPT
          !.phase = "enumerate", !.observed = seq[Self], !.todo = Jail,
          !.found = {}, !.calm = \A j \in Jail : hook[j] = NoHook]
    /\ UNCHANGED <<senderVars, fail2banVars>>

\* fail2ban-client get JAIL banip --with-time
EnumerateJail(j) ==
    /\ snap.phase = "enumerate"
    /\ j \in snap.todo
    /\ snap' = [snap EXCEPT
          !.todo = @ \ {j},
          !.found = @ \cup {k \in banned : k[1] = j},
          !.phase = IF snap.todo = {j} THEN "identify" ELSE "enumerate"]
    /\ UNCHANGED <<senderVars, fail2banVars>>

\* A command fails or returns what cannot be parsed: no snapshot.
EnumerationFails ==
    /\ "hook" \in Faults
    /\ snap.phase = "enumerate"
    /\ snap' = NoSnap
    /\ UNCHANGED <<senderVars, fail2banVars>>

\* The part of enqueue_snapshot before BEGIN IMMEDIATE.
Identify ==
    /\ snap.phase = "identify"
    /\ \E f \in Candidates(Self, snap.found) :
          /\ snap' = [snap EXCEPT !.candidate = f, !.phase = "commit"]
          /\ drawn' = [drawn EXCEPT ![Self] = @ \cup {f[k] : k \in snap.found}]
    /\ UNCHANGED <<seq, rows, outbox, fail2banVars>>

SnapshotCommits ==
    /\ snap.phase = "commit"
    /\ EnqueueSnapshot(Self, snap.candidate, snap.observed)
    /\ snap' = NoSnap
    /\ UNCHANGED fail2banVars

\* Mutant: one attempt too many.
SnapshotRaces_OneMore ==
    /\ snap.phase = "commit"
    /\ ~FenceHolds(Self, snap.observed)
    /\ snap' = IF snap.attempt + 1 <= MaxAttempts
               THEN [NoSnap EXCEPT !.phase = "observe", !.attempt = snap.attempt + 1]
               ELSE NoSnap
    /\ UNCHANGED <<senderVars, fail2banVars>>

\* SnapshotRace: observe and enumerate again, at most MaxAttempts times.
SnapshotRaces ==
    /\ snap.phase = "commit"
    /\ ~FenceHolds(Self, snap.observed)
    /\ snap' = IF snap.attempt + 1 < MaxAttempts
               THEN [NoSnap EXCEPT !.phase = "observe", !.attempt = snap.attempt + 1]
               ELSE NoSnap
    /\ UNCHANGED <<senderVars, fail2banVars>>

\* The outbox is full: the command exits with an error.
SnapshotRefused ==
    /\ snap.phase = "commit"
    /\ FenceHolds(Self, snap.observed)
    /\ ~HasRoom(Self)
    /\ snap' = NoSnap
    /\ UNCHANGED <<senderVars, fail2banVars>>

\* The worker gets the oldest row accepted.
RowDelivered ==
    /\ \E r \in NextDue(Self) : MarkDelivered(Self, r.seq)
    /\ UNCHANGED <<fail2banVars, snap>>

HostNext ==
    \/ \E k \in Key : Fail2BanBans(k) \/ Fail2BanUnbans(k)
    \/ \E j \in Jail : Fail2BanFlushes(j) \/ HookRuns(j) \/ HookFails(j) \/ EnumerateJail(j)
    \/ SnapshotStarts
    \/ ObserveSeq
    \/ EnumerationFails
    \/ Identify
    \/ SnapshotCommits
    \/ SnapshotRaces
    \/ SnapshotRefused
    \/ RowDelivered

HostSpec == HostInit /\ [][HostNext]_hostVars

-----------------------------------------------------------------------------
(***************************************************************************)
(* Properties.                                                             *)
(***************************************************************************)

\* The keys on which the sender's claims and Fail2Ban's list differ.
Mismatch == {k \in Key : IsActive(rows[Self], k) # (k \in banned)}

\* Where the sender's claims differ from Fail2Ban's list, a hook for that
\* address is still to run, or its jail was flushed or one of its hooks failed:
\* no interleaving of hooks and snapshots makes the two drift apart, and what
\* goes wrong for one address never disturbs another.
ClaimsFollowFail2Ban == \A k \in Mismatch : Pending(k) \/ k \in missed

\* A snapshot during which Fail2Ban changed nothing repairs everything, hooks
\* lost and jails flushed before it included.
CalmSnapshotReconciles ==
    [][SnapshotCommits /\ snap.calm => Mismatch' = {}]_hostVars

\* "retrying re-enumerates instead of releasing a newly banned IP"
\* (client/sender.py, the snapshot command): a snapshot never releases an
\* address that Fail2Ban has banned and whose ban hook completed.
SnapshotKeepsNewBans ==
    [][\A k \in banned :
          SnapshotCommits /\ IsActive(rows[Self], k) => Pending(k) \/ IsActive(rows[Self], k)']_hostVars
=============================================================================
