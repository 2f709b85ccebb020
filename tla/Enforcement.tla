----------------------------- MODULE Enforcement -----------------------------
(***************************************************************************)
(* From the durable claims to the two PF tables: class Enforcer and class  *)
(* HelperClient of f2bguard/server.py, and the root helper of              *)
(* f2bguard/pf_helper.py behind its Unix socket.                           *)
(*                                                                         *)
(* A handler thread that has committed a write, and the periodic thread,   *)
(* enforce one after another under a lock.  The helper serves connections  *)
(* in the order in which they were made, one at a time; a request whose    *)
(* client timed out or died is still in its backlog and is still carried   *)
(* out.  The helper replaces the table of one address family after the     *)
(* other and tries to put both back when either fails.                     *)
(*                                                                         *)
(* The claims themselves are in ClaimStore: here only effective_ips, the   *)
(* set of addresses they ask to block, is kept.  The response carries      *)
(* counts and a digest of the two tables; the digest is the tables.        *)
(***************************************************************************)
EXTENDS Naturals, Sequences, FiniteSets

CONSTANTS
    IP,             \* canonical addresses
    V4,             \* those of IPv4; the others are of IPv6
    Handler,        \* handler threads of the server
    Periodic,       \* the thread of _periodic
    Retries,        \* HelperClient.retries
    Backlog,        \* bound of the connections waiting for the helper
    MaxWrites,      \* bound on the changes of the desired set
    MaxPolicies,    \* bound on whitelist changes, filter reloads and reboots
    Faults,         \* what may go wrong, see FaultKinds
    Unreadable,     \* content of a missing or invalid whitelist
    None            \* no enforcement, no request

\* pf: a pfctl call fails; timeout: a request to the helper is given up;
\* helper, server: that process dies and is restarted; store: SQLite fails
\* while the outcome is recorded; reload: a filter reload empties the tables;
\* reboot: the machine goes down and comes up again.
FaultKinds == {"pf", "timeout", "helper", "server", "store", "reload", "reboot"}

ASSUME EnforcementAssumption ==
    /\ V4 \subseteq IP
    /\ Periodic \notin Handler
    /\ Retries \in Nat \ {0}
    /\ Backlog \in Nat \ {0}
    /\ MaxWrites \in Nat
    /\ MaxPolicies \in Nat
    /\ Faults \subseteq FaultKinds

VARIABLES
    effective,  \* what store.effective_ips() returns now
    whitelist,  \* what the whitelist file contains, as the addresses it covers
    thread,     \* thread[t]: what thread t does
    enforcer,   \* the enforcement that holds the lock, or None
    status,     \* table enforcement_state
    queue,      \* connections the helper has not accepted
    helper,     \* the request the helper carries out, or None
    last,       \* how the helper's last replacement ended, and its whitelist
    tables,     \* tables[f]: the PF table of family f
    writes,     \* changes of effective so far
    policies,   \* whitelist changes, filter reloads and reboots so far
    emptied     \* history: the tables were emptied behind the helper's back, and
                \* it has accepted no replacement since

enforcementVars == <<effective, whitelist, thread, enforcer, status, queue,
                     helper, last, tables, writes, policies, emptied>>
worldVars == <<effective, whitelist, writes, policies, emptied>>

Thread == Handler \cup {Periodic}
Family == {4, 6}
Tables == [Family -> SUBSET IP]

\* The addresses of a set, split by family.
ByFamily(addresses) == [f \in Family |->
    IF f = 4 THEN addresses \cap V4 ELSE addresses \ V4]

Job == [addresses : SUBSET IP, live : BOOLEAN]
Enforcing == [thread : Thread, desired : SUBSET IP, index : SUBSET IP,
              attempt : 0 .. Retries, applied : Tables,
              stage : {"read", "calling", "waiting", "replied", "failed"}]
Replacing == [job : Job, spared : SUBSET IP, previous : Tables, at : Family,
              step : {"apply", "undo", "reply"},
              outcome : {"ok", "restored", "broken"}]
NoTables == [f \in Family |-> {}]

ASSUME NoneAssumption == None \notin Enforcing \cup Replacing

EnforcementTypeOK ==
    /\ effective \subseteq IP
    /\ whitelist \in (SUBSET IP) \cup {Unreadable}
    /\ thread \in [Thread -> {"idle", "waiting", "enforcing"}]
    /\ enforcer \in Enforcing \cup {None}
    /\ status \in [outcome : {"none", "attempted", "ok", "failed"}, applied : Tables]
    /\ queue \in Seq(Job)
    /\ helper \in Replacing \cup {None}
    /\ last \in [outcome : {"none", "ok", "restored", "broken"}, spared : SUBSET IP]
    /\ tables \in Tables
    /\ writes \in 0 .. MaxWrites
    /\ policies \in 0 .. MaxPolicies
    /\ emptied \in BOOLEAN

\* The row keeps the digest of an earlier success, which says nothing now.
Unconfirmed(outcome) == [outcome |-> outcome, applied |-> NoTables]

\* What enforcement_state may hold when the server starts: the row is written
\* with "INSERT OR IGNORE", so the last record of an earlier run stays.
Persisted ==
    {Unconfirmed(outcome) : outcome \in {"none", "attempted", "failed"}}
        \cup {[outcome |-> "ok", applied |-> ByFamily(S)] : S \in SUBSET IP}

\* The machine starts: the store keeps its claims and the state it recorded
\* last, the tables are empty.
EnforcementInit ==
    /\ effective \in SUBSET IP
    /\ whitelist \in (SUBSET IP) \cup {Unreadable}
    /\ thread = [t \in Thread |-> "idle"]
    /\ enforcer = None
    /\ status \in Persisted
    /\ queue = <<>>
    /\ helper = None
    /\ last = [outcome |-> "none", spared |-> {}]
    /\ tables = NoTables
    /\ writes = 0
    /\ policies = 0
    /\ emptied = TRUE

-----------------------------------------------------------------------------
(***************************************************************************)
(* What enforcement follows: the store and the whitelist file.             *)
(***************************************************************************)

EffectiveMoves(S) ==
    /\ writes < MaxWrites
    /\ writes' = writes + 1
    /\ effective' = S
    /\ UNCHANGED <<whitelist, enforcer, status, queue, helper, last, tables, policies,
                   emptied>>

\* A handler thread commits a write and goes on to _finish_write.
WriteCommits(t, S) ==
    /\ thread[t] = "idle"
    /\ EffectiveMoves(S)
    /\ thread' = [thread EXCEPT ![t] = "waiting"]

\* expires_at of some claims goes by: no thread notices.
ClaimsExpire(S) ==
    /\ S \subseteq effective
    /\ EffectiveMoves(S)
    /\ UNCHANGED thread

\* The pfSense integration writes the file, or it is lost or damaged.
WhitelistChanges(W) ==
    /\ policies < MaxPolicies
    /\ policies' = policies + 1
    /\ whitelist' = W
    /\ UNCHANGED <<effective, thread, enforcer, status, queue, helper, last, tables, writes,
                   emptied>>

\* A filter reload leaves empty tables.
FilterReloads ==
    /\ "reload" \in Faults
    /\ policies < MaxPolicies
    /\ policies' = policies + 1
    /\ tables' = NoTables
    /\ emptied' = TRUE
    /\ UNCHANGED <<effective, whitelist, thread, enforcer, status, queue, helper, last, writes>>

\* The machine goes down and comes up: both processes, their connection and
\* the tables are gone; the store keeps the claims and the recorded state.
MachineReboots ==
    /\ "reboot" \in Faults
    /\ policies < MaxPolicies
    /\ policies' = policies + 1
    /\ thread' = [t \in Thread |-> "idle"]
    /\ enforcer' = None
    /\ queue' = <<>>
    /\ helper' = None
    /\ last' = [outcome |-> "none", spared |-> {}]
    /\ tables' = NoTables
    /\ emptied' = TRUE
    /\ UNCHANGED <<effective, whitelist, status, writes>>

-----------------------------------------------------------------------------
(***************************************************************************)
(* Enforcer.enforce, under its lock.                                       *)
(***************************************************************************)

\* Mutant: the periodic thread enforces only after a failure.
PeriodicStarts_OnlyAfterFailure ==
    /\ thread[Periodic] = "idle"
    /\ status.outcome \in {"none", "failed"}
    /\ thread' = [thread EXCEPT ![Periodic] = "waiting"]
    /\ UNCHANGED <<worldVars, enforcer, status, queue, helper, last, tables>>

\* _periodic comes round.
PeriodicStarts ==
    /\ thread[Periodic] = "idle"
    /\ thread' = [thread EXCEPT ![Periodic] = "waiting"]
    /\ UNCHANGED <<worldVars, enforcer, status, queue, helper, last, tables>>

\* Mutant: only the outcome is recorded.
EnforceBegins_NoAttempt(t) ==
    /\ thread[t] = "waiting"
    /\ enforcer = None
    /\ thread' = [thread EXCEPT ![t] = "enforcing"]
    /\ enforcer' = [thread |-> t, desired |-> effective, index |-> {},
                    attempt |-> 0, applied |-> NoTables, stage |-> "read"]
    /\ UNCHANGED <<worldVars, status, queue, helper, last, tables>>

\* The lock is taken, the desired set is read and the attempt recorded.
EnforceBegins(t) ==
    /\ thread[t] = "waiting"
    /\ enforcer = None
    /\ thread' = [thread EXCEPT ![t] = "enforcing"]
    /\ enforcer' = [thread |-> t, desired |-> effective, index |-> {},
                    attempt |-> 0, applied |-> NoTables, stage |-> "read"]
    /\ status' = Unconfirmed("attempted")
    /\ UNCHANGED <<worldVars, queue, helper, last, tables>>

\* The attempt cannot be recorded: sqlite3.Error leaves enforce at once.
EnforceNotRecorded(t) ==
    /\ "store" \in Faults
    /\ thread[t] = "waiting"
    /\ enforcer = None
    /\ thread' = [thread EXCEPT ![t] = "idle"]
    /\ UNCHANGED <<worldVars, enforcer, status, queue, helper, last, tables>>

\* whitelist.reload() and the two _exclude calls.
WhitelistReloads ==
    /\ enforcer # None
    /\ enforcer.stage = "read"
    /\ enforcer' = IF whitelist = Unreadable
                   THEN [enforcer EXCEPT !.stage = "failed"]
                   ELSE [enforcer EXCEPT !.stage = "calling", !.index = whitelist]
    /\ UNCHANGED <<worldVars, thread, status, queue, helper, last, tables>>

\* One attempt of HelperClient.replace: the request is in the socket's buffer.
HelperCalled ==
    /\ enforcer # None
    /\ enforcer.stage = "calling"
    /\ Len(queue) < Backlog
    /\ queue' = Append(queue, [addresses |-> enforcer.desired \ enforcer.index, live |-> TRUE])
    /\ enforcer' = [enforcer EXCEPT !.stage = "waiting", !.attempt = @ + 1]
    /\ UNCHANGED <<worldVars, thread, status, helper, last, tables>>

\* Mutant: one attempt too many.
AfterFailure_OneMore(e) ==
    [e EXCEPT !.stage = IF e.attempt <= Retries THEN "calling" ELSE "failed"]

\* The enforcement after an attempt went wrong.
AfterFailure(e) == [e EXCEPT !.stage = IF e.attempt < Retries THEN "calling" ELSE "failed"]

\* No connection: the helper is away or its backlog is full.
ConnectFails ==
    /\ "helper" \in Faults \/ Len(queue) = Backlog
    /\ enforcer # None
    /\ enforcer.stage = "calling"
    /\ enforcer' = AfterFailure([enforcer EXCEPT !.attempt = @ + 1])
    /\ UNCHANGED <<worldVars, thread, status, queue, helper, last, tables>>

\* Nobody reads the answers to these requests any more.
Orphaned(jobs) == [i \in DOMAIN jobs |-> [jobs[i] EXCEPT !.live = FALSE]]
OrphanedHelper == IF helper = None THEN None ELSE [helper EXCEPT !.job.live = FALSE]

\* The socket's timeout: the request stays where it is.
AttemptTimesOut ==
    /\ "timeout" \in Faults
    /\ enforcer # None
    /\ enforcer.stage = "waiting"
    /\ enforcer' = AfterFailure(enforcer)
    /\ queue' = Orphaned(queue)
    /\ helper' = OrphanedHelper
    /\ UNCHANGED <<worldVars, thread, status, last, tables>>

\* The outcome is recorded, unless SQLite fails, and the lock released.
EnforceEnds(new) ==
    /\ status' \in {new} \cup IF "store" \in Faults THEN {status} ELSE {}
    /\ thread' = [thread EXCEPT ![enforcer.thread] = "idle"]
    /\ enforcer' = None
    /\ UNCHANGED <<worldVars, queue, helper, last, tables>>

EnforceSucceeds ==
    /\ enforcer # None
    /\ enforcer.stage = "replied"
    /\ EnforceEnds([outcome |-> "ok", applied |-> enforcer.applied])

\* Mutant: the lock is not released on an error.
EnforceFails_KeepsLock ==
    /\ enforcer # None
    /\ enforcer.stage = "failed"
    /\ status' = Unconfirmed("failed")
    /\ thread' = [thread EXCEPT ![enforcer.thread] = "idle"]
    /\ UNCHANGED <<worldVars, enforcer, queue, helper, last, tables>>

EnforceFails ==
    /\ enforcer # None
    /\ enforcer.stage = "failed"
    /\ EnforceEnds(Unconfirmed("failed"))

\* The server dies and is started again.
ServerRestarts ==
    /\ "server" \in Faults
    /\ thread' = [t \in Thread |-> "idle"]
    /\ enforcer' = None
    /\ queue' = Orphaned(queue)
    /\ helper' = OrphanedHelper
    /\ UNCHANGED <<worldVars, status, last, tables>>

-----------------------------------------------------------------------------
(***************************************************************************)
(* The helper: PFUpdater.replace.                                          *)
(***************************************************************************)

\* The answer reaches the enforcement that waits for it, if one still does.
Reply(job, ok, applied) ==
    enforcer' =
        IF ~job.live THEN enforcer
        ELSE IF ok THEN [enforcer EXCEPT !.stage = "replied", !.applied = applied]
        ELSE AfterFailure(enforcer)

\* The next connection is accepted, the whitelist read again and both tables
\* listed, before anything is changed.
HelperAccepts ==
    /\ helper = None
    /\ queue # <<>>
    /\ whitelist # Unreadable
    /\ queue' = Tail(queue)
    /\ helper' = [job |-> Head(queue), spared |-> whitelist, previous |-> tables,
                  at |-> 4, step |-> "apply", outcome |-> "ok"]
    /\ emptied' = FALSE
    /\ UNCHANGED <<effective, whitelist, writes, policies, thread, enforcer, status, last,
                   tables>>

\* No valid whitelist, or a table cannot be listed: refused without a change.
HelperRefuses ==
    /\ helper = None
    /\ queue # <<>>
    /\ whitelist = Unreadable \/ "pf" \in Faults
    /\ queue' = Tail(queue)
    /\ Reply(Head(queue), FALSE, NoTables)
    /\ UNCHANGED <<worldVars, thread, status, helper, last, tables>>

\* Mutant: what was there before is put back as it was.
Content_PlainUndo(h) ==
    IF h.step = "apply" THEN ByFamily(h.job.addresses)[h.at] \ h.spared ELSE h.previous[h.at]

\* What the next pfctl call writes: the request, or on the way back the
\* former entries, never one that is whitelisted now.
Content(h) ==
    (IF h.step = "apply" THEN ByFamily(h.job.addresses)[h.at] ELSE h.previous[h.at])
        \ h.spared

\* The helper after a call for the table h.at.
Advanced(h) ==
    IF h.at = 4 THEN [h EXCEPT !.at = 6] ELSE [h EXCEPT !.step = "reply"]

\* Mutant: a failing call is passed over.
AfterPfFailure_Ignored(h) == Advanced(h)

AfterPfFailure(h) ==
    IF h.step = "apply"
    THEN [h EXCEPT !.step = "undo", !.at = 4, !.outcome = "restored"]
    ELSE Advanced([h EXCEPT !.outcome = "broken"])

PfReplaces(step, f) ==
    /\ helper # None
    /\ helper.step = step
    /\ helper.at = f
    /\ tables' = [tables EXCEPT ![f] = Content(helper)]
    /\ helper' = Advanced(helper)
    /\ UNCHANGED <<worldVars, thread, enforcer, status, queue, last>>

\* pfctl fails or is killed at its timeout, with or without effect.
PfFails ==
    /\ "pf" \in Faults
    /\ helper # None
    /\ helper.step # "reply"
    /\ tables' \in {tables, [tables EXCEPT ![helper.at] = Content(helper)]}
    /\ helper' = AfterPfFailure(helper)
    /\ UNCHANGED <<worldVars, thread, enforcer, status, queue, last>>

HelperReplies ==
    /\ helper # None
    /\ helper.step = "reply"
    /\ Reply(helper.job, helper.outcome = "ok",
             [f \in Family |-> ByFamily(helper.job.addresses)[f] \ helper.spared])
    /\ helper' = None
    /\ last' = [outcome |-> helper.outcome, spared |-> helper.spared]
    /\ UNCHANGED <<worldVars, thread, status, queue, tables>>

\* The helper dies, with the requests in its backlog, and is started again.
HelperRestarts ==
    /\ "helper" \in Faults
    /\ helper' = None
    /\ queue' = <<>>
    /\ last' = IF helper = None THEN last ELSE [outcome |-> "broken", spared |-> {}]
    /\ enforcer' = IF enforcer # None /\ enforcer.stage = "waiting"
                   THEN AfterFailure(enforcer) ELSE enforcer
    /\ UNCHANGED <<worldVars, thread, status, tables>>

EnforcementNext ==
    \/ \E S \in SUBSET IP : ClaimsExpire(S) \/ \E t \in Handler : WriteCommits(t, S)
    \/ \E W \in (SUBSET IP) \cup {Unreadable} : WhitelistChanges(W)
    \/ FilterReloads
    \/ MachineReboots
    \/ PeriodicStarts
    \/ \E t \in Thread : EnforceBegins(t) \/ EnforceNotRecorded(t)
    \/ WhitelistReloads
    \/ HelperCalled
    \/ ConnectFails
    \/ AttemptTimesOut
    \/ EnforceSucceeds
    \/ EnforceFails
    \/ ServerRestarts
    \/ HelperAccepts
    \/ HelperRefuses
    \/ \E step \in {"apply", "undo"}, f \in Family : PfReplaces(step, f)
    \/ PfFails
    \/ HelperReplies
    \/ HelperRestarts

EnforcementSpec == EnforcementInit /\ [][EnforcementNext]_enforcementVars

-----------------------------------------------------------------------------
(***************************************************************************)
(* Safety.                                                                 *)
(***************************************************************************)

\* The recorded success is about the tables as they are: unless a filter reload
\* or a reboot has emptied them since the helper accepted its last replacement,
\* they hold what the digest of the success says.  No request given up by an
\* earlier attempt, an earlier enforcement or an earlier process is carried out
\* after the success was recorded, and a success of before a reload or a reboot
\* is withdrawn before the tables are filled again.  (Right after a reload or a
\* reboot the row does vouch for tables that are empty: nothing resets it.)
StatusIsTrue ==
    status.outcome = "ok" /\ ~emptied => tables = status.applied

\* "It returns failure rather than reporting success after a partial update"
\* (docs/security-and-release.md): when an enforcement succeeds, and no filter
\* reload came in the middle of its replacement, both tables hold exactly the
\* addresses it read, without those either process found whitelisted.
SuccessIsWhole ==
    [][EnforceSucceeds /\ ~emptied =>
          tables = ByFamily((enforcer.desired \ enforcer.index) \ last.spared)]_enforcementVars

\* "Never restore a now-whitelisted old entry" (pf_helper.py): after a
\* replacement that succeeded, or failed and was undone, no table holds an
\* address that was whitelisted when it began.
WhitelistWins ==
    helper = None /\ last.outcome \in {"ok", "restored"}
        => \A f \in Family : tables[f] \cap last.spared = {}

-----------------------------------------------------------------------------
(***************************************************************************)
(* Liveness.  Threads run, sockets time out, and a step that a fault can   *)
(* replace is not replaced every time.  The lock is not fair, but between  *)
(* two rounds the periodic thread leaves it alone for 30 seconds.          *)
(***************************************************************************)

\* The thread that holds the lock goes on, and so does the helper.
EnforcerStep ==
    \/ WhitelistReloads \/ HelperCalled \/ ConnectFails \/ AttemptTimesOut
    \/ EnforceSucceeds \/ EnforceFails
HelperStep ==
    \/ HelperAccepts \/ HelperRefuses \/ PfFails \/ HelperReplies
    \/ \E step \in {"apply", "undo"}, f \in Family : PfReplaces(step, f)

EnforcementFairness ==
    /\ WF_enforcementVars(PeriodicStarts)
    /\ \A t \in Thread : SF_enforcementVars(EnforceBegins(t))
    /\ WF_enforcementVars(EnforcerStep)
    /\ WF_enforcementVars(HelperStep)
    /\ SF_enforcementVars(HelperAccepts)
    /\ \A f \in Family : SF_enforcementVars(PfReplaces("apply", f))

FairEnforcementSpec == EnforcementSpec /\ EnforcementFairness

\* "A later retry converges state" (docs/security-and-release.md): once the
\* claims and a valid whitelist stay as they are, the tables come to hold
\* exactly the effective addresses that are not whitelisted, and keep them.
Converges ==
    <>[](whitelist # Unreadable => tables = ByFamily(effective \ whitelist))

\* Every thread that asked for an enforcement gets an answer: the lock is
\* never kept for ever, whatever the helper does.
EveryThreadIsAnswered ==
    \A t \in Thread : thread[t] = "waiting" ~> thread[t] = "idle"
=============================================================================
