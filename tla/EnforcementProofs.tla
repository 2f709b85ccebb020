-------------------------- MODULE EnforcementProofs --------------------------
(***************************************************************************)
(* Theorems about the way from the claims to the PF tables, for every set  *)
(* of addresses and threads, every number of retries and every backlog.    *)
(*                                                                         *)
(* The argument rests on the order in which the helper serves its          *)
(* connections.  At most one request has a client that still waits for it, *)
(* and it is the last one (LiveIsLast).  When its answer arrives, every    *)
(* request that was given up before it has therefore been carried out, and *)
(* nothing is left that could change the tables again (Settled).           *)
(***************************************************************************)
EXTENDS Enforcement, TLAPS

\* An attempt is made only while one is left.
AttemptsLeft ==
    enforcer # None =>
        /\ enforcer.stage = "read" => enforcer.attempt = 0
        /\ enforcer.stage = "calling" => enforcer.attempt < Retries

\* The request of the enforcement that waits for an answer.
IsAwaited(job) ==
    /\ enforcer # None
    /\ enforcer.stage = "waiting"
    /\ job.addresses = enforcer.desired \ enforcer.index

\* Only the last request may have a client that waits for its answer.
LiveIsLast ==
    /\ \A i \in 1 .. Len(queue) : queue[i].live => i = Len(queue) /\ IsAwaited(queue[i])
    /\ helper # None /\ helper.job.live => queue = <<>> /\ IsAwaited(helper.job)

\* What a replacement that succeeds leaves in the tables.
Wanted(h) == [f \in Family |-> ByFamily(h.job.addresses)[f] \ h.spared]

\* Where the helper is: IPv4 before IPv6, the way back only after a failure,
\* and no whitelisted address in a table it has written without a failure.
HelperInOrder ==
    helper # None =>
        /\ helper.step = "apply" => helper.outcome = "ok"
        /\ helper.step = "undo" => helper.outcome # "ok"
        /\ helper.step = "reply" => helper.at = 6
        /\ helper.outcome # "broken" =>
              /\ helper.at = 6 => tables[4] \cap helper.spared = {}
              /\ helper.step = "reply" => tables[6] \cap helper.spared = {}

\* After an answer that reports success, and as long as a success is the last
\* thing recorded, the helper has nothing left to do.
Settled ==
    /\ enforcer # None => status.outcome # "ok"
    /\ status.outcome = "ok" => queue = <<>> /\ helper = None
    /\ enforcer # None /\ enforcer.stage = "replied" =>
          /\ queue = <<>>
          /\ helper = None
          /\ enforcer.applied = ByFamily((enforcer.desired \ enforcer.index) \ last.spared)

EnforcementIInv ==
    /\ EnforcementTypeOK
    /\ AttemptsLeft
    /\ LiveIsLast
    /\ HelperInOrder
    /\ WhitelistWins
    /\ Settled

\* What the tables hold is known unless they were emptied since the helper
\* began: the part of the request that was written, the answer's content, the
\* digest.
TablesAsReported ==
    ~emptied =>
        /\ helper # None /\ helper.outcome = "ok" =>
              /\ helper.at = 6 => tables[4] = Wanted(helper)[4]
              /\ helper.step = "reply" => tables[6] = Wanted(helper)[6]
        /\ enforcer # None /\ enforcer.stage = "replied" => tables = enforcer.applied
        /\ status.outcome = "ok" => tables = status.applied

-----------------------------------------------------------------------------
(***************************************************************************)
(* Lemmas about the operators of the model.                                *)
(***************************************************************************)

\* After an attempt went wrong there is another one only if one is left.
LEMMA AfterFailureFacts ==
    ASSUME NEW e \in Enforcing
    PROVE  /\ AfterFailure(e) \in Enforcing
           /\ AfterFailure(e).thread = e.thread
           /\ AfterFailure(e).attempt = e.attempt
           /\ AfterFailure(e).stage \in {"calling", "failed"}
           /\ AfterFailure(e).stage = "calling" => e.attempt < Retries
  BY DEF AfterFailure, Enforcing

\* Giving up a request leaves it where it is, without a client.
LEMMA OrphanedFacts ==
    ASSUME NEW jobs \in Seq(Job)
    PROVE  /\ Orphaned(jobs) \in Seq(Job)
           /\ Len(Orphaned(jobs)) = Len(jobs)
           /\ jobs = <<>> => Orphaned(jobs) = <<>>
           /\ \A i \in 1 .. Len(jobs) : ~Orphaned(jobs)[i].live
<1>1. DOMAIN jobs = 1 .. Len(jobs) /\ \A i \in 1 .. Len(jobs) : jobs[i] \in Job
  OBVIOUS
<1>2. \A i \in 1 .. Len(jobs) : [jobs[i] EXCEPT !.live = FALSE] \in Job
  BY <1>1 DEF Job
<1>3. Orphaned(jobs) = [i \in 1 .. Len(jobs) |-> [jobs[i] EXCEPT !.live = FALSE]]
  BY <1>1 DEF Orphaned
<1>4. Orphaned(jobs) \in Seq(Job) /\ Len(Orphaned(jobs)) = Len(jobs)
  BY <1>2, <1>3
<1>5. \A i \in 1 .. Len(jobs) : ~[jobs[i] EXCEPT !.live = FALSE].live
  BY <1>1 DEF Job
<1>6. \A i \in 1 .. Len(jobs) : ~Orphaned(jobs)[i].live
  BY <1>3, <1>5
<1>7. jobs = <<>> => Orphaned(jobs) = <<>>
  BY <1>4
<1> QED
  BY <1>4, <1>6, <1>7

LEMMA OrphanedJob ==
    ASSUME NEW job \in Job
    PROVE  /\ [job EXCEPT !.live = FALSE] \in Job
           /\ [job EXCEPT !.live = FALSE].live = FALSE
           /\ [job EXCEPT !.live = FALSE].addresses = job.addresses
  BY DEF Job

\* The request the helper works on may lose its client, nothing else of it.
LEMMA OrphanedHelperFacts ==
    ASSUME helper \in Replacing \cup {None}
    PROVE  /\ OrphanedHelper \in Replacing \cup {None}
           /\ OrphanedHelper = None <=> helper = None
           /\ helper # None =>
                 /\ ~OrphanedHelper.job.live
                 /\ OrphanedHelper.job.addresses = helper.job.addresses
                 /\ OrphanedHelper.spared = helper.spared
                 /\ OrphanedHelper.previous = helper.previous
                 /\ OrphanedHelper.at = helper.at
                 /\ OrphanedHelper.step = helper.step
                 /\ OrphanedHelper.outcome = helper.outcome
<1>1. CASE helper = None
  BY <1>1 DEF OrphanedHelper
<1>2. CASE helper # None
  <2> DEFINE j == [helper.job EXCEPT !.live = FALSE]
  <2>1. helper \in Replacing /\ helper.job \in Job
    BY <1>2 DEF Replacing
  <2>2. j \in Job /\ j.live = FALSE /\ j.addresses = helper.job.addresses
    BY <2>1, OrphanedJob
  <2>3. OrphanedHelper = [helper EXCEPT !.job = j]
    BY <1>2 DEF OrphanedHelper
  <2> HIDE DEF j
  <2>4. /\ OrphanedHelper \in Replacing
        /\ OrphanedHelper.job = j
        /\ OrphanedHelper.spared = helper.spared
        /\ OrphanedHelper.previous = helper.previous
        /\ OrphanedHelper.at = helper.at
        /\ OrphanedHelper.step = helper.step
        /\ OrphanedHelper.outcome = helper.outcome
    BY <2>1, <2>2, <2>3 DEF Replacing
  <2> QED
    BY <1>2, <2>2, <2>4, NoneAssumption
<1> QED
  BY <1>1, <1>2

\* Splitting by family commutes with leaving addresses out.
LEMMA ByFamilyMinus ==
    ASSUME NEW A, NEW S
    PROVE  [f \in Family |-> ByFamily(A)[f] \ S] = ByFamily(A \ S)
  BY DEF ByFamily, Family

\* Addresses split by family are tables, with or without some left out.
LEMMA ByFamilyType ==
    ASSUME NEW A \in SUBSET IP, NEW S
    PROVE  /\ ByFamily(A) \in Tables
           /\ ByFamily(A \ S) \in Tables
  BY DEF ByFamily, Tables

\* What a pfctl call writes is a set of addresses, none of them spared.
LEMMA ContentFacts ==
    ASSUME NEW h \in Replacing
    PROVE  /\ Content(h) \in SUBSET IP
           /\ Content(h) \cap h.spared = {}
           /\ h.step = "apply" => Content(h) = Wanted(h)[h.at]
<1>1. h.at \in Family /\ h.job.addresses \in SUBSET IP /\ h.previous \in Tables
  BY DEF Replacing, Job
<1>2. ByFamily(h.job.addresses) \in Tables
  BY <1>1, ByFamilyType
<1>3. ByFamily(h.job.addresses)[h.at] \in SUBSET IP /\ h.previous[h.at] \in SUBSET IP
  BY <1>1, <1>2 DEF Tables
<1> QED
  BY <1>1, <1>3 DEF Content, Wanted

\* How the helper goes on after a call.
LEMMA HelperGoesOn ==
    ASSUME NEW h \in Replacing, h.step # "reply"
    PROVE  /\ Advanced(h) \in Replacing
           /\ AfterPfFailure(h) \in Replacing
           /\ Advanced(h).job = h.job /\ AfterPfFailure(h).job = h.job
           /\ Advanced(h).spared = h.spared /\ AfterPfFailure(h).spared = h.spared
           /\ Advanced(h).outcome = h.outcome
           /\ Advanced(h).at = 6
           /\ Advanced(h).step = IF h.at = 4 THEN h.step ELSE "reply"
           /\ h.step = "apply" => /\ AfterPfFailure(h).step = "undo"
                                  /\ AfterPfFailure(h).at = 4
                                  /\ AfterPfFailure(h).outcome = "restored"
           /\ h.step = "undo" => /\ AfterPfFailure(h).step \in {"undo", "reply"}
                                 /\ AfterPfFailure(h).at = 6
                                 /\ AfterPfFailure(h).outcome = "broken"
  BY DEF Advanced, AfterPfFailure, Replacing, Family

-----------------------------------------------------------------------------
(***************************************************************************)
(* The invariant is inductive: one lemma for each of its parts.            *)
(***************************************************************************)

\* An answer nobody waits for changes nothing; the other one ends the wait.
LEMMA ReplyFacts ==
    ASSUME EnforcementTypeOK, NEW job \in Job, NEW ok \in BOOLEAN, NEW applied \in Tables,
           job.live => IsAwaited(job), Reply(job, ok, applied)
    PROVE  /\ enforcer' \in Enforcing \cup {None}
           /\ enforcer' = None <=> enforcer = None
           /\ ~job.live => enforcer' = enforcer
           /\ job.live => /\ enforcer'.stage \in {"calling", "failed", "replied"}
                          /\ enforcer'.stage = "calling" => enforcer'.attempt < Retries
                          /\ enforcer'.stage = "replied" =>
                                /\ ok
                                /\ enforcer' = [enforcer EXCEPT !.stage = "replied", !.applied = applied]
<1>1. CASE ~job.live
  BY <1>1 DEF Reply, EnforcementTypeOK
<1>2. CASE job.live
  <2>1. enforcer \in Enforcing /\ enforcer # None
    BY <1>2 DEF IsAwaited, EnforcementTypeOK
  <2>2. CASE ok
    <3>1. enforcer' = [enforcer EXCEPT !.stage = "replied", !.applied = applied]
      BY <1>2, <2>2 DEF Reply
    <3>2. enforcer' \in Enforcing /\ enforcer'.stage = "replied"
      BY <2>1, <3>1 DEF Enforcing
    <3> QED
      BY <1>2, <2>1, <2>2, <3>1, <3>2, NoneAssumption
  <2>3. CASE ~ok
    BY <1>2, <2>1, <2>3, AfterFailureFacts, NoneAssumption DEF Reply
  <2> QED
    BY <2>2, <2>3
<1> QED
  BY <1>1, <1>2

\* What the helper answers is the two tables it wrote.
LEMMA AppliedType ==
    ASSUME NEW h \in Replacing
    PROVE  /\ Wanted(h) \in Tables
           /\ Wanted(h) = ByFamily(h.job.addresses \ h.spared)
<1>1. h.job.addresses \in SUBSET IP
  BY DEF Replacing, Job
<1>2. Wanted(h) = ByFamily(h.job.addresses \ h.spared)
  BY ByFamilyMinus, Zenon DEF Wanted
<1> QED
  BY <1>1, <1>2, ByFamilyType, Zenon

\* The changes of the claims, of the whitelist and by a filter reload, and the
\* starts that touch one thread only.
WorldStep ==
    \/ \E S \in SUBSET IP : ClaimsExpire(S) \/ \E t \in Handler : WriteCommits(t, S)
    \/ \E W \in (SUBSET IP) \cup {Unreadable} : WhitelistChanges(W)
    \/ PeriodicStarts
    \/ \E t \in Thread : EnforceNotRecorded(t)

LEMMA WorldStepType ==
    ASSUME EnforcementTypeOK, WorldStep
    PROVE  /\ EnforcementTypeOK'
           /\ UNCHANGED <<enforcer, status, queue, helper, last, tables, emptied>>
<1>1. Periodic \in Thread /\ Handler \subseteq Thread
  BY DEF Thread
<1>2. MaxWrites \in Nat /\ MaxPolicies \in Nat
  BY EnforcementAssumption
<1>3. ASSUME NEW S \in SUBSET IP, EffectiveMoves(S)
      PROVE  /\ effective' \in SUBSET IP /\ writes' \in 0 .. MaxWrites
             /\ UNCHANGED <<whitelist, enforcer, status, queue, helper, last, tables, policies, emptied>>
  BY <1>2, <1>3 DEF EffectiveMoves, EnforcementTypeOK
<1>4. ASSUME NEW S \in SUBSET IP, ClaimsExpire(S)
      PROVE  EnforcementTypeOK' /\ UNCHANGED <<enforcer, status, queue, helper, last, tables, emptied>>
  BY <1>3, <1>4 DEF ClaimsExpire, EnforcementTypeOK
<1>5. ASSUME NEW S \in SUBSET IP, NEW t \in Handler, WriteCommits(t, S)
      PROVE  EnforcementTypeOK' /\ UNCHANGED <<enforcer, status, queue, helper, last, tables, emptied>>
  BY <1>1, <1>3, <1>5 DEF WriteCommits, EnforcementTypeOK
<1>6. ASSUME NEW W \in (SUBSET IP) \cup {Unreadable}, WhitelistChanges(W)
      PROVE  EnforcementTypeOK' /\ UNCHANGED <<enforcer, status, queue, helper, last, tables, emptied>>
  BY <1>2, <1>6 DEF WhitelistChanges, EnforcementTypeOK
<1>7. CASE PeriodicStarts
  BY <1>1, <1>7 DEF PeriodicStarts, EnforcementTypeOK, worldVars
<1>8. ASSUME NEW t \in Thread, EnforceNotRecorded(t)
      PROVE  EnforcementTypeOK' /\ UNCHANGED <<enforcer, status, queue, helper, last, tables, emptied>>
  BY <1>8 DEF EnforceNotRecorded, EnforcementTypeOK, worldVars
<1> QED
  BY <1>4, <1>5, <1>6, <1>7, <1>8 DEF WorldStep, PeriodicStarts

\* The parts of the invariant that an action can disturb when it changes
\* neither the helper nor its queue and tables.
LEMMA EnforcerStepKeeps ==
    ASSUME EnforcementIInv, EnforcementTypeOK', UNCHANGED <<queue, helper, last, tables>>,
           AttemptsLeft', LiveIsLast'
    PROVE  HelperInOrder' /\ WhitelistWins'
  BY DEF EnforcementIInv, HelperInOrder, WhitelistWins

\* Giving the requests up disturbs neither their order nor the helper.
LEMMA OrphaningKeeps ==
    ASSUME EnforcementIInv, queue' = Orphaned(queue), helper' = OrphanedHelper,
           UNCHANGED <<last, tables>>
    PROVE  LiveIsLast' /\ HelperInOrder' /\ WhitelistWins'
<1>1. queue \in Seq(Job) /\ helper \in Replacing \cup {None}
  BY DEF EnforcementIInv, EnforcementTypeOK
<1>2. /\ \A i \in 1 .. Len(queue') : ~queue'[i].live
      /\ helper' # None => ~helper'.job.live
  BY <1>1, OrphanedFacts, OrphanedHelperFacts
<1>3. LiveIsLast'
  BY <1>2 DEF LiveIsLast
<1>4. HelperInOrder'
  BY <1>1, OrphanedHelperFacts DEF HelperInOrder, EnforcementIInv
<1>5. WhitelistWins'
  BY <1>1, OrphanedHelperFacts DEF WhitelistWins, EnforcementIInv
<1> QED
  BY <1>3, <1>4, <1>5

LEMMA EnforcementIInvInit == EnforcementInit => EnforcementIInv
<1> SUFFICES ASSUME EnforcementInit PROVE EnforcementIInv
  OBVIOUS
<1>1. NoTables \in Tables
  BY DEF NoTables, Tables
<1>2. \A S \in SUBSET IP : ByFamily(S) \in Tables
  BY ByFamilyType
<1>3. status \in [outcome : {"none", "attempted", "ok", "failed"}, applied : Tables]
  BY <1>1, <1>2 DEF EnforcementInit, Persisted, Unconfirmed
<1>4. EnforcementTypeOK
  BY <1>1, <1>3, EnforcementAssumption DEF EnforcementInit, EnforcementTypeOK
<1> QED
  BY <1>4 DEF EnforcementInit, EnforcementIInv, AttemptsLeft, LiveIsLast, HelperInOrder,
              WhitelistWins, Settled

\* Enforcer.enforce and HelperClient: each action of the thread under the lock.
LEMMA EnforcerActionStep ==
    ASSUME EnforcementIInv,
           \/ \E t \in Thread : EnforceBegins(t)
           \/ WhitelistReloads \/ HelperCalled \/ ConnectFails \/ AttemptTimesOut
           \/ EnforceSucceeds \/ EnforceFails \/ ServerRestarts
    PROVE  EnforcementIInv'
<1> USE DEF worldVars
<1>0. /\ EnforcementTypeOK /\ AttemptsLeft /\ LiveIsLast
      /\ HelperInOrder /\ WhitelistWins /\ Settled
  BY DEF EnforcementIInv
<1>1. NoTables \in Tables /\ Retries \in Nat /\ Retries # 0
  BY EnforcementAssumption DEF NoTables, Tables
<1>2. enforcer # None => enforcer \in Enforcing
  BY <1>0 DEF EnforcementTypeOK
<1>3. ASSUME NEW t \in Thread, EnforceBegins(t)
      PROVE  EnforcementIInv'
  <2> USE <1>3 DEF EnforceBegins
  <2>1. enforcer' \in Enforcing /\ enforcer' # None
    BY <1>0, <1>1, NoneAssumption DEF Enforcing, EnforcementTypeOK
  <2>2. EnforcementTypeOK'
    BY <1>0, <1>1, <2>1 DEF EnforcementTypeOK, Unconfirmed
  <2>3. AttemptsLeft'
    BY DEF AttemptsLeft
  <2>4. LiveIsLast'
    BY <1>0 DEF LiveIsLast, IsAwaited
  <2>5. Settled'
    BY DEF Settled, Unconfirmed
  <2> QED
    BY <2>2, <2>3, <2>4, <2>5, EnforcerStepKeeps DEF EnforcementIInv
<1>4. CASE WhitelistReloads
  <2> USE <1>4 DEF WhitelistReloads
  <2>1. /\ enforcer' \in Enforcing /\ enforcer' # None
        /\ enforcer'.stage \in {"failed", "calling"} /\ enforcer'.attempt = enforcer.attempt
    <3>0. enforcer \in Enforcing
      BY <1>2
    <3>1. CASE whitelist = Unreadable
      <4> DEFINE e == [enforcer EXCEPT !.stage = "failed"]
      <4>1. e \in Enforcing /\ e.stage = "failed" /\ e.attempt = enforcer.attempt
        BY <3>0 DEF Enforcing
      <4>2. enforcer' = e
        BY <3>1
      <4> HIDE DEF e
      <4> QED
        BY <4>1, <4>2, NoneAssumption
    <3>2. CASE whitelist # Unreadable
      <4>1. enforcer' = [enforcer EXCEPT !.stage = "calling", !.index = whitelist]
            /\ whitelist \in SUBSET IP
        BY <1>0, <3>2 DEF EnforcementTypeOK
      <4> QED
        BY <1>2, <4>1, NoneAssumption DEF Enforcing
    <3> QED
      BY <3>1, <3>2
  <2>2. EnforcementTypeOK'
    BY <1>0, <2>1 DEF EnforcementTypeOK
  <2>3. AttemptsLeft'
    BY <1>0, <1>1, <2>1 DEF AttemptsLeft
  <2>4. LiveIsLast'
    BY <1>0 DEF LiveIsLast, IsAwaited
  <2>5. Settled'
    BY <1>0, <2>1 DEF Settled
  <2> QED
    BY <2>2, <2>3, <2>4, <2>5, EnforcerStepKeeps DEF EnforcementIInv
<1>5. CASE HelperCalled
  <2> DEFINE job == [addresses |-> enforcer.desired \ enforcer.index, live |-> TRUE]
  <2> USE <1>5 DEF HelperCalled
  <2>1. /\ enforcer' \in Enforcing /\ enforcer' # None
        /\ enforcer'.stage = "waiting"
        /\ enforcer'.desired = enforcer.desired /\ enforcer'.index = enforcer.index
    <3>1. enforcer.attempt + 1 \in 0 .. Retries
      BY <1>0, <1>1, <1>2 DEF AttemptsLeft, Enforcing
    <3> QED
      BY <1>2, <3>1, NoneAssumption DEF Enforcing
  <2>2. job \in Job
    BY <1>2 DEF Job, Enforcing
  <2>3. queue \in Seq(Job) /\ queue' = Append(queue, job)
    BY <1>0 DEF EnforcementTypeOK
  <2>4. EnforcementTypeOK'
    BY <1>0, <2>1, <2>2, <2>3 DEF EnforcementTypeOK
  <2>5. AttemptsLeft'
    BY <2>1 DEF AttemptsLeft
  <2>6. LiveIsLast'
    <3>1. \A i \in 1 .. Len(queue) : ~queue[i].live
      BY <1>0 DEF LiveIsLast, IsAwaited
    <3>2. ~(helper # None /\ helper.job.live)
      BY <1>0 DEF LiveIsLast, IsAwaited
    <3>3. Len(queue') = Len(queue) + 1
      BY <2>2, <2>3
    <3>4. \A i \in 1 .. Len(queue') : i = Len(queue') \/ (i \in 1 .. Len(queue) /\ queue'[i] = queue[i])
      BY <2>2, <2>3
    <3>5. queue'[Len(queue')] = job
      BY <2>2, <2>3
    <3>6. IsAwaited(job)'
      BY <2>1 DEF IsAwaited
    <3> HIDE DEF job
    <3> QED
      BY <2>1, <3>1, <3>2, <3>4, <3>5, <3>6 DEF LiveIsLast, IsAwaited
  <2>7. HelperInOrder' /\ WhitelistWins'
    BY <1>0 DEF HelperInOrder, WhitelistWins
  <2>8. Settled'
    BY <1>0, <2>1 DEF Settled
  <2> QED
    BY <2>4, <2>5, <2>6, <2>7, <2>8 DEF EnforcementIInv
<1>6. CASE ConnectFails
  <2> DEFINE e == [enforcer EXCEPT !.attempt = @ + 1]
  <2> USE <1>6 DEF ConnectFails
  <2>1. enforcer.attempt + 1 \in 0 .. Retries
    BY <1>0, <1>1, <1>2 DEF AttemptsLeft, Enforcing
  <2>2. e \in Enforcing
    BY <1>2, <2>1 DEF Enforcing
  <2>3. enforcer' = AfterFailure(e)
    OBVIOUS
  <2> HIDE DEF e
  <2>4. /\ enforcer' \in Enforcing /\ enforcer' # None
        /\ enforcer'.stage \in {"calling", "failed"}
        /\ enforcer'.stage = "calling" => enforcer'.attempt < Retries
    BY <2>2, <2>3, AfterFailureFacts, NoneAssumption
  <2>5. EnforcementTypeOK'
    BY <1>0, <2>4 DEF EnforcementTypeOK
  <2>6. AttemptsLeft'
    BY <2>4 DEF AttemptsLeft
  <2>7. LiveIsLast'
    BY <1>0 DEF LiveIsLast, IsAwaited
  <2>8. Settled'
    BY <1>0, <2>4 DEF Settled
  <2> QED
    BY <2>5, <2>6, <2>7, <2>8, EnforcerStepKeeps DEF EnforcementIInv
<1>7. CASE AttemptTimesOut
  <2> USE <1>7 DEF AttemptTimesOut
  <2>1. /\ enforcer' \in Enforcing /\ enforcer' # None
        /\ enforcer'.stage \in {"calling", "failed"}
        /\ enforcer'.stage = "calling" => enforcer'.attempt < Retries
    BY <1>2, AfterFailureFacts, NoneAssumption
  <2>2. queue' = Orphaned(queue) /\ helper' = OrphanedHelper
        /\ UNCHANGED <<last, tables, status>>
    OBVIOUS
  <2>3. EnforcementTypeOK'
    BY <1>0, <2>1, OrphanedFacts, OrphanedHelperFacts DEF EnforcementTypeOK
  <2>4. AttemptsLeft'
    BY <2>1 DEF AttemptsLeft
  <2>5. Settled'
    BY <1>0, <2>1 DEF Settled
  <2> QED
    BY <2>2, <2>3, <2>4, <2>5, OrphaningKeeps DEF EnforcementIInv
<1>8. CASE EnforceSucceeds
  <2> USE <1>8 DEF EnforceSucceeds, EnforceEnds
  <2>1. status' \in [outcome : {"none", "attempted", "ok", "failed"}, applied : Tables]
    BY <1>0, <1>2 DEF Enforcing, EnforcementTypeOK
  <2>2. EnforcementTypeOK'
    BY <1>0, <1>2, <2>1 DEF EnforcementTypeOK, Enforcing
  <2>3. AttemptsLeft' /\ LiveIsLast'
    BY <1>0 DEF AttemptsLeft, LiveIsLast, IsAwaited
  <2>4. Settled'
    BY <1>0 DEF Settled
  <2> QED
    BY <2>2, <2>3, <2>4, EnforcerStepKeeps DEF EnforcementIInv
<1>9. CASE EnforceFails
  <2> USE <1>9 DEF EnforceFails, EnforceEnds, Unconfirmed
  <2>1. status' \in [outcome : {"none", "attempted", "ok", "failed"}, applied : Tables]
    BY <1>0, <1>1 DEF EnforcementTypeOK
  <2>2. EnforcementTypeOK'
    BY <1>0, <1>2, <2>1 DEF EnforcementTypeOK, Enforcing
  <2>3. AttemptsLeft' /\ LiveIsLast'
    BY <1>0 DEF AttemptsLeft, LiveIsLast, IsAwaited
  <2>4. status'.outcome # "ok"
    BY <1>0 DEF Settled
  <2>5. Settled'
    BY <2>4 DEF Settled
  <2> QED
    BY <2>2, <2>3, <2>5, EnforcerStepKeeps DEF EnforcementIInv
<1>10. CASE ServerRestarts
  <2> USE <1>10 DEF ServerRestarts
  <2>1. EnforcementTypeOK'
    BY <1>0, OrphanedFacts, OrphanedHelperFacts DEF EnforcementTypeOK
  <2>2. AttemptsLeft'
    BY DEF AttemptsLeft
  <2>3. Settled'
    BY <1>0, OrphanedFacts, OrphanedHelperFacts DEF Settled, EnforcementTypeOK
  <2> QED
    BY <2>1, <2>2, <2>3, OrphaningKeeps DEF EnforcementIInv
<1> QED
  BY <1>3, <1>4, <1>5, <1>6, <1>7, <1>8, <1>9, <1>10

\* A pfctl call for one table, whether it succeeds or fails: the helper goes
\* on with the next one or back to the first.
LEMMA CallKeeps ==
    ASSUME EnforcementIInv, helper # None, helper.step # "reply",
           \/ /\ helper' = Advanced(helper)
              /\ tables' = [tables EXCEPT ![helper.at] = Content(helper)]
           \/ /\ helper' = AfterPfFailure(helper)
              /\ tables' \in {tables, [tables EXCEPT ![helper.at] = Content(helper)]},
           UNCHANGED <<worldVars, thread, enforcer, status, queue, last>>
    PROVE  EnforcementIInv'
<1>0. /\ EnforcementTypeOK /\ AttemptsLeft /\ LiveIsLast
      /\ HelperInOrder /\ WhitelistWins /\ Settled
  BY DEF EnforcementIInv
<1>1. /\ helper \in Replacing /\ helper.at \in {4, 6} /\ tables \in [{4, 6} -> SUBSET IP]
      /\ helper.step \in {"apply", "undo"} /\ helper.outcome \in {"ok", "restored", "broken"}
  BY <1>0 DEF EnforcementTypeOK, Replacing, Family, Tables
<1>2. Content(helper) \in SUBSET IP /\ Content(helper) \cap helper.spared = {}
  BY <1>1, ContentFacts
<1>3. tables' \in [{4, 6} -> SUBSET IP]
  BY <1>1, <1>2
<1>4. helper' \in Replacing /\ helper'.job = helper.job /\ helper'.spared = helper.spared
  BY <1>1, HelperGoesOn
<1>5. EnforcementTypeOK'
  BY <1>0, <1>3, <1>4 DEF EnforcementTypeOK, worldVars, Tables, Family
<1>6. AttemptsLeft'
  BY <1>0 DEF AttemptsLeft
<1>7. LiveIsLast'
  BY <1>0, <1>4 DEF LiveIsLast, IsAwaited
<1>8. helper' # None
  BY <1>4, NoneAssumption
<1>9. WhitelistWins' /\ Settled'
  BY <1>0, <1>8 DEF WhitelistWins, Settled
<1>10. HelperInOrder'
  <2>1. CASE helper' = Advanced(helper) /\ tables' = [tables EXCEPT ![helper.at] = Content(helper)]
    <3>1. /\ helper'.outcome = helper.outcome /\ helper'.at = 6
          /\ helper'.step = IF helper.at = 4 THEN helper.step ELSE "reply"
      BY <1>1, <2>1, HelperGoesOn
    <3>2. CASE helper.at = 4
      <4>1. tables'[4] = Content(helper)
        BY <1>1, <2>1, <3>2
      <4> QED
        BY <1>0, <1>1, <1>2, <1>4, <3>1, <3>2, <4>1 DEF HelperInOrder
    <3>3. CASE helper.at = 6
      <4>1. tables'[6] = Content(helper) /\ tables'[4] = tables[4]
        BY <1>1, <2>1, <3>3
      <4> QED
        BY <1>0, <1>1, <1>2, <1>4, <3>1, <3>3, <4>1 DEF HelperInOrder
    <3> QED
      BY <1>1, <3>2, <3>3
  <2>2. CASE helper' = AfterPfFailure(helper)
    <3>1. /\ helper.step = "apply" => /\ helper'.step = "undo" /\ helper'.at = 4
                                      /\ helper'.outcome = "restored"
          /\ helper.step = "undo" => /\ helper'.step \in {"undo", "reply"}
                                     /\ helper'.at = 6
                                     /\ helper'.outcome = "broken"
      BY <1>1, <2>2, HelperGoesOn
    <3> QED
      BY <1>1, <3>1 DEF HelperInOrder
  <2> QED
    BY <2>1, <2>2
<1> QED
  BY <1>5, <1>6, <1>7, <1>9, <1>10 DEF EnforcementIInv

\* The helper takes the requests in their order: the one a client waits for is
\* the last that is left.
LEMMA ServedInOrder ==
    ASSUME LiveIsLast, queue \in Seq(Job), queue # <<>>
    PROVE  LET rest == Tail(queue) IN
           /\ queue[1].live => rest = <<>> /\ IsAwaited(queue[1])
           /\ \A i \in 1 .. Len(rest) : rest[i].live => i = Len(rest) /\ IsAwaited(rest[i])
<1> DEFINE rest == Tail(queue)
<1>1. /\ rest \in Seq(Job) /\ Len(rest) \in Nat /\ Len(queue) = Len(rest) + 1
      /\ \A i \in 1 .. Len(rest) : rest[i] = queue[i + 1] /\ i + 1 \in 1 .. Len(queue)
  OBVIOUS
<1> HIDE DEF rest
<1>2. Len(rest) = 0 => rest = <<>>
  BY <1>1
<1>3. \A i \in 1 .. Len(queue) : queue[i].live => i = Len(queue) /\ IsAwaited(queue[i])
  BY DEF LiveIsLast
<1>4. 1 \in 1 .. Len(queue)
  BY <1>1
<1>5. queue[1].live => rest = <<>> /\ IsAwaited(queue[1])
  BY <1>1, <1>2, <1>3, <1>4
<1>6. \A i \in 1 .. Len(rest) : rest[i].live => i = Len(rest) /\ IsAwaited(rest[i])
  BY <1>1, <1>3
<1> QED
  BY <1>5, <1>6 DEF rest

\* PFUpdater.replace: each action of the helper.
LEMMA HelperActionStep ==
    ASSUME EnforcementIInv,
           \/ HelperAccepts \/ HelperRefuses \/ PfFails \/ HelperReplies \/ HelperRestarts
           \/ \E step \in {"apply", "undo"}, f \in Family : PfReplaces(step, f)
    PROVE  EnforcementIInv'
<1> USE DEF worldVars
<1>0. /\ EnforcementTypeOK /\ AttemptsLeft /\ LiveIsLast
      /\ HelperInOrder /\ WhitelistWins /\ Settled
  BY DEF EnforcementIInv
<1>1. /\ helper # None => helper \in Replacing
      /\ enforcer # None => enforcer \in Enforcing
      /\ queue \in Seq(Job) /\ tables \in Tables
  BY <1>0 DEF EnforcementTypeOK
<1>2. /\ queue # <<>> => /\ Head(queue) = queue[1] /\ Head(queue) \in Job
                         /\ Tail(queue) \in Seq(Job)
                         /\ Len(Tail(queue)) = Len(queue) - 1
                         /\ \A i \in 1 .. Len(Tail(queue)) : Tail(queue)[i] = queue[i + 1]
      /\ Len(queue) \in Nat
      /\ queue # <<>> => 1 \in 1 .. Len(queue)
  BY <1>1
<1>3. CASE HelperAccepts
  <2> USE <1>3 DEF HelperAccepts
  <2> DEFINE h == [job |-> Head(queue), spared |-> whitelist, previous |-> tables,
                   at |-> 4, step |-> "apply", outcome |-> "ok"]
  <2>1. h \in Replacing
    BY <1>0, <1>1, <1>2 DEF Replacing, Family, EnforcementTypeOK
  <2>2. /\ helper' = h /\ h.job = queue[1]
        /\ h.at = 4 /\ h.step = "apply" /\ h.outcome = "ok"
    BY <1>2
  <2> HIDE DEF h
  <2>3. EnforcementTypeOK'
    BY <1>0, <1>2, <2>1, <2>2 DEF EnforcementTypeOK
  <2>4. AttemptsLeft'
    BY <1>0 DEF AttemptsLeft
  <2>5. LiveIsLast'
    <3>1. helper'.job = queue[1]
      BY <2>2
    <3>2. queue[1].live => queue' = <<>> /\ IsAwaited(queue[1])
      BY <1>0, <1>1, ServedInOrder
    <3>3. \A i \in 1 .. Len(queue') : queue'[i].live => i = Len(queue') /\ IsAwaited(queue'[i])
      BY <1>0, <1>1, ServedInOrder
    <3> QED
      BY <3>1, <3>2, <3>3 DEF LiveIsLast, IsAwaited
  <2>6. HelperInOrder' /\ WhitelistWins'
    BY <2>1, <2>2, NoneAssumption DEF HelperInOrder, WhitelistWins
  <2>7. Settled'
    BY <1>0 DEF Settled
  <2> QED
    BY <2>3, <2>4, <2>5, <2>6, <2>7 DEF EnforcementIInv
<1>4. CASE HelperRefuses
  <2> USE <1>4 DEF HelperRefuses
  <2>1. /\ queue[1].live => queue' = <<>> /\ IsAwaited(queue[1])
        /\ \A i \in 1 .. Len(queue') : queue'[i].live => i = Len(queue') /\ IsAwaited(queue'[i])
    BY <1>0, <1>1, ServedInOrder
  <2>2. Reply(queue[1], FALSE, NoTables) /\ queue[1] \in Job /\ NoTables \in Tables
    BY <1>2 DEF NoTables, Tables
  <2>3. /\ enforcer' \in Enforcing \cup {None}
        /\ enforcer' = None <=> enforcer = None
        /\ ~queue[1].live => enforcer' = enforcer
        /\ queue[1].live => /\ enforcer'.stage \in {"calling", "failed"}
                            /\ enforcer'.stage = "calling" => enforcer'.attempt < Retries
    BY <1>0, <2>1, <2>2, ReplyFacts
  <2>4. EnforcementTypeOK'
    BY <1>0, <1>2, <2>3 DEF EnforcementTypeOK
  <2>5. AttemptsLeft'
    BY <1>0, <2>3 DEF AttemptsLeft
  <2>6. LiveIsLast'
    <3>1. CASE queue[1].live
      <4>1. queue' = <<>> /\ helper' = None
        BY <2>1, <3>1
      <4>2. 1 .. Len(queue') = {}
        BY <4>1
      <4> HIDE DEF HelperRefuses
      <4> QED
        BY <4>1, <4>2 DEF LiveIsLast
    <3>2. CASE ~queue[1].live
      BY <2>1, <2>3, <3>2 DEF LiveIsLast, IsAwaited
    <3> QED
      BY <3>1, <3>2
  <2>7. HelperInOrder' /\ WhitelistWins'
    BY <1>0 DEF HelperInOrder, WhitelistWins
  <2>8. Settled'
    BY <1>0, <2>3 DEF Settled
  <2> QED
    BY <2>4, <2>5, <2>6, <2>7, <2>8 DEF EnforcementIInv
<1>5. ASSUME NEW step \in {"apply", "undo"}, NEW f \in Family, PfReplaces(step, f)
      PROVE  EnforcementIInv'
  <2> USE <1>5 DEF PfReplaces
  <2>1. helper \in Replacing /\ helper.step # "reply" /\ helper.at \in {4, 6}
    BY <1>1 DEF Family
  <2>2. helper' = Advanced(helper) /\ Advanced(helper) \in Replacing
    BY <2>1, HelperGoesOn
  <2>3. tables' = [tables EXCEPT ![helper.at] = Content(helper)]
    OBVIOUS
  <2>4. CASE helper.outcome = "broken"
    BY <2>4, <2>1, <2>2, <2>3, CallKeeps, HelperGoesOn
  <2>5. CASE helper.outcome # "broken"
    BY <2>5, <2>1, <2>2, <2>3, CallKeeps, HelperGoesOn
  <2> QED
    BY <2>4, <2>5
<1>6. CASE PfFails
  <2> USE <1>6 DEF PfFails
  <2>1. helper \in Replacing /\ helper.step # "reply"
    BY <1>1
  <2>2. helper' = AfterPfFailure(helper) /\ AfterPfFailure(helper) \in Replacing
    BY <2>1, HelperGoesOn
  <2> QED
    BY <2>1, <2>2, CallKeeps, HelperGoesOn
<1>7. CASE HelperReplies
  <2> USE <1>7 DEF HelperReplies
  <2>1. /\ helper \in Replacing /\ helper.job \in Job /\ helper.spared \in SUBSET IP
        /\ helper.outcome \in {"ok", "restored", "broken"}
    BY <1>1 DEF Replacing
  <2>2. Reply(helper.job, helper.outcome = "ok", Wanted(helper))
    BY DEF Wanted
  <2>3. helper.job.live => IsAwaited(helper.job) /\ queue = <<>>
    BY <1>0 DEF LiveIsLast
  <2>4. Wanted(helper) \in Tables /\ Wanted(helper) = ByFamily(helper.job.addresses \ helper.spared)
    BY <2>1, AppliedType
  <2>5. /\ enforcer' \in Enforcing \cup {None}
        /\ enforcer' = None <=> enforcer = None
        /\ ~helper.job.live => enforcer' = enforcer
        /\ helper.job.live =>
              /\ enforcer'.stage \in {"calling", "failed", "replied"}
              /\ enforcer'.stage = "calling" => enforcer'.attempt < Retries
              /\ enforcer'.stage = "replied" =>
                    enforcer' = [enforcer EXCEPT !.stage = "replied", !.applied = Wanted(helper)]
    BY <1>0, <2>1, <2>2, <2>3, <2>4, ReplyFacts
  <2>6. EnforcementTypeOK'
    BY <1>0, <2>1, <2>5 DEF EnforcementTypeOK
  <2>7. AttemptsLeft'
    BY <1>0, <2>5 DEF AttemptsLeft
  <2>8. LiveIsLast'
    BY <1>0, <1>2, <2>3, <2>5 DEF LiveIsLast, IsAwaited
  <2>9. WhitelistWins'
    BY <1>0, <2>1 DEF WhitelistWins, HelperInOrder, Family
  <2>10. HelperInOrder'
    BY DEF HelperInOrder
  <2>11. Settled'
    <3>1. CASE helper.job.live /\ enforcer'.stage = "replied"
      <4>1. enforcer \in Enforcing /\ helper.job.addresses = enforcer.desired \ enforcer.index
        BY <1>1, <2>3, <3>1 DEF IsAwaited
      <4>2. /\ enforcer'.applied = Wanted(helper)
            /\ enforcer'.desired = enforcer.desired
            /\ enforcer'.index = enforcer.index
        BY <2>5, <3>1, <4>1 DEF Enforcing
      <4>3. enforcer # None /\ status.outcome # "ok"
        BY <1>0, <2>3, <3>1 DEF IsAwaited, Settled
      <4> QED
        BY <2>3, <2>4, <3>1, <4>1, <4>2, <4>3 DEF Settled
    <3>2. CASE ~helper.job.live
      BY <1>0, <2>5, <3>2 DEF Settled
    <3>3. CASE helper.job.live /\ enforcer'.stage # "replied"
      BY <1>0, <2>5, <3>3 DEF Settled
    <3> QED
      BY <3>1, <3>2, <3>3
  <2> QED
    BY <2>6, <2>7, <2>8, <2>9, <2>10, <2>11 DEF EnforcementIInv
<1>8. CASE HelperRestarts
  <2> USE <1>8 DEF HelperRestarts
  <2>1. /\ enforcer' \in Enforcing \cup {None}
        /\ enforcer' = None <=> enforcer = None
        /\ enforcer' = enforcer \/ (/\ enforcer'.stage \in {"calling", "failed"}
                                    /\ enforcer'.stage = "calling" => enforcer'.attempt < Retries)
        /\ enforcer # None => enforcer'.stage # "waiting"
    BY <1>1, AfterFailureFacts, NoneAssumption
  <2>2. last' \in [outcome : {"none", "ok", "restored", "broken"}, spared : SUBSET IP]
    BY <1>0 DEF EnforcementTypeOK
  <2>3. EnforcementTypeOK'
    BY <1>0, <2>1, <2>2 DEF EnforcementTypeOK
  <2>4. AttemptsLeft'
    BY <1>0, <2>1 DEF AttemptsLeft
  <2>5. LiveIsLast' /\ HelperInOrder'
    BY DEF LiveIsLast, HelperInOrder
  <2>6. WhitelistWins'
    BY <1>0 DEF WhitelistWins
  <2>7. Settled'
    BY <1>0, <2>1 DEF Settled
  <2> QED
    BY <2>3, <2>4, <2>5, <2>6, <2>7 DEF EnforcementIInv
<1> QED
  BY <1>3, <1>4, <1>5, <1>6, <1>7, <1>8

LEMMA EnforcementIInvStep ==
    EnforcementIInv /\ [EnforcementNext]_enforcementVars => EnforcementIInv'
<1> SUFFICES ASSUME EnforcementIInv, [EnforcementNext]_enforcementVars
             PROVE  EnforcementIInv'
  OBVIOUS
<1>0. /\ EnforcementTypeOK /\ AttemptsLeft /\ LiveIsLast
      /\ HelperInOrder /\ WhitelistWins /\ Settled
  BY DEF EnforcementIInv
<1>1. CASE WorldStep
  <2>1. EnforcementTypeOK' /\ UNCHANGED <<enforcer, status, queue, helper, last, tables, emptied>>
    BY <1>0, <1>1, WorldStepType
  <2>2. AttemptsLeft' /\ LiveIsLast' /\ HelperInOrder' /\ WhitelistWins' /\ Settled'
    BY <1>0, <2>1 DEF AttemptsLeft, LiveIsLast, IsAwaited, HelperInOrder, WhitelistWins, Settled
  <2> QED
    BY <2>1, <2>2 DEF EnforcementIInv
<1>2. CASE FilterReloads
  <2> USE <1>2 DEF FilterReloads
  <2>1. tables' = NoTables /\ NoTables \in Tables /\ \A f \in Family : NoTables[f] = {}
    BY DEF NoTables, Tables
  <2>2. 4 \in Family /\ 6 \in Family /\ MaxPolicies \in Nat
    BY EnforcementAssumption DEF Family
  <2>3. EnforcementTypeOK'
    BY <1>0, <2>1, <2>2 DEF EnforcementTypeOK
  <2>4. HelperInOrder' /\ WhitelistWins'
    BY <1>0, <2>1, <2>2 DEF HelperInOrder, WhitelistWins
  <2>5. AttemptsLeft' /\ LiveIsLast' /\ Settled'
    BY <1>0 DEF AttemptsLeft, LiveIsLast, IsAwaited, Settled
  <2> QED
    BY <2>3, <2>4, <2>5 DEF EnforcementIInv
<1>3. CASE MachineReboots
  <2> USE <1>3 DEF MachineReboots
  <2>1. tables' \in Tables /\ MaxPolicies \in Nat
    BY EnforcementAssumption DEF NoTables, Tables
  <2>2. EnforcementTypeOK'
    BY <1>0, <2>1 DEF EnforcementTypeOK
  <2>3. /\ AttemptsLeft' /\ LiveIsLast' /\ HelperInOrder'
        /\ WhitelistWins' /\ Settled'
    BY DEF AttemptsLeft, LiveIsLast, HelperInOrder, WhitelistWins, Settled
  <2> QED
    BY <2>2, <2>3 DEF EnforcementIInv
<1>4. CASE UNCHANGED enforcementVars
  BY <1>0, <1>4 DEF enforcementVars, EnforcementIInv, EnforcementTypeOK, AttemptsLeft,
                    LiveIsLast, IsAwaited, HelperInOrder, WhitelistWins, Settled
<1> QED
  BY <1>1, <1>2, <1>3, <1>4, EnforcerActionStep, HelperActionStep DEF EnforcementNext, WorldStep

THEOREM EnforcementInvariant == EnforcementSpec => []EnforcementIInv
  BY EnforcementIInvInit, EnforcementIInvStep, PTL DEF EnforcementSpec

-----------------------------------------------------------------------------
(***************************************************************************)
(* What holds whatever goes wrong.                                         *)
(***************************************************************************)

\* Type correctness of enforcement, of the queue and of the helper: no attempt
\* is made beyond HelperClient.retries, and every table stays a set of
\* addresses.
THEOREM EnforcementTypeCorrect == EnforcementSpec => []EnforcementTypeOK
<1>1. EnforcementIInv => EnforcementTypeOK
  BY DEF EnforcementIInv
<1> QED
  BY <1>1, EnforcementInvariant, PTL

\* PFUpdater.replace never leaves, nor puts back, an address that was
\* whitelisted when it began, unless the way back failed as well: this holds
\* with every fault, filter reloads included.
THEOREM WhitelistWinsHolds == EnforcementSpec => []WhitelistWins
<1>1. EnforcementIInv => WhitelistWins
  BY DEF EnforcementIInv
<1> QED
  BY <1>1, EnforcementInvariant, PTL

\* At most one request has a client, and it is the last one: a request given
\* up by an attempt, an enforcement or a process that died is served before
\* the answer that a later one waits for.
THEOREM LiveIsLastHolds == EnforcementSpec => []LiveIsLast
<1>1. EnforcementIInv => LiveIsLast
  BY DEF EnforcementIInv
<1> QED
  BY <1>1, EnforcementInvariant, PTL

-----------------------------------------------------------------------------
(***************************************************************************)
(* What is known of the tables.  A filter reload or a reboot empties them  *)
(* behind the back of both processes, and the server learns of it no       *)
(* sooner than in the next round of _periodic: from the emptying to the    *)
(* next replacement nothing is claimed.                                    *)
(***************************************************************************)

LEMMA TablesAsReportedStep ==
    EnforcementIInv /\ TablesAsReported /\ [EnforcementNext]_enforcementVars
        => TablesAsReported'
<1> SUFFICES ASSUME EnforcementIInv, TablesAsReported, [EnforcementNext]_enforcementVars
             PROVE  TablesAsReported'
  OBVIOUS
<1> USE DEF worldVars
<1>0. /\ EnforcementTypeOK /\ LiveIsLast /\ HelperInOrder /\ Settled
  BY DEF EnforcementIInv
<1>1. /\ helper # None => helper \in Replacing
      /\ enforcer # None => enforcer \in Enforcing
      /\ queue \in Seq(Job) /\ tables \in Tables
  BY <1>0 DEF EnforcementTypeOK
<1>2. CASE WorldStep \/ UNCHANGED enforcementVars
  <2>1. UNCHANGED <<enforcer, status, queue, helper, last, tables, emptied>>
    BY <1>0, <1>2, WorldStepType DEF enforcementVars
  <2> QED
    BY <2>1 DEF TablesAsReported, Wanted
<1>3. CASE FilterReloads \/ MachineReboots
  BY <1>3 DEF FilterReloads, MachineReboots, TablesAsReported
<1>4. ASSUME NEW t \in Thread, EnforceBegins(t)
      PROVE  TablesAsReported'
  BY <1>4 DEF EnforceBegins, Unconfirmed, TablesAsReported, Wanted
<1>5. CASE WhitelistReloads
  <2> USE <1>5 DEF WhitelistReloads
  <2>1. enforcer'.stage # "replied"
    BY <1>1 DEF Enforcing
  <2> QED
    BY <2>1 DEF TablesAsReported, Wanted
<1>6. CASE HelperCalled
  <2> USE <1>6 DEF HelperCalled
  <2>1. enforcer'.stage # "replied"
    BY <1>1 DEF Enforcing
  <2> QED
    BY <2>1 DEF TablesAsReported, Wanted
<1>7. CASE ConnectFails
  <2> USE <1>7 DEF ConnectFails
  <2>1. enforcer'.stage # "replied"
    BY <1>1 DEF AfterFailure, Enforcing
  <2> QED
    BY <2>1 DEF TablesAsReported, Wanted
<1>8. CASE AttemptTimesOut
  <2> USE <1>8 DEF AttemptTimesOut
  <2>1. enforcer'.stage # "replied"
    BY <1>1, AfterFailureFacts
  <2>2. helper \in Replacing \cup {None}
    BY <1>1
  <2> QED
    BY <2>1, <2>2, OrphanedHelperFacts DEF TablesAsReported, Wanted
<1>9. CASE EnforceSucceeds
  <2> USE <1>9 DEF EnforceSucceeds, EnforceEnds
  <2>1. ~emptied => tables = enforcer.applied
    BY DEF TablesAsReported
  <2>2. status'.outcome = "ok" /\ ~emptied' => tables' = status'.applied
    BY <2>1 DEF TablesAsReported
  <2> QED
    BY <2>2 DEF TablesAsReported, Wanted
<1>10. CASE EnforceFails
  <2> USE <1>10 DEF EnforceFails, EnforceEnds, Unconfirmed
  <2>1. status'.outcome = "ok" /\ ~emptied' => tables' = status'.applied
    BY DEF TablesAsReported
  <2> QED
    BY <2>1 DEF TablesAsReported, Wanted
<1>11. CASE ServerRestarts
  <2> USE <1>11 DEF ServerRestarts
  <2>1. helper \in Replacing \cup {None}
    BY <1>1
  <2> QED
    BY <2>1, OrphanedHelperFacts DEF TablesAsReported, Wanted
<1>12. CASE HelperAccepts
  <2> USE <1>12 DEF HelperAccepts
  <2>1. helper'.at = 4 /\ helper'.step = "apply"
    OBVIOUS
  <2>2. status.outcome # "ok" /\ ~(enforcer # None /\ enforcer.stage = "replied")
    BY <1>0 DEF Settled
  <2> QED
    BY <2>1, <2>2 DEF TablesAsReported
<1>13. CASE HelperRefuses
  <2> USE <1>13 DEF HelperRefuses
  <2>1. Head(queue) = queue[1] /\ Head(queue) \in Job
    BY <1>1
  <2>2. queue[1].live => IsAwaited(queue[1])
    BY <1>0, <1>1, ServedInOrder
  <2>3. NoTables \in Tables
    BY DEF NoTables, Tables
  <2>4. enforcer' = enforcer \/ enforcer'.stage # "replied"
    BY <1>0, <2>1, <2>2, <2>3, ReplyFacts
  <2> QED
    BY <2>4 DEF TablesAsReported
<1>14. ASSUME NEW step \in {"apply", "undo"}, NEW f \in Family, PfReplaces(step, f)
       PROVE  TablesAsReported'
  <2> USE <1>14 DEF PfReplaces
  <2>1. helper \in Replacing /\ helper.step # "reply" /\ helper.at \in {4, 6}
        /\ helper # None
    BY <1>1 DEF Family
  <2>2. /\ helper'.outcome = helper.outcome /\ Wanted(helper)' = Wanted(helper)
        /\ helper'.step = IF helper.at = 4 THEN helper.step ELSE "reply"
    BY <2>1, HelperGoesOn DEF Wanted
  <2>3. status.outcome # "ok" /\ ~(enforcer # None /\ enforcer.stage = "replied")
    BY <1>0, <2>1 DEF Settled
  <2>4. helper.outcome = "ok" => helper.step = "apply"
    BY <1>0, <2>1 DEF HelperInOrder
  <2>5. helper.outcome = "ok" => tables' = [tables EXCEPT ![helper.at] = Wanted(helper)[helper.at]]
    BY <2>1, <2>4, ContentFacts
  <2>6. DOMAIN tables = {4, 6}
    BY <1>1 DEF Tables, Family
  <2>7. CASE helper.at = 4
    BY <2>1, <2>2, <2>3, <2>5, <2>6, <2>7 DEF TablesAsReported
  <2>8. CASE helper.at = 6
    BY <2>1, <2>2, <2>3, <2>5, <2>6, <2>8 DEF TablesAsReported
  <2> QED
    BY <2>1, <2>7, <2>8
<1>15. CASE PfFails
  <2> USE <1>15 DEF PfFails
  <2>1. helper \in Replacing /\ helper.step # "reply" /\ helper # None
    BY <1>1
  <2>2. helper'.outcome # "ok"
    BY <2>1, HelperGoesOn DEF Replacing
  <2>3. status.outcome # "ok" /\ ~(enforcer # None /\ enforcer.stage = "replied")
    BY <1>0, <2>1 DEF Settled
  <2> QED
    BY <2>2, <2>3 DEF TablesAsReported
<1>16. CASE HelperReplies
  <2> USE <1>16 DEF HelperReplies
  <2>1. /\ helper \in Replacing /\ helper # None /\ helper.job \in Job
        /\ helper.step = "reply" /\ helper.at = 6
    BY <1>0, <1>1 DEF Replacing, HelperInOrder
  <2>2. Reply(helper.job, helper.outcome = "ok", Wanted(helper))
    BY DEF Wanted
  <2>3. helper.job.live => IsAwaited(helper.job)
    BY <1>0 DEF LiveIsLast
  <2>4. Wanted(helper) \in Tables
    BY <2>1, AppliedType
  <2>5. status.outcome # "ok" /\ ~(enforcer # None /\ enforcer.stage = "replied")
    BY <1>0, <2>1 DEF Settled
  <2>6. CASE enforcer' # None /\ enforcer'.stage = "replied"
    <3>1. /\ helper.outcome = "ok" /\ enforcer # None
          /\ enforcer' = [enforcer EXCEPT !.stage = "replied", !.applied = Wanted(helper)]
      BY <1>0, <2>1, <2>2, <2>3, <2>4, <2>5, <2>6, ReplyFacts
    <3>2. enforcer'.applied = Wanted(helper)
      BY <1>1, <3>1 DEF Enforcing
    <3>3. ~emptied => tables[4] = Wanted(helper)[4] /\ tables[6] = Wanted(helper)[6]
      BY <2>1, <3>1 DEF TablesAsReported
    <3>4. ~emptied => tables = Wanted(helper)
      BY <1>1, <2>4, <3>3 DEF Tables, Family
    <3> QED
      BY <2>5, <3>2, <3>4 DEF TablesAsReported
  <2>7. CASE ~(enforcer' # None /\ enforcer'.stage = "replied")
    BY <2>5, <2>7 DEF TablesAsReported
  <2> QED
    BY <2>6, <2>7
<1>17. CASE HelperRestarts
  <2> USE <1>17 DEF HelperRestarts
  <2>1. enforcer' = enforcer \/ enforcer'.stage # "replied"
    BY <1>1, AfterFailureFacts
  <2> QED
    BY <2>1 DEF TablesAsReported
<1> QED
  BY <1>2, <1>3, <1>4, <1>5, <1>6, <1>7, <1>8, <1>9, <1>10, <1>11, <1>12, <1>13,
     <1>14, <1>15, <1>16, <1>17 DEF EnforcementNext, WorldStep

LEMMA TablesAsReportedInit == EnforcementInit => TablesAsReported
  BY DEF EnforcementInit, TablesAsReported

\* An enforcement that has its answer finds the tables as they were asked for.
LEMMA SuccessIsWholeStep ==
    ASSUME EnforcementIInv, TablesAsReported, EnforceSucceeds, ~emptied
    PROVE  tables = ByFamily((enforcer.desired \ enforcer.index) \ last.spared)
  BY DEF EnforcementIInv, Settled, TablesAsReported, EnforceSucceeds

\* A recorded success is about the tables as they are, unless a filter reload
\* or a reboot emptied them after the helper's last replacement began: no
\* timeout, no death of the server, of the helper or of the machine and no
\* failing pfctl or SQLite call lets an old request change the tables after the
\* record, or an old record outlive the next replacement, whatever record the
\* database held at the start.
THEOREM StatusIsTrueHolds == EnforcementSpec => []StatusIsTrue
<1>1. TablesAsReported => StatusIsTrue
  BY DEF TablesAsReported, StatusIsTrue
<1> QED
  BY <1>1, EnforcementInvariant, TablesAsReportedInit, TablesAsReportedStep, PTL
     DEF EnforcementSpec

\* An enforcement succeeds only when both tables hold exactly the addresses it
\* read, without those one of the processes found whitelisted, unless a filter
\* reload emptied them after the replacement began.
THEOREM SuccessIsWholeHolds == EnforcementSpec => SuccessIsWhole
<1>1. EnforcementIInv /\ TablesAsReported /\ [EnforcementNext]_enforcementVars
        => [EnforceSucceeds /\ ~emptied =>
              tables = ByFamily((enforcer.desired \ enforcer.index) \ last.spared)]_enforcementVars
  BY SuccessIsWholeStep
<1> QED
  BY <1>1, EnforcementInvariant, TablesAsReportedInit, TablesAsReportedStep, PTL
     DEF EnforcementSpec, SuccessIsWhole
=============================================================================
