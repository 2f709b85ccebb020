----------------------------- MODULE HostProofs -----------------------------
(***************************************************************************)
(* Theorems about a Fail2Ban host, for every set of jails and addresses,   *)
(* any size of the outbox and any number of attempts and changes.          *)
(*                                                                         *)
(* The argument follows the fence of the snapshot command.  As long as the *)
(* sequence is the one it observed, what it has read is still good: the    *)
(* ids (IdsStillGood), and the enumeration, which can differ from          *)
(* Fail2Ban's list only where a hook is still to run that will move the    *)
(* sequence, or where a change was lost (EnumerationStillGood).            *)
(***************************************************************************)
EXTENDS Fail2BanHost, SenderProofs

\* The ids a snapshot command may hold.
IdChoice == UNION {[K -> BanId] : K \in SUBSET Key}

SnapshotProcess ==
    [phase : Phases, attempt : 0 .. (MaxAttempts - 1), observed : 0 .. MaxSeq,
     todo : SUBSET Jail, found : SUBSET Key,
     candidate : IdChoice, calm : BOOLEAN]

\* Fail2Ban has made the change of every hook that runs.
HookMatchesList ==
    \A j \in Jail : hook[j] # NoHook =>
        /\ hook[j].key[1] = j
        /\ hook[j].op = "ban" <=> hook[j].key \in banned

Fenced == snap.observed = seq[Self]
Enumerating == snap.phase \in {"enumerate", "identify", "commit"}

\* How far the snapshot command is.
SnapshotInOrder ==
    /\ snap.observed <= seq[Self]
    /\ Enumerating => \A k \in snap.found : k[1] \notin snap.todo
    /\ snap.phase \in {"identify", "commit"} => snap.todo = {}
    /\ snap.phase = "commit" => DOMAIN snap.candidate = snap.found
    /\ snap.calm => Enumerating

IdsStillGood == snap.phase = "commit" /\ Fenced => Prepared(Self, snap.candidate)

\* The keys whose jail was enumerated and for which that answer is not right.
Outdated == {k \in Key : k[1] \notin snap.todo /\ ~(k \in snap.found <=> k \in banned)}

EnumerationStillGood ==
    Enumerating /\ Fenced =>
        \A k \in Outdated : k \in missed \/ (Pending(k) /\ k \in Mismatch)

CalmIsCalm ==
    snap.calm => Outdated = {} /\ \A j \in Jail : hook[j] = NoHook

HostIInv ==
    /\ HostTypeOK
    /\ snap \in SnapshotProcess
    /\ SenderIInv
    /\ HookMatchesList
    /\ SnapshotInOrder
    /\ IdsStillGood
    /\ ClaimsFollowFail2Ban
    /\ EnumerationStillGood
    /\ CalmIsCalm

-----------------------------------------------------------------------------
(***************************************************************************)
(* The snapshot process.                                                   *)
(***************************************************************************)

LEMMA IdChoiceFacts ==
    /\ \A f \in IdChoice : DOMAIN f \subseteq Key /\ \A k \in DOMAIN f : f[k] \in BanId
    /\ \A K \in SUBSET Key : [K -> BanId] \subseteq IdChoice
  BY DEF IdChoice

LEMMA ProcessFacts ==
    ASSUME NEW p \in SnapshotProcess
    PROVE  /\ p.phase \in Phases
           /\ p.attempt \in 0 .. (MaxAttempts - 1)
           /\ p.observed \in 0 .. MaxSeq
           /\ p.todo \subseteq Jail
           /\ p.found \subseteq Key
           /\ p.candidate \in IdChoice
           /\ DOMAIN p.candidate \subseteq Key
           /\ \A k \in DOMAIN p.candidate : p.candidate[k] \in BanId
           /\ p.calm \in BOOLEAN
<1>1. p.candidate \in IdChoice
  BY DEF SnapshotProcess
<1> QED
  BY <1>1, IdChoiceFacts DEF SnapshotProcess

LEMMA HostFacts ==
    /\ Client = {Self} /\ Self \in Client
    /\ MaxAttempts \in Nat /\ MaxAttempts # 0
    /\ MaxChanges \in Nat
    /\ MaxSeq \in Nat
  BY HostAssumption, SequenceFacts

LEMMA NoSnapIsProcess ==
    /\ NoSnap \in SnapshotProcess
    /\ NoSnap.phase = "idle" /\ NoSnap.observed = 0 /\ NoSnap.calm = FALSE
    /\ LET p == [NoSnap EXCEPT !.phase = "observe"] IN
          p \in SnapshotProcess /\ p.phase = "observe" /\ p.observed = 0 /\ p.calm = FALSE
    /\ \A n \in 0 .. (MaxAttempts - 1) :
          LET p == [NoSnap EXCEPT !.phase = "observe", !.attempt = n] IN
          p \in SnapshotProcess /\ p.phase = "observe" /\ p.observed = 0 /\ p.calm = FALSE
<1>1. [k \in {} |-> k] \in IdChoice
  BY DEF IdChoice
<1>2. 0 \in 0 .. (MaxAttempts - 1) /\ 0 \in 0 .. MaxSeq
  BY HostFacts
<1>3. NoSnap \in SnapshotProcess
  BY <1>1, <1>2 DEF NoSnap, SnapshotProcess, Phases
<1> QED
  BY <1>3 DEF NoSnap, SnapshotProcess, Phases

LEMMA HostTypeFollows ==
    ASSUME SenderTypeOK, snap \in SnapshotProcess, banned \subseteq Key,
           hook \in [Jail -> Hook \cup {NoHook}], changes \in 0 .. MaxChanges,
           missed \subseteq Key
    PROVE  HostTypeOK
  BY ProcessFacts DEF HostTypeOK

LEMMA KeyFacts == \A k \in Key : k[1] \in Jail /\ k[2] \in IP
  BY DEF Key

LEMMA HostIInvInit == HostInit => HostIInv
<1> SUFFICES ASSUME HostInit PROVE HostIInv
  OBVIOUS
<1>1. SenderIInv
  BY SenderIInvInit DEF HostInit
<1>2. snap \in SnapshotProcess /\ snap.phase = "idle" /\ snap.observed = 0 /\ snap.calm = FALSE
  BY NoSnapIsProcess DEF HostInit
<1>3. HostTypeOK
  BY <1>1, <1>2, HostTypeFollows, HostFacts DEF HostInit, SenderIInv
<1>4. seq[Self] = 0 /\ \A k \in Key : rows[Self][k] = NoRow
  BY HostFacts DEF HostInit, SenderInit
<1> QED
  BY <1>1, <1>2, <1>3, <1>4
     DEF HostInit, HostIInv, HookMatchesList, SnapshotInOrder, Enumerating, IdsStillGood,
         ClaimsFollowFail2Ban, Mismatch, IsActive, EnumerationStillGood, CalmIsCalm

-----------------------------------------------------------------------------
(***************************************************************************)
(* The invariant is inductive: Fail2Ban and its hooks.                     *)
(***************************************************************************)

LEMMA DiffersFacts ==
    ASSUME NEW table, NEW list, NEW k \in Key
    PROVE  k \in {m \in Key : IsActive(table, m) # (m \in list)}
              <=> ~(IsActive(table, k) <=> k \in list)
<1>1. IsActive(table, k) \in BOOLEAN /\ (k \in list) \in BOOLEAN
  BY DEF IsActive
<1> QED
  BY <1>1

LEMMA MismatchFacts ==
    \A k \in Key :
        /\ k \in Mismatch <=> ~(IsActive(rows[Self], k) <=> k \in banned)
        /\ k \in Mismatch' <=> ~(IsActive(rows'[Self], k) <=> k \in banned')
  BY DiffersFacts DEF Mismatch

LEMMA HostParts ==
    ASSUME HostIInv
    PROVE  /\ SenderIInv /\ HookMatchesList /\ SnapshotInOrder /\ IdsStillGood
           /\ ClaimsFollowFail2Ban /\ EnumerationStillGood /\ CalmIsCalm
           /\ snap \in SnapshotProcess
           /\ banned \subseteq Key
           /\ hook \in [Jail -> Hook \cup {NoHook}]
           /\ changes \in 0 .. MaxChanges
           /\ missed \subseteq Key
  BY DEF HostIInv, HostTypeOK

\* The snapshot process only learns that Fail2Ban moved.
LEMMA ChangedFacts ==
    ASSUME HostIInv, Changed
    PROVE  /\ snap' \in SnapshotProcess
           /\ snap'.phase = snap.phase /\ snap'.observed = snap.observed
           /\ snap'.todo = snap.todo /\ snap'.found = snap.found
           /\ snap'.candidate = snap.candidate
           /\ snap'.calm = FALSE
           /\ changes' \in 0 .. MaxChanges
<1>1. snap \in SnapshotProcess /\ changes \in 0 .. MaxChanges /\ MaxChanges \in Nat
  BY HostParts, HostFacts
<1>2. snap' = [snap EXCEPT !.calm = FALSE] /\ changes' = changes + 1 /\ changes < MaxChanges
  BY DEF Changed
<1>3. changes' \in 0 .. MaxChanges
  BY <1>1, <1>2
<1>4. snap' \in SnapshotProcess
  BY <1>1, <1>2 DEF SnapshotProcess
<1>5. /\ snap'.phase = snap.phase /\ snap'.observed = snap.observed
      /\ snap'.todo = snap.todo /\ snap'.found = snap.found
      /\ snap'.candidate = snap.candidate
      /\ snap'.calm = FALSE
  BY <1>1, <1>2 DEF SnapshotProcess
<1> QED
  BY <1>3, <1>4, <1>5

\* Fail2Ban changes its list: each key stays as it is, is remembered as missed,
\* or gets the hook that will tell the sender.
LEMMA ListChanges ==
    ASSUME HostIInv, Changed, UNCHANGED senderVars,
           banned' \subseteq Key, hook' \in [Jail -> Hook \cup {NoHook}],
           missed' \subseteq Key, missed \subseteq missed', HookMatchesList',
           \A k \in Key :
              \/ (k \in banned' <=> k \in banned) /\ (Pending(k) => Pending(k)')
              \/ k \in missed'
              \/ ~Pending(k) /\ Pending(k)' /\ ~(k \in banned' <=> k \in banned)
    PROVE  HostIInv'
<1>0. /\ SenderIInv /\ SnapshotInOrder /\ IdsStillGood
      /\ ClaimsFollowFail2Ban /\ EnumerationStillGood
  BY HostParts
<1>1. /\ snap' \in SnapshotProcess
      /\ snap'.phase = snap.phase /\ snap'.observed = snap.observed
      /\ snap'.todo = snap.todo /\ snap'.found = snap.found
      /\ snap'.candidate = snap.candidate
      /\ snap'.calm = FALSE
      /\ changes' \in 0 .. MaxChanges
  BY ChangedFacts
<1>2. UNCHANGED <<seq, rows, outbox, drawn>>
  BY DEF senderVars
<1>3. SenderIInv' /\ SenderTypeOK'
  BY <1>0, <1>2 DEF SenderIInv, SenderTypeOK, IdsAreDrawn, IdsAreUnique, SequencesAreUnique
<1>4. HostTypeOK'
  <2>1. snap'.attempt \in 0 .. (MaxAttempts - 1)
    BY <1>1, ProcessFacts
  <2> QED
    BY <1>1, <1>3, <2>1, ProcessFacts DEF HostTypeOK
<1>5. SnapshotInOrder'
  BY <1>0, <1>1, <1>2 DEF SnapshotInOrder, Enumerating
<1>6. IdsStillGood'
  BY <1>0, <1>1, <1>2 DEF IdsStillGood, Fenced, Prepared, IsActive
<1>7. \A k \in Key :
        /\ k \in Mismatch <=> ~(IsActive(rows[Self], k) <=> k \in banned)
        /\ k \in Mismatch' <=> ~(IsActive(rows[Self], k) <=> k \in banned')
  BY <1>2, MismatchFacts
<1>8. \A k \in Key : k \in Mismatch => Pending(k) \/ k \in missed
  BY <1>0 DEF ClaimsFollowFail2Ban
<1>9. \A k \in Key : k \in Mismatch' => Pending(k)' \/ k \in missed'
  BY <1>7, <1>8
<1>10. ClaimsFollowFail2Ban'
  BY <1>9 DEF ClaimsFollowFail2Ban, Mismatch
<1>11. EnumerationStillGood'
  <2>1. SUFFICES ASSUME Enumerating, Fenced, NEW k \in Key, k[1] \notin snap.todo,
                        ~(k \in snap.found <=> k \in banned'), k \notin missed'
                 PROVE  Pending(k)' /\ k \in Mismatch'
    BY <1>1, <1>2 DEF EnumerationStillGood, Enumerating, Fenced, Outdated
  <2>2. CASE (k \in banned' <=> k \in banned) /\ (Pending(k) => Pending(k)')
    <3>1. k \in Outdated /\ k \notin missed
      BY <2>1, <2>2 DEF Outdated
    <3>2. Pending(k) /\ k \in Mismatch
      BY <1>0, <2>1, <3>1 DEF EnumerationStillGood
    <3> QED
      BY <1>7, <2>2, <3>2
  <2>3. CASE ~Pending(k) /\ Pending(k)' /\ ~(k \in banned' <=> k \in banned)
    <3>1. k \notin Mismatch
      BY <1>8, <2>1, <2>3
    <3> QED
      BY <1>7, <2>3, <3>1
  <2> QED
    BY <2>1, <2>2, <2>3
<1>12. CalmIsCalm'
  BY <1>1 DEF CalmIsCalm
<1> QED
  BY <1>1, <1>3, <1>4, <1>5, <1>6, <1>10, <1>11, <1>12 DEF HostIInv

LEMMA Fail2BanStep ==
    ASSUME HostIInv,
           \/ \E k \in Key : Fail2BanBans(k) \/ Fail2BanUnbans(k)
           \/ \E j \in Jail : Fail2BanFlushes(j)
    PROVE  HostIInv'
<1>0. /\ HookMatchesList
      /\ banned \subseteq Key /\ missed \subseteq Key
      /\ hook \in [Jail -> Hook \cup {NoHook}]
  BY HostParts
<1>1. ASSUME NEW k \in Key, NEW op \in {"ban", "unban"}, hook[k[1]] = NoHook,
             hook' = [hook EXCEPT ![k[1]] = [op |-> op, key |-> k]],
             k \in banned' <=> op = "ban", ~(k \in banned' <=> k \in banned),
             \A m \in Key : m # k => (m \in banned' <=> m \in banned),
             Changed, UNCHANGED <<senderVars, missed>>, banned' \subseteq Key
      PROVE  HostIInv'
  <2> DEFINE h == [op |-> op, key |-> k]
  <2>1. h \in Hook /\ h # NoHook /\ h.op = op /\ h.key = k
    <3>1. h \in Hook
      BY DEF Hook
    <3> QED
      BY <3>1, NoHookAssumption
  <2>2. hook' = [hook EXCEPT ![k[1]] = h]
    BY <1>1
  <2> HIDE DEF h
  <2>3. k[1] \in Jail
    BY KeyFacts
  <2>4. /\ hook' \in [Jail -> Hook \cup {NoHook}]
        /\ hook'[k[1]] = h
        /\ \A j \in Jail : j # k[1] => hook'[j] = hook[j]
    BY <1>0, <2>1, <2>2, <2>3
  <2>5. HookMatchesList'
    <3>1. \A j \in Jail : j # k[1] /\ hook[j] # NoHook =>
              hook[j].key \in Key /\ hook[j].key # k
      BY <1>0 DEF HookMatchesList, Hook
    <3> QED
      BY <1>0, <1>1, <2>1, <2>4, <3>1 DEF HookMatchesList
  <2>6. Pending(k)' /\ ~Pending(k)
    BY <1>1, <2>1, <2>4 DEF Pending
  <2>7. \A m \in Key : m # k /\ Pending(m) => Pending(m)'
    BY <1>1, <2>4, KeyFacts DEF Pending
  <2> QED
    BY <1>0, <1>1, <2>4, <2>5, <2>6, <2>7, ListChanges
<1>2. ASSUME NEW k \in Key, Fail2BanBans(k)
      PROVE  HostIInv'
  BY <1>0, <1>1, <1>2 DEF Fail2BanBans
<1>3. ASSUME NEW k \in Key, Fail2BanUnbans(k)
      PROVE  HostIInv'
  BY <1>0, <1>1, <1>3 DEF Fail2BanUnbans
<1>4. ASSUME NEW j \in Jail, Fail2BanFlushes(j)
      PROVE  HostIInv'
  <2> USE <1>4 DEF Fail2BanFlushes
  <2>1. HookMatchesList'
    BY <1>0 DEF HookMatchesList
  <2>2. \A k \in Key : (k \in banned' <=> k \in banned) \/ k \in missed'
    BY <1>0
  <2>3. \A k \in Key : Pending(k)' <=> Pending(k)
    BY DEF Pending
  <2> QED
    BY <1>0, <2>1, <2>2, <2>3, ListChanges
<1> QED
  BY <1>2, <1>3, <1>4

\* A hook ends: its key is as it should be, or remembered as missed; and the
\* sequence moves unless no claim changed.
LEMMA HookEnds ==
    ASSUME HostIInv, SenderIInv', NEW j \in Jail, hook[j] # NoHook,
           hook' = [hook EXCEPT ![j] = NoHook],
           UNCHANGED <<banned, snap, changes>>,
           missed' \subseteq Key, missed \subseteq missed',
           \A m \in Key : m # hook[j].key => rows'[Self][m] = rows[Self][m],
           \/ hook[j].key \in missed'
           \/ IsActive(rows'[Self], hook[j].key) <=> hook[j].key \in banned,
           UNCHANGED <<seq, rows>> \/ seq' = [seq EXCEPT ![Self] = @ + 1]
    PROVE  HostIInv'
<1> DEFINE k == hook[j].key
<1>0. /\ SenderIInv /\ HookMatchesList /\ SnapshotInOrder /\ IdsStillGood
      /\ ClaimsFollowFail2Ban /\ EnumerationStillGood /\ CalmIsCalm
      /\ snap \in SnapshotProcess
      /\ banned \subseteq Key
      /\ hook \in [Jail -> Hook \cup {NoHook}]
      /\ changes \in 0 .. MaxChanges
  BY HostParts
<1>1. k \in Key /\ k[1] = j
  BY <1>0 DEF HookMatchesList, Hook
<1>2. /\ hook' \in [Jail -> Hook \cup {NoHook}]
      /\ hook'[j] = NoHook
      /\ \A i \in Jail : i # j => hook'[i] = hook[i]
  BY <1>0
<1>3. \A m \in Key : m # k /\ Pending(m) => Pending(m)'
  <2>1. SUFFICES ASSUME NEW m \in Key, m # k, Pending(m)
                 PROVE  Pending(m)'
    OBVIOUS
  <2>2. m[1] # j /\ m[1] \in Jail
    BY <2>1, KeyFacts DEF Pending
  <2> QED
    BY <1>2, <2>1, <2>2 DEF Pending
<1>4. seq[Self] \in Nat /\ seq \in [Client -> 0 .. MaxSeq] /\ Self \in Client
      /\ snap.observed \in Nat
  BY <1>0, HostFacts, ProcessFacts DEF SenderIInv, SenderTypeOK
<1>5. /\ snap.observed <= seq'[Self]
      /\ Fenced' => UNCHANGED <<seq, rows>> /\ Fenced
  BY <1>0, <1>4 DEF SnapshotInOrder, Fenced
<1> HIDE DEF k
<1>6. HostTypeOK'
  BY <1>0, <1>2, ProcessFacts DEF HostTypeOK, SenderIInv
<1>7. HookMatchesList'
  BY <1>0, <1>2 DEF HookMatchesList
<1>8. SnapshotInOrder'
  BY <1>0, <1>5 DEF SnapshotInOrder, Enumerating
<1>9. IdsStillGood'
  BY <1>0, <1>5 DEF IdsStillGood, Prepared, IsActive, Fenced
<1>10. \A m \in Key : m \in Mismatch' => Pending(m)' \/ m \in missed'
  <2>1. SUFFICES ASSUME NEW m \in Key, m \in Mismatch', m \notin missed'
                 PROVE  Pending(m)'
    OBVIOUS
  <2>2. m # k
    BY <2>1, MismatchFacts DEF k
  <2>3. m \in Mismatch
    BY <2>1, <2>2, MismatchFacts DEF k, IsActive
  <2> QED
    BY <1>0, <1>3, <2>1, <2>2, <2>3 DEF ClaimsFollowFail2Ban
<1>11. ClaimsFollowFail2Ban'
  BY <1>10 DEF ClaimsFollowFail2Ban, Mismatch
<1>12. EnumerationStillGood'
  <2>1. SUFFICES ASSUME Enumerating, Fenced', NEW m \in Key, m \in Outdated, m \notin missed'
                 PROVE  Pending(m)' /\ m \in Mismatch'
    BY DEF EnumerationStillGood, Enumerating, Outdated
  <2>2. Fenced /\ UNCHANGED <<seq, rows>>
    BY <1>5, <2>1
  <2>3. Pending(m) /\ m \in Mismatch
    BY <1>0, <2>1, <2>2 DEF EnumerationStillGood
  <2>4. m \in Mismatch'
    BY <2>2, <2>3, MismatchFacts
  <2>5. m # k
    BY <2>1, <2>4, MismatchFacts DEF k
  <2> QED
    BY <1>3, <2>3, <2>4, <2>5
<1>13. CalmIsCalm'
  BY <1>0 DEF CalmIsCalm
<1> QED
  BY <1>0, <1>6, <1>7, <1>8, <1>9, <1>11, <1>12, <1>13 DEF HostIInv

LEMMA HookStep ==
    ASSUME HostIInv, NEW j \in Jail, HookRuns(j) \/ HookFails(j)
    PROVE  HostIInv'
<1> DEFINE k == hook[j].key
           op == hook[j].op
<1>0. /\ SenderIInv /\ HookMatchesList
      /\ hook \in [Jail -> Hook \cup {NoHook}]
      /\ missed \subseteq Key /\ Self \in Client
  BY HostParts, HostFacts
<1>1. hook[j] # NoHook
  BY DEF HookRuns, HookFails
<1>2. k \in Key /\ op \in {"ban", "unban"} /\ (op = "ban" <=> k \in banned)
  BY <1>0, <1>1 DEF HookMatchesList, Hook
<1> HIDE DEF k, op
<1>3. CASE HookRuns(j)
  <2>1. Enqueue(Self, op, k) /\ hook' = [hook EXCEPT ![j] = NoHook]
        /\ UNCHANGED <<banned, snap, changes, missed>>
    BY <1>3 DEF HookRuns, k, op
  <2>2. /\ SenderIInv'
        /\ \A m \in Key : m # k => rows'[Self][m] = rows[Self][m]
        /\ IsActive(rows'[Self], k) <=> op = "ban"
        /\ UNCHANGED <<seq, rows>> \/ seq' = [seq EXCEPT ![Self] = @ + 1]
    BY <1>0, <1>2, <2>1, EnqueueStep
  <2> QED
    BY <1>0, <1>1, <1>2, <2>1, <2>2, HookEnds DEF k
<1>4. CASE HookFails(j)
  <2>1. /\ missed' = missed \cup {k} /\ hook' = [hook EXCEPT ![j] = NoHook]
        /\ UNCHANGED <<banned, snap, changes>>
        /\ EnqueueRefused(Self, op, k) \/ UNCHANGED senderVars
    BY <1>4 DEF HookFails, k, op
  <2>2. SenderIInv' /\ UNCHANGED <<seq, rows>>
    <3>1. CASE EnqueueRefused(Self, op, k)
      BY <1>0, <3>1, EnqueueNothingStep
    <3>2. CASE UNCHANGED senderVars
      BY <1>0, <3>2 DEF senderVars, SenderIInv, SenderTypeOK, IdsAreDrawn, IdsAreUnique,
                        SequencesAreUnique
    <3> QED
      BY <2>1, <3>1, <3>2
  <2> QED
    BY <1>0, <1>1, <1>2, <2>1, <2>2, HookEnds DEF k
<1> QED
  BY <1>3, <1>4

-----------------------------------------------------------------------------
(***************************************************************************)
(* The invariant is inductive: the snapshot command and the worker.        *)
(***************************************************************************)

\* A step that changes no claim, no sequence and nothing of Fail2Ban.
LEMMA QuietStep ==
    ASSUME HostIInv, SenderIInv', UNCHANGED <<seq, rows, fail2banVars>>,
           snap' \in SnapshotProcess, SnapshotInOrder', IdsStillGood',
           EnumerationStillGood', CalmIsCalm'
    PROVE  HostIInv'
<1>0. /\ HookMatchesList /\ ClaimsFollowFail2Ban
      /\ banned \subseteq Key
      /\ hook \in [Jail -> Hook \cup {NoHook}]
      /\ changes \in 0 .. MaxChanges
      /\ missed \subseteq Key
  BY HostParts
<1>1. HostTypeOK'
  BY <1>0, ProcessFacts DEF HostTypeOK, SenderIInv, fail2banVars
<1>2. HookMatchesList' /\ ClaimsFollowFail2Ban'
  BY <1>0 DEF HookMatchesList, ClaimsFollowFail2Ban, Mismatch, Pending, IsActive, fail2banVars
<1> QED
  BY <1>1, <1>2 DEF HostIInv

\* The snapshot process starts over or ends: it holds nothing it has read.
LEMMA ProcessResets ==
    ASSUME HostIInv, snap' \in SnapshotProcess, snap'.phase \in {"idle", "observe"},
           snap'.observed = 0, snap'.calm = FALSE, seq'[Self] \in Nat
    PROVE  SnapshotInOrder' /\ IdsStillGood' /\ EnumerationStillGood' /\ CalmIsCalm'
  BY DEF SnapshotInOrder, IdsStillGood, EnumerationStillGood, Enumerating, CalmIsCalm

LEMMA SequenceIsNat == SenderIInv => seq[Self] \in 0 .. MaxSeq /\ seq[Self] \in Nat
  BY HostFacts DEF SenderIInv, SenderTypeOK

LEMMA SnapshotProcessStep ==
    ASSUME HostIInv,
           \/ SnapshotStarts \/ EnumerationFails \/ SnapshotRaces \/ SnapshotRefused
    PROVE  HostIInv'
<1>0. SenderIInv /\ snap \in SnapshotProcess
  BY HostParts
<1>1. UNCHANGED <<seq, rows, drawn, fail2banVars>>
  BY DEF SnapshotStarts, EnumerationFails, SnapshotRaces, SnapshotRefused, senderVars
<1>2. SenderIInv'
  <2>1. CASE SnapshotStarts
    BY <1>0, <2>1, PruneKeeps, HostFacts DEF SnapshotStarts
  <2>2. CASE UNCHANGED senderVars
    BY <1>0, <2>2 DEF senderVars, SenderIInv, SenderTypeOK, IdsAreDrawn, IdsAreUnique,
                      SequencesAreUnique
  <2> QED
    BY <2>1, <2>2 DEF EnumerationFails, SnapshotRaces, SnapshotRefused
<1>3. /\ snap' \in SnapshotProcess /\ snap'.phase \in {"idle", "observe"}
      /\ snap'.observed = 0 /\ snap'.calm = FALSE
  <2>1. CASE SnapshotStarts
    BY <2>1, NoSnapIsProcess DEF SnapshotStarts
  <2>2. CASE snap' = NoSnap
    BY <2>2, NoSnapIsProcess
  <2>3. CASE /\ snap.attempt + 1 < MaxAttempts
             /\ snap' = [NoSnap EXCEPT !.phase = "observe", !.attempt = snap.attempt + 1]
    <3>1. snap.attempt + 1 \in 0 .. (MaxAttempts - 1)
      BY <1>0, <2>3, ProcessFacts, HostFacts
    <3> QED
      BY <2>3, <3>1, NoSnapIsProcess
  <2> QED
    BY <2>1, <2>2, <2>3 DEF EnumerationFails, SnapshotRaces, SnapshotRefused
<1>4. seq'[Self] \in Nat
  BY <1>0, <1>1, SequenceIsNat
<1> QED
  BY <1>1, <1>2, <1>3, <1>4, ProcessResets, QuietStep

LEMMA ObserveStep ==
    ASSUME HostIInv, ObserveSeq
    PROVE  HostIInv'
<1> USE DEF ObserveSeq
<1>0. SenderIInv /\ snap \in SnapshotProcess
  BY HostParts
<1> DEFINE calm == \A j \in Jail : hook[j] = NoHook
<1>1. seq[Self] \in 0 .. MaxSeq /\ calm \in BOOLEAN
  BY <1>0, SequenceIsNat
<1>2. snap' = [snap EXCEPT !.phase = "enumerate", !.observed = seq[Self], !.todo = Jail,
                           !.found = {}, !.calm = calm]
  OBVIOUS
<1> HIDE DEF calm
<1>3. snap' \in SnapshotProcess
  BY <1>0, <1>1, <1>2 DEF SnapshotProcess, Phases
<1>4. /\ snap'.phase = "enumerate" /\ snap'.observed = seq[Self]
      /\ snap'.todo = Jail /\ snap'.found = {} /\ snap'.calm = calm
  BY <1>0, <1>2 DEF SnapshotProcess
<1>5. UNCHANGED <<seq, rows, outbox, drawn, fail2banVars>>
  BY DEF senderVars
<1>6. SenderIInv'
  BY <1>0, <1>5 DEF SenderIInv, SenderTypeOK, IdsAreDrawn, IdsAreUnique, SequencesAreUnique
<1>7. Outdated' = {}
  BY <1>4, KeyFacts DEF Outdated
<1>8. seq[Self] \in Nat
  BY <1>0, SequenceIsNat
<1>9. SnapshotInOrder' /\ IdsStillGood'
  BY <1>4, <1>5, <1>8 DEF SnapshotInOrder, Enumerating, IdsStillGood
<1>10. EnumerationStillGood' /\ CalmIsCalm'
  BY <1>4, <1>5, <1>7 DEF EnumerationStillGood, CalmIsCalm, calm, fail2banVars
<1> QED
  BY <1>3, <1>5, <1>6, <1>9, <1>10, QuietStep

\* One more jail is enumerated: for its keys the answer is Fail2Ban's list.
LEMMA EnumerateStep ==
    ASSUME HostIInv, NEW j \in Jail, EnumerateJail(j)
    PROVE  HostIInv'
<1> USE DEF EnumerateJail
<1>0. /\ SenderIInv /\ snap \in SnapshotProcess /\ banned \subseteq Key
      /\ SnapshotInOrder /\ EnumerationStillGood /\ CalmIsCalm
  BY HostParts
<1> DEFINE more == {k \in banned : k[1] = j}
           phase == IF snap.todo = {j} THEN "identify" ELSE "enumerate"
<1>1. snap' = [snap EXCEPT !.todo = snap.todo \ {j}, !.found = snap.found \cup more,
                           !.phase = phase]
  OBVIOUS
<1>2. more \subseteq Key /\ phase \in {"identify", "enumerate"}
      /\ (phase = "identify" => snap.todo = {j})
      /\ \A k \in Key : k \in more <=> k \in banned /\ k[1] = j
  BY <1>0
<1> HIDE DEF more, phase
<1>3. snap' \in SnapshotProcess
  <2>1. snap.todo \ {j} \in SUBSET Jail /\ snap.found \cup more \in SUBSET Key /\ phase \in Phases
    BY <1>0, <1>2, ProcessFacts DEF Phases
  <2> QED
    BY <1>0, <1>1, <2>1 DEF SnapshotProcess
<1>4. /\ snap'.phase = phase /\ snap'.observed = snap.observed /\ snap'.calm = snap.calm
      /\ snap'.todo = snap.todo \ {j} /\ snap'.found = snap.found \cup more
  BY <1>0, <1>1 DEF SnapshotProcess
<1>5. UNCHANGED <<seq, rows, outbox, drawn, fail2banVars, banned, hook, missed>>
  BY DEF senderVars, fail2banVars
<1>6. SenderIInv'
  BY <1>0, <1>5 DEF SenderIInv, SenderTypeOK, IdsAreDrawn, IdsAreUnique, SequencesAreUnique
<1>7. snap.found \subseteq Key /\ \A k \in snap.found : k[1] \notin snap.todo
  BY <1>0, ProcessFacts DEF SnapshotInOrder, Enumerating
<1>8. Outdated' \subseteq Outdated
  <2>1. SUFFICES ASSUME NEW k \in Key, k[1] \notin snap'.todo,
                        ~(k \in snap'.found <=> k \in banned)
                 PROVE  k \in Outdated
    BY <1>5 DEF Outdated
  <2>2. k[1] # j
    <3>1. CASE k[1] = j
      BY <1>2, <1>4, <1>7, <2>1, <3>1
    <3> QED
      BY <3>1
  <2>3. k \in snap'.found <=> k \in snap.found
    BY <1>2, <1>4, <2>2
  <2> QED
    BY <1>4, <2>1, <2>2, <2>3 DEF Outdated
<1>9. SnapshotInOrder'
  <2>1. snap.observed <= seq'[Self] /\ snap.phase = "enumerate"
    BY <1>0, <1>5 DEF SnapshotInOrder
  <2>2. \A k \in snap'.found : k[1] \notin snap'.todo
    BY <1>2, <1>4, <1>7
  <2>3. snap'.phase = "identify" => snap'.todo = {}
    BY <1>2, <1>4
  <2> QED
    BY <1>2, <1>4, <2>1, <2>2, <2>3 DEF SnapshotInOrder, Enumerating
<1>10. IdsStillGood'
  BY <1>2, <1>4 DEF IdsStillGood
<1>11. EnumerationStillGood'
  <2>1. \A k \in Outdated' : k \in Outdated /\ k \in Key
    BY <1>8 DEF Outdated
  <2>2. Enumerating /\ (Fenced' <=> Fenced)
    BY <1>4, <1>5 DEF Enumerating, Fenced
  <2> QED
    BY <1>0, <1>5, <2>1, <2>2 DEF EnumerationStillGood, Pending, Mismatch, IsActive
<1>12. CalmIsCalm'
  BY <1>0, <1>4, <1>5, <1>8 DEF CalmIsCalm
<1> QED
  BY <1>3, <1>5, <1>6, <1>9, <1>10, <1>11, <1>12, QuietStep

LEMMA IdentifyStep ==
    ASSUME HostIInv, Identify
    PROVE  HostIInv'
<1>0. /\ SenderIInv /\ snap \in SnapshotProcess /\ snap.found \subseteq Key /\ Self \in Client
      /\ SnapshotInOrder /\ EnumerationStillGood /\ CalmIsCalm
  BY HostParts, ProcessFacts, HostFacts
<1>1. PICK f \in Candidates(Self, snap.found) :
          /\ snap' = [snap EXCEPT !.candidate = f, !.phase = "commit"]
          /\ drawn' = [drawn EXCEPT ![Self] = @ \cup {f[k] : k \in snap.found}]
  BY DEF Identify
<1>2. /\ snap.phase = "identify"
      /\ UNCHANGED <<seq, rows, outbox, fail2banVars, banned, hook, missed>>
  BY DEF Identify, fail2banVars
<1>3. DOMAIN f = snap.found /\ Prepared(Self, f)
  BY <1>0, CandidatesPrepared
<1>4. f \in IdChoice /\ \A k \in snap.found : f[k] \in BanId
  BY <1>0, <1>3, IdChoiceFacts DEF Prepared
<1>5. snap' \in SnapshotProcess
  BY <1>0, <1>1, <1>4 DEF SnapshotProcess, Phases
<1>6. /\ snap'.phase = "commit" /\ snap'.candidate = f
      /\ snap'.observed = snap.observed /\ snap'.calm = snap.calm
      /\ snap'.todo = snap.todo /\ snap'.found = snap.found
  BY <1>0, <1>1 DEF SnapshotProcess
<1>7. drawn \in [Client -> SUBSET BanId]
  BY <1>0 DEF SenderIInv, SenderTypeOK
<1>8. drawn' \in [Client -> SUBSET BanId] /\ \A c \in Client : drawn[c] \subseteq drawn'[c]
  BY <1>0, <1>1, <1>4, <1>7
<1>9. SenderIInv'
  BY <1>0, <1>2, <1>8
     DEF SenderIInv, SenderTypeOK, IdsAreDrawn, IdsAreUnique, SequencesAreUnique
<1>10. SnapshotInOrder'
  BY <1>0, <1>2, <1>3, <1>6 DEF SnapshotInOrder, Enumerating
<1>11. IdsStillGood'
  BY <1>2, <1>3, <1>6 DEF IdsStillGood, Prepared, IsActive
<1>12. EnumerationStillGood' /\ CalmIsCalm'
  BY <1>0, <1>2, <1>6
     DEF EnumerationStillGood, CalmIsCalm, Enumerating, Fenced, Outdated, Pending, Mismatch,
         IsActive
<1> QED
  BY <1>2, <1>5, <1>9, <1>10, <1>11, <1>12, QuietStep

\* What the snapshot's transaction does, under the fence.
LEMMA CommitFacts ==
    ASSUME HostIInv, SnapshotCommits
    PROVE  /\ SenderIInv'
           /\ snap.phase = "commit" /\ Fenced
           /\ seq' = [seq EXCEPT ![Self] = @ + 1]
           /\ \A k \in Key : IsActive(rows'[Self], k) <=> k \in snap.found
           /\ FreshIds(Self)
           /\ snap' = NoSnap
           /\ UNCHANGED <<fail2banVars, banned, hook, changes, missed>>
<1>0. SenderIInv /\ IdsStillGood /\ SnapshotInOrder /\ Self \in Client
  BY HostParts, HostFacts
<1>1. /\ snap.phase = "commit"
      /\ EnqueueSnapshot(Self, snap.candidate, snap.observed)
      /\ snap' = NoSnap
      /\ UNCHANGED <<fail2banVars, banned, hook, changes, missed>>
  BY DEF SnapshotCommits, fail2banVars
<1>2. Fenced
  BY <1>1 DEF EnqueueSnapshot, FenceHolds, Fenced
<1>3. Prepared(Self, snap.candidate) /\ DOMAIN snap.candidate = snap.found
  BY <1>0, <1>1, <1>2 DEF IdsStillGood, SnapshotInOrder
<1> QED
  BY <1>0, <1>1, <1>2, <1>3, EnqueueSnapshotStep

\* The difference between the two sides after a snapshot is what its
\* enumeration had wrong.
LEMMA CommitLeaves ==
    ASSUME HostIInv, SnapshotCommits
    PROVE  Mismatch' = Outdated
<1>1. /\ \A k \in Key : IsActive(rows'[Self], k) <=> k \in snap.found
      /\ UNCHANGED banned /\ snap.phase = "commit"
  BY CommitFacts
<1>2. snap.todo = {}
  BY <1>1, HostParts DEF SnapshotInOrder
<1>3. \A k \in Key : k \in Mismatch' <=> k \in Outdated
  BY <1>1, <1>2, MismatchFacts DEF Outdated
<1>4. Mismatch' \subseteq Key /\ Outdated \subseteq Key
  BY DEF Mismatch, Outdated
<1> QED
  BY <1>3, <1>4

LEMMA SnapshotCommitStep ==
    ASSUME HostIInv, SnapshotCommits
    PROVE  HostIInv'
<1>0. /\ SenderIInv /\ HookMatchesList /\ EnumerationStillGood
      /\ banned \subseteq Key
      /\ hook \in [Jail -> Hook \cup {NoHook}]
      /\ changes \in 0 .. MaxChanges
      /\ missed \subseteq Key
  BY HostParts
<1>1. /\ SenderIInv'
      /\ snap.phase = "commit" /\ Fenced
      /\ snap' = NoSnap
      /\ UNCHANGED <<banned, hook, changes, missed>>
  BY CommitFacts
<1>2. /\ snap' \in SnapshotProcess /\ snap'.phase = "idle"
      /\ snap'.observed = 0 /\ snap'.calm = FALSE
  BY <1>1, NoSnapIsProcess
<1>3. HostTypeOK'
  BY <1>0, <1>1, <1>2, ProcessFacts DEF HostTypeOK, SenderIInv
<1>4. HookMatchesList'
  BY <1>0, <1>1 DEF HookMatchesList
<1>5. \A k \in Mismatch' : k \in missed \/ Pending(k)
  BY <1>0, <1>1, CommitLeaves DEF EnumerationStillGood, Enumerating
<1>6. ClaimsFollowFail2Ban'
  BY <1>1, <1>5 DEF ClaimsFollowFail2Ban, Pending
<1>7. seq'[Self] \in Nat
  BY <1>1, HostFacts DEF SenderIInv, SenderTypeOK
<1>8. SnapshotInOrder' /\ IdsStillGood' /\ EnumerationStillGood' /\ CalmIsCalm'
  BY <1>2, <1>7, ProcessResets
<1> QED
  BY <1>1, <1>2, <1>3, <1>4, <1>6, <1>8 DEF HostIInv

LEMMA DeliveryStep ==
    ASSUME HostIInv, RowDelivered
    PROVE  HostIInv'
<1>0. /\ SenderIInv /\ SnapshotInOrder /\ IdsStillGood /\ EnumerationStillGood /\ CalmIsCalm
      /\ snap \in SnapshotProcess /\ Self \in Client
  BY HostParts, HostFacts
<1>1. PICK r \in NextDue(Self) : MarkDelivered(Self, r.seq)
  BY DEF RowDelivered
<1>2. SenderIInv' /\ UNCHANGED <<seq, rows>>
  BY <1>0, <1>1, MarkDeliveredKeeps DEF MarkDelivered
<1>3. UNCHANGED <<fail2banVars, snap, banned, hook, missed>>
  BY DEF RowDelivered, fail2banVars
<1>4. SnapshotInOrder' /\ IdsStillGood'
  BY <1>0, <1>2, <1>3 DEF SnapshotInOrder, Enumerating, IdsStillGood, Fenced, Prepared, IsActive
<1>5. EnumerationStillGood' /\ CalmIsCalm'
  BY <1>0, <1>2, <1>3
     DEF EnumerationStillGood, CalmIsCalm, Enumerating, Fenced, Outdated, Pending, Mismatch,
         IsActive
<1> QED
  BY <1>0, <1>2, <1>3, <1>4, <1>5, QuietStep

LEMMA HostIInvStep == HostIInv /\ [HostNext]_hostVars => HostIInv'
<1> SUFFICES ASSUME HostIInv, [HostNext]_hostVars
             PROVE  HostIInv'
  OBVIOUS
<1>1. CASE UNCHANGED hostVars
  BY <1>1 DEF hostVars, HostIInv, HostTypeOK, SenderIInv, SenderTypeOK, IdsAreDrawn, IdsAreUnique,
              SequencesAreUnique, HookMatchesList, SnapshotInOrder, Enumerating, IdsStillGood,
              Fenced, Prepared, IsActive, ClaimsFollowFail2Ban, Mismatch, Pending,
              EnumerationStillGood, Outdated, CalmIsCalm
<1> QED
  BY <1>1, Fail2BanStep, HookStep, SnapshotProcessStep, ObserveStep, EnumerateStep, IdentifyStep,
     SnapshotCommitStep, DeliveryStep DEF HostNext

THEOREM HostInvariant == HostSpec => []HostIInv
  BY HostIInvInit, HostIInvStep, PTL DEF HostSpec

-----------------------------------------------------------------------------
(***************************************************************************)
(* Theorems.                                                               *)
(***************************************************************************)

\* Type correctness of the host: the store, the hooks and the snapshot
\* process, which never makes more attempts than MaxAttempts.
THEOREM HostTypeCorrect == HostSpec => []HostTypeOK
<1>1. HostIInv => HostTypeOK
  BY DEF HostIInv
<1> QED
  BY <1>1, HostInvariant, PTL

\* UNIQUE (jail, ban_id) and UNIQUE (seq) never fire in the sender's database,
\* although ids are chosen before the transaction that stores them.
THEOREM SenderKeysUniqueHolds == HostSpec => []SenderKeysUnique
<1>1. HostIInv => SenderKeysUnique
  BY SenderIInvKeys DEF HostIInv
<1> QED
  BY <1>1, HostInvariant, PTL

\* The sender's claims and Fail2Ban's list differ only where a hook is still to
\* run, or where a change never reached the sender.
THEOREM ClaimsFollowFail2BanHolds == HostSpec => []ClaimsFollowFail2Ban
<1>1. HostIInv => ClaimsFollowFail2Ban
  BY DEF HostIInv
<1> QED
  BY <1>1, HostInvariant, PTL

LEMMA FreshIdsStep ==
    ASSUME HostIInv, HostNext
    PROVE  FreshIds(Self)
<1>0. SenderIInv /\ HookMatchesList /\ Self \in Client
      /\ hook \in [Jail -> Hook \cup {NoHook}]
  BY HostParts, HostFacts
<1>1. CASE SnapshotCommits
  BY <1>1, CommitFacts
<1>2. ASSUME NEW j \in Jail, HookRuns(j)
      PROVE  FreshIds(Self)
  <2>1. Enqueue(Self, hook[j].op, hook[j].key) /\ hook[j] # NoHook
    BY <1>2 DEF HookRuns
  <2>2. hook[j].op \in {"ban", "unban"} /\ hook[j].key \in Key
    BY <1>0, <2>1 DEF Hook
  <2> QED
    BY <1>0, <2>1, <2>2, EnqueueStep
<1>3. ASSUME NEW j \in Jail, HookFails(j)
      PROVE  FreshIds(Self)
  <2>1. UNCHANGED rows
    BY <1>3 DEF HookFails, EnqueueRefused, senderVars
  <2> QED
    BY <2>1, QuietIsFresh
<1>4. CASE \/ \E k \in Key : Fail2BanBans(k) \/ Fail2BanUnbans(k)
           \/ \E j \in Jail : Fail2BanFlushes(j) \/ EnumerateJail(j)
           \/ SnapshotStarts \/ ObserveSeq \/ EnumerationFails \/ Identify
           \/ SnapshotRaces \/ SnapshotRefused \/ RowDelivered
  <2>1. UNCHANGED rows
    BY <1>4 DEF Fail2BanBans, Fail2BanUnbans, Fail2BanFlushes, EnumerateJail, SnapshotStarts,
                ObserveSeq, EnumerationFails, Identify, SnapshotRaces, SnapshotRefused,
                RowDelivered, MarkDelivered, senderVars
  <2> QED
    BY <2>1, QuietIsFresh
<1> QED
  BY <1>1, <1>2, <1>3, <1>4 DEF HostNext

\* A claim that is taken up again never gets the id it had before, nor the id
\* of any other row: an old unban cannot release it.
THEOREM ReBanGetsFreshIdentityHolds == HostSpec => ReBanGetsFreshIdentity
<1> DEFINE A == \A c \in Client, k \in Key :
                   /\ rows[c][k] # NoRow
                   /\ ~IsActive(rows[c], k)
                   /\ IsActive(rows[c], k)'
                   => rows[c][k].ban # rows[c][k].ban'
<1>1. HostIInv /\ [HostNext]_hostVars => [A]_senderVars
  <2>1. SUFFICES ASSUME HostIInv, HostNext
                 PROVE  A
    BY DEF hostVars, senderVars
  <2>2. FreshIds(Self)
    BY <2>1, FreshIdsStep
  <2> QED
    BY <2>2, HostFacts DEF FreshIds, IsActive
<1> QED
  BY <1>1, HostInvariant, PTL DEF HostSpec, ReBanGetsFreshIdentity

\* A snapshot during which Fail2Ban changed nothing leaves no difference.
THEOREM CalmSnapshotReconcilesHolds == HostSpec => CalmSnapshotReconciles
<1>1. HostIInv /\ [HostNext]_hostVars => [SnapshotCommits /\ snap.calm => Mismatch' = {}]_hostVars
  <2>1. SUFFICES ASSUME HostIInv, SnapshotCommits, snap.calm
                 PROVE  Mismatch' = {}
    OBVIOUS
  <2>2. Outdated = {}
    BY <2>1, HostParts DEF CalmIsCalm
  <2> QED
    BY <2>1, <2>2, CommitLeaves
<1> QED
  BY <1>1, HostInvariant, PTL DEF HostSpec, CalmSnapshotReconciles

\* What the comment at the snapshot command promises, as far as it is true: of
\* the addresses that are banned, a snapshot releases none whose changes all
\* reached the sender or still will.
KeepsWhatItFollowed ==
    [][SnapshotCommits =>
          \A k \in banned \ missed : Pending(k) \/ IsActive(rows'[Self], k)]_hostVars

THEOREM KeepsWhatItFollowedHolds == HostSpec => KeepsWhatItFollowed
<1>1. HostIInv /\ [HostNext]_hostVars =>
        [SnapshotCommits =>
            \A k \in banned \ missed : Pending(k) \/ IsActive(rows'[Self], k)]_hostVars
  <2>1. SUFFICES ASSUME HostIInv, SnapshotCommits, NEW k \in banned, k \notin missed, ~Pending(k)
                 PROVE  IsActive(rows'[Self], k)
    OBVIOUS
  <2>2. k \in Key /\ EnumerationStillGood /\ SnapshotInOrder
    BY <2>1, HostParts
  <2>3. snap.phase = "commit" /\ Fenced /\ (IsActive(rows'[Self], k) <=> k \in snap.found)
    BY <2>1, <2>2, CommitFacts
  <2>4. k \notin Outdated
    BY <2>1, <2>2, <2>3 DEF EnumerationStillGood, Enumerating
  <2>5. k[1] \notin snap.todo
    BY <2>2, <2>3 DEF SnapshotInOrder
  <2> QED
    BY <2>1, <2>2, <2>3, <2>4, <2>5 DEF Outdated
<1> QED
  BY <1>1, HostInvariant, PTL DEF HostSpec, KeepsWhatItFollowed
=============================================================================
