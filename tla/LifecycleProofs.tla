--------------------------- MODULE LifecycleProofs ---------------------------
(***************************************************************************)
(* What the procedures of Lifecycle keep, for any number of web pages,     *)
(* configurations and aliases, and whatever fails.                         *)
(*                                                                         *)
(* A procedure is the sequence of the steps it still has to do, so the     *)
(* inductive invariant speaks of positions.  Reading: the steps that use   *)
(* what a resynchronization read stand in front, and it read something     *)
(* valid.  Inside: of the process that holds the filter lock, nothing up   *)
(* to the step that gives it up asks for a reload, and each step that may  *)
(* fail has, still inside, the end of the attempt to disable the service   *)
(* that the failure leads to.                                              *)
(*                                                                         *)
(* The second half proves ServesWhatIsSaved, for one page.                 *)
(***************************************************************************)
EXTENDS Lifecycle, WellFoundedInduction, TLAPS

WhatIsRead == [config : Config, alias : AliasContent]

\* The steps of f2bguard_resync_config that use what it has read.
Using == {"whitelist", "pems", "json"}

Valid(r) == r \in WhatIsRead /\ r.config.clients # Bad /\ r.alias # Bad

ReadFits(s, r) ==
    \A i \in 1 .. Len(s) :
        /\ s[i] \in Using => /\ Valid(r)
                             /\ \A j \in 1 .. i - 1 : s[j] \in Using \ {"json"}
        /\ s[i] = "refresh" => i = 1 /\ r \in WhatIsRead

\* What may be done inside a reload, and what may fail there.
InsideSteps == {"callback", "refresh", "disable", "flagNo", "stopServer", "stopHelper",
                "check", "flagNoAnyway", "disabled"}
MayFail == {"flagNo", "stopServer", "stopHelper", "check"}

Inside(s) ==
    \E u \in 1 .. Len(s) :
        /\ s[u] = "unlock"
        /\ \A j \in 1 .. u - 1 :
              /\ s[j] \in InsideSteps
              /\ s[j] \in MayFail => \E e \in j + 1 .. u - 1 : s[e] = "disabled"

ControlFits ==
    /\ todo \in [Process -> Seq(Step)]
    /\ read \in [Process -> WhatIsRead \cup {None}]
    /\ lock \in Process \cup {None}
    /\ \A p \in Process : ReadFits(todo[p], read[p])
    /\ \A p \in Process : lock = p => Inside(todo[p])

StateFits ==
    /\ config \in Config
    /\ alias \in AliasContent
    /\ json \in Clients \cup {None}
    /\ flag \in {"YES", "NO"}
    /\ snapshot \in Alias
    /\ helper \in {"down", "up"}
    /\ server \in {"down", "starting", "up"}
    /\ serving \in Clients \cup {None}
    /\ failed \in [Process -> BOOLEAN]
    /\ pending \in BOOLEAN
    /\ spoiled \in BOOLEAN
    /\ saves \in 0 .. MaxSaves
    /\ changes \in 0 .. MaxAliasChanges

LifecycleIInv == StateFits /\ ControlFits

-----------------------------------------------------------------------------
(***************************************************************************)
(* Sequences of steps.                                                     *)
(***************************************************************************)

\* Steps that use nothing that was read.
Plain(s) == s \in Seq(Step \ (Using \cup {"refresh"}))

\* Steps that may be put before the rest of a reload: what may fail there has
\* an end of its own.
Contained(s) ==
    /\ s \in Seq(InsideSteps)
    /\ \A j \in 1 .. Len(s) : s[j] \in MayFail => \E e \in j + 1 .. Len(s) : s[e] = "disabled"

LEMMA SequenceOver ==
    ASSUME NEW S, NEW T, NEW s \in Seq(S), \A i \in 1 .. Len(s) : s[i] \in T
    PROVE  s \in Seq(T)
<1> QED
  OBVIOUS

LEMMA PlainFits ==
    ASSUME NEW s, Plain(s), NEW r
    PROVE  s \in Seq(Step) /\ ReadFits(s, r)
<1>1. \A i \in 1 .. Len(s) : s[i] \in Step /\ s[i] \notin Using /\ s[i] # "refresh"
  BY DEF Plain
<1> QED
  BY <1>1 DEF Plain, ReadFits

\* The steps of two sequences, one after the other.
LEMMA Joined ==
    ASSUME NEW a \in Seq(Step), NEW b \in Seq(Step)
    PROVE  /\ a \o b \in Seq(Step) /\ Len(a \o b) = Len(a) + Len(b)
           /\ \A i \in 1 .. Len(a) : (a \o b)[i] = a[i]
           /\ \A i \in 1 .. Len(a \o b) :
                 i \notin 1 .. Len(a) => i - Len(a) \in 1 .. Len(b) /\ (a \o b)[i] = b[i - Len(a)]
<1>1. a \o b \in Seq(Step) /\ Len(a \o b) = Len(a) + Len(b) /\ Len(a) \in Nat /\ Len(b) \in Nat
  OBVIOUS
<1>2. ASSUME NEW i \in 1 .. Len(a) PROVE (a \o b)[i] = a[i]
  OBVIOUS
<1>3. ASSUME NEW i \in 1 .. Len(a \o b), i \notin 1 .. Len(a)
      PROVE  i - Len(a) \in 1 .. Len(b) /\ (a \o b)[i] = b[i - Len(a)]
  <2>1. i - Len(a) \in 1 .. Len(b)
    BY <1>1, <1>3
  <2>2. (a \o b)[i] = b[i - Len(a)]
    BY <1>1, <1>3
  <2> QED
    BY <2>1, <2>2
<1> QED
  BY <1>1, <1>2, <1>3

LEMMA PlainJoins ==
    ASSUME NEW a, NEW b, Plain(a), Plain(b)
    PROVE  Plain(a \o b)
<1> QED
  BY DEF Plain

\* The rest after a step that uses nothing read, or after the last that does.
LEMMA RestIsPlain ==
    ASSUME NEW s \in Seq(Step), NEW r, ReadFits(s, r), s # <<>>,
           Head(s) \notin Using \/ Head(s) = "json"
    PROVE  Plain(Tail(s))
<1>1. ASSUME NEW i \in 1 .. Len(Tail(s))
      PROVE  Tail(s)[i] \in Step \ (Using \cup {"refresh"})
  <2>1. /\ Len(s) \in Nat /\ i + 1 \in 1 .. Len(s) /\ Tail(s)[i] = s[i + 1] /\ i + 1 # 1
        /\ 1 \in 1 .. (i + 1) - 1 /\ Head(s) = s[1]
    OBVIOUS
  <2>2. s[i + 1] \notin Using
    BY <2>1 DEF ReadFits
  <2>3. s[i + 1] # "refresh"
    BY <2>1 DEF ReadFits
  <2> QED
    BY <2>1, <2>2, <2>3
<1>2. Tail(s) \in Seq(Step)
  OBVIOUS
<1>3. Tail(s) \in Seq(Step \ (Using \cup {"refresh"}))
  BY <1>1, <1>2, SequenceOver
<1> QED
  BY <1>3 DEF Plain

\* The rest after any step.
LEMMA RestFits ==
    ASSUME NEW s \in Seq(Step), NEW r, ReadFits(s, r), s # <<>>, Head(s) \in Using
    PROVE  Tail(s) \in Seq(Step) /\ ReadFits(Tail(s), r)
<1>1. /\ Tail(s) \in Seq(Step) /\ Len(s) \in Nat /\ Len(Tail(s)) = Len(s) - 1 /\ Head(s) = s[1]
      /\ \A i \in 1 .. Len(Tail(s)) : Tail(s)[i] = s[i + 1] /\ i + 1 \in 1 .. Len(s)
  OBVIOUS
<1>2. ASSUME NEW i \in 1 .. Len(Tail(s)), Tail(s)[i] \in Using
      PROVE  Valid(r) /\ \A j \in 1 .. i - 1 : Tail(s)[j] \in Using \ {"json"}
  <2>1. Valid(r) /\ \A j \in 1 .. (i + 1) - 1 : s[j] \in Using \ {"json"}
    BY <1>1, <1>2 DEF ReadFits
  <2>2. \A j \in 1 .. i - 1 : j \in 1 .. Len(Tail(s)) /\ j + 1 \in 1 .. (i + 1) - 1
    BY <1>1
  <2> QED
    BY <1>1, <2>1, <2>2
<1>3. ASSUME NEW i \in 1 .. Len(Tail(s))
      PROVE  Tail(s)[i] # "refresh"
  BY <1>1 DEF ReadFits
<1> QED
  BY <1>1, <1>2, <1>3 DEF ReadFits

\* A set of positions of a sequence has a first one.
LEMMA FirstOfSome ==
    ASSUME NEW T \in SUBSET Nat, T # {}
    PROVE  \E k \in T : \A l \in T : k <= l
<1> DEFINE less == {ss \in Nat \X Nat : ss[1] < ss[2]}
<1>1. IsWellFoundedOn(less, Nat)
  BY NatLessThanWellFounded DEF OpToRel
<1>2. \A l, k \in Nat : <<l, k>> \in less <=> l < k
  OBVIOUS
<1> HIDE DEF less
<1>3. \E k \in T : \A l \in T : <<l, k>> \notin less
  BY <1>1, WFMin
<1>4. PICK k \in T : \A l \in T : <<l, k>> \notin less
  BY <1>3
<1>5. \A l \in T : k <= l
  <2>1. SUFFICES ASSUME NEW l \in T PROVE k <= l
    OBVIOUS
  <2>2. l \in Nat /\ k \in Nat
    OBVIOUS
  <2>3. ~(l < k)
    BY <1>2, <1>4, <2>2
  <2> QED
    BY <2>2, <2>3
<1> QED
  BY <1>5

\* A failure drops steps from the front.
LEMMA DropIsSuffix ==
    ASSUME NEW S, NEW s \in Seq(S), NEW marks
    PROVE  \/ /\ DropTo(marks, s) = <<>> /\ \A i \in 1 .. Len(s) : s[i] \notin marks
           \/ \E k \in 1 .. Len(s) :
                 /\ s[k] \in marks /\ \A i \in 1 .. k - 1 : s[i] \notin marks
                 /\ DropTo(marks, s) = SubSeq(s, k, Len(s))
<1> DEFINE later == {i \in DOMAIN s : s[i] \in marks}
<1>1. Len(s) \in Nat /\ DOMAIN s = 1 .. Len(s)
  OBVIOUS
<1>2. CASE later = {}
  BY <1>1, <1>2 DEF DropTo
<1>3. CASE later # {}
  <2>1. \E k \in later : \A j \in later : k <= j
    <3>1. later \in SUBSET Nat
      BY <1>1
    <3> HIDE DEF later
    <3> QED
      BY <1>3, <3>1, FirstOfSome
  <2> DEFINE k == CHOOSE i \in later : \A j \in later : i <= j
  <2>2. k \in later /\ \A j \in later : k <= j
    <3> HIDE DEF later
    <3> QED
      BY <2>1
  <2>3. DropTo(marks, s) = SubSeq(s, k, Len(s))
    BY <1>3 DEF DropTo
  <2>4. k \in 1 .. Len(s) /\ s[k] \in marks
    BY <1>1, <2>2
  <2>5. ASSUME NEW i \in 1 .. k - 1 PROVE s[i] \notin marks
    <3>1. i \in 1 .. Len(s) /\ ~(k <= i)
      <4> HIDE DEF k, later
      <4> QED
        BY <1>1, <2>4
    <3>2. i \notin later
      <4> HIDE DEF k, later
      <4> QED
        BY <2>2, <3>1
    <3> QED
      BY <1>1, <3>1, <3>2
  <2> HIDE DEF k
  <2> QED
    BY <2>3, <2>4, <2>5
<1> QED
  BY <1>2, <1>3

LEMMA DropIsPlain ==
    ASSUME NEW s, Plain(s), NEW marks
    PROVE  Plain(DropTo(marks, s))
<1>1. s \in Seq(Step \ (Using \cup {"refresh"}))
  BY DEF Plain
<1>2. DropTo(marks, s) = <<>> \/ \E k \in 1 .. Len(s) : DropTo(marks, s) = SubSeq(s, k, Len(s))
  BY <1>1, DropIsSuffix
<1>3. \A k \in 1 .. Len(s) : SubSeq(s, k, Len(s)) \in Seq(Step \ (Using \cup {"refresh"}))
  BY <1>1
<1>4. <<>> \in Seq(Step \ (Using \cup {"refresh"}))
  OBVIOUS
<1> QED
  BY <1>2, <1>3, <1>4 DEF Plain

-----------------------------------------------------------------------------
(***************************************************************************)
(* Inside a reload.                                                        *)
(***************************************************************************)

LEMMA InsideHead ==
    ASSUME NEW s \in Seq(Step), Inside(s)
    PROVE  s # <<>> /\ (Head(s) = "unlock" \/ Head(s) \in InsideSteps)
<1>1. PICK u \in 1 .. Len(s) :
        s[u] = "unlock" /\ \A j \in 1 .. u - 1 : s[j] \in InsideSteps
  BY DEF Inside
<1>2. Len(s) \in Nat /\ s # <<>> /\ Head(s) = s[1]
  BY <1>1
<1>3. u = 1 \/ 1 \in 1 .. u - 1
  BY <1>1, <1>2
<1> QED
  BY <1>1, <1>2, <1>3

LEMMA InsideRest ==
    ASSUME NEW s \in Seq(Step), Inside(s), Head(s) # "unlock"
    PROVE  Inside(Tail(s))
<1> DEFINE t == Tail(s)
<1>1. PICK u \in 1 .. Len(s) :
        /\ s[u] = "unlock"
        /\ \A j \in 1 .. u - 1 :
              /\ s[j] \in InsideSteps
              /\ s[j] \in MayFail => \E e \in j + 1 .. u - 1 : s[e] = "disabled"
  BY DEF Inside
<1>2. /\ Len(s) \in Nat /\ s # <<>> /\ Head(s) = s[1] /\ Len(t) = Len(s) - 1
      /\ \A i \in 1 .. Len(t) : t[i] = s[i + 1]
  BY <1>1
<1> HIDE DEF t
<1>3. u # 1 /\ u - 1 \in 1 .. Len(t) /\ t[u - 1] = "unlock"
  BY <1>1, <1>2
<1>4. ASSUME NEW j \in 1 .. (u - 1) - 1
      PROVE  /\ t[j] \in InsideSteps
             /\ t[j] \in MayFail => \E e \in j + 1 .. (u - 1) - 1 : t[e] = "disabled"
  <2>1. j + 1 \in 1 .. u - 1 /\ t[j] = s[j + 1]
    BY <1>1, <1>2
  <2>2. ASSUME s[j + 1] \in MayFail
        PROVE  \E e \in j + 1 .. (u - 1) - 1 : t[e] = "disabled"
    <3>1. PICK f \in (j + 1) + 1 .. u - 1 : s[f] = "disabled"
      BY <1>1, <2>1, <2>2
    <3>2. f - 1 \in j + 1 .. (u - 1) - 1 /\ t[f - 1] = s[f]
      BY <1>1, <1>2, <3>1
    <3> QED
      BY <3>1, <3>2
  <2> QED
    BY <1>1, <2>1, <2>2
<1> QED
  BY <1>3, <1>4 DEF Inside, t

\* Steps may come before the rest of a reload when they bring the end that a
\* failure leads to, or when the rest begins with one.
LEMMA InsideLonger ==
    ASSUME NEW a \in Seq(InsideSteps), NEW s \in Seq(Step), Inside(s),
           Contained(a) \/ Head(s) = "disabled"
    PROVE  Inside(a \o s)
<1> DEFINE t == a \o s
           n == Len(a)
<1>1. PICK u \in 1 .. Len(s) :
        /\ s[u] = "unlock"
        /\ \A j \in 1 .. u - 1 :
              /\ s[j] \in InsideSteps
              /\ s[j] \in MayFail => \E e \in j + 1 .. u - 1 : s[e] = "disabled"
  BY DEF Inside
<1>2. /\ a \in Seq(InsideSteps) /\ n \in Nat /\ Len(s) \in Nat
      /\ \A i \in 1 .. n : a[i] \in InsideSteps
      /\ s # <<>> /\ Head(s) = s[1]
  BY <1>1
<1>3. /\ Len(t) = n + Len(s)
      /\ \A i \in 1 .. n : t[i] = a[i]
      /\ \A i \in 1 .. Len(s) : t[n + i] = s[i] /\ n + i \in 1 .. Len(t)
  BY <1>2
<1> HIDE DEF t, n
<1>4. n + u \in 1 .. Len(t) /\ t[n + u] = "unlock"
  BY <1>1, <1>3
<1>5. ASSUME NEW j \in 1 .. (n + u) - 1
      PROVE  /\ t[j] \in InsideSteps
             /\ t[j] \in MayFail => \E e \in j + 1 .. (n + u) - 1 : t[e] = "disabled"
  <2>1. CASE j \in 1 .. n
    <3>1. t[j] = a[j] /\ a[j] \in InsideSteps
      BY <1>2, <1>3, <2>1
    <3>2. ASSUME a[j] \in MayFail
          PROVE  \E e \in j + 1 .. (n + u) - 1 : t[e] = "disabled"
      <4>1. CASE Contained(a)
        <5>1. PICK e \in j + 1 .. n : a[e] = "disabled"
          BY <2>1, <3>2, <4>1 DEF Contained, n
        <5>2. e \in 1 .. n /\ e \in j + 1 .. (n + u) - 1
          BY <1>1, <1>2, <2>1, <5>1
        <5> QED
          BY <1>3, <5>1, <5>2
      <4>2. CASE Head(s) = "disabled"
        <5>1. u # 1 /\ 1 \in 1 .. Len(s) /\ s[1] = "disabled"
          BY <1>1, <1>2, <4>2
        <5>2. n + 1 \in j + 1 .. (n + u) - 1 /\ t[n + 1] = "disabled"
          BY <1>1, <1>2, <1>3, <2>1, <5>1
        <5> QED
          BY <5>2
      <4> QED
        BY <4>1, <4>2
    <3> QED
      BY <3>1, <3>2
  <2>2. CASE j \notin 1 .. n
    <3> DEFINE i == j - n
    <3>1. i \in 1 .. u - 1 /\ i \in 1 .. Len(s) /\ j = n + i
      BY <1>1, <1>2, <2>2
    <3> HIDE DEF i
    <3>2. t[j] = s[i] /\ s[i] \in InsideSteps
      BY <1>1, <1>3, <3>1
    <3>3. ASSUME s[i] \in MayFail
          PROVE  \E e \in j + 1 .. (n + u) - 1 : t[e] = "disabled"
      <4>1. PICK e \in i + 1 .. u - 1 : s[e] = "disabled"
        BY <1>1, <3>1, <3>3
      <4>2. e \in 1 .. Len(s) /\ n + e \in j + 1 .. (n + u) - 1
        BY <1>1, <1>2, <3>1, <4>1
      <4> QED
        BY <1>3, <4>1, <4>2
    <3> QED
      BY <3>2, <3>3
  <2> QED
    BY <2>1, <2>2
<1> QED
  BY <1>4, <1>5 DEF Inside, t

\* What follows a failure inside is still inside, and begins where the failure
\* is looked at.
LEMMA InsideAfterFailure ==
    ASSUME NEW s \in Seq(Step), Inside(s), Head(s) \in MayFail,
           NEW marks, Ending \subseteq marks
    PROVE  /\ Inside(DropTo(marks, Tail(s)))
           /\ Head(DropTo(marks, Tail(s))) \in marks \cap InsideSteps
<1> DEFINE t == Tail(s)
<1>1. PICK u \in 1 .. Len(s) :
        /\ s[u] = "unlock"
        /\ \A j \in 1 .. u - 1 :
              /\ s[j] \in InsideSteps
              /\ s[j] \in MayFail => \E e \in j + 1 .. u - 1 : s[e] = "disabled"
  BY DEF Inside
<1>2. /\ Len(s) \in Nat /\ s # <<>> /\ Head(s) = s[1] /\ Len(t) = Len(s) - 1 /\ t \in Seq(Step)
      /\ \A i \in 1 .. Len(t) : t[i] = s[i + 1]
  BY <1>1
<1> HIDE DEF t
<1>3. u # 1 /\ 1 \in 1 .. u - 1 /\ u - 1 \in 1 .. Len(t) /\ t[u - 1] = "unlock"
  BY <1>1, <1>2 DEF MayFail
<1>4. PICK f \in 1 + 1 .. u - 1 : s[f] = "disabled"
  BY <1>1, <1>2, <1>3
<1>5. f - 1 \in 1 .. (u - 1) - 1 /\ f - 1 \in 1 .. Len(t) /\ t[f - 1] \in marks
  BY <1>1, <1>2, <1>3, <1>4 DEF Ending
<1>6. PICK k \in 1 .. Len(t) :
        /\ t[k] \in marks /\ \A i \in 1 .. k - 1 : t[i] \notin marks
        /\ DropTo(marks, t) = SubSeq(t, k, Len(t))
  BY <1>2, <1>5, DropIsSuffix
<1>7. k <= f - 1
  <2>1. ~(f - 1 \in 1 .. k - 1)
    BY <1>5, <1>6
  <2> QED
    BY <1>4, <1>5, <1>6, <2>1
<1> DEFINE d == SubSeq(t, k, Len(t))
           v == u - k
<1>8. /\ Len(t) \in Nat /\ Len(d) = Len(t) - k + 1
      /\ \A i \in 1 .. Len(d) : d[i] = t[k + i - 1] /\ k + i - 1 \in 1 .. Len(t)
  BY <1>2, <1>6
<1> HIDE DEF d
<1>9. \A i \in 1 .. Len(d) : d[i] = s[k + i]
  <2>1. \A i \in 1 .. Len(d) : (k + i - 1) + 1 = k + i
    BY <1>6
  <2> QED
    BY <1>2, <1>8, <2>1
<1>10. v \in 1 .. Len(d) /\ k + v = u /\ u \in Nat /\ k \in Nat /\ v \in Nat
  BY <1>1, <1>2, <1>3, <1>6, <1>7, <1>8
<1> HIDE DEF v
<1>11. d[v] = "unlock"
  BY <1>1, <1>9, <1>10
<1>12. ASSUME NEW j \in 1 .. v - 1
       PROVE  /\ d[j] \in InsideSteps
              /\ d[j] \in MayFail => \E e \in j + 1 .. v - 1 : d[e] = "disabled"
  <2>1. k + j \in 1 .. u - 1 /\ d[j] = s[k + j]
    BY <1>6, <1>8, <1>9, <1>10
  <2>2. ASSUME s[k + j] \in MayFail
        PROVE  \E e \in j + 1 .. v - 1 : d[e] = "disabled"
    <3>1. PICK e \in (k + j) + 1 .. u - 1 : s[e] = "disabled"
      BY <1>1, <2>1, <2>2
    <3>2. e - k \in j + 1 .. v - 1 /\ e - k \in 1 .. Len(d) /\ k + (e - k) = e
      BY <1>6, <1>8, <1>10, <3>1
    <3> QED
      BY <1>9, <3>1, <3>2
  <2> QED
    BY <1>1, <2>1, <2>2
<1>13. Inside(d)
  BY <1>10, <1>11, <1>12 DEF Inside
<1>14. d # <<>> /\ Head(d) = s[k + 1] /\ k + 1 \in 1 .. u - 1 /\ s[k + 1] = t[k]
  <2>1. 1 \in 1 .. Len(d) /\ k + 1 \in 1 .. u - 1
    BY <1>1, <1>3, <1>4, <1>6, <1>7, <1>10
  <2>2. d # <<>> /\ Head(d) = d[1]
    <3>1. d \in Seq(Step)
      BY <1>2, <1>6 DEF d
    <3> QED
      BY <2>1, <3>1
  <2> QED
    BY <1>2, <1>6, <1>9, <2>1, <2>2
<1> QED
  BY <1>1, <1>6, <1>13, <1>14 DEF t, d

-----------------------------------------------------------------------------
(***************************************************************************)
(* The procedures.                                                         *)
(***************************************************************************)

LEMMA ProceduresArePlain ==
    /\ Plain(<<>>) /\ Plain(Stopping) /\ Plain(Starting)
    /\ Plain(Stopping \o <<"start">>)
    /\ Plain(<<"flagNoAnyway">> \o Stopping)
    /\ \A on, reload \in BOOLEAN : Plain(Applying(on, reload))
    /\ \A reload \in BOOLEAN : Plain(Disabling(reload))
<1> DEFINE P == Step \ (Using \cup {"refresh"})
<1>1. /\ <<>> \in Seq(P) /\ Stopping \in Seq(P) /\ Starting \in Seq(P) /\ <<"start">> \in Seq(P)
      /\ <<"flagNoAnyway">> \in Seq(P) /\ <<"flagYes", "restart", "check">> \in Seq(P)
      /\ <<"flagNo">> \in Seq(P) /\ <<"check">> \in Seq(P) /\ <<"reload", "check">> \in Seq(P)
      /\ <<"disable">> \in Seq(P) /\ <<"disabled">> \in Seq(P)
  BY DEF Step, Using, Stopping, Starting
<1> HIDE DEF P
<1>2. \A a, b \in Seq(P) : a \o b \in Seq(P)
  OBVIOUS
<1>3. \A on, reload \in BOOLEAN : Applying(on, reload) \in Seq(P)
  BY <1>1, <1>2 DEF Applying
<1>4. \A reload \in BOOLEAN : Disabling(reload) \in Seq(P)
  BY <1>1, <1>2, <1>3 DEF Disabling
<1> QED
  BY <1>1, <1>2, <1>3, <1>4 DEF Plain, P

\* Disabling the service inside a reload asks for none, and brings its own end.
LEMMA ProceduresAreContained ==
    /\ Contained(<<>>) /\ Contained(<<"refresh">>)
    /\ Contained(Disabling(FALSE))
    /\ <<"flagNoAnyway">> \o Stopping \in Seq(InsideSteps)
<1> DEFINE Q == InsideSteps
           R == InsideSteps \ MayFail
<1>1. <<>> \in Seq(R) /\ <<"refresh">> \in Seq(R)
  BY DEF InsideSteps, MayFail
<1>2. /\ <<>> \in Seq(Q) /\ <<"disable">> \in Seq(Q) /\ <<"flagNo">> \in Seq(Q)
      /\ <<"check">> \in Seq(Q) /\ Stopping \in Seq(Q) /\ <<"flagNoAnyway">> \in Seq(Q)
  BY DEF InsideSteps, Stopping
<1>3. \A s \in Seq(R) : Contained(s)
  BY SequenceOver DEF Contained
<1>4. ASSUME NEW s \in Seq(Q)
      PROVE  Contained(s \o <<"disabled">>)
  <2> DEFINE t == s \o <<"disabled">>
  <2>1. t \in Seq(Q) /\ Len(t) = Len(s) + 1 /\ Len(s) \in Nat
        /\ t[Len(s) + 1] = "disabled" /\ \A j \in 1 .. Len(s) : t[j] = s[j]
    BY DEF InsideSteps
  <2> HIDE DEF t
  <2>2. ASSUME NEW j \in 1 .. Len(t), t[j] \in MayFail
        PROVE  \E e \in j + 1 .. Len(t) : t[e] = "disabled"
    <3>1. j # Len(s) + 1
      BY <2>1, <2>2 DEF MayFail
    <3>2. Len(s) + 1 \in j + 1 .. Len(t)
      BY <2>1, <3>1
    <3> QED
      BY <2>1, <3>2
  <2> QED
    BY <2>1, <2>2 DEF Contained, t
<1> HIDE DEF Q, R
<1>5. \A a, b \in Seq(Q) : a \o b \in Seq(Q)
  OBVIOUS
<1>7. <<"disable">> \o Applying(FALSE, FALSE) \in Seq(Q)
  BY <1>2, <1>5 DEF Applying
<1>8. Contained(Disabling(FALSE))
  BY <1>4, <1>7 DEF Disabling
<1>9. <<"flagNoAnyway">> \o Stopping \in Seq(InsideSteps)
  BY <1>2, <1>5 DEF Q
<1> QED
  BY <1>1, <1>3, <1>8, <1>9

\* A resynchronization first writes the files from what it has read.
LEMMA FilesFirst ==
    ASSUME NEW a, Plain(a), NEW b, Plain(b), NEW r, Valid(r)
    PROVE  /\ <<"whitelist", "pems", "json">> \o a \o b \in Seq(Step)
           /\ ReadFits(<<"whitelist", "pems", "json">> \o a \o b, r)
<1> DEFINE w == <<"whitelist", "pems", "json">>
           x == w \o a
           s == x \o b
           Other == Step \ (Using \cup {"refresh"})
<1>1. /\ w \in Seq(Step) /\ Len(w) = 3
      /\ w[1] = "whitelist" /\ w[2] = "pems" /\ w[3] = "json"
  BY DEF Step
<1> HIDE DEF w
<1>2. a \in Seq(Other) /\ b \in Seq(Other) /\ Len(a) \in Nat /\ Len(b) \in Nat
      /\ a \in Seq(Step) /\ b \in Seq(Step)
  BY DEF Plain
<1>3. /\ x \in Seq(Step) /\ Len(x) = 3 + Len(a)
      /\ \A i \in 1 .. 3 : x[i] = w[i]
      /\ \A i \in 1 .. Len(x) : i \notin 1 .. 3 => i - 3 \in 1 .. Len(a) /\ x[i] = a[i - 3]
  <2>1. /\ x \in Seq(Step) /\ Len(x) = Len(w) + Len(a)
        /\ \A i \in 1 .. Len(w) : x[i] = w[i]
        /\ \A i \in 1 .. Len(x) :
              i \notin 1 .. Len(w) => i - Len(w) \in 1 .. Len(a) /\ x[i] = a[i - Len(w)]
    <3>1. w \in Seq(Step) /\ a \in Seq(Step)
      BY <1>1, <1>2
    <3> QED
      BY <3>1, Joined
  <2> HIDE DEF x
  <2> QED
    BY <1>1, <2>1
<1>4. \A i \in 1 .. Len(x) : i \notin 1 .. 3 => x[i] \in Other
  BY <1>2, <1>3
<1> HIDE DEF x
<1>5. /\ s \in Seq(Step) /\ Len(s) = Len(x) + Len(b)
      /\ \A i \in 1 .. Len(x) : s[i] = x[i]
      /\ \A i \in 1 .. Len(s) : i \notin 1 .. Len(x) => i - Len(x) \in 1 .. Len(b) /\ s[i] = b[i - Len(x)]
  <2>1. x \in Seq(Step) /\ b \in Seq(Step)
    BY <1>2, <1>3
  <2> QED
    BY <2>1, Joined
<1>6. \A i \in 1 .. Len(s) : i \notin 1 .. Len(x) => s[i] \in Other
  BY <1>2, <1>5
<1> HIDE DEF s
<1>7. ASSUME NEW i \in 1 .. Len(s), i \notin 1 .. 3
      PROVE  s[i] \in Other
  BY <1>4, <1>5, <1>6, <1>7
<1>8. 1 \in 1 .. Len(x) /\ 2 \in 1 .. Len(x) /\ 3 \in 1 .. Len(x)
  BY <1>2, <1>3
<1>9. s[1] = "whitelist" /\ s[2] = "pems" /\ s[3] = "json"
  BY <1>1, <1>3, <1>5, <1>8
<1>10. ASSUME NEW i \in 1 .. Len(s)
       PROVE  /\ s[i] \in Using => \A j \in 1 .. i - 1 : s[j] \in Using \ {"json"}
              /\ s[i] # "refresh"
  <2>1. CASE i \in 1 .. 3
    <3>1. (i = 1 \/ i = 2 \/ i = 3) /\ \A j \in 1 .. i - 1 : j = 1 \/ j = 2
      BY <2>1
    <3> QED
      BY <1>9, <3>1 DEF Using
  <2>2. CASE i \notin 1 .. 3
    BY <1>7, <2>2
  <2> QED
    BY <2>1, <2>2
<1>11. ReadFits(s, r)
  BY <1>10 DEF ReadFits
<1> QED
  BY <1>5, <1>11 DEF s, x, w

-----------------------------------------------------------------------------
(***************************************************************************)
(* One process goes on.                                                    *)
(***************************************************************************)

LEMMA OneProcess ==
    ASSUME ControlFits, NEW p \in Process,
           NEW s \in Seq(Step), NEW r \in WhatIsRead \cup {None}, ReadFits(s, r),
           todo' = [todo EXCEPT ![p] = s], read' = [read EXCEPT ![p] = r],
           lock' \in {lock, None, p}, lock' = p => Inside(s)
    PROVE  ControlFits'
<1>1. \A q \in Process : /\ todo'[q] = IF q = p THEN s ELSE todo[q]
                         /\ read'[q] = IF q = p THEN r ELSE read[q]
  BY DEF ControlFits
<1>2. /\ todo' \in [Process -> Seq(Step)] /\ read' \in [Process -> WhatIsRead \cup {None}]
      /\ lock' \in Process \cup {None}
  BY DEF ControlFits
<1>3. \A q \in Process : ReadFits(todo'[q], read'[q])
  BY <1>1 DEF ControlFits
<1>4. ASSUME NEW q \in Process, lock' = q
      PROVE  Inside(todo'[q])
  <2>1. CASE q = p
    BY <1>1, <1>4, <2>1
  <2>2. CASE q # p
    <3>1. q # None
      BY LifecycleAssumption DEF Process
    <3>2. lock = q
      BY <1>4, <2>2, <3>1
    <3> QED
      BY <1>1, <2>2, <3>2 DEF ControlFits
  <2> QED
    BY <2>1, <2>2
<1> QED
  BY <1>2, <1>3, <1>4 DEF ControlFits, ReadFits, Inside

\* What is known of a process at one of its steps.
LEMMA AtStep ==
    ASSUME ControlFits, NEW p \in Process, NEW step, At(p, step)
    PROVE  /\ todo[p] \in Seq(Step) /\ todo[p] # <<>> /\ Head(todo[p]) = step
           /\ Tail(todo[p]) \in Seq(Step)
           /\ ReadFits(todo[p], read[p]) /\ read[p] \in WhatIsRead \cup {None}
           /\ read = [read EXCEPT ![p] = read[p]]
           /\ lock = p => Inside(todo[p]) /\ (step = "unlock" \/ step \in InsideSteps)
           /\ step \in Using => Valid(read[p])
           /\ step = "refresh" => read[p] \in WhatIsRead
<1>1. /\ todo[p] \in Seq(Step) /\ todo[p] # <<>> /\ Head(todo[p]) = step
      /\ ReadFits(todo[p], read[p]) /\ read[p] \in WhatIsRead \cup {None}
      /\ read = [read EXCEPT ![p] = read[p]]
      /\ lock = p => Inside(todo[p])
  BY DEF ControlFits, At
<1>2. 1 \in 1 .. Len(todo[p]) /\ todo[p][1] = step /\ Tail(todo[p]) \in Seq(Step)
  BY <1>1
<1> QED
  BY <1>1, <1>2, InsideHead DEF ReadFits

\* A step is done, and others may come before the rest.
LEMMA ContinueKeeps ==
    ASSUME ControlFits, NEW p \in Process, NEW step, At(p, step),
           step \notin Using, step # "unlock",
           NEW steps, Plain(steps), step \in InsideSteps => Contained(steps),
           todo' = [todo EXCEPT ![p] = steps \o Tail(@)],
           read' = read, lock' = lock
    PROVE  ControlFits'
<1> DEFINE t == Tail(todo[p])
<1>1. Plain(t) /\ t \in Seq(Step)
  BY AtStep, RestIsPlain
<1>2. steps \o t \in Seq(Step) /\ ReadFits(steps \o t, read[p])
  BY <1>1, PlainJoins, PlainFits
<1>3. ASSUME lock = p
      PROVE  Inside(steps \o t)
  <2>1. step \in InsideSteps /\ Inside(todo[p])
    BY <1>3, AtStep
  <2>2. Inside(t)
    BY <2>1, AtStep, InsideRest
  <2>3. Contained(steps) /\ steps \in Seq(InsideSteps)
    BY <2>1 DEF Contained
  <2> QED
    BY <1>1, <2>2, <2>3, InsideLonger
<1>4. todo' = [todo EXCEPT ![p] = steps \o t]
  OBVIOUS
<1> HIDE DEF t
<1> QED
  BY <1>2, <1>3, <1>4, AtStep, OneProcess

\* A step is done, and the next one still uses what was read.
LEMMA UsingKeeps ==
    ASSUME ControlFits, NEW p \in Process, NEW step \in Using, At(p, step),
           todo' = [todo EXCEPT ![p] = <<>> \o Tail(@)],
           read' = read, lock' = lock
    PROVE  ControlFits'
<1> DEFINE t == Tail(todo[p])
<1>1. t \in Seq(Step) /\ ReadFits(t, read[p])
  BY AtStep, RestFits
<1>2. lock # p
  BY AtStep DEF Using, InsideSteps
<1>3. todo' = [todo EXCEPT ![p] = t]
  BY <1>1
<1> HIDE DEF t
<1> QED
  BY <1>1, <1>2, <1>3, AtStep, OneProcess

\* A step fails.
LEMMA FailKeeps ==
    ASSUME ControlFits, NEW p \in Process, NEW step, At(p, step),
           step \notin Using, step # "unlock",
           NEW marks, step \in InsideSteps => step \in MayFail /\ Ending \subseteq marks,
           todo' = [todo EXCEPT ![p] = DropTo(marks, Tail(@))],
           read' = read, lock' = lock
    PROVE  ControlFits'
<1> DEFINE t == DropTo(marks, Tail(todo[p]))
<1>1. Plain(t)
  BY AtStep, RestIsPlain, DropIsPlain
<1>2. t \in Seq(Step) /\ ReadFits(t, read[p])
  BY <1>1, PlainFits
<1>3. ASSUME lock = p
      PROVE  Inside(t)
  <2>1. step \in MayFail /\ Ending \subseteq marks
    BY <1>3, AtStep
  <2> QED
    BY <1>3, <2>1, AtStep, InsideAfterFailure
<1>4. todo' = [todo EXCEPT ![p] = t]
  OBVIOUS
<1> HIDE DEF t
<1> QED
  BY <1>2, <1>3, <1>4, AtStep, OneProcess

\* The procedure goes another way, and what was read is no longer used.
LEMMA ProceedKeeps ==
    ASSUME ControlFits, NEW p \in Process, NEW steps, Plain(steps),
           lock = p => Inside(steps), Proceed(p, steps)
    PROVE  ControlFits'
<1>1. steps \in Seq(Step) /\ ReadFits(steps, None)
  BY PlainFits
<1> QED
  BY <1>1, OneProcess DEF Proceed

-----------------------------------------------------------------------------
(***************************************************************************)
(* The steps of a process.                                                 *)
(***************************************************************************)

LEMMA ResyncStep ==
    ASSUME LifecycleIInv, NEW p \in Process, Resync(p)
    PROVE  LifecycleIInv'
<1>1. StateFits /\ ControlFits /\ At(p, "resync")
  BY DEF LifecycleIInv, Resync
<1>2. StateFits'
  <2>1. UNCHANGED <<files, processes, spoiled, world, failed>>
    BY DEF Resync, Proceed
  <2> QED
    BY <1>1, <2>1 DEF StateFits, files, processes, world
<1>3. lock # p
  BY <1>1, AtStep DEF InsideSteps
<1>4. CASE Proceed(p, Disabling(TRUE))
  <2>1. ControlFits'
    BY <1>1, <1>3, <1>4, ProceduresArePlain, ProceedKeeps
  <2> QED
    BY <1>2, <2>1 DEF LifecycleIInv
<1>5. CASE ~Proceed(p, Disabling(TRUE))
  <2> DEFINE r == [config |-> config, alias |-> alias]
             s == <<"whitelist", "pems", "json">> \o Applying(config.enabled, TRUE) \o <<"applied">>
  <2>1. /\ config.clients # Bad /\ alias # Bad
        /\ read' = [read EXCEPT ![p] = r] /\ todo' = [todo EXCEPT ![p] = s] /\ lock' = lock
    BY <1>5 DEF Resync, Reads
  <2>2. Valid(r) /\ r \in WhatIsRead
    BY <1>1, <2>1 DEF StateFits, Valid, WhatIsRead
  <2>3. Plain(Applying(config.enabled, TRUE)) /\ Plain(<<"applied">>)
    <3>1. config.enabled \in BOOLEAN
      BY <1>1 DEF StateFits, Config
    <3>2. Plain(<<"applied">>)
      BY DEF Plain, Step, Using
    <3> QED
      BY <3>1, <3>2, ProceduresArePlain
  <2> HIDE DEF r
  <2>4. s \in Seq(Step) /\ ReadFits(s, r)
    BY <2>2, <2>3, FilesFirst
  <2> HIDE DEF s
  <2>5. lock' \in {lock, None, p} /\ (lock' = p => Inside(s)) /\ r \in WhatIsRead \cup {None}
    BY <1>3, <2>1, <2>2
  <2>6. ControlFits'
    BY <1>1, <2>1, <2>4, <2>5, OneProcess
  <2> QED
    BY <1>2, <2>6 DEF LifecycleIInv
<1> QED
  BY <1>2, <1>4, <1>5 DEF LifecycleIInv

\* The files of a resynchronization are written from what it has read.
LEMMA WriteStep ==
    ASSUME LifecycleIInv, NEW p \in Process,
           WriteWhitelist(p) \/ WritePems(p) \/ WriteJson(p)
    PROVE  LifecycleIInv'
<1>1. StateFits /\ ControlFits
  BY DEF LifecycleIInv
<1>2. PICK step \in Using : /\ At(p, step)
                           /\ step = IF WriteWhitelist(p) THEN "whitelist"
                                     ELSE IF WritePems(p) THEN "pems" ELSE "json"
  BY DEF WriteWhitelist, WritePems, WriteJson, Using
<1>3. Valid(read[p]) /\ lock # p
  BY <1>1, <1>2, AtStep DEF Using, InsideSteps
<1>4. /\ read[p].alias \in Alias /\ read[p].config.clients \in Clients
      /\ RuntimeConfig(read[p].config) \in Clients \cup {None}
  BY <1>3 DEF Valid, WhatIsRead, Config, ClientList, AliasContent, RuntimeConfig
<1>5. StateFits'
  <2>1. UNCHANGED <<flag, processes, world, failed>>
    BY DEF WriteWhitelist, WritePems, WriteJson, Continue, Proceed, files
  <2>2. snapshot' \in {snapshot, read[p].alias}
    BY DEF WriteWhitelist, WritePems, WriteJson, FailedWrite, files
  <2>3. json' \in {json, RuntimeConfig(read[p].config)}
    BY DEF WriteWhitelist, WritePems, WriteJson, FailedWrite, files
  <2>4. spoiled' \in {spoiled, TRUE}
    BY DEF WriteWhitelist, WritePems, WriteJson
  <2> QED
    BY <1>1, <1>4, <2>1, <2>2, <2>3, <2>4 DEF StateFits, processes, world
<1>6. ASSUME Continue(p, <<>>) PROVE ControlFits'
  BY <1>1, <1>2, <1>6, UsingKeeps DEF Continue
<1>7. ASSUME Proceed(p, Disabling(TRUE)) \/ Proceed(p, <<>>) PROVE ControlFits'
  BY <1>1, <1>3, <1>7, ProceduresArePlain, ProceedKeeps
<1>8. ASSUME WriteJson(p), Proceed(p, Tail(todo[p])) PROVE ControlFits'
  <2>1. At(p, "json")
    BY <1>8 DEF WriteJson
  <2>2. Plain(Tail(todo[p]))
    BY <1>1, <2>1, AtStep, RestIsPlain
  <2> QED
    BY <1>1, <1>3, <1>8, <2>2, ProceedKeeps
<1>9. ControlFits'
  BY <1>6, <1>7, <1>8 DEF WriteWhitelist, WritePems, WriteJson
<1> QED
  BY <1>5, <1>9 DEF LifecycleIInv

\* The runtime is disabled, and the flag written.
LEMMA DisableStep ==
    ASSUME LifecycleIInv, NEW p \in Process,
           WriteDisabled(p) \/ WriteFlagAnyway(p) \/ \E value \in {"YES", "NO"} : WriteFlag(p, value)
    PROVE  LifecycleIInv'
<1>1. StateFits /\ ControlFits
  BY DEF LifecycleIInv
<1>2. CASE WriteDisabled(p) \/ WriteFlagAnyway(p)
  <2>1. StateFits'
    BY <1>1, <1>2 DEF WriteDisabled, WriteFlagAnyway, FailedWrite, Continue, StateFits, processes, world
  <2>2. PICK step \in {"disable", "flagNoAnyway"} : At(p, step) /\ Continue(p, <<>>)
    BY <1>2 DEF WriteDisabled, WriteFlagAnyway
  <2>3. ControlFits'
    BY <1>1, <2>2, ProceduresArePlain, ProceduresAreContained, ContinueKeeps DEF Continue, Using
  <2> QED
    BY <2>1, <2>3 DEF LifecycleIInv
<1>3. ASSUME NEW value \in {"YES", "NO"}, WriteFlag(p, value)
      PROVE  LifecycleIInv'
  <2> DEFINE step == IF value = "YES" THEN "flagYes" ELSE "flagNo"
  <2>1. StateFits'
    BY <1>1, <1>3 DEF WriteFlag, FailedWrite, Continue, Fail, StateFits, processes, world
  <2>2. At(p, step) /\ (Continue(p, <<>>) \/ Fail(p, Ending))
    BY <1>3 DEF WriteFlag
  <2>3. step \notin Using /\ step # "unlock" /\ (step \in InsideSteps => step \in MayFail)
    BY DEF Using, InsideSteps, MayFail
  <2> HIDE DEF step
  <2>4. ControlFits'
    BY <1>1, <2>2, <2>3, ProceduresArePlain, ProceduresAreContained, ContinueKeeps, FailKeeps
       DEF Continue, Fail
  <2> QED
    BY <2>1, <2>4 DEF LifecycleIInv
<1> QED
  BY <1>2, <1>3

\* What the script does, and the processes it starts and stops.
LEMMA ScriptStep ==
    ASSUME LifecycleIInv, NEW p \in Process,
           \/ Restart(p) \/ StopServer(p) \/ StopHelper(p) \/ Start(p)
           \/ StartHelper(p) \/ StartServer(p) \/ WaitServer(p)
    PROVE  LifecycleIInv'
<1>1. StateFits /\ ControlFits
  BY DEF LifecycleIInv
<1>2. StateFits'
  BY <1>1 DEF Restart, StopServer, StopHelper, StopFails, Start, StartHelper, StartServer,
              WaitServer, Continue, Fail, StateFits, files, processes, world
<1>3. CASE StopServer(p) \/ StopHelper(p)
  <2>1. PICK step \in {"stopServer", "stopHelper"} :
          At(p, step) /\ (Continue(p, <<>>) \/ StopFails(p))
    BY <1>3 DEF StopServer, StopHelper
  <2>2. step \notin Using /\ step # "unlock" /\ step \in MayFail
    BY DEF Using, MayFail
  <2>3. ASSUME Continue(p, <<>>) PROVE ControlFits'
    BY <1>1, <2>1, <2>2, <2>3, ProceduresArePlain, ProceduresAreContained, ContinueKeeps DEF Continue
  <2>4. ASSUME StopFails(p) PROVE ControlFits'
    <3>1. PICK marks \in {Looking \cup Ending, {"start"} \cup Looking \cup Ending} :
            todo' = [todo EXCEPT ![p] = DropTo(marks, Tail(@))]
      BY <2>4 DEF StopFails, Fail
    <3>2. read' = read /\ lock' = lock /\ Ending \subseteq marks
      BY <2>4, <3>1 DEF StopFails, Fail
    <3> QED
      BY <1>1, <2>1, <2>2, <3>1, <3>2, FailKeeps
  <2> QED
    BY <1>2, <2>1, <2>3, <2>4 DEF LifecycleIInv
<1>4. CASE Restart(p) \/ Start(p) \/ StartHelper(p) \/ StartServer(p) \/ WaitServer(p)
  <2>1. PICK step \in {"restart", "start", "startHelper", "startServer", "waitServer"} :
          /\ At(p, step)
          /\ \/ Fail(p, Looking)
             \/ \E steps \in {<<>>, Starting, Stopping \o <<"start">>} : Continue(p, steps)
    BY <1>4 DEF Restart, Start, StartHelper, StartServer, WaitServer
  <2>2. step \notin Using /\ step # "unlock" /\ step \notin InsideSteps
    BY DEF Using, InsideSteps
  <2>3. ControlFits'
    BY <1>1, <2>1, <2>2, ProceduresArePlain, ContinueKeeps, FailKeeps DEF Continue, Fail
  <2> QED
    BY <1>2, <2>3 DEF LifecycleIInv
<1> QED
  BY <1>3, <1>4

\* The result of a service command or of a reload is looked at.
LEMMA CheckStep ==
    ASSUME LifecycleIInv, NEW p \in Process, Check(p)
    PROVE  LifecycleIInv'
<1>1. StateFits /\ ControlFits /\ At(p, "check")
  BY DEF LifecycleIInv, Check
<1>2. StateFits'
  BY <1>1 DEF Check, StateFits, files, processes, world
<1> DEFINE t == Tail(todo[p])
           d == DropTo(Ending, t)
           front == <<"flagNoAnyway">> \o Stopping
<1>3. t \in Seq(Step) /\ Plain(t) /\ Plain(d)
  <2>1. "check" \notin Using
    BY DEF Using
  <2>2. Plain(t)
    BY <1>1, <2>1, AtStep, RestIsPlain
  <2> QED
    BY <2>2, DropIsPlain, PlainFits
<1>4. CASE failed[p]
  <2>1. todo' = [todo EXCEPT ![p] = front \o d] /\ read' = read /\ lock' = lock
    BY <1>4 DEF Check
  <2>2. Plain(front \o d) /\ d \in Seq(Step)
    BY <1>3, ProceduresArePlain, PlainJoins, PlainFits
  <2>3. ASSUME lock = p
        PROVE  Inside(front \o d)
    <3>1. Inside(d) /\ Head(d) \in Ending \cap InsideSteps
      BY <1>1, <2>3, AtStep, InsideAfterFailure DEF MayFail
    <3>2. Head(d) = "disabled"
      BY <3>1 DEF Ending, InsideSteps
    <3>3. front \in Seq(InsideSteps)
      BY ProceduresAreContained
    <3> HIDE DEF d, front
    <3> QED
      BY <2>2, <3>1, <3>2, <3>3, InsideLonger
  <2> HIDE DEF t, d, front
  <2>4. front \o d \in Seq(Step) /\ ReadFits(front \o d, read[p])
    BY <2>2, PlainFits
  <2>5. ControlFits'
    BY <1>1, <2>1, <2>3, <2>4, AtStep, OneProcess
  <2> QED
    BY <1>2, <2>5 DEF LifecycleIInv
<1>5. CASE ~failed[p]
  <2>1. todo' = [todo EXCEPT ![p] = t] /\ read' = read /\ lock' = lock
    BY <1>5 DEF Check
  <2>2. lock = p => Inside(t)
    BY <1>1, AtStep, InsideRest
  <2>3. ReadFits(t, read[p])
    BY <1>3, PlainFits
  <2> HIDE DEF t
  <2>4. ControlFits'
    BY <1>1, <1>3, <2>1, <2>2, <2>3, AtStep, OneProcess
  <2> QED
    BY <1>2, <2>4 DEF LifecycleIInv
<1> QED
  BY <1>4, <1>5

\* A resynchronization, or an attempt to disable the runtime, is over.
LEMMA AppliedStep ==
    ASSUME LifecycleIInv, NEW p \in Process, Applied(p)
    PROVE  LifecycleIInv'
<1>1. StateFits /\ ControlFits
  BY DEF LifecycleIInv
<1>2. StateFits'
  BY <1>1 DEF Applied, StateFits, files, processes, world
<1>3. read' = read /\ lock' = lock
  BY DEF Applied, world
<1>4. Plain(<<>>) /\ Plain(<<"disable">>) /\ Contained(<<>>)
  <2>1. Plain(<<"disable">>)
    BY DEF Plain, Step, Using
  <2> QED
    BY <2>1, ProceduresArePlain, ProceduresAreContained
<1>5. ControlFits'
  <2>1. CASE At(p, "applied")
    <3>1. \E steps \in {<<>>, <<"disable">>} : todo' = [todo EXCEPT ![p] = steps \o Tail(@)]
      BY <2>1 DEF Applied
    <3>2. "applied" \notin Using /\ "applied" \notin InsideSteps
      BY DEF Using, InsideSteps
    <3> QED
      BY <1>1, <1>3, <1>4, <2>1, <3>1, <3>2, ContinueKeeps
  <2>2. CASE At(p, "disabled") /\ ~At(p, "applied")
    <3>1. todo' = [todo EXCEPT ![p] = <<>> \o Tail(@)]
      BY <2>2 DEF Applied
    <3>2. "disabled" \notin Using
      BY DEF Using
    <3> QED
      BY <1>1, <1>3, <1>4, <2>2, <3>1, <3>2, ContinueKeeps
  <2> QED
    BY <2>1, <2>2 DEF Applied
<1> QED
  BY <1>2, <1>5 DEF LifecycleIInv

\* A process gets the filter lock, and from then on is inside.
LEMMA ReloadStep ==
    ASSUME LifecycleIInv, NEW p \in Process, Reload(p)
    PROVE  LifecycleIInv'
<1>1. StateFits /\ ControlFits /\ At(p, "reload")
  BY DEF LifecycleIInv, Reload
<1>2. StateFits'
  BY <1>1 DEF Reload, StateFits, files, processes, world
<1> DEFINE front == <<"callback", "unlock">>
           t == Tail(todo[p])
           s == front \o t
<1>3. todo' = [todo EXCEPT ![p] = s] /\ read' = read /\ lock' = p
  BY DEF Reload
<1>4. Plain(t) /\ t \in Seq(Step)
  <2>1. "reload" \notin Using
    BY DEF Using
  <2> QED
    BY <1>1, <2>1, AtStep, RestIsPlain
<1>5. /\ front \in Seq(Step) /\ Plain(front) /\ Len(front) = 2
      /\ front[1] = "callback" /\ front[2] = "unlock"
  BY DEF Step, Using, Plain
<1> HIDE DEF front, t
<1>6. s \in Seq(Step) /\ ReadFits(s, read[p])
  BY <1>4, <1>5, PlainJoins, PlainFits
<1>7. Inside(s)
  <2>1. Len(s) = 2 + Len(t) /\ Len(t) \in Nat /\ s[1] = "callback" /\ s[2] = "unlock"
    <3>1. Len(s) = Len(front) + Len(t) /\ \A i \in 1 .. Len(front) : s[i] = front[i]
      BY <1>4, <1>5, Joined
    <3> HIDE DEF s
    <3> QED
      BY <1>4, <1>5, <3>1
  <2> HIDE DEF s
  <2>2. 2 \in 1 .. Len(s) /\ \A j \in 1 .. 2 - 1 : s[j] = "callback"
    BY <2>1
  <2> QED
    BY <2>1, <2>2 DEF Inside, InsideSteps, MayFail
<1> HIDE DEF s
<1>8. ControlFits'
  BY <1>1, <1>3, <1>6, <1>7, AtStep, OneProcess
<1> QED
  BY <1>2, <1>8 DEF LifecycleIInv

\* The callback reads, and refreshes the whitelist of an enabled service.
LEMMA GenerateRulesStep ==
    ASSUME LifecycleIInv, NEW p \in Process, GenerateRules(p)
    PROVE  LifecycleIInv'
<1>1. StateFits /\ ControlFits /\ At(p, "callback")
  BY DEF LifecycleIInv, GenerateRules
<1>2. StateFits'
  BY <1>1 DEF GenerateRules, Reads, StateFits, files, processes, world
<1> DEFINE t == Tail(todo[p])
           r == [config |-> config, alias |-> alias]
<1>3. r \in WhatIsRead
  BY <1>1 DEF StateFits, WhatIsRead
<1>4. Plain(t) /\ t \in Seq(Step) /\ (lock = p => Inside(t))
  <2>1. "callback" \notin Using
    BY DEF Using
  <2> QED
    BY <1>1, <2>1, AtStep, RestIsPlain, InsideRest
<1>5. PICK front \in {<<>>, <<"refresh">>} :
        todo' = [todo EXCEPT ![p] = front \o t] /\ read' = [read EXCEPT ![p] = r] /\ lock' = lock
  BY DEF GenerateRules, Reads
<1> HIDE DEF t, r
<1>6. lock = p => Inside(front \o t)
  BY <1>4, ProceduresAreContained, InsideLonger DEF Contained
<1>7. front \o t \in Seq(Step) /\ ReadFits(front \o t, r)
  <2>1. CASE front = <<>>
    BY <1>4, <2>1, ProceduresArePlain, PlainJoins, PlainFits
  <2>2. CASE front = <<"refresh">>
    <3>1. front \in Seq(Step) /\ Len(front) = 1 /\ front[1] = "refresh"
      BY <2>2 DEF Step
    <3> DEFINE s == front \o t
    <3>2. /\ s \in Seq(Step)
          /\ \A i \in 1 .. Len(front) : s[i] = front[i]
          /\ \A i \in 1 .. Len(s) :
                i \notin 1 .. Len(front) => i - Len(front) \in 1 .. Len(t) /\ s[i] = t[i - Len(front)]
      BY <1>4, <3>1, Joined
    <3> HIDE DEF s
    <3>3. \A i \in 1 .. Len(t) : t[i] \notin Using /\ t[i] # "refresh"
      BY <1>4 DEF Plain
    <3>4. s[1] = "refresh"
      BY <3>1, <3>2
    <3>5. ASSUME NEW i \in 1 .. Len(s), i # 1
          PROVE  s[i] \notin Using /\ s[i] # "refresh"
      BY <3>1, <3>2, <3>3, <3>5
    <3>6. ReadFits(s, r)
      BY <1>3, <3>4, <3>5 DEF ReadFits, Using
    <3> QED
      BY <3>2, <3>6 DEF s
  <2> QED
    BY <2>1, <2>2
<1>8. ControlFits'
  BY <1>1, <1>3, <1>5, <1>6, <1>7, OneProcess
<1> QED
  BY <1>2, <1>8 DEF LifecycleIInv

\* The whitelist is refreshed, or the runtime disabled, inside the reload.
LEMMA RefreshStep ==
    ASSUME LifecycleIInv, NEW p \in Process, RefreshWhitelist(p)
    PROVE  LifecycleIInv'
<1>1. StateFits /\ ControlFits /\ At(p, "refresh")
  BY DEF LifecycleIInv, RefreshWhitelist
<1>2. StateFits'
  <2>1. UNCHANGED <<json, flag, processes, spoiled, world, failed>>
    BY DEF RefreshWhitelist, Proceed
  <2>2. snapshot' = snapshot \/ (snapshot' = read[p].alias /\ read[p].alias # Bad)
    BY DEF RefreshWhitelist, FailedWrite
  <2>3. read[p].alias \in Alias \cup {Bad}
    BY <1>1, AtStep DEF WhatIsRead, AliasContent
  <2>4. snapshot' \in Alias
    BY <1>1, <2>2, <2>3 DEF StateFits
  <2> QED
    BY <1>1, <2>1, <2>4 DEF StateFits, processes, world
<1>3. /\ Plain(Tail(todo[p])) /\ Tail(todo[p]) \in Seq(Step)
      /\ lock = p => Inside(Tail(todo[p]))
  <2>1. "refresh" \notin Using
    BY DEF Using
  <2> QED
    BY <1>1, <2>1, AtStep, RestIsPlain, InsideRest
<1>4. PICK steps \in {Tail(todo[p]), Disabling(FALSE) \o Tail(todo[p])} : Proceed(p, steps)
  BY DEF RefreshWhitelist
<1>5. Plain(steps)
  BY <1>3, ProceduresArePlain, PlainJoins
<1>6. lock = p => Inside(steps)
  BY <1>3, ProceduresAreContained, InsideLonger DEF Contained
<1>7. ControlFits'
  BY <1>1, <1>4, <1>5, <1>6, ProceedKeeps
<1> QED
  BY <1>2, <1>7 DEF LifecycleIInv

\* The reload is over, or has failed: the lock is free.
LEMMA ReloadEndsStep ==
    ASSUME LifecycleIInv, NEW p \in Process, ReloadEnds(p)
    PROVE  LifecycleIInv'
<1>1. StateFits /\ ControlFits /\ At(p, "unlock")
  BY DEF LifecycleIInv, ReloadEnds
<1>2. StateFits'
  BY <1>1 DEF ReloadEnds, StateFits, files, processes, world
<1>3. Plain(Tail(todo[p]))
  <2>1. "unlock" \notin Using
    BY DEF Using
  <2> QED
    BY <1>1, <2>1, AtStep, RestIsPlain
<1>4. PICK steps \in {Tail(todo[p]), DropTo(Looking, Tail(todo[p]))} :
        todo' = [todo EXCEPT ![p] = steps]
  BY DEF ReloadEnds
<1>5. steps \in Seq(Step) /\ ReadFits(steps, read[p])
  BY <1>3, DropIsPlain, PlainFits
<1>6. read' = read /\ lock' = None /\ None # p
  BY LifecycleAssumption DEF ReloadEnds, Process
<1>7. ControlFits'
  BY <1>1, <1>4, <1>5, <1>6, AtStep, OneProcess
<1> QED
  BY <1>2, <1>7 DEF LifecycleIInv

-----------------------------------------------------------------------------
(***************************************************************************)
(* The steps of pfSense and of the server.                                 *)
(***************************************************************************)

\* Procedures of one step, and no step at all.
LEMMA BeginningsFit ==
    /\ Plain(<<>>) /\ Plain(<<"resync">>) /\ Plain(<<"reload">>)
<1> QED
  BY DEF Plain, Step, Using

LEMMA WorldStep ==
    ASSUME LifecycleIInv,
           \/ \E p \in Page : Reboot(p) \/ \E c \in Config : Save(p, c)
           \/ \E a \in AliasContent : AliasEdited(a)
           \/ FilterReloadBegins
           \/ ServerReadsConfig
    PROVE  LifecycleIInv'
<1>1. StateFits /\ ControlFits
  BY DEF LifecycleIInv
<1>2. \A p \in Process : todo[p] = <<>> => lock # p
  BY <1>1, InsideHead DEF ControlFits
<1>3. ASSUME NEW p \in Process, todo[p] = <<>>, UNCHANGED <<read, lock>>,
             NEW step \in {"resync", "reload"}, todo' = [todo EXCEPT ![p] = <<step>>]
      PROVE  ControlFits'
  <2>1. <<step>> \in Seq(Step) /\ ReadFits(<<step>>, read[p])
    BY BeginningsFit, PlainFits
  <2>2. read[p] \in WhatIsRead \cup {None} /\ read' = [read EXCEPT ![p] = read[p]]
    BY <1>1, <1>3 DEF ControlFits
  <2>3. lock # p
    BY <1>2, <1>3
  <2> QED
    BY <1>1, <1>3, <2>1, <2>2, <2>3, OneProcess
<1>4. ASSUME NEW p \in Page, Reboot(p)
      PROVE  LifecycleIInv'
  <2>1. StateFits'
    BY <1>1, <1>4, LifecycleAssumption DEF Reboot, StateFits, files
  <2>2. /\ todo' = [q \in Process |-> IF q = p THEN <<"resync">> ELSE <<>>]
        /\ read' = [q \in Process |-> None] /\ lock' = None
    BY <1>4 DEF Reboot
  <2>3. \A s \in {<<>>, <<"resync">>} : s \in Seq(Step) /\ ReadFits(s, None)
    BY BeginningsFit, PlainFits
  <2>4. todo' \in [Process -> Seq(Step)] /\ \A q \in Process : ReadFits(todo'[q], read'[q])
    BY <2>2, <2>3
  <2>5. None \notin Process
    BY LifecycleAssumption DEF Process
  <2>6. ControlFits'
    BY <2>2, <2>4, <2>5 DEF ControlFits, ReadFits
  <2> QED
    BY <2>1, <2>6 DEF LifecycleIInv
<1>5. ASSUME NEW p \in Page, NEW c \in Config, Save(p, c)
      PROVE  LifecycleIInv'
  <2>1. StateFits'
    BY <1>1, <1>5, LifecycleAssumption DEF Save, StateFits, files, processes
  <2>2. ControlFits'
    BY <1>3, <1>5 DEF Save, Process
  <2> QED
    BY <2>1, <2>2 DEF LifecycleIInv
<1>6. ASSUME NEW a \in AliasContent, AliasEdited(a)
      PROVE  LifecycleIInv'
  <2>1. StateFits'
    BY <1>1, <1>6, LifecycleAssumption DEF AliasEdited, StateFits, files, processes
  <2>2. ControlFits'
    BY <1>1, <1>6 DEF AliasEdited, ControlFits
  <2> QED
    BY <2>1, <2>2 DEF LifecycleIInv
<1>7. CASE FilterReloadBegins
  <2>1. StateFits'
    BY <1>1, <1>7 DEF FilterReloadBegins, StateFits, files, processes
  <2>2. ControlFits'
    BY <1>3, <1>7 DEF FilterReloadBegins, Process
  <2> QED
    BY <2>1, <2>2 DEF LifecycleIInv
<1>8. CASE ServerReadsConfig
  <2>1. StateFits'
    BY <1>1, <1>8 DEF ServerReadsConfig, StateFits, files, world
  <2>2. ControlFits'
    BY <1>1, <1>8 DEF ServerReadsConfig, ControlFits
  <2> QED
    BY <2>1, <2>2 DEF LifecycleIInv
<1> QED
  BY <1>4, <1>5, <1>6, <1>7, <1>8

-----------------------------------------------------------------------------
(***************************************************************************)
(* The invariant, and what it says of the properties.                      *)
(***************************************************************************)

LEMMA LifecycleStarts ==
    ASSUME LifecycleInit
    PROVE  LifecycleIInv
<1>1. StateFits
  <2>1. (CHOOSE c \in Clients : TRUE) \in Clients
    BY LifecycleAssumption
  <2>2. config \in Config
    BY <2>1 DEF LifecycleInit, Config, ClientList
  <2>3. /\ alias \in AliasContent /\ snapshot \in Alias
        /\ json \in Clients \cup {None} /\ serving \in Clients \cup {None}
        /\ flag \in {"YES", "NO"} /\ helper \in {"down", "up"} /\ server \in {"down", "starting", "up"}
        /\ failed \in [Process -> BOOLEAN] /\ pending \in BOOLEAN /\ spoiled \in BOOLEAN
    BY DEF LifecycleInit, AliasContent
  <2>4. saves \in 0 .. MaxSaves /\ changes \in 0 .. MaxAliasChanges
    BY LifecycleAssumption DEF LifecycleInit
  <2> QED
    BY <2>2, <2>3, <2>4 DEF StateFits
<1>2. ControlFits
  <2>1. None \notin Process
    BY LifecycleAssumption DEF Process
  <2>2. <<>> \in Seq(Step) /\ ReadFits(<<>>, None)
    BY BeginningsFit, PlainFits
  <2> QED
    BY <2>1, <2>2 DEF LifecycleInit, ControlFits
<1> QED
  BY <1>1, <1>2 DEF LifecycleIInv

LEMMA LifecycleKeeps ==
    ASSUME LifecycleIInv, [LifecycleNext]_lifecycleVars
    PROVE  LifecycleIInv'
<1>1. ASSUME NEW p \in Process, Does(p)
      PROVE  LifecycleIInv'
  BY <1>1, ResyncStep, WriteStep, DisableStep, CheckStep, AppliedStep, ScriptStep,
     ReloadStep, GenerateRulesStep, RefreshStep, ReloadEndsStep DEF Does
<1>2. CASE UNCHANGED lifecycleVars
  <2>1. StateFits'
    BY <1>2 DEF LifecycleIInv, StateFits, lifecycleVars, files, processes, world
  <2>2. ControlFits'
    BY <1>2 DEF LifecycleIInv, ControlFits, lifecycleVars
  <2> QED
    BY <2>1, <2>2 DEF LifecycleIInv
<1> QED
  BY <1>1, <1>2, WorldStep DEF LifecycleNext

\* What reads and holds the filter lock is where its procedure says: with any
\* number of pages, whatever fails and whenever the firewall reboots.
THEOREM LifecycleInvariant == LifecycleSpec => []LifecycleIInv
<1>1. LifecycleInit => LifecycleIInv
  BY LifecycleStarts
<1>2. LifecycleIInv /\ [LifecycleNext]_lifecycleVars => LifecycleIInv'
  BY LifecycleKeeps
<1> QED
  BY <1>1, <1>2, PTL DEF LifecycleSpec

\* Configurations, files, processes and procedures are of the kinds declared.
THEOREM LifecycleTypeCorrect == LifecycleSpec => []LifecycleTypeOK
<1>1. LifecycleIInv => LifecycleTypeOK
  BY DEF LifecycleIInv, StateFits, ControlFits, LifecycleTypeOK, WhatIsRead
<1> QED
  BY <1>1, LifecycleInvariant, PTL

\* "This must not request another filter reload (which would recurse)"
\* (f2bguard.inc): a process that holds the filter lock never comes to ask for
\* it, through whatever failures the code runs inside a reload.
THEOREM NobodyWaitsForItselfHolds == LifecycleSpec => []NobodyWaitsForItself
<1>1. LifecycleIInv => NobodyWaitsForItself
  <2>1. SUFFICES ASSUME LifecycleIInv, NEW p \in Process, At(p, "reload"), lock = p
                 PROVE  FALSE
    BY DEF NobodyWaitsForItself
  <2>2. "reload" = "unlock" \/ "reload" \in InsideSteps
    BY <2>1, AtStep DEF LifecycleIInv
  <2> QED
    BY <2>2 DEF InsideSteps
<1> QED
  BY <1>1, LifecycleInvariant, PTL

-----------------------------------------------------------------------------
(***************************************************************************)
(* What a server that is left running serves.                              *)
(*                                                                         *)
(* With one page that saves, and as long as config.json and the flag can   *)
(* be written.  The second invariant relates what page and callback are    *)
(* about to do to the files and processes: whatever is out of date is so   *)
(* only while a step that is still to come puts it right, and no failure   *)
(* skips that step without another one that stops the server.              *)
(***************************************************************************)

\* The step a process is at.
HeadOf(s) == IF s = <<>> THEN "nothing" ELSE s[1]
Doing(q) == HeadOf(todo[q])

Has(s, step) == \E i \in 1 .. Len(s) : s[i] = step

\* Which step may come after which.
Follow ==
    {<<"whitelist", "pems">>, <<"pems", "json">>, <<"json", "flagYes">>, <<"json", "flagNo">>,
     <<"flagYes", "restart">>, <<"restart", "check">>, <<"disable", "flagNo">>,
     <<"flagNo", "stopServer">>, <<"flagNoAnyway", "stopServer">>, <<"stopServer", "stopHelper">>,
     <<"stopHelper", "start">>, <<"stopHelper", "check">>, <<"stopHelper", "applied">>,
     <<"stopHelper", "disabled">>, <<"start", "check">>, <<"startHelper", "startServer">>,
     <<"startServer", "waitServer">>, <<"waitServer", "check">>, <<"check", "reload">>,
     <<"check", "applied">>, <<"check", "disabled">>, <<"reload", "check">>,
     <<"reload", "startHelper">>, <<"callback", "unlock">>, <<"refresh", "unlock">>,
     <<"unlock", "check">>, <<"unlock", "startHelper">>, <<"disabled", "unlock">>}

Linked(s) == \A i \in 1 .. Len(s) - 1 : <<s[i], s[i + 1]>> \in Follow

\* Each of these steps still has that one ahead.
Ahead(s, steps, step) ==
    \A i \in 1 .. Len(s) : s[i] \in steps => \E k \in i + 1 .. Len(s) : s[k] = step

WantsReload == {"whitelist", "pems", "json", "flagYes", "restart",
                "start", "startHelper", "startServer"}
WantsCheck == {"restart", "start", "startHelper", "startServer", "waitServer",
               "reload", "callback", "refresh", "unlock"}

\* A resynchronization that starts the server reloads the filter afterwards, and
\* the result of each step that may fail is looked at.
Careful(s) == Ahead(s, WantsReload, "reload") /\ Ahead(s, WantsCheck, "check")

OneUnlock(s) == \A i \in 1 .. Len(s) : s[i] = "unlock" => \A k \in i + 1 .. Len(s) : s[k] # "unlock"

\* What a page may have left to do.
PageList(s) ==
    /\ s \in Seq(Step) /\ Linked(s) /\ Careful(s) /\ OneUnlock(s)
    /\ s # <<>> => s[Len(s)] \in Ending \/ (Len(s) = 1 /\ s[1] \in {"resync", "disable"})

\* A part of a procedure, from its first to its last step.
Chain(s, first, last) ==
    s \in Seq(Step) /\ s # <<>> /\ Linked(s) /\ s[1] = first /\ s[Len(s)] = last

LEMMA ChainsJoin ==
    ASSUME NEW a, NEW b, NEW x, NEW y, NEW u, NEW v,
           Chain(a, x, y), Chain(b, u, v), <<y, u>> \in Follow
    PROVE  Chain(a \o b, x, v) /\ \A z : Has(a \o b, z) <=> Has(a, z) \/ Has(b, z)
<1> DEFINE s == a \o b
           n == Len(a)
<1>1. /\ a \in Seq(Step) /\ b \in Seq(Step) /\ n \in Nat \ {0} /\ Len(b) \in Nat \ {0}
      /\ a[1] = x /\ a[n] = y /\ b[1] = u /\ b[Len(b)] = v
      /\ Linked(a) /\ Linked(b)
  BY DEF Chain
<1>2. /\ s \in Seq(Step) /\ Len(s) = n + Len(b)
      /\ \A i \in 1 .. n : s[i] = a[i]
      /\ \A i \in 1 .. Len(s) : i \notin 1 .. n => i - n \in 1 .. Len(b) /\ s[i] = b[i - n]
  BY <1>1, Joined
<1> HIDE DEF s, n
<1>3. \A i \in 1 .. Len(b) : n + i \in 1 .. Len(s) /\ s[n + i] = b[i]
  <2>1. \A i \in 1 .. Len(b) : n + i \in 1 .. Len(s) /\ n + i \notin 1 .. n /\ (n + i) - n = i
    BY <1>1, <1>2
  <2> QED
    BY <1>2, <2>1
<1>4. Linked(s)
  <2>1. ASSUME NEW i \in 1 .. Len(s) - 1
        PROVE  <<s[i], s[i + 1]>> \in Follow
    <3>1. CASE i < n
      <4>1. i \in 1 .. n - 1 /\ i \in 1 .. n /\ i + 1 \in 1 .. n
        BY <1>1, <1>2, <3>1
      <4>2. <<a[i], a[i + 1]>> \in Follow
        BY <1>1, <4>1 DEF Linked, n
      <4> QED
        BY <1>2, <4>1, <4>2
    <3>2. CASE i = n
      <4>1. s[i] = y /\ s[i + 1] = u
        <5>1. 1 \in 1 .. Len(b) /\ n \in 1 .. n /\ n + 1 = i + 1
          BY <1>1, <3>2
        <5> QED
          BY <1>1, <1>2, <1>3, <3>2, <5>1
      <4> QED
        BY <4>1
    <3>3. CASE i > n
      <4> DEFINE j == i - n
      <4>0. i \in Int /\ n \in Int /\ Len(b) \in Int /\ i <= n + Len(b) - 1
        BY <1>1, <1>2
      <4>1. j \in 1 .. Len(b) - 1 /\ j \in 1 .. Len(b) /\ j + 1 \in 1 .. Len(b)
            /\ n + j = i /\ n + (j + 1) = i + 1
        BY <4>0, <3>3
      <4> HIDE DEF j
      <4>2. <<b[j], b[j + 1]>> \in Follow
        BY <1>1, <4>1 DEF Linked
      <4>3. s[i] = b[j] /\ s[i + 1] = b[j + 1]
        BY <1>3, <4>1
      <4> QED
        BY <4>2, <4>3
    <3> QED
      BY <1>1, <1>2, <3>1, <3>2, <3>3
  <2> QED
    BY <2>1 DEF Linked
<1>5. s[1] = x /\ s[Len(s)] = v /\ s # <<>>
  <2>1. 1 \in 1 .. n /\ Len(b) \in 1 .. Len(b) /\ Len(s) # 0
    BY <1>1, <1>2
  <2> QED
    BY <1>1, <1>2, <1>3, <2>1
<1>6. ASSUME NEW z
      PROVE  Has(s, z) <=> Has(a, z) \/ Has(b, z)
  <2>1. Has(a, z) => Has(s, z)
    <3>1. \A i \in 1 .. n : i \in 1 .. Len(s)
      BY <1>1, <1>2
    <3> QED
      BY <1>2, <3>1 DEF Has, n
  <2>2. Has(b, z) => Has(s, z)
    BY <1>3 DEF Has
  <2>3. Has(s, z) => Has(a, z) \/ Has(b, z)
    BY <1>2 DEF Has, n
  <2> QED
    BY <2>1, <2>2, <2>3
<1> QED
  BY <1>2, <1>4, <1>5, <1>6 DEF Chain, s

LEMMA AheadJoins ==
    ASSUME NEW a \in Seq(Step), NEW b \in Seq(Step), NEW steps, NEW step,
           Ahead(a, steps, step) \/ Has(b, step), Ahead(b, steps, step)
    PROVE  Ahead(a \o b, steps, step)
<1> DEFINE s == a \o b
           n == Len(a)
<1>1. /\ s \in Seq(Step) /\ Len(s) = n + Len(b) /\ n \in Nat /\ Len(b) \in Nat
      /\ \A i \in 1 .. n : s[i] = a[i]
      /\ \A i \in 1 .. Len(s) : i \notin 1 .. n => i - n \in 1 .. Len(b) /\ s[i] = b[i - n]
  BY Joined
<1> HIDE DEF s
<1>2. \A i \in 1 .. Len(b) : n + i \in n + 1 .. Len(s) /\ s[n + i] = b[i]
  <2>1. \A i \in 1 .. Len(b) : n + i \in 1 .. Len(s) /\ n + i \notin 1 .. n /\ (n + i) - n = i
    BY <1>1
  <2> QED
    BY <1>1, <2>1
<1>3. ASSUME NEW i \in 1 .. Len(s), s[i] \in steps
      PROVE  \E k \in i + 1 .. Len(s) : s[k] = step
  <2>1. CASE i \in 1 .. n
    <3>1. CASE Has(b, step)
      <4>1. PICK k \in 1 .. Len(b) : b[k] = step
        BY <3>1 DEF Has
      <4>2. n + k \in i + 1 .. Len(s) /\ s[n + k] = step
        BY <1>1, <1>2, <2>1, <4>1
      <4> QED
        BY <4>2
    <3>2. CASE Ahead(a, steps, step)
      <4>1. PICK k \in i + 1 .. n : a[k] = step
        BY <1>1, <1>3, <2>1, <3>2 DEF Ahead
      <4>2. k \in i + 1 .. Len(s) /\ s[k] = step
        BY <1>1, <2>1, <4>1
      <4> QED
        BY <4>2
    <3> QED
      BY <3>1, <3>2
  <2>2. CASE i \notin 1 .. n
    <3> DEFINE j == i - n
    <3>1. j \in 1 .. Len(b) /\ b[j] \in steps /\ n + j = i
      BY <1>1, <1>3, <2>2
    <3> HIDE DEF j
    <3>2. PICK k \in j + 1 .. Len(b) : b[k] = step
      BY <3>1 DEF Ahead
    <3>3. k \in 1 .. Len(b) /\ n + k \in i + 1 .. Len(s) /\ s[n + k] = step
      BY <1>1, <1>2, <3>1, <3>2
    <3> QED
      BY <3>3
  <2> QED
    BY <2>1, <2>2
<1> QED
  BY <1>3 DEF Ahead, s

\* d is what s is after its first n steps.
Remains(d, s, n) ==
    /\ d \in Seq(Step) /\ s \in Seq(Step) /\ n \in Nat /\ Len(s) = n + Len(d)
    /\ \A i \in 1 .. Len(d) : d[i] = s[n + i]

LEMMA TailRemains ==
    ASSUME NEW s \in Seq(Step), s # <<>>
    PROVE  Remains(Tail(s), s, 1)
<1>1. /\ Tail(s) \in Seq(Step) /\ Len(s) = 1 + Len(Tail(s))
      /\ \A i \in 1 .. Len(Tail(s)) : Tail(s)[i] = s[i + 1] /\ i + 1 = 1 + i
  OBVIOUS
<1> QED
  BY <1>1 DEF Remains

LEMMA EndRemains ==
    ASSUME NEW s \in Seq(Step), NEW k \in 1 .. Len(s)
    PROVE  Remains(SubSeq(s, k, Len(s)), s, k - 1)
<1> DEFINE d == SubSeq(s, k, Len(s))
<1>1. /\ Len(s) \in Nat /\ k \in Nat /\ k - 1 \in Nat
      /\ d \in Seq(Step) /\ Len(d) = Len(s) - k + 1
      /\ \A i \in 1 .. Len(d) : d[i] = s[k + i - 1]
  OBVIOUS
<1> HIDE DEF d
<1>2. Len(s) = (k - 1) + Len(d)
  BY <1>1
<1>3. ASSUME NEW i \in 1 .. Len(d)
      PROVE  d[i] = s[(k - 1) + i]
  <2>1. (k - 1) + i = k + i - 1
    BY <1>1
  <2> QED
    BY <1>1, <2>1
<1> QED
  BY <1>1, <1>2, <1>3 DEF Remains, d

LEMMA LinkedRemains ==
    ASSUME NEW d, NEW s, NEW n, Remains(d, s, n), Linked(s)
    PROVE  Linked(d)
<1>1. /\ n \in Nat /\ Len(d) \in Nat /\ Len(s) = n + Len(d)
      /\ \A i \in 1 .. Len(d) : d[i] = s[n + i]
  BY DEF Remains
<1>2. ASSUME NEW i \in 1 .. Len(d) - 1
      PROVE  <<d[i], d[i + 1]>> \in Follow
  <2>1. /\ n + i \in 1 .. Len(s) - 1 /\ i \in 1 .. Len(d) /\ i + 1 \in 1 .. Len(d)
        /\ n + (i + 1) = (n + i) + 1
    BY <1>1
  <2>2. <<s[n + i], s[(n + i) + 1]>> \in Follow
    BY <2>1 DEF Linked
  <2>3. d[i] = s[n + i] /\ d[i + 1] = s[(n + i) + 1]
    BY <1>1, <2>1
  <2> QED
    BY <2>2, <2>3
<1> QED
  BY <1>2 DEF Linked

LEMMA AheadRemains ==
    ASSUME NEW d, NEW s, NEW n, Remains(d, s, n), NEW steps, NEW step, Ahead(s, steps, step)
    PROVE  Ahead(d, steps, step)
<1>1. /\ n \in Nat /\ Len(d) \in Nat /\ Len(s) = n + Len(d)
      /\ \A i \in 1 .. Len(d) : d[i] = s[n + i]
  BY DEF Remains
<1>2. ASSUME NEW i \in 1 .. Len(d), d[i] \in steps
      PROVE  \E k \in i + 1 .. Len(d) : d[k] = step
  <2>1. n + i \in 1 .. Len(s) /\ s[n + i] \in steps
    BY <1>1, <1>2
  <2>2. PICK k \in (n + i) + 1 .. Len(s) : s[k] = step
    BY <2>1 DEF Ahead
  <2>3. k - n \in i + 1 .. Len(d) /\ k - n \in 1 .. Len(d) /\ n + (k - n) = k
    BY <1>1, <2>2
  <2> QED
    BY <1>1, <2>2, <2>3
<1> QED
  BY <1>2 DEF Ahead

LEMMA ListRemains ==
    ASSUME NEW d, NEW s, NEW n, Remains(d, s, n), PageList(s)
    PROVE  /\ PageList(d)
           /\ \A z : Has(d, z) => Has(s, z)
           /\ n > 0 /\ d # <<>> => d[Len(d)] \in Ending
<1>1. /\ n \in Nat /\ Len(d) \in Nat /\ Len(s) = n + Len(d) /\ d \in Seq(Step)
      /\ \A i \in 1 .. Len(d) : d[i] = s[n + i] /\ n + i \in 1 .. Len(s)
  BY DEF Remains
<1>2. Linked(d) /\ Careful(d)
  BY LinkedRemains, AheadRemains DEF PageList, Careful
<1>3. OneUnlock(d)
  <2>1. ASSUME NEW i \in 1 .. Len(d), d[i] = "unlock", NEW k \in i + 1 .. Len(d)
        PROVE  d[k] # "unlock"
    <3>1. /\ n + i \in 1 .. Len(s) /\ s[n + i] = "unlock" /\ n + k \in (n + i) + 1 .. Len(s)
          /\ k \in 1 .. Len(d)
      BY <1>1, <2>1
    <3>2. s[n + k] # "unlock"
      BY <3>1 DEF PageList, OneUnlock
    <3> QED
      BY <1>1, <3>1, <3>2
  <2> QED
    BY <2>1 DEF OneUnlock
<1>4. \A z : Has(d, z) => Has(s, z)
  BY <1>1 DEF Has
<1>5. ASSUME d # <<>>
      PROVE  d[Len(d)] \in Ending \/ (Len(d) = 1 /\ d[1] \in {"resync", "disable"} /\ n = 0)
  <2>1. Len(d) \in 1 .. Len(d) /\ d[Len(d)] = s[Len(s)] /\ s # <<>>
    BY <1>1, <1>5
  <2>0. Len(s) = n + Len(d) /\ n \in Nat /\ Len(d) \in Nat \ {0}
    BY <1>1, <1>5
  <2>2. CASE s[Len(s)] \in Ending
    BY <2>1, <2>2
  <2>3. CASE Len(s) = 1 /\ s[1] \in {"resync", "disable"}
    <3>0. \A x, y \in Nat : y # 0 /\ 1 = x + y => y = 1 /\ x = 0
      OBVIOUS
    <3>1. Len(d) = 1 /\ n = 0
      BY <2>0, <2>3, <3>0
    <3> QED
      BY <1>1, <2>1, <2>3, <3>1
  <2> QED
    BY <2>1, <2>2, <2>3 DEF PageList
<1> QED
  BY <1>1, <1>2, <1>3, <1>4, <1>5 DEF PageList

\* What a page has left after any step.
LEMMA RestOfList ==
    ASSUME NEW s, PageList(s), s # <<>>
    PROVE  /\ PageList(Tail(s)) /\ Tail(s) \in Seq(Step) /\ HeadOf(s) = Head(s)
           /\ Tail(s) = <<>> => Head(s) \in Ending \cup {"resync", "disable"}
           /\ Tail(s) # <<>> => /\ <<Head(s), HeadOf(Tail(s))>> \in Follow
                                /\ Tail(s)[Len(Tail(s))] \in Ending
           /\ \A z : Has(Tail(s), z) => Has(s, z)
           /\ \A z : z # Head(s) /\ Has(s, z) => Has(Tail(s), z)
           /\ Head(s) \in WantsReload => Has(Tail(s), "reload")
           /\ Head(s) \in WantsCheck => Has(Tail(s), "check")
           /\ Head(s) = "unlock" => ~Has(Tail(s), "unlock")
<1> DEFINE t == Tail(s)
<1>1. s \in Seq(Step) /\ Remains(t, s, 1)
  BY TailRemains DEF PageList
<1>2. /\ t \in Seq(Step) /\ Len(t) \in Nat /\ Len(s) = 1 + Len(t) /\ Head(s) = s[1]
      /\ \A i \in 1 .. Len(t) : t[i] = s[1 + i]
      /\ \A k \in 2 .. Len(s) : k - 1 \in 1 .. Len(t) /\ t[k - 1] = s[k]
      /\ (t = <<>> <=> Len(t) = 0)
  <2>1. Head(s) = s[1]
    OBVIOUS
  <2> HIDE DEF t
  <2>2. /\ t \in Seq(Step) /\ Len(t) \in Nat /\ Len(s) = 1 + Len(t)
        /\ \A i \in 1 .. Len(t) : t[i] = s[1 + i]
    BY <1>1 DEF Remains
  <2>3. \A k \in 2 .. Len(s) : k - 1 \in 1 .. Len(t) /\ 1 + (k - 1) = k
    BY <2>2
  <2>4. t = <<>> <=> Len(t) = 0
    BY <2>2
  <2> QED
    BY <2>1, <2>2, <2>3, <2>4
<1> HIDE DEF t
<1>3. PageList(t) /\ (\A z : Has(t, z) => Has(s, z)) /\ (t # <<>> => t[Len(t)] \in Ending)
  <2>1. 1 > 0
    OBVIOUS
  <2> QED
    BY <1>1, <2>1, ListRemains
<1>4. 1 \in 1 .. Len(s)
  BY <1>2
<1>5. ASSUME t = <<>>
      PROVE  Head(s) \in Ending \cup {"resync", "disable"}
  <2>1. Len(s) = 1
    BY <1>2, <1>5
  <2> QED
    BY <1>2, <2>1 DEF PageList
<1>6. ASSUME t # <<>>
      PROVE  <<Head(s), HeadOf(t)>> \in Follow
  <2>1. 1 \in 1 .. Len(s) - 1 /\ 1 \in 1 .. Len(t)
    BY <1>2, <1>6
  <2>2. <<s[1], s[1 + 1]>> \in Follow
    BY <2>1 DEF PageList, Linked
  <2>3. t[1] = s[1 + 1]
    BY <1>2, <2>1
  <2> QED
    BY <1>2, <1>6, <2>2, <2>3 DEF HeadOf
<1>7. \A z : z # Head(s) /\ Has(s, z) => Has(t, z)
  <2>1. \A k \in 1 .. Len(s) : k = 1 \/ k \in 2 .. Len(s)
    BY <1>2
  <2> QED
    BY <1>2, <2>1 DEF Has
<1>8. ASSUME NEW steps, NEW step, Ahead(s, steps, step), Head(s) \in steps
      PROVE  Has(t, step)
  <2>1. PICK k \in 1 + 1 .. Len(s) : s[k] = step
    BY <1>2, <1>4, <1>8 DEF Ahead
  <2>2. k \in 2 .. Len(s)
    BY <2>1
  <2> QED
    BY <1>2, <2>1, <2>2 DEF Has
<1>9. Head(s) = "unlock" => ~Has(t, "unlock")
  <2>1. \A i \in 1 .. Len(t) : 1 + i \in 1 + 1 .. Len(s)
    BY <1>2
  <2> QED
    BY <1>2, <1>4, <2>1 DEF PageList, OneUnlock, Has
<1>10. HeadOf(s) = Head(s)
  BY <1>2 DEF HeadOf
<1> QED
  BY <1>2, <1>3, <1>5, <1>6, <1>7, <1>8, <1>9, <1>10 DEF PageList, Careful, t

\* A failure leads to the next step that looks at it.
LEMMA DropOfList ==
    ASSUME NEW s, PageList(s), NEW marks, NEW m \in marks, Has(s, m)
    PROVE  /\ PageList(DropTo(marks, s)) /\ DropTo(marks, s) # <<>>
           /\ HeadOf(DropTo(marks, s)) \in marks
           /\ \A z : Has(DropTo(marks, s), z) => Has(s, z)
<1>1. s \in Seq(Step) /\ \E i \in 1 .. Len(s) : s[i] = m
  BY DEF PageList, Has
<1>2. PICK k \in 1 .. Len(s) : s[k] \in marks /\ DropTo(marks, s) = SubSeq(s, k, Len(s))
  BY <1>1, DropIsSuffix
<1> DEFINE d == SubSeq(s, k, Len(s))
<1>3. Remains(d, s, k - 1)
  BY <1>1, EndRemains
<1> HIDE DEF d
<1>4. PageList(d) /\ \A z : Has(d, z) => Has(s, z)
  BY <1>3, ListRemains
<1>5. d # <<>> /\ d[1] = s[k]
  <2>1. k - 1 \in Nat /\ Len(d) \in Nat /\ Len(s) = (k - 1) + Len(d) /\ Len(s) \in Nat /\ k \in Nat
    BY <1>1, <1>3 DEF Remains
  <2>2. 1 \in 1 .. Len(d) /\ (k - 1) + 1 = k
    BY <2>1
  <2> QED
    BY <1>3, <2>2 DEF Remains
<1> QED
  BY <1>2, <1>4, <1>5 DEF HeadOf, d

\* Two parts of a procedure, one after the other.
LEMMA PartsJoin ==
    ASSUME NEW a, NEW b, NEW x, NEW y, NEW u, NEW v,
           Chain(a, x, y), Chain(b, u, v), <<y, u>> \in Follow,
           Ahead(a, WantsReload, "reload") \/ Has(b, "reload"),
           Ahead(a, WantsCheck, "check") \/ Has(b, "check"),
           Careful(b)
    PROVE  Chain(a \o b, x, v) /\ Careful(a \o b) /\ \A z : Has(a \o b, z) <=> Has(a, z) \/ Has(b, z)
<1>1. a \in Seq(Step) /\ b \in Seq(Step)
  BY DEF Chain
<1>2. Ahead(b, WantsReload, "reload") /\ Ahead(b, WantsCheck, "check")
  BY DEF Careful
<1>3. Ahead(a \o b, WantsReload, "reload") /\ Ahead(a \o b, WantsCheck, "check")
  BY <1>1, <1>2, AheadJoins
<1>4. Chain(a \o b, x, v) /\ \A z : Has(a \o b, z) <=> Has(a, z) \/ Has(b, z)
  BY ChainsJoin
<1> QED
  BY <1>3, <1>4 DEF Careful

LEMMA OnePart ==
    ASSUME NEW x \in Step
    PROVE  /\ Chain(<<x>>, x, x) /\ \A z : Has(<<x>>, z) <=> z = x
           /\ x \notin WantsReload \cup WantsCheck => Careful(<<x>>)
<1> DEFINE s == <<x>>
<1>1. s \in Seq(Step) /\ s # <<>> /\ Len(s) = 1 /\ s[1] = x
  OBVIOUS
<1> HIDE DEF s
<1>2. \A i \in 1 .. Len(s) : i = 1
  BY <1>1
<1>3. \A i \in 1 .. Len(s) - 1 : FALSE
  BY <1>1
<1>4. 1 \in 1 .. Len(s)
  BY <1>1
<1>5. Linked(s)
  BY <1>3 DEF Linked
<1>6. \A z : Has(s, z) <=> z = x
  BY <1>1, <1>2, <1>4 DEF Has
<1>7. x \notin WantsReload \cup WantsCheck => Careful(s)
  BY <1>1, <1>2 DEF Careful, Ahead
<1> QED
  BY <1>1, <1>5, <1>6, <1>7 DEF Chain, s

LEMMA TwoParts ==
    ASSUME NEW x \in Step, NEW y \in Step, <<x, y>> \in Follow
    PROVE  /\ Chain(<<x, y>>, x, y) /\ \A z : Has(<<x, y>>, z) <=> z = x \/ z = y
           /\ /\ y \notin WantsReload \cup WantsCheck
              /\ x \in WantsReload => y = "reload"
              /\ x \in WantsCheck => y = "check"
              => Careful(<<x, y>>)
<1> DEFINE s == <<x, y>>
<1>1. s \in Seq(Step) /\ s # <<>> /\ Len(s) = 2 /\ s[1] = x /\ s[2] = y
  OBVIOUS
<1> HIDE DEF s
<1>2. \A i \in 1 .. Len(s) : i = 1 \/ i = 2
  BY <1>1
<1>3. \A i \in 1 .. Len(s) - 1 : i = 1 /\ i + 1 = 2
  BY <1>1
<1>4. 1 \in 1 .. Len(s) /\ 2 \in 1 .. Len(s) /\ 2 \in 1 + 1 .. Len(s)
  BY <1>1
<1>5. Linked(s)
  BY <1>1, <1>3 DEF Linked
<1>6. \A z : Has(s, z) <=> z = x \/ z = y
  BY <1>1, <1>2, <1>4 DEF Has
<1>7. /\ y \notin WantsReload \cup WantsCheck
      /\ x \in WantsReload => y = "reload"
      /\ x \in WantsCheck => y = "check"
      => Careful(s)
  <2> SUFFICES ASSUME y \notin WantsReload \cup WantsCheck,
                      x \in WantsReload => y = "reload",
                      x \in WantsCheck => y = "check"
               PROVE  Careful(s)
    OBVIOUS
  <2>1. Ahead(s, WantsReload, "reload")
    BY <1>1, <1>2, <1>4 DEF Ahead
  <2>2. Ahead(s, WantsCheck, "check")
    BY <1>1, <1>2, <1>4 DEF Ahead
  <2> QED
    BY <2>1, <2>2 DEF Careful
<1> QED
  BY <1>1, <1>5, <1>6, <1>7 DEF Chain, s

\* What stops the service, and looks at the result.
LEMMA StoppingPart ==
    /\ Chain(Stopping, "stopServer", "stopHelper") /\ Careful(Stopping)
    /\ \A z : Has(Stopping, z) => z \in {"stopServer", "stopHelper"}
<1>1. "stopServer" \in Step /\ "stopHelper" \in Step /\ <<"stopServer", "stopHelper">> \in Follow
  BY DEF Step, Follow
<1>2. {"stopServer", "stopHelper"} \cap (WantsReload \cup WantsCheck) = {}
  BY DEF WantsReload, WantsCheck
<1> QED
  BY <1>1, <1>2, TwoParts DEF Stopping

LEMMA FlagPart ==
    ASSUME NEW flagStep \in {"flagNo", "flagNoAnyway"}
    PROVE  LET a == <<flagStep>> \o Stopping IN
           /\ Chain(a, flagStep, "stopHelper") /\ Careful(a)
           /\ \A z : Has(a, z) => z \in {flagStep, "stopServer", "stopHelper"}
<1>1. flagStep \in Step /\ flagStep \notin WantsReload \cup WantsCheck
  BY DEF Step, WantsReload, WantsCheck
<1>2. <<flagStep, "stopServer">> \in Follow
  BY DEF Follow
<1>3. Chain(<<flagStep>>, flagStep, flagStep) /\ Careful(<<flagStep>>)
      /\ \A z : Has(<<flagStep>>, z) <=> z = flagStep
  BY <1>1, OnePart
<1> DEFINE b == <<flagStep>>
<1> HIDE DEF b
<1>4. /\ Chain(b, flagStep, flagStep) /\ Careful(b)
      /\ \A z : Has(b, z) <=> z = flagStep
  BY <1>3 DEF b
<1>5. Chain(b \o Stopping, flagStep, "stopHelper") /\ Careful(b \o Stopping)
      /\ \A z : Has(b \o Stopping, z) <=> Has(b, z) \/ Has(Stopping, z)
  BY <1>2, <1>4, StoppingPart, PartsJoin DEF Careful
<1>6. \A z : Has(b \o Stopping, z) => z \in {flagStep, "stopServer", "stopHelper"}
  BY <1>4, <1>5, StoppingPart
<1> QED
  BY <1>5, <1>6 DEF b

\* f2bguard_apply_service_state, and how much of it stops a server that runs.
LEMMA StatePart ==
    ASSUME NEW on \in BOOLEAN
    PROVE  LET first == IF on THEN "flagYes" ELSE "flagNo" IN
           /\ Chain(Applying(on, TRUE), first, "check") /\ Careful(Applying(on, TRUE))
           /\ Has(Applying(on, TRUE), "reload") /\ Has(Applying(on, TRUE), "check")
           /\ ~Has(Applying(on, TRUE), "unlock")
<1> DEFINE first == IF on THEN "flagYes" ELSE "flagNo"
           front == IF on THEN <<"flagYes", "restart", "check">>
                          ELSE <<"flagNo">> \o Stopping \o <<"check">>
           rest == <<"reload", "check">>
<1>1. Applying(on, TRUE) = front \o rest
  BY DEF Applying
<1>2. /\ Chain(rest, "reload", "check") /\ Careful(rest)
      /\ \A z : Has(rest, z) <=> z = "reload" \/ z = "check"
  BY TwoParts DEF Step, Follow, WantsReload, WantsCheck
<1>3. /\ Chain(<<"check">>, "check", "check") /\ Careful(<<"check">>)
      /\ \A z : Has(<<"check">>, z) <=> z = "check"
  BY OnePart DEF Step, WantsReload, WantsCheck
<1> DEFINE c == <<"check">>
<1> HIDE DEF rest
<1>4. Chain(front, first, "check") /\ Ahead(front, WantsCheck, "check") /\ ~Has(front, "unlock")
  <2>1. CASE on
    <3> DEFINE s == <<"flagYes", "restart", "check">>
    <3>1. s \in Seq(Step) /\ s # <<>> /\ Len(s) = 3 /\ s[1] = "flagYes" /\ s[2] = "restart" /\ s[3] = "check"
      BY DEF Step
    <3> HIDE DEF s
    <3>2. \A i \in 1 .. Len(s) : i = 1 \/ i = 2 \/ i = 3
      BY <3>1
    <3>3. \A i \in 1 .. Len(s) - 1 : (i = 1 /\ i + 1 = 2) \/ (i = 2 /\ i + 1 = 3)
      BY <3>1
    <3>4. Linked(s)
      BY <3>1, <3>3 DEF Linked, Follow
    <3>5. 3 \in 1 + 1 .. Len(s) /\ 3 \in 2 + 1 .. Len(s)
      BY <3>1
    <3>6. Ahead(s, WantsCheck, "check")
      BY <3>1, <3>2, <3>5 DEF Ahead, WantsCheck
    <3>7. ~Has(s, "unlock")
      BY <3>1, <3>2 DEF Has
    <3> QED
      BY <2>1, <3>1, <3>4, <3>6, <3>7 DEF Chain, s
  <2>2. CASE ~on
    <3> DEFINE a == <<"flagNo">> \o Stopping
    <3>1. /\ Chain(a, "flagNo", "stopHelper") /\ Careful(a)
          /\ \A z : Has(a, z) => z \in {"flagNo", "stopServer", "stopHelper"}
      BY FlagPart
    <3> HIDE DEF a
    <3>2. <<"stopHelper", "check">> \in Follow
      BY DEF Follow
    <3>3. Chain(c, "check", "check") /\ Careful(c) /\ \A z : Has(c, z) <=> z = "check"
      BY <1>3
    <3> HIDE DEF c
    <3>4. Chain(a \o c, "flagNo", "check") /\ Careful(a \o c)
          /\ \A z : Has(a \o c, z) <=> Has(a, z) \/ Has(c, z)
      BY <3>1, <3>2, <3>3, PartsJoin DEF Careful
    <3>5. ~Has(a \o c, "unlock")
      BY <3>1, <3>3, <3>4
    <3> QED
      BY <2>2, <3>4, <3>5 DEF a, c, Careful
  <2> QED
    BY <2>1, <2>2
<1> HIDE DEF front, first, c
<1>5. <<"check", "reload">> \in Follow
  BY DEF Follow
<1>6. Chain(front \o rest, first, "check") /\ Careful(front \o rest)
      /\ \A z : Has(front \o rest, z) <=> Has(front, z) \/ Has(rest, z)
  BY <1>2, <1>4, <1>5, PartsJoin
<1> QED
  BY <1>1, <1>2, <1>4, <1>6 DEF first

\* f2bguard_disable_runtime.
LEMMA DisablingPart ==
    ASSUME NEW reload \in BOOLEAN
    PROVE  /\ Chain(Disabling(reload), "disable", "disabled") /\ Careful(Disabling(reload))
           /\ ~Has(Disabling(reload), "unlock")
           /\ Len(Disabling(reload)) # 1
<1> DEFINE first == <<"disable">>
           state == Applying(FALSE, reload)
           last == <<"disabled">>
<1>1. /\ Chain(first, "disable", "disable") /\ Careful(first)
      /\ \A z : Has(first, z) <=> z = "disable"
  BY OnePart DEF Step, WantsReload, WantsCheck
<1>2. /\ Chain(last, "disabled", "disabled") /\ Careful(last)
      /\ \A z : Has(last, z) <=> z = "disabled"
  BY OnePart DEF Step, WantsReload, WantsCheck
<1>3. Chain(state, "flagNo", "check") /\ Careful(state) /\ ~Has(state, "unlock")
  <2>1. CASE reload
    <3>1. /\ Chain(Applying(FALSE, TRUE), "flagNo", "check") /\ Careful(Applying(FALSE, TRUE))
          /\ ~Has(Applying(FALSE, TRUE), "unlock")
      BY StatePart
    <3>2. state = Applying(FALSE, TRUE)
      BY <2>1, Zenon
    <3> HIDE DEF state
    <3> QED
      BY <3>1, <3>2, Zenon
  <2>2. CASE ~reload
    <3> DEFINE a == <<"flagNo">> \o Stopping
               c == <<"check">>
    <3>1. /\ Chain(a, "flagNo", "stopHelper") /\ Careful(a)
          /\ \A z : Has(a, z) => z \in {"flagNo", "stopServer", "stopHelper"}
      BY FlagPart
    <3>2. /\ Chain(c, "check", "check") /\ Careful(c)
          /\ \A z : Has(c, z) <=> z = "check"
      BY OnePart DEF Step, WantsReload, WantsCheck
    <3>3. state = (a \o c) \o <<>>
      BY <2>2 DEF Applying
    <3> HIDE DEF a, c
    <3>4. <<"stopHelper", "check">> \in Follow
      BY DEF Follow
    <3>5. Chain(a \o c, "flagNo", "check") /\ Careful(a \o c)
          /\ \A z : Has(a \o c, z) <=> Has(a, z) \/ Has(c, z)
      BY <3>1, <3>2, <3>4, PartsJoin DEF Careful
    <3>6. state = a \o c
      <4> DEFINE w == a \o c
      <4>1. w \in Seq(Step)
        BY <3>5 DEF Chain
      <4> HIDE DEF w
      <4>2. w \o <<>> = w
        BY <4>1
      <4> QED
        BY <3>3, <4>2 DEF w
    <3>7. ~Has(a \o c, "unlock")
      BY <3>1, <3>2, <3>5
    <3> HIDE DEF state
    <3> QED
      BY <3>5, <3>6, <3>7
  <2> QED
    BY <2>1, <2>2
<1>4. <<"disable", "flagNo">> \in Follow /\ <<"check", "disabled">> \in Follow
  BY DEF Follow
<1>5. Disabling(reload) = (first \o state) \o last
  BY DEF Disabling
<1> HIDE DEF first, state, last
<1>6. Chain(first \o state, "disable", "check") /\ Careful(first \o state)
      /\ \A z : Has(first \o state, z) <=> Has(first, z) \/ Has(state, z)
  BY <1>1, <1>3, <1>4, PartsJoin DEF Careful
<1> DEFINE most == first \o state
<1> HIDE DEF most
<1>7. Chain(most, "disable", "check") /\ Careful(most) /\ ~Has(most, "unlock")
  BY <1>1, <1>3, <1>6 DEF most
<1>8. Chain(most \o last, "disable", "disabled") /\ Careful(most \o last)
      /\ \A z : Has(most \o last, z) <=> Has(most, z) \/ Has(last, z)
  BY <1>2, <1>4, <1>7, PartsJoin DEF Careful
<1> DEFINE all == most \o last
<1> HIDE DEF all
<1>9. Chain(all, "disable", "disabled") /\ Careful(all) /\ ~Has(all, "unlock")
  BY <1>2, <1>7, <1>8 DEF all
<1>10. Len(all) # 1
  BY <1>9 DEF Chain
<1> QED
  BY <1>5, <1>9, <1>10 DEF most, all

\* A procedure of a page is a list of its steps.
LEMMA ProcedureIsList ==
    ASSUME NEW s, NEW first, NEW last \in Ending, Chain(s, first, last), Careful(s), ~Has(s, "unlock")
    PROVE  PageList(s) /\ HeadOf(s) = first
<1>1. OneUnlock(s)
  BY DEF OneUnlock, Has
<1> QED
  BY <1>1 DEF PageList, Chain, HeadOf

\* The rest of f2bguard_resync_config, once it has read a valid configuration.
LEMMA ResyncList ==
    ASSUME NEW on \in BOOLEAN
    PROVE  LET s == <<"whitelist", "pems", "json">> \o Applying(on, TRUE) \o <<"applied">> IN
           /\ PageList(s) /\ HeadOf(s) = "whitelist" /\ Has(s, "reload") /\ ~Has(s, "unlock")
<1> DEFINE a == <<"whitelist", "pems", "json">>
           state == Applying(on, TRUE)
           last == <<"applied">>
           first == IF on THEN "flagYes" ELSE "flagNo"
<1>1. Chain(a, "whitelist", "json") /\ Ahead(a, WantsCheck, "check") /\ ~Has(a, "unlock")
  <2>1. /\ a \in Seq(Step) /\ a # <<>> /\ Len(a) = 3
        /\ a[1] = "whitelist" /\ a[2] = "pems" /\ a[3] = "json"
    BY DEF Step
  <2> HIDE DEF a
  <2>2. \A i \in 1 .. Len(a) : i = 1 \/ i = 2 \/ i = 3
    BY <2>1
  <2>3. \A i \in 1 .. Len(a) - 1 : (i = 1 /\ i + 1 = 2) \/ (i = 2 /\ i + 1 = 3)
    BY <2>1
  <2>4. Linked(a)
    BY <2>1, <2>3 DEF Linked, Follow
  <2>5. Ahead(a, WantsCheck, "check")
    BY <2>1, <2>2 DEF Ahead, WantsCheck
  <2>6. ~Has(a, "unlock")
    BY <2>1, <2>2 DEF Has
  <2> QED
    BY <2>1, <2>4, <2>5, <2>6 DEF Chain
<1>2. /\ Chain(state, first, "check") /\ Careful(state)
      /\ Has(state, "reload") /\ Has(state, "check") /\ ~Has(state, "unlock")
  BY StatePart
<1>3. /\ Chain(last, "applied", "applied") /\ Careful(last)
      /\ \A z : Has(last, z) <=> z = "applied"
  BY OnePart DEF Step, WantsReload, WantsCheck
<1>4. <<"json", first>> \in Follow /\ <<"check", "applied">> \in Follow
  BY DEF Follow
<1> HIDE DEF a, state, last, first
<1>5. Chain(a \o state, "whitelist", "check") /\ Careful(a \o state)
      /\ \A z : Has(a \o state, z) <=> Has(a, z) \/ Has(state, z)
  BY <1>1, <1>2, <1>4, PartsJoin
<1> DEFINE most == a \o state
<1> HIDE DEF most
<1>6. /\ Chain(most, "whitelist", "check") /\ Careful(most)
      /\ Has(most, "reload") /\ ~Has(most, "unlock")
  BY <1>1, <1>2, <1>5 DEF most
<1>7. Chain(most \o last, "whitelist", "applied") /\ Careful(most \o last)
      /\ \A z : Has(most \o last, z) <=> Has(most, z) \/ Has(last, z)
  BY <1>3, <1>4, <1>6, PartsJoin DEF Careful
<1> DEFINE all == most \o last
<1> HIDE DEF all
<1>8. /\ Chain(all, "whitelist", "applied") /\ Careful(all)
      /\ Has(all, "reload") /\ ~Has(all, "unlock")
  BY <1>3, <1>6, <1>7 DEF all
<1>9. PageList(all) /\ HeadOf(all) = "whitelist"
  BY <1>8, ProcedureIsList DEF Ending
<1>10. all = a \o state \o last
  BY DEF all, most
<1> QED
  BY <1>8, <1>9, <1>10 DEF a, state, last

\* Steps put before the rest.
LEMMA FrontOfList ==
    ASSUME NEW a, NEW b, NEW x, NEW y,
           Chain(a, x, y),
           Ahead(a, WantsReload, "reload") \/ Has(b, "reload"),
           Ahead(a, WantsCheck, "check") \/ Has(b, "check"),
           PageList(b), b # <<>>, b[Len(b)] \in Ending, <<y, HeadOf(b)>> \in Follow,
           ~Has(a, "unlock") \/ (~Has(b, "unlock") /\ OneUnlock(a))
    PROVE  /\ PageList(a \o b) /\ HeadOf(a \o b) = x
           /\ \A z : Has(a \o b, z) <=> Has(a, z) \/ Has(b, z)
           /\ Len(a \o b) # 1
<1> DEFINE s == a \o b
           n == Len(a)
           u == HeadOf(b)
           v == b[Len(b)]
<1>1. Chain(b, u, v)
  BY DEF PageList, Chain, HeadOf
<1>2. Chain(s, x, v) /\ \A z : Has(s, z) <=> Has(a, z) \/ Has(b, z)
  BY <1>1, ChainsJoin
<1>3. a \in Seq(Step) /\ b \in Seq(Step) /\ a # <<>>
  BY <1>1 DEF Chain
<1>4. Careful(s)
  <2>1. Ahead(b, WantsReload, "reload") /\ Ahead(b, WantsCheck, "check")
    BY DEF PageList, Careful
  <2>2. Ahead(s, WantsReload, "reload") /\ Ahead(s, WantsCheck, "check")
    BY <1>3, <2>1, AheadJoins
  <2> QED
    BY <2>2 DEF Careful
<1>5. /\ n \in Nat \ {0} /\ Len(b) \in Nat \ {0} /\ Len(s) = n + Len(b)
      /\ \A i \in 1 .. n : s[i] = a[i]
      /\ \A i \in 1 .. Len(s) : i \notin 1 .. n => i - n \in 1 .. Len(b) /\ s[i] = b[i - n]
  BY <1>3, Joined
<1> HIDE DEF s, n, u, v
<1>6. OneUnlock(s)
  <2>1. ASSUME NEW i \in 1 .. Len(s), s[i] = "unlock", NEW k \in i + 1 .. Len(s)
        PROVE  s[k] # "unlock"
    <3>0. n \in Int /\ Len(b) \in Int /\ Len(s) \in Int /\ i \in Int /\ k \in Int
      BY <1>5
    <3>1. CASE i \notin 1 .. n
      <4> DEFINE j == i - n
                 l == k - n
      <4>1. /\ j \in 1 .. Len(b) /\ b[j] = "unlock" /\ k \notin 1 .. n /\ k \in 1 .. Len(s)
        BY <1>5, <2>1, <3>0, <3>1
      <4>2. s[k] = b[l] /\ l \in j + 1 .. Len(b)
        BY <1>5, <2>1, <3>0, <4>1
      <4> HIDE DEF j, l
      <4>3. b[l] # "unlock"
        BY <4>1, <4>2 DEF PageList, OneUnlock
      <4> QED
        BY <4>2, <4>3
    <3>2. CASE i \in 1 .. n
      <4>1. a[i] = "unlock" /\ i \in 1 .. Len(a)
        BY <1>5, <2>1, <3>2 DEF n
      <4>2. ~Has(b, "unlock") /\ OneUnlock(a)
        BY <4>1 DEF Has
      <4>3. CASE k \in 1 .. n
        <5>1. k \in i + 1 .. Len(a)
          BY <2>1, <3>0, <3>2, <4>3 DEF n
        <5>2. a[k] # "unlock"
          BY <4>1, <4>2, <5>1 DEF OneUnlock
        <5> QED
          BY <1>5, <4>3, <5>2
      <4>4. CASE k \notin 1 .. n
        <5>1. k \in 1 .. Len(s)
          BY <2>1, <3>0, <3>2
        <5>2. k - n \in 1 .. Len(b) /\ s[k] = b[k - n]
          BY <1>5, <4>4, <5>1
        <5> QED
          BY <4>2, <5>2 DEF Has
      <4> QED
        BY <4>3, <4>4
    <3> QED
      BY <3>1, <3>2
  <2> QED
    BY <2>1 DEF OneUnlock
<1>7. Len(s) # 1
  BY <1>5
<1> QED
  BY <1>2, <1>4, <1>6, <1>7 DEF PageList, Chain, HeadOf, s, v

-----------------------------------------------------------------------------
(***************************************************************************)
(* The invariant of a server that runs.                                    *)
(***************************************************************************)
Lone(q) == Len(todo[q]) = 1
Locks(q) == Has(todo[q], "unlock")
Reloads(q) == Has(todo[q], "reload")
OnlyStops(s) == \A i \in 1 .. Len(s) : s[i] \in {"flagNoAnyway", "stopServer", "stopHelper"} \cup Ending

\* q is about to stop the server, or p to restart it.
Stops(q) ==
    \/ Doing(q) \in {"flagNo", "flagNoAnyway", "stopServer"}
    \/ Doing(q) = "disable" /\ ~Lone(q)
Restarts(p) == Doing(p) \in {"flagYes", "restart"}
Unsettled(p) == Stops(p) \/ Stops(Filter) \/ Restarts(p)

PageFits(p) == PageList(todo[p]) /\ (Locks(p) => lock = p)

\* The filter gives its lock up last, and nothing it does inside may fail.
FilterList(s) == s \in Seq(Step) /\ Linked(s) /\ \A i \in 1 .. Len(s) : s[i] = "unlock" => i = Len(s)
FilterFits ==
    /\ FilterList(todo[Filter])
    /\ lock = Filter \/ todo[Filter] \in {<<>>, <<"reload">>}
    /\ ~failed[Filter]

\* A page that has failed only stops the server, up to where it forgets it.
FailureFits(p) ==
    failed[p] =>
        /\ Doing(p) # "nothing"
        /\ ~Locks(p)
        /\ Doing(p) = "check" \/ OnlyStops(todo[p])
        /\ Doing(p) \in Ending => server = "down"

\* config.json is disabled, or says what is saved, or is about to.
JsonFits(p) ==
    /\ \/ json = None
       \/ config.enabled /\ config.certs /\ json = config.clients
       \/ Doing(p) \in {"resync", "whitelist", "pems", "json", "disable"}
    /\ Doing(p) \in {"whitelist", "pems", "json"} => read[p].config = config
    /\ Doing(p) = "json" => MaterialAvailable(config)

\* The server serves what config.json says, or is about to be stopped.
ServingFits(p) ==
    /\ server = "up" => serving # None /\ (serving = json \/ Unsettled(p))
    /\ Doing(p) = "disable" /\ Lone(p) => server = "down"
    /\ Doing(p) = "stopHelper" => server = "down"
    /\ Doing(p) = "restart" /\ flag = "NO" => Stops(Filter) \/ server = "down"

\* So does the helper run beside it.
HelperFits(p) ==
    /\ server # "down" /\ helper = "down" => json = None \/ Unsettled(p)
    /\ Doing(Filter) = "stopHelper" /\ server # "down" => json = None \/ Stops(p) \/ Restarts(p)
    /\ Doing(p) = "startServer" /\ helper = "down" => json = None
    /\ Doing(p) \in {"startHelper", "startServer"}
       /\ Doing(Filter) \in {"flagNo", "flagNoAnyway", "stopServer", "stopHelper"} => json = None

\* What a callback writes is the alias, or another callback will come.
Current(q) == Doing(q) = "refresh" /\ read[q].alias = alias
RefreshFits(p) ==
    /\ Doing(p) = "refresh" => Current(p) \/ pending \/ Doing(Filter) = "reload"
    /\ Doing(Filter) = "refresh" => Current(Filter) \/ pending

\* The snapshot is the alias, or a callback or a stop is to come.
SnapshotFits(p) ==
    server # "down" =>
        \/ alias = snapshot \/ pending \/ failed[p]
        \/ Doing(Filter) \in {"reload", "callback"}
        \/ Doing(p) \in {"resync", "callback"}
        \/ Current(p) \/ Current(Filter)
        \/ Stops(p) \/ Stops(Filter) \/ Reloads(p)
        \/ server = "starting" /\ json = None

ServerFits(p) ==
    /\ FailureFits(p) /\ JsonFits(p) /\ ServingFits(p) /\ HelperFits(p)
    /\ RefreshFits(p) /\ SnapshotFits(p)

ServeIInv(p) == LifecycleIInv /\ (~spoiled => PageFits(p) /\ FilterFits /\ ServerFits(p))

\* One page and the filter, and what is known of them.
Serving(p) ==
    /\ Page = {p} /\ p # Filter /\ Process = {p, Filter}
    /\ LifecycleIInv /\ PageFits(p) /\ FilterFits /\ ServerFits(p)

LEMMA ServesWhenQuiet ==
    ASSUME NEW p, Page = {p}, ServeIInv(p)
    PROVE  ServesWhatIsSaved
<1> SUFFICES ASSUME Quiet, ~spoiled, server = "up"
             PROVE  /\ config.enabled /\ config.certs
                    /\ serving = config.clients
                    /\ alias = snapshot
                    /\ helper = "up"
  BY DEF ServesWhatIsSaved
<1>1. todo[p] = <<>> /\ todo[Filter] = <<>> /\ ~pending /\ helper \in {"up", "down"}
  BY DEF Quiet, Process, ServeIInv, LifecycleIInv, StateFits
<1>2. Doing(p) = "nothing" /\ Doing(Filter) = "nothing"
  BY <1>1 DEF Doing, HeadOf
<1>3. ~Reloads(p)
  BY <1>1 DEF Reloads, Has
<1>4. ServerFits(p)
  BY DEF ServeIInv
<1>5. ~Unsettled(p) /\ ~Current(p) /\ ~Current(Filter)
  BY <1>2 DEF Unsettled, Stops, Restarts, Current
<1>6. serving # None /\ serving = json
  BY <1>4, <1>5 DEF ServerFits, ServingFits
<1>7. config.enabled /\ config.certs /\ json = config.clients
  BY <1>2, <1>4, <1>6 DEF ServerFits, JsonFits
<1>8. helper = "up"
  BY <1>1, <1>4, <1>5, <1>6 DEF ServerFits, HelperFits
<1>9. ~failed[p]
  BY <1>2, <1>4 DEF ServerFits, FailureFits
<1>10. alias = snapshot
  BY <1>1, <1>2, <1>3, <1>4, <1>5, <1>9 DEF ServerFits, SnapshotFits, Unsettled
<1> QED
  BY <1>6, <1>7, <1>8, <1>10

\* A page that goes on with the next step of its list.
Advances(p) ==
    /\ PageList(todo[p])'
    /\ \/ <<Doing(p), Doing(p)'>> \in Follow /\ ~Lone(p)
       \/ Doing(p) \in Ending \cup {"resync", "disable"} /\ Doing(p)' = "nothing" /\ Lone(p)
    /\ Reloads(p) /\ Doing(p) # "reload" => Reloads(p)'
    /\ Doing(p) \in WantsReload => Reloads(p)'
    /\ Locks(p)' => Locks(p) /\ Doing(p) # "unlock"
    /\ OnlyStops(todo[p]) => OnlyStops(todo[p])'

LEMMA PageAdvances ==
    ASSUME NEW p, PageList(todo[p]), todo[p] # <<>>, todo'[p] = Tail(todo[p])
    PROVE  Advances(p)
<1> DEFINE s == todo[p]
           t == Tail(s)
<1>1. /\ PageList(t) /\ t \in Seq(Step) /\ HeadOf(s) = Head(s)
      /\ t = <<>> => Head(s) \in Ending \cup {"resync", "disable"}
      /\ t # <<>> => <<Head(s), HeadOf(t)>> \in Follow
      /\ \A z : Has(t, z) => Has(s, z)
      /\ \A z : z # Head(s) /\ Has(s, z) => Has(t, z)
      /\ Head(s) \in WantsReload => Has(t, "reload")
      /\ Head(s) = "unlock" => ~Has(t, "unlock")
  BY RestOfList
<1>2. s \in Seq(Step) /\ s # <<>>
  BY DEF PageList
<1>3. Remains(t, s, 1)
  BY <1>2, TailRemains
<1> HIDE DEF t
<1>4. Len(t) \in Nat /\ Len(s) = 1 + Len(t) /\ \A i \in 1 .. Len(t) : t[i] = s[1 + i] /\ 1 + i \in 1 .. Len(s)
  BY <1>3 DEF Remains
<1>5. t = <<>> <=> Len(s) = 1
  <2>1. t = <<>> <=> Len(t) = 0
    BY <1>1
  <2>2. Len(t) = 0 <=> Len(s) = 1
    BY <1>4
  <2> QED
    BY <2>1, <2>2
<1>6. OnlyStops(s) => OnlyStops(t)
  BY <1>4 DEF OnlyStops
<1>7. t = <<>> => HeadOf(t) = "nothing"
  BY DEF HeadOf
<1>8. todo'[p] = t
  BY DEF t
<1>9. (todo[p])' = t
  BY <1>8
<1> QED
  BY <1>1, <1>5, <1>6, <1>7, <1>9 DEF Advances, Doing, Lone, Reloads, Locks

\* The filter lock keeps them apart.
LEMMA WhereTheyAre ==
    ASSUME NEW p, Serving(p)
    PROVE  /\ lock = p => Doing(p) \in InsideSteps \cup {"unlock"}
           /\ Doing(p) \in {"callback", "refresh", "unlock"} => lock = p /\ Locks(p)
           /\ lock = p => Doing(Filter) \in {"nothing", "reload"}
           /\ lock # Filter => Doing(Filter) \in {"nothing", "reload"}
           /\ Doing(Filter) \in InsideSteps \cup {"nothing", "reload", "unlock"}
           /\ Doing(Filter) \notin {"nothing", "reload"} => ~Lone(Filter) \/ Doing(Filter) = "unlock"
           /\ p \in Process /\ Filter \in Process
<1>1. /\ ControlFits /\ PageFits(p) /\ FilterFits /\ p # Filter
      /\ p \in Process /\ Filter \in Process
  BY DEF Serving, LifecycleIInv
<1>2. /\ todo[p] \in Seq(Step) /\ todo[Filter] \in Seq(Step)
      /\ lock = p => Inside(todo[p])
      /\ lock = Filter => Inside(todo[Filter])
  BY <1>1 DEF ControlFits
<1>3. \A s \in Seq(Step) : Inside(s) => /\ HeadOf(s) \in InsideSteps \cup {"unlock"}
                                        /\ HeadOf(s) = "unlock" \/ Len(s) # 1
  <2>1. ASSUME NEW s \in Seq(Step), Inside(s)
        PROVE  s # <<>> /\ HeadOf(s) = Head(s) /\ Head(s) \in InsideSteps \cup {"unlock"}
               /\ (Head(s) = "unlock" \/ Len(s) # 1)
    <3>1. s # <<>> /\ (Head(s) = "unlock" \/ Head(s) \in InsideSteps)
      BY <2>1, InsideHead
    <3>2. HeadOf(s) = Head(s)
      BY <3>1 DEF HeadOf
    <3>3. ASSUME Head(s) # "unlock"
          PROVE  Len(s) # 1
      <4>1. Inside(Tail(s)) /\ Tail(s) \in Seq(Step)
        BY <2>1, <3>1, <3>3, InsideRest
      <4>2. Tail(s) # <<>>
        BY <4>1, InsideHead
      <4>3. Len(Tail(s)) # 0 /\ Len(Tail(s)) \in Nat
        BY <4>1, <4>2
      <4>4. Len(s) = 1 + Len(Tail(s))
        BY <2>1, <3>1, TailRemains DEF Remains
      <4> QED
        BY <4>3, <4>4
    <3> QED
      BY <3>1, <3>2, <3>3
  <2> QED
    BY <2>1
<1>4. ASSUME Doing(p) \in {"callback", "refresh", "unlock"}
      PROVE  Locks(p)
  <2> DEFINE s == todo[p]
  <2>1. PageList(s) /\ s # <<>>
    BY <1>1, <1>4 DEF PageFits, Doing, HeadOf
  <2>2. /\ HeadOf(s) = Head(s)
        /\ Tail(s) = <<>> => Head(s) \in Ending \cup {"resync", "disable"}
        /\ Tail(s) # <<>> => <<Head(s), HeadOf(Tail(s))>> \in Follow
        /\ Tail(s) \in Seq(Step)
        /\ \A z : Has(Tail(s), z) => Has(s, z)
    BY <2>1, RestOfList
  <2>3. 1 \in 1 .. Len(s) /\ s[1] = HeadOf(s)
    BY <1>2, <2>1 DEF HeadOf
  <2>4. CASE HeadOf(s) = "unlock"
    BY <2>3, <2>4 DEF Locks, Has
  <2>5. CASE HeadOf(s) \in {"callback", "refresh"}
    <3> DEFINE t == Tail(s)
    <3>1. t # <<>> /\ HeadOf(t) = "unlock" /\ t \in Seq(Step)
      BY <2>2, <2>5 DEF Ending, Follow
    <3> HIDE DEF t
    <3>2. 1 \in 1 .. Len(t) /\ t[1] = "unlock"
      BY <3>1 DEF HeadOf
    <3>3. Has(t, "unlock")
      BY <3>2 DEF Has
    <3> QED
      BY <2>2, <3>3 DEF Locks, t
  <2> QED
    BY <1>4, <2>4, <2>5 DEF Doing
<1>5. lock # Filter => Doing(Filter) \in {"nothing", "reload"}
  <2>1. HeadOf(<<>>) = "nothing" /\ HeadOf(<<"reload">>) = "reload"
    BY DEF HeadOf
  <2> QED
    BY <1>1, <2>1 DEF FilterFits, Doing
<1>6. lock = p => Doing(p) \in InsideSteps \cup {"unlock"}
  <2>1. ASSUME lock = p
        PROVE  HeadOf(todo[p]) \in InsideSteps \cup {"unlock"}
    BY <1>2, <1>3, <2>1
  <2> QED
    BY <2>1 DEF Doing
<1>7. lock = Filter => /\ Doing(Filter) \in InsideSteps \cup {"unlock"}
                       /\ ~Lone(Filter) \/ Doing(Filter) = "unlock"
  BY <1>1, <1>3 DEF Doing, Lone, ControlFits
<1> QED
  BY <1>1, <1>4, <1>5, <1>6, <1>7 DEF PageFits

\* A step of the page leaves the filter where it is.
FilterStays ==
    /\ FilterFits' /\ Doing(Filter)' = Doing(Filter) /\ (Lone(Filter)' <=> Lone(Filter))
    /\ read'[Filter] = read[Filter]
    /\ ~failed[Filter] /\ ~failed'[Filter]

LEMMA FilterKept ==
    ASSUME NEW p, Serving(p), todo'[Filter] = todo[Filter], read'[Filter] = read[Filter],
           failed'[Filter] = failed[Filter], lock = Filter => lock' = Filter
    PROVE  FilterStays
<1>1. (todo[Filter])' = todo[Filter] /\ (failed[Filter])' = failed[Filter]
  OBVIOUS
<1>2. FilterFits
  BY DEF Serving
<1>3. FilterFits'
  BY <1>1, <1>2 DEF FilterFits
<1> QED
  BY <1>1, <1>2, <1>3 DEF FilterStays, Doing, Lone, FilterFits

LEMMA ListStarts ==
    ASSUME NEW q, NEW step, At(q, step), todo[q] \in Seq(Step)
    PROVE  Doing(q) = step /\ todo[q] # <<>> /\ Tail(todo[q]) \in Seq(Step)
<1>1. todo[q] # <<>> /\ Head(todo[q]) = step
  BY DEF At
<1>2. Head(todo[q]) = todo[q][1] /\ Tail(todo[q]) \in Seq(Step)
  BY <1>1
<1> QED
  BY <1>1, <1>2 DEF Doing, HeadOf

LEMMA PageGoesOn ==
    ASSUME NEW p, Serving(p), NEW step, At(p, step), step # "unlock",
           todo' = [todo EXCEPT ![p] = Tail(@)] \/ todo' = [todo EXCEPT ![p] = <<>> \o Tail(@)],
           lock' = lock, read'[Filter] = read[Filter], failed'[Filter] = failed[Filter]
    PROVE  Advances(p) /\ PageFits(p)' /\ FilterStays /\ Doing(p) = step
<1>1. /\ todo[p] \in Seq(Step) /\ PageList(todo[p]) /\ p # Filter /\ p \in Process /\ Filter \in Process
      /\ todo \in [Process -> Seq(Step)] /\ PageFits(p)
  BY DEF Serving, LifecycleIInv, ControlFits, PageFits
<1>2. Doing(p) = step /\ todo[p] # <<>> /\ Tail(todo[p]) \in Seq(Step)
  BY <1>1, ListStarts
<1>3. <<>> \o Tail(todo[p]) = Tail(todo[p])
  <2> DEFINE t == Tail(todo[p])
  <2>1. t \in Seq(Step)
    BY <1>2
  <2> HIDE DEF t
  <2>2. <<>> \o t = t
    BY <2>1
  <2> QED
    BY <2>2 DEF t
<1>4. todo'[p] = Tail(todo[p]) /\ todo'[Filter] = todo[Filter]
  BY <1>1, <1>3
<1>5. Advances(p)
  BY <1>1, <1>2, <1>4, PageAdvances
<1>6. FilterStays
  BY <1>4, FilterKept
<1>7. PageFits(p)'
  BY <1>1, <1>5 DEF PageFits, Advances
<1> QED
  BY <1>2, <1>5, <1>6, <1>7

\* A page that takes up another list.
LEMMA PageTakesUp ==
    ASSUME NEW p, Serving(p), NEW s, PageList(s), ~Has(s, "unlock"),
           todo' = [todo EXCEPT ![p] = s],
           read'[Filter] = read[Filter], failed'[Filter] = failed[Filter],
           lock = Filter => lock' = Filter
    PROVE  /\ PageFits(p)' /\ FilterStays /\ ~Locks(p)'
           /\ Doing(p)' = HeadOf(s)
           /\ Lone(p)' <=> Len(s) = 1
           /\ Reloads(p)' <=> Has(s, "reload")
           /\ OnlyStops(todo[p])' <=> OnlyStops(s)
<1>1. p # Filter /\ p \in Process /\ Filter \in Process /\ todo \in [Process -> Seq(Step)]
  BY DEF Serving, LifecycleIInv, ControlFits
<1>2. todo'[p] = s /\ todo'[Filter] = todo[Filter]
  BY <1>1
<1>3. (todo[p])' = s
  BY <1>2
<1>4. FilterStays
  BY <1>2, FilterKept
<1>5. ~Locks(p)'
  BY <1>3 DEF Locks
<1>6. PageFits(p)'
  BY <1>3, <1>5 DEF PageFits
<1> QED
  BY <1>3, <1>4, <1>5, <1>6 DEF Doing, Lone, Reloads

\* A page that puts steps before the rest of its list.
LEMMA PagePutsFirst ==
    ASSUME NEW p, Serving(p), NEW step, At(p, step), step \notin Ending \cup {"resync", "disable"},
           NEW a, NEW x, NEW y, Chain(a, x, y),
           Ahead(a, WantsReload, "reload") \/ step \in WantsReload,
           Ahead(a, WantsCheck, "check") \/ step \in WantsCheck,
           \A z : <<step, z>> \in Follow => <<y, z>> \in Follow,
           ~Has(a, "unlock") \/ (~Locks(p) /\ OneUnlock(a)),
           todo' = [todo EXCEPT ![p] = a \o Tail(@)],
           read'[Filter] = read[Filter], failed'[Filter] = failed[Filter],
           lock = Filter => lock' = Filter
    PROVE  /\ PageList(todo[p])' /\ FilterStays /\ Doing(p) = step
           /\ Doing(p)' = x /\ ~Lone(p)'
           /\ Reloads(p) /\ step # "reload" => Reloads(p)'
           /\ step \in WantsReload => Reloads(p)'
           /\ Locks(p)' => Has(a, "unlock") \/ Locks(p)
<1> DEFINE s == todo[p]
           t == Tail(s)
           r == a \o t
<1>1. /\ p # Filter /\ p \in Process /\ Filter \in Process /\ todo \in [Process -> Seq(Step)]
      /\ PageList(s) /\ s \in Seq(Step)
  BY DEF Serving, LifecycleIInv, ControlFits, PageFits
<1>2. Doing(p) = step /\ s # <<>> /\ Head(s) = step
  BY <1>1, ListStarts DEF At
<1>3. /\ PageList(t) /\ t \in Seq(Step)
      /\ t = <<>> => Head(s) \in Ending \cup {"resync", "disable"}
      /\ t # <<>> => <<Head(s), HeadOf(t)>> \in Follow /\ t[Len(t)] \in Ending
      /\ \A z : Has(t, z) => Has(s, z)
      /\ \A z : z # Head(s) /\ Has(s, z) => Has(t, z)
      /\ Head(s) \in WantsReload => Has(t, "reload")
      /\ Head(s) \in WantsCheck => Has(t, "check")
  BY <1>1, <1>2, RestOfList
<1> HIDE DEF t
<1>4. t # <<>> /\ <<y, HeadOf(t)>> \in Follow /\ t[Len(t)] \in Ending
  BY <1>2, <1>3
<1>5. ~Has(a, "unlock") \/ (~Has(t, "unlock") /\ OneUnlock(a))
  BY <1>3 DEF Locks
<1>6. Ahead(a, WantsReload, "reload") \/ Has(t, "reload")
  BY <1>2, <1>3
<1>7. Ahead(a, WantsCheck, "check") \/ Has(t, "check")
  BY <1>2, <1>3
<1>8. /\ PageList(r) /\ HeadOf(r) = x /\ Len(r) # 1
      /\ \A z : Has(r, z) <=> Has(a, z) \/ Has(t, z)
  BY <1>3, <1>4, <1>5, <1>6, <1>7, FrontOfList
<1>9. todo'[p] = r /\ todo'[Filter] = todo[Filter]
  BY <1>1 DEF t
<1> HIDE DEF r
<1>10. (todo[p])' = r
  BY <1>9
<1>11. FilterStays
  BY <1>9, FilterKept
<1> QED
  BY <1>2, <1>3, <1>8, <1>10, <1>11 DEF Doing, Lone, Reloads, Locks

\* A page step that fails leads to the next one that looks at the result.
LEMMA PageFails ==
    ASSUME NEW p, Serving(p), NEW step \in WantsCheck, At(p, step), step = "unlock" \/ ~Locks(p),
           todo' = [todo EXCEPT ![p] = DropTo(Looking, Tail(@))],
           failed' = [failed EXCEPT ![p] = TRUE],
           read' = read, lock' = lock \/ (lock = p /\ lock' = None)
    PROVE  /\ PageFits(p)' /\ FilterStays /\ Doing(p) = step
           /\ Doing(p)' = "check" /\ ~Locks(p)' /\ failed'[p] = TRUE
<1> DEFINE s == todo[p]
           t == Tail(s)
           r == DropTo(Looking, t)
<1>1. /\ p # Filter /\ p \in Process /\ Filter \in Process /\ todo \in [Process -> Seq(Step)]
      /\ PageList(s) /\ s \in Seq(Step) /\ failed \in [Process -> BOOLEAN]
  BY DEF Serving, LifecycleIInv, StateFits, ControlFits, PageFits
<1>2. Doing(p) = step /\ s # <<>> /\ Head(s) = step
  BY <1>1, ListStarts DEF At
<1>3. /\ PageList(t) /\ Has(t, "check") /\ ~Has(t, "unlock")
  BY <1>1, <1>2, RestOfList DEF Locks
<1> HIDE DEF t
<1>4. /\ PageList(r) /\ HeadOf(r) = "check" /\ ~Has(r, "unlock")
  BY <1>3, DropOfList DEF Looking
<1>5. todo' = [todo EXCEPT ![p] = r]
  BY <1>1 DEF t
<1> HIDE DEF r
<1>6. failed'[p] = TRUE /\ failed'[Filter] = failed[Filter]
  BY <1>1
<1>7. PageFits(p)' /\ FilterStays /\ ~Locks(p)' /\ Doing(p)' = HeadOf(r)
  BY <1>1, <1>4, <1>5, <1>6, PageTakesUp
<1> QED
  BY <1>2, <1>4, <1>6, <1>7

\* What every step is to keep.
Fitting(p) == PageFits(p) /\ FilterFits /\ ServerFits(p)

\* Where a page that has failed can be.
LEMMA FailedDoing ==
    ASSUME NEW p, Serving(p), failed[p]
    PROVE  Doing(p) \in {"check", "flagNoAnyway", "stopServer", "stopHelper"} \cup Ending
<1>1. Doing(p) # "nothing" /\ (Doing(p) = "check" \/ OnlyStops(todo[p])) /\ todo[p] \in Seq(Step)
  BY DEF Serving, ServerFits, FailureFits, PageFits, PageList
<1>2. 1 \in 1 .. Len(todo[p]) /\ todo[p][1] = Doing(p)
  BY <1>1 DEF Doing, HeadOf
<1> QED
  BY <1>1, <1>2 DEF OnlyStops

\* f2bguard_disable_runtime, in place of the rest.
LEMMA PageDisables ==
    ASSUME NEW p, Serving(p), Doing(p) \in {"resync", "whitelist", "pems"},
           Proceed(p, Disabling(TRUE)),
           UNCHANGED <<json, flag, processes, spoiled>>
    PROVE  Fitting(p)'
<1>1. /\ todo' = [todo EXCEPT ![p] = Disabling(TRUE)]
      /\ read' = [read EXCEPT ![p] = None]
      /\ UNCHANGED <<config, alias, pending, failed, lock, json, flag, helper, server, serving>>
      /\ p # Filter /\ ServerFits(p)
      /\ read \in [Process -> WhatIsRead \cup {None}] /\ Process = {p, Filter}
  BY DEF Proceed, world, processes, Serving, LifecycleIInv, ControlFits
<1>2. /\ PageList(Disabling(TRUE)) /\ HeadOf(Disabling(TRUE)) = "disable"
      /\ ~Has(Disabling(TRUE), "unlock") /\ Len(Disabling(TRUE)) # 1
  BY DisablingPart, ProcedureIsList DEF Ending
<1>3. read'[Filter] = read[Filter] /\ failed'[Filter] = failed[Filter] /\ lock' = lock
  BY <1>1
<1>4. PageFits(p)' /\ FilterStays /\ ~Locks(p)' /\ Doing(p)' = "disable" /\ ~Lone(p)'
  BY <1>1, <1>2, <1>3, PageTakesUp
<1>5. ~failed[p]
  BY FailedDoing DEF Ending
<1>6. ServerFits(p)'
  BY <1>1, <1>3, <1>4, <1>5, WhereTheyAre
     DEF ServerFits, FailureFits, JsonFits, ServingFits, HelperFits, RefreshFits, SnapshotFits,
         FilterStays, Stops, Restarts, Unsettled, Current, Ending, InsideSteps
<1> QED
  BY <1>4, <1>6 DEF Fitting, FilterStays

LEMMA PageResyncs ==
    ASSUME NEW p, Serving(p), Resync(p)
    PROVE  Fitting(p)'
<1>1. /\ At(p, "resync") /\ UNCHANGED <<json, flag, processes, spoiled>>
      /\ UNCHANGED <<config, alias, pending, failed, lock, json, flag, snapshot, helper, server, serving>>
      /\ p # Filter /\ ServerFits(p) /\ p \in Process
      /\ read \in [Process -> WhatIsRead \cup {None}] /\ Process = {p, Filter}
      /\ todo[p] \in Seq(Step) /\ config.enabled \in BOOLEAN
  BY DEF Resync, Proceed, world, files, processes, Serving, LifecycleIInv, StateFits, ControlFits, Config
<1>2. Doing(p) = "resync"
  BY <1>1, ListStarts
<1>3. CASE Proceed(p, Disabling(TRUE))
  BY <1>1, <1>2, <1>3, PageDisables
<1>4. CASE Reads(p) /\ todo' = [todo EXCEPT ![p] =
            <<"whitelist", "pems", "json">> \o Applying(config.enabled, TRUE) \o <<"applied">>]
  <2> DEFINE s == <<"whitelist", "pems", "json">> \o Applying(config.enabled, TRUE) \o <<"applied">>
  <2>1. PageList(s) /\ HeadOf(s) = "whitelist" /\ Has(s, "reload") /\ ~Has(s, "unlock")
    BY <1>1, ResyncList
  <2>2. /\ read'[Filter] = read[Filter] /\ read'[p].config = config
        /\ failed'[Filter] = failed[Filter] /\ lock' = lock
    BY <1>1, <1>4 DEF Reads
  <2>3. todo' = [todo EXCEPT ![p] = s]
    BY <1>4
  <2> HIDE DEF s
  <2>4. PageFits(p)' /\ FilterStays /\ ~Locks(p)' /\ Doing(p)' = "whitelist" /\ Reloads(p)'
    BY <2>1, <2>2, <2>3, PageTakesUp
  <2>5. ~failed[p]
    BY <1>2, FailedDoing DEF Ending
  <2>6. ServerFits(p)'
    BY <1>1, <1>2, <2>2, <2>4, <2>5, WhereTheyAre
       DEF ServerFits, FailureFits, JsonFits, ServingFits, HelperFits, RefreshFits, SnapshotFits,
         FilterStays, Stops, Restarts, Unsettled, Current, Ending, InsideSteps
  <2> QED
    BY <2>4, <2>6 DEF Fitting, FilterStays
<1> QED
  BY <1>3, <1>4 DEF Resync

LEMMA PageWrites ==
    ASSUME NEW p, Serving(p), WriteWhitelist(p) \/ WritePems(p) \/ WriteJson(p), ~spoiled'
    PROVE  Fitting(p)'
<1>1. /\ p # Filter /\ ServerFits(p) /\ p \in Process
      /\ read \in [Process -> WhatIsRead \cup {None}] /\ Process = {p, Filter}
      /\ todo[p] \in Seq(Step)
  BY DEF Serving, LifecycleIInv, ControlFits
<1>2. ASSUME Doing(p) \in {"whitelist", "pems", "json"}
      PROVE  ~failed[p] /\ ~Lone(p)
  <2>1. 1 \in 1 .. Len(todo[p]) /\ todo[p][1] = Doing(p)
    BY <1>2 DEF Serving, PageFits, PageList, Doing, HeadOf
  <2>2. ~failed[p]
    BY <1>2, FailedDoing DEF Ending
  <2>3. Lone(p) => Len(todo[p]) = 1 /\ todo[p] # <<>> /\ PageList(todo[p])
    BY <2>1 DEF Lone, Serving, PageFits
  <2>4. ~Lone(p)
    BY <1>2, <2>1, <2>3 DEF PageList, Ending
  <2> QED
    BY <2>2, <2>4
<1>3. CASE WriteWhitelist(p)
  <2>1. At(p, "whitelist") /\ UNCHANGED <<json, flag, processes, spoiled>>
    BY <1>3 DEF WriteWhitelist
  <2>2. Doing(p) = "whitelist"
    BY <1>1, <2>1, ListStarts
  <2>3. CASE Proceed(p, Disabling(TRUE))
    BY <2>1, <2>2, <2>3, PageDisables
  <2>4. CASE Continue(p, <<>>)
    <3>1. /\ todo' = [todo EXCEPT ![p] = <<>> \o Tail(@)]
          /\ UNCHANGED <<config, alias, pending, read, failed, lock, json, flag, helper, server, serving>>
      BY <2>1, <2>4 DEF Continue, world, processes
    <3>2. Advances(p) /\ PageFits(p)' /\ FilterStays
      BY <2>1, <3>1, PageGoesOn
    <3>3. Doing(p)' = "pems" /\ Reloads(p)'
      BY <2>2, <3>2 DEF Advances, Follow, Ending, WantsReload
    <3>4. ServerFits(p)'
      BY <1>1, <1>2, <2>2, <3>1, <3>2, <3>3, WhereTheyAre
         DEF ServerFits, FailureFits, JsonFits, ServingFits, HelperFits, RefreshFits, SnapshotFits,
         FilterStays, Stops, Restarts, Unsettled, Current, Ending, InsideSteps
    <3> QED
      BY <3>2, <3>4 DEF Fitting, FilterStays
  <2> QED
    BY <1>3, <2>3, <2>4 DEF WriteWhitelist
<1>4. CASE WritePems(p)
  <2>1. At(p, "pems") /\ UNCHANGED <<snapshot, json, flag, processes, spoiled>>
    BY <1>4 DEF WritePems, files
  <2>2. Doing(p) = "pems"
    BY <1>1, <2>1, ListStarts
  <2>3. CASE Proceed(p, Disabling(TRUE))
    BY <2>1, <2>2, <2>3, PageDisables
  <2>4. CASE MaterialAvailable(read[p].config) /\ Continue(p, <<>>)
    <3>1. /\ todo' = [todo EXCEPT ![p] = <<>> \o Tail(@)]
          /\ UNCHANGED <<config, alias, pending, read, failed, lock, json, flag, snapshot,
                         helper, server, serving>>
      BY <2>1, <2>4 DEF Continue, world, processes
    <3>2. Advances(p) /\ PageFits(p)' /\ FilterStays
      BY <2>1, <3>1, PageGoesOn
    <3>3. Doing(p)' = "json" /\ Reloads(p)'
      BY <2>2, <3>2 DEF Advances, Follow, Ending, WantsReload
    <3>4. MaterialAvailable(config)'
      BY <1>1, <2>2, <2>4, <3>1 DEF ServerFits, JsonFits, MaterialAvailable
    <3>5. ServerFits(p)'
      BY <1>1, <1>2, <2>2, <3>1, <3>2, <3>3, <3>4, WhereTheyAre
         DEF ServerFits, FailureFits, JsonFits, ServingFits, HelperFits, RefreshFits, SnapshotFits,
         FilterStays, Stops, Restarts, Unsettled, Current, Ending, InsideSteps
    <3> QED
      BY <3>2, <3>5 DEF Fitting, FilterStays
  <2> QED
    BY <1>4, <2>3, <2>4 DEF WritePems
<1>5. CASE WriteJson(p)
  <2>1. /\ At(p, "json") /\ UNCHANGED <<snapshot, flag, helper, server, serving>>
        /\ json' = RuntimeConfig(read[p].config) /\ Proceed(p, Tail(todo[p]))
    BY <1>5 DEF WriteJson, processes
  <2>2. Doing(p) = "json"
    BY <1>1, <2>1, ListStarts
  <2>3. /\ todo' = [todo EXCEPT ![p] = Tail(@)]
        /\ read'[Filter] = read[Filter]
        /\ UNCHANGED <<config, alias, pending, failed, lock>>
    BY <1>1, <2>1 DEF Proceed, world
  <2>4. Advances(p) /\ PageFits(p)' /\ FilterStays
    BY <2>1, <2>3, PageGoesOn
  <2>5. Doing(p)' \in {"flagYes", "flagNo"} /\ Reloads(p)'
    BY <2>2, <2>4 DEF Advances, Follow, Ending, WantsReload
  <2>6. json' = None \/ (config.enabled /\ config.certs /\ json' = config.clients)
    BY <1>1, <2>1, <2>2 DEF ServerFits, JsonFits, MaterialAvailable, RuntimeConfig
  <2>7. ServerFits(p)'
    BY <1>1, <1>2, <2>1, <2>2, <2>3, <2>4, <2>5, <2>6, WhereTheyAre
       DEF ServerFits, FailureFits, JsonFits, ServingFits, HelperFits, RefreshFits, SnapshotFits,
         FilterStays, Stops, Restarts, Unsettled, Current, Ending, InsideSteps
  <2> QED
    BY <2>4, <2>7 DEF Fitting, FilterStays
<1> QED
  BY <1>3, <1>4, <1>5

LEMMA PageWritesDisabled ==
    ASSUME NEW p, Serving(p), WriteDisabled(p), ~spoiled'
    PROVE  Fitting(p)'
<1>1. /\ At(p, "disable") /\ json' = None
      /\ todo' = [todo EXCEPT ![p] = <<>> \o Tail(@)]
      /\ UNCHANGED <<config, alias, pending, read, failed, lock, flag, snapshot, helper, server, serving>>
      /\ ServerFits(p)
  BY DEF WriteDisabled, Continue, world, processes, Serving
<1>2. Advances(p) /\ PageFits(p)' /\ FilterStays /\ Doing(p) = "disable"
  BY <1>1, PageGoesOn
<1>3. ~failed[p]
  BY <1>2, FailedDoing DEF Ending
<1>4. /\ Doing(p)' = "flagNo" \/ (Doing(p)' = "nothing" /\ server = "down")
      /\ Reloads(p) => Reloads(p)'
  BY <1>1, <1>2 DEF Advances, Follow, Ending, ServerFits, ServingFits
<1>5. ServerFits(p)'
  BY <1>1, <1>2, <1>3, <1>4, WhereTheyAre
     DEF ServerFits, FailureFits, JsonFits, ServingFits, HelperFits, RefreshFits, SnapshotFits,
         FilterStays, Stops, Restarts, Unsettled, Current, Ending, InsideSteps
<1> QED
  BY <1>2, <1>5 DEF Fitting, FilterStays

LEMMA PageWritesFlag ==
    ASSUME NEW p, Serving(p), ~spoiled',
           WriteFlagAnyway(p) \/ \E value \in {"YES", "NO"} : WriteFlag(p, value)
    PROVE  Fitting(p)'
<1>1. PICK step \in {"flagYes", "flagNo", "flagNoAnyway"} :
        /\ At(p, step) /\ flag' = IF step = "flagYes" THEN "YES" ELSE "NO"
        /\ Continue(p, <<>>) /\ UNCHANGED <<json, snapshot, processes>>
  BY DEF WriteFlag, WriteFlagAnyway
<1>2. /\ todo' = [todo EXCEPT ![p] = <<>> \o Tail(@)]
      /\ UNCHANGED <<config, alias, pending, read, failed, lock, json, snapshot, helper, server, serving>>
      /\ ServerFits(p)
  BY <1>1 DEF Continue, world, processes, Serving
<1>3. Advances(p) /\ PageFits(p)' /\ FilterStays /\ Doing(p) = step
  BY <1>1, <1>2, PageGoesOn
<1>4. failed[p] => step = "flagNoAnyway"
  BY <1>3, FailedDoing DEF Ending
<1>5. /\ Doing(p)' = IF step = "flagYes" THEN "restart" ELSE "stopServer"
      /\ Reloads(p) => Reloads(p)'
      /\ Locks(p)' => Locks(p)
      /\ OnlyStops(todo[p]) => OnlyStops(todo[p])'
  BY <1>3 DEF Advances, Follow, Ending
<1>6. ServerFits(p)'
  <2>1. CASE step = "flagYes"
    BY <1>1, <1>2, <1>3, <1>4, <1>5, <2>1, WhereTheyAre
       DEF ServerFits, FailureFits, JsonFits, ServingFits, HelperFits, RefreshFits, SnapshotFits,
         FilterStays, Stops, Restarts, Unsettled, Current, Ending, InsideSteps
  <2>2. CASE step # "flagYes"
    BY <1>1, <1>2, <1>3, <1>4, <1>5, <2>2, WhereTheyAre
       DEF ServerFits, FailureFits, JsonFits, ServingFits, HelperFits, RefreshFits, SnapshotFits,
         FilterStays, Stops, Restarts, Unsettled, Current, Ending, InsideSteps
  <2> QED
    BY <2>1, <2>2
<1> QED
  BY <1>3, <1>6 DEF Fitting, FilterStays

\* After a failure the service is stopped, up to the end of the attempt.
LEMMA StopAfterFailure ==
    ASSUME NEW s, PageList(s), s # <<>>, Head(s) = "check", ~Has(s, "unlock")
    PROVE  LET r == <<"flagNoAnyway">> \o Stopping \o DropTo(Ending, Tail(s)) IN
           /\ PageList(r) /\ HeadOf(r) = "flagNoAnyway" /\ ~Has(r, "unlock") /\ OnlyStops(r)
<1> DEFINE t == Tail(s)
           d == DropTo(Ending, t)
           a == <<"flagNoAnyway">> \o Stopping
           r == a \o d
<1>1. /\ PageList(t) /\ t \in Seq(Step) /\ t # <<>> /\ t[Len(t)] \in Ending /\ ~Has(t, "unlock")
  BY RestOfList DEF Ending
<1> HIDE DEF t
<1>2. t[Len(t)] \in Ending /\ Has(t, t[Len(t)])
  <2>1. Len(t) \in 1 .. Len(t)
    BY <1>1
  <2> QED
    BY <1>1, <2>1 DEF Has
<1>3. PageList(d) /\ d # <<>> /\ HeadOf(d) \in Ending /\ ~Has(d, "unlock")
  BY <1>1, <1>2, DropOfList
<1> HIDE DEF d
<1>4. Len(d) = 1 /\ d[1] \in Ending /\ d[Len(d)] \in Ending
  <2>1. d \in Seq(Step) /\ Linked(d) /\ d[1] \in Ending /\ Len(d) \in Nat \ {0}
    BY <1>3 DEF PageList, HeadOf
  <2>2. ASSUME Len(d) # 1
        PROVE  FALSE
    <3>0. \A n \in Nat \ {0} : n # 1 => 1 \in 1 .. n - 1 /\ 1 + 1 \in 1 .. n
      OBVIOUS
    <3>1. 1 \in 1 .. Len(d) - 1 /\ 1 + 1 \in 1 .. Len(d)
      BY <2>1, <2>2, <3>0
    <3>2. <<d[1], d[1 + 1]>> \in Follow
      BY <2>1, <3>1 DEF Linked
    <3>3. d[1 + 1] = "unlock"
      BY <2>1, <3>2 DEF Follow, Ending
    <3> QED
      BY <1>3, <3>1, <3>3 DEF Has
  <2> QED
    BY <2>1, <2>2
<1>5. /\ Chain(a, "flagNoAnyway", "stopHelper") /\ Careful(a)
      /\ \A z : Has(a, z) => z \in {"flagNoAnyway", "stopServer", "stopHelper"}
  BY FlagPart
<1> HIDE DEF a
<1>6. <<"stopHelper", HeadOf(d)>> \in Follow
  BY <1>3 DEF Ending, Follow
<1>7. ~Has(a, "unlock")
  BY <1>5
<1>8. /\ PageList(r) /\ HeadOf(r) = "flagNoAnyway"
      /\ \A z : Has(r, z) <=> Has(a, z) \/ Has(d, z)
  BY <1>3, <1>4, <1>5, <1>6, <1>7, FrontOfList DEF Careful
<1> HIDE DEF r
<1>9. ~Has(r, "unlock")
  BY <1>3, <1>7, <1>8
<1>10. OnlyStops(r)
  <2>1. ASSUME NEW i \in 1 .. Len(r)
        PROVE  r[i] \in {"flagNoAnyway", "stopServer", "stopHelper"} \cup Ending
    <3>1. Has(r, r[i])
      BY <2>1 DEF Has
    <3>2. \A z : Has(d, z) => z \in Ending
      <4>1. \A k \in 1 .. Len(d) : k = 1
        BY <1>4
      <4> QED
        BY <1>4, <4>1 DEF Has
    <3> QED
      BY <1>5, <1>8, <3>1, <3>2
  <2> QED
    BY <2>1 DEF OnlyStops
<1> QED
  BY <1>8, <1>9, <1>10 DEF r, a, d, t

LEMMA PageChecks ==
    ASSUME NEW p, Serving(p), Check(p)
    PROVE  Fitting(p)'
<1>1. /\ At(p, "check")
      /\ UNCHANGED <<config, alias, pending, read, failed, lock, json, flag, snapshot,
                     helper, server, serving>>
      /\ ServerFits(p) /\ PageList(todo[p]) /\ todo[p] \in Seq(Step) /\ p \in Process
      /\ todo \in [Process -> Seq(Step)]
  BY DEF Check, world, files, processes, Serving, PageFits, LifecycleIInv, ControlFits
<1>2. Doing(p) = "check" /\ todo[p] # <<>> /\ Head(todo[p]) = "check"
  BY <1>1, ListStarts DEF At
<1>3. CASE failed[p]
  <2> DEFINE r == <<"flagNoAnyway">> \o Stopping \o DropTo(Ending, Tail(todo[p]))
  <2>1. todo' = [todo EXCEPT ![p] = r]
    BY <1>1, <1>3 DEF Check
  <2>2. ~Has(todo[p], "unlock")
    BY <1>1, <1>3 DEF ServerFits, FailureFits, Locks
  <2>3. PageList(r) /\ HeadOf(r) = "flagNoAnyway" /\ ~Has(r, "unlock") /\ OnlyStops(r)
    BY <1>1, <1>2, <2>2, StopAfterFailure
  <2> HIDE DEF r
  <2>4. PageFits(p)' /\ FilterStays /\ ~Locks(p)' /\ Doing(p)' = "flagNoAnyway" /\ OnlyStops(todo[p])'
    BY <1>1, <2>1, <2>3, PageTakesUp
  <2>5. ServerFits(p)'
    BY <1>1, <1>2, <1>3, <2>4, WhereTheyAre
       DEF ServerFits, FailureFits, JsonFits, ServingFits, HelperFits, RefreshFits, SnapshotFits,
         FilterStays, Stops, Restarts, Unsettled, Current, Ending, InsideSteps
  <2> QED
    BY <2>4, <2>5 DEF Fitting, FilterStays
<1>4. CASE ~failed[p]
  <2>1. todo' = [todo EXCEPT ![p] = Tail(@)]
    BY <1>1, <1>4 DEF Check
  <2>2. Advances(p) /\ PageFits(p)' /\ FilterStays
    BY <1>1, <2>1, PageGoesOn
  <2>3. Doing(p)' \in {"reload", "applied", "disabled"} /\ (Reloads(p) => Reloads(p)')
    BY <1>2, <2>2 DEF Advances, Follow, Ending
  <2>4. ServerFits(p)'
    BY <1>1, <1>2, <1>4, <2>2, <2>3, WhereTheyAre
       DEF ServerFits, FailureFits, JsonFits, ServingFits, HelperFits, RefreshFits, SnapshotFits,
         FilterStays, Stops, Restarts, Unsettled, Current, Ending, InsideSteps
  <2> QED
    BY <2>2, <2>4 DEF Fitting, FilterStays
<1> QED
  BY <1>3, <1>4

LEMMA PageApplied ==
    ASSUME NEW p, Serving(p), Applied(p)
    PROVE  Fitting(p)'
<1>1. PICK step \in Ending :
        /\ At(p, step)
        /\ todo' = [todo EXCEPT ![p] =
              (IF failed[p] /\ step = "applied" THEN <<"disable">> ELSE <<>>) \o Tail(@)]
  BY DEF Applied, Ending, At
<1>2. /\ failed' = [failed EXCEPT ![p] = FALSE]
      /\ UNCHANGED <<config, alias, pending, read, lock, json, flag, snapshot, helper, server, serving>>
      /\ ServerFits(p) /\ PageList(todo[p]) /\ todo[p] \in Seq(Step) /\ p \in Process /\ p # Filter
      /\ todo \in [Process -> Seq(Step)] /\ failed \in [Process -> BOOLEAN] /\ Process = {p, Filter}
  BY DEF Applied, world, files, processes, Serving, PageFits, LifecycleIInv, StateFits, ControlFits
<1>3. Doing(p) = step /\ todo[p] # <<>> /\ Head(todo[p]) = step
  BY <1>1, <1>2, ListStarts DEF At
<1>4. ~failed'[p] /\ failed'[Filter] = failed[Filter] /\ (failed[p] => server = "down")
  BY <1>2, <1>3 DEF ServerFits, FailureFits
<1>5. CASE failed[p] /\ step = "applied"
  <2> DEFINE r == <<"disable">>
  <2>1. Tail(todo[p]) = <<>>
    BY <1>2, <1>3, <1>5, RestOfList DEF Follow
  <2>2. todo' = [todo EXCEPT ![p] = r]
    <3>1. <<"disable">> \o <<>> = <<"disable">>
      OBVIOUS
    <3> QED
      BY <1>1, <1>5, <2>1, <3>1
  <2>3. PageList(r) /\ HeadOf(r) = "disable" /\ ~Has(r, "unlock") /\ Len(r) = 1
    <3>1. /\ Chain(r, "disable", "disable") /\ Careful(r) /\ Len(r) = 1 /\ r[1] = "disable"
          /\ \A z : Has(r, z) <=> z = "disable"
      BY OnePart DEF Step, WantsReload, WantsCheck
    <3> HIDE DEF r
    <3> QED
      BY <3>1 DEF PageList, Chain, OneUnlock, Has, HeadOf
  <2> HIDE DEF r
  <2>4. PageFits(p)' /\ FilterStays /\ ~Locks(p)' /\ Doing(p)' = "disable" /\ Lone(p)'
    BY <1>2, <1>4, <2>2, <2>3, PageTakesUp
  <2>5. ServerFits(p)'
    BY <1>2, <1>3, <1>4, <1>5, <2>4, WhereTheyAre
       DEF ServerFits, FailureFits, JsonFits, ServingFits, HelperFits, RefreshFits, SnapshotFits,
         FilterStays, Stops, Restarts, Unsettled, Current, Ending, InsideSteps
  <2> QED
    BY <2>4, <2>5 DEF Fitting, FilterStays
<1>6. CASE ~(failed[p] /\ step = "applied")
  <2>1. todo' = [todo EXCEPT ![p] = <<>> \o Tail(@)]
    BY <1>1, <1>6
  <2>2. step # "unlock"
    BY DEF Ending
  <2>3. Advances(p) /\ PageFits(p)' /\ FilterStays
    BY <1>1, <1>2, <1>4, <2>1, <2>2, PageGoesOn
  <2>4. Doing(p)' \in {"unlock", "nothing"} /\ (Reloads(p) => Reloads(p)')
    BY <1>3, <2>3 DEF Advances, Follow, Ending
  <2>5. ServerFits(p)'
    BY <1>2, <1>3, <1>4, <2>3, <2>4, WhereTheyAre
       DEF ServerFits, FailureFits, JsonFits, ServingFits, HelperFits, RefreshFits, SnapshotFits,
         FilterStays, Stops, Restarts, Unsettled, Current, Ending, InsideSteps
  <2> QED
    BY <2>3, <2>5 DEF Fitting, FilterStays
<1> QED
  BY <1>5, <1>6

\* rc.d/f2bguard, called by a page.
LEMMA PageStops ==
    ASSUME NEW p, Serving(p), StopServer(p) \/ StopHelper(p), ~spoiled'
    PROVE  Fitting(p)'
<1>1. CASE StopServer(p)
  <2>1. /\ At(p, "stopServer") /\ server' = "down" /\ serving' = None
        /\ todo' = [todo EXCEPT ![p] = <<>> \o Tail(@)]
        /\ UNCHANGED <<config, alias, pending, json, flag, snapshot, helper, read, failed, lock>>
        /\ ServerFits(p)
    BY <1>1 DEF StopServer, StopFails, Continue, world, files, Serving
  <2>2. Advances(p) /\ PageFits(p)' /\ FilterStays /\ Doing(p) = "stopServer"
    BY <2>1, PageGoesOn
  <2>3. /\ Locks(p)' => Locks(p)
        /\ OnlyStops(todo[p]) => OnlyStops(todo[p])'
        /\ Doing(p)' = "stopHelper"
    BY <2>2 DEF Advances, Ending, Follow
  <2>4. ServerFits(p)'
    BY <2>1, <2>2, <2>3, WhereTheyAre
       DEF ServerFits, FailureFits, JsonFits, ServingFits, HelperFits, RefreshFits, SnapshotFits,
         FilterStays, Stops, Restarts, Unsettled, Current, Ending, InsideSteps
  <2> QED
    BY <2>2, <2>4 DEF Fitting, FilterStays
<1>2. CASE StopHelper(p)
  <2>1. /\ At(p, "stopHelper") /\ helper' = "down"
        /\ todo' = [todo EXCEPT ![p] = <<>> \o Tail(@)]
        /\ UNCHANGED <<config, alias, pending, json, flag, snapshot, server, serving, read, failed, lock>>
        /\ ServerFits(p)
    BY <1>2 DEF StopHelper, StopFails, Continue, world, files, Serving
  <2>2. Advances(p) /\ PageFits(p)' /\ FilterStays /\ Doing(p) = "stopHelper"
    BY <2>1, PageGoesOn
  <2>3. /\ Locks(p)' => Locks(p)
        /\ OnlyStops(todo[p]) => OnlyStops(todo[p])'
        /\ Doing(p)' \in {"start", "check", "applied", "disabled"}
    BY <2>2 DEF Advances, Ending, Follow
  <2>4. server = "down"
    BY <2>1, <2>2 DEF ServerFits, ServingFits
  <2>5. ServerFits(p)'
    BY <2>1, <2>2, <2>3, <2>4, WhereTheyAre
       DEF ServerFits, FailureFits, JsonFits, ServingFits, HelperFits, RefreshFits, SnapshotFits,
         FilterStays, Stops, Restarts, Unsettled, Current, Ending, InsideSteps
  <2> QED
    BY <2>2, <2>5 DEF Fitting, FilterStays
<1> QED
  BY <1>1, <1>2

LEMMA PageRestarts ==
    ASSUME NEW p, Serving(p), Restart(p)
    PROVE  Fitting(p)'
<1>1. /\ At(p, "restart") /\ ServerFits(p) /\ todo[p] \in Seq(Step)
      /\ UNCHANGED <<config, alias, pending, json, flag, snapshot, helper, server, serving, read, lock>>
  BY DEF Restart, Continue, Fail, world, files, processes, Serving, LifecycleIInv, ControlFits, PageFits, PageList
<1>2. Doing(p) = "restart"
  BY <1>1, ListStarts
<1>3. ~failed[p]
  BY <1>2, FailedDoing DEF Ending
<1>4. lock # p /\ ~Locks(p)
  BY <1>2, WhereTheyAre DEF InsideSteps, Serving, PageFits
<1>5. CASE flag = "YES" /\ Continue(p, Stopping \o <<"start">>)
  <2> DEFINE a == Stopping \o <<"start">>
             last == <<"start">>
  <2>1. /\ Chain(last, "start", "start")
        /\ \A z : Has(last, z) <=> z = "start"
    BY OnePart DEF Step
  <2> HIDE DEF last
  <2>2. <<"stopHelper", "start">> \in Follow
    BY DEF Follow
  <2>3. /\ Chain(Stopping \o last, "stopServer", "start")
        /\ \A z : Has(Stopping \o last, z) <=> Has(Stopping, z) \/ Has(last, z)
    BY <2>1, <2>2, StoppingPart, ChainsJoin
  <2>4. Chain(a, "stopServer", "start") /\ ~Has(a, "unlock")
    <3>1. ~Has(Stopping \o last, "unlock")
      BY <2>1, <2>3, StoppingPart
    <3> QED
      BY <2>3, <3>1 DEF last
  <2>5. /\ todo' = [todo EXCEPT ![p] = a \o Tail(@)]
        /\ failed' = failed
    BY <1>5 DEF Continue
  <2> HIDE DEF a
  <2>6. \A z : <<"restart", z>> \in Follow => <<"start", z>> \in Follow
    BY DEF Follow
  <2>7. "restart" \in WantsReload /\ "restart" \in WantsCheck /\ "restart" \notin Ending \cup {"resync", "disable"}
    BY DEF WantsReload, WantsCheck, Ending
  <2>8. /\ PageList(todo[p])' /\ FilterStays /\ Doing(p)' = "stopServer" /\ Reloads(p)'
        /\ Locks(p)' => Has(a, "unlock") \/ Locks(p)
    BY <1>1, <2>4, <2>5, <2>6, <2>7, PagePutsFirst
  <2>9. PageFits(p)'
    BY <1>4, <2>4, <2>8 DEF PageFits
  <2>10. ServerFits(p)'
    BY <1>1, <1>2, <1>3, <2>5, <2>8, WhereTheyAre
       DEF ServerFits, FailureFits, JsonFits, ServingFits, HelperFits, RefreshFits, SnapshotFits,
         FilterStays, Stops, Restarts, Unsettled, Current, Ending, InsideSteps
  <2> QED
    BY <2>8, <2>9, <2>10 DEF Fitting, FilterStays
<1>6. CASE flag = "NO" /\ Continue(p, <<>>)
  <2>1. todo' = [todo EXCEPT ![p] = <<>> \o Tail(@)] /\ failed' = failed
    BY <1>6 DEF Continue
  <2>2. Advances(p) /\ PageFits(p)' /\ FilterStays
    BY <1>1, <2>1, PageGoesOn
  <2>3. Doing(p)' = "check" /\ Reloads(p)'
    BY <1>2, <2>2 DEF Advances, Follow, Ending, WantsReload
  <2>4. ServerFits(p)'
    BY <1>1, <1>2, <1>3, <1>6, <2>1, <2>2, <2>3, WhereTheyAre
       DEF ServerFits, FailureFits, JsonFits, ServingFits, HelperFits, RefreshFits, SnapshotFits,
         FilterStays, Stops, Restarts, Unsettled, Current, Ending, InsideSteps
  <2> QED
    BY <2>2, <2>4 DEF Fitting, FilterStays
<1>7. CASE flag = "NO" /\ Fail(p, Looking)
  <2>1. /\ todo' = [todo EXCEPT ![p] = DropTo(Looking, Tail(@))]
        /\ failed' = [failed EXCEPT ![p] = TRUE]
    BY <1>7 DEF Fail
  <2>2. /\ PageFits(p)' /\ FilterStays
        /\ Doing(p)' = "check" /\ ~Locks(p)' /\ failed'[p] = TRUE
    BY <1>1, <1>4, <2>1, PageFails DEF WantsCheck
  <2>3. ServerFits(p)'
    BY <1>1, <1>2, <1>7, <2>2, WhereTheyAre
       DEF ServerFits, FailureFits, JsonFits, ServingFits, HelperFits, RefreshFits, SnapshotFits,
         FilterStays, Stops, Restarts, Unsettled, Current, Ending, InsideSteps
  <2> QED
    BY <2>2, <2>3 DEF Fitting, FilterStays
<1> QED
  BY <1>5, <1>6, <1>7 DEF Restart

LEMMA PageStarts ==
    ASSUME NEW p, Serving(p), Start(p)
    PROVE  Fitting(p)'
<1>1. /\ At(p, "start") /\ ServerFits(p) /\ todo[p] \in Seq(Step)
      /\ UNCHANGED <<config, alias, pending, json, flag, snapshot, helper, server, serving, read, lock, failed>>
  BY DEF Start, Continue, world, files, processes, Serving, LifecycleIInv, ControlFits, PageFits, PageList
<1>2. Doing(p) = "start"
  BY <1>1, ListStarts
<1>3. ~failed[p]
  BY <1>2, FailedDoing DEF Ending
<1>4. CASE json = None /\ Continue(p, <<>>)
  <2>1. todo' = [todo EXCEPT ![p] = <<>> \o Tail(@)]
    BY <1>4 DEF Continue
  <2>2. Advances(p) /\ PageFits(p)' /\ FilterStays
    BY <1>1, <2>1, PageGoesOn
  <2>3. Doing(p)' = "check" /\ Reloads(p)'
    BY <1>2, <2>2 DEF Advances, Follow, Ending, WantsReload
  <2>4. ServerFits(p)'
    BY <1>1, <1>2, <1>3, <1>4, <2>2, <2>3, WhereTheyAre
       DEF ServerFits, FailureFits, JsonFits, ServingFits, HelperFits, RefreshFits, SnapshotFits,
         FilterStays, Stops, Restarts, Unsettled, Current, Ending, InsideSteps
  <2> QED
    BY <2>2, <2>4 DEF Fitting, FilterStays
<1>5. CASE json # None /\ Continue(p, Starting)
  <2>1. todo' = [todo EXCEPT ![p] = Starting \o Tail(@)]
    BY <1>5 DEF Continue
  <2>2. Chain(Starting, "reload", "waitServer") /\ ~Has(Starting, "unlock")
    <3>1. /\ Starting \in Seq(Step) /\ Starting # <<>> /\ Len(Starting) = 4
          /\ Starting[1] = "reload" /\ Starting[2] = "startHelper"
          /\ Starting[3] = "startServer" /\ Starting[4] = "waitServer"
      BY DEF Starting, Step
    <3>2. \A i \in 1 .. Len(Starting) : i = 1 \/ i = 2 \/ i = 3 \/ i = 4
      BY <3>1
    <3>3. \A i \in 1 .. Len(Starting) - 1 :
            (i = 1 /\ i + 1 = 2) \/ (i = 2 /\ i + 1 = 3) \/ (i = 3 /\ i + 1 = 4)
      BY <3>1
    <3>4. Linked(Starting)
      BY <3>1, <3>3 DEF Linked, Follow
    <3>5. ~Has(Starting, "unlock")
      BY <3>1, <3>2 DEF Has
    <3> QED
      BY <3>1, <3>4, <3>5 DEF Chain
  <2>3. \A z : <<"start", z>> \in Follow => <<"waitServer", z>> \in Follow
    BY DEF Follow
  <2>4. "start" \in WantsReload /\ "start" \in WantsCheck /\ "start" \notin Ending \cup {"resync", "disable"}
    BY DEF WantsReload, WantsCheck, Ending
  <2>5. /\ PageList(todo[p])' /\ FilterStays /\ Doing(p)' = "reload" /\ Reloads(p)'
        /\ Locks(p)' => Has(Starting, "unlock") \/ Locks(p)
    BY <1>1, <2>1, <2>2, <2>3, <2>4, PagePutsFirst
  <2>6. PageFits(p)'
    BY <1>1, <2>2, <2>5 DEF PageFits, Serving
  <2>7. ServerFits(p)'
    BY <1>1, <1>2, <1>3, <2>5, WhereTheyAre
       DEF ServerFits, FailureFits, JsonFits, ServingFits, HelperFits, RefreshFits, SnapshotFits,
         FilterStays, Stops, Restarts, Unsettled, Current, Ending, InsideSteps
  <2> QED
    BY <2>5, <2>6, <2>7 DEF Fitting, FilterStays
<1> QED
  BY <1>4, <1>5 DEF Start

LEMMA PageStartsHelper ==
    ASSUME NEW p, Serving(p), StartHelper(p)
    PROVE  Fitting(p)'
<1>1. /\ At(p, "startHelper") /\ ServerFits(p) /\ todo[p] \in Seq(Step)
      /\ UNCHANGED <<config, alias, pending, json, flag, snapshot, server, serving, read, lock>>
  BY DEF StartHelper, Continue, Fail, world, files, Serving, LifecycleIInv, ControlFits, PageFits, PageList
<1>2. Doing(p) = "startHelper"
  BY <1>1, ListStarts
<1>3. ~failed[p]
  BY <1>2, FailedDoing DEF Ending
<1>4. lock # p /\ ~Locks(p)
  BY <1>2, WhereTheyAre DEF InsideSteps, Serving, PageFits
<1>5. CASE helper' = "up" /\ Continue(p, <<>>)
  <2>1. todo' = [todo EXCEPT ![p] = <<>> \o Tail(@)] /\ failed' = failed
    BY <1>5 DEF Continue
  <2>2. Advances(p) /\ PageFits(p)' /\ FilterStays
    BY <1>1, <2>1, PageGoesOn
  <2>3. Doing(p)' = "startServer" /\ Reloads(p)'
    BY <1>2, <2>2 DEF Advances, Follow, Ending, WantsReload
  <2>4. ServerFits(p)'
    BY <1>1, <1>2, <1>3, <1>5, <2>1, <2>2, <2>3, WhereTheyAre
       DEF ServerFits, FailureFits, JsonFits, ServingFits, HelperFits, RefreshFits, SnapshotFits,
         FilterStays, Stops, Restarts, Unsettled, Current, Ending, InsideSteps
  <2> QED
    BY <2>2, <2>4 DEF Fitting, FilterStays
<1>6. CASE helper = "down" /\ helper' = helper /\ Fail(p, Looking)
  <2>1. /\ todo' = [todo EXCEPT ![p] = DropTo(Looking, Tail(@))]
        /\ failed' = [failed EXCEPT ![p] = TRUE]
    BY <1>6 DEF Fail
  <2>2. /\ PageFits(p)' /\ FilterStays
        /\ Doing(p)' = "check" /\ ~Locks(p)' /\ failed'[p] = TRUE
    BY <1>1, <1>4, <2>1, PageFails DEF WantsCheck
  <2>3. ServerFits(p)'
    BY <1>1, <1>2, <1>6, <2>2, WhereTheyAre
       DEF ServerFits, FailureFits, JsonFits, ServingFits, HelperFits, RefreshFits, SnapshotFits,
         FilterStays, Stops, Restarts, Unsettled, Current, Ending, InsideSteps
  <2> QED
    BY <2>2, <2>3 DEF Fitting, FilterStays
<1> QED
  BY <1>5, <1>6 DEF StartHelper

LEMMA PageStartsServer ==
    ASSUME NEW p, Serving(p), StartServer(p)
    PROVE  Fitting(p)'
<1>1. /\ At(p, "startServer") /\ ServerFits(p)
      /\ server' = IF server = "down" THEN "starting" ELSE server
      /\ todo' = [todo EXCEPT ![p] = <<>> \o Tail(@)]
      /\ UNCHANGED <<config, alias, pending, json, flag, snapshot, helper, serving, read, lock, failed>>
  BY DEF StartServer, Continue, world, files, Serving
<1>2. Advances(p) /\ PageFits(p)' /\ FilterStays /\ Doing(p) = "startServer"
  BY <1>1, PageGoesOn
<1>3. ~failed[p]
  BY <1>2, FailedDoing DEF Ending
<1>4. Doing(p)' = "waitServer" /\ Reloads(p)'
  BY <1>2 DEF Advances, Follow, Ending, WantsReload
<1>5. ServerFits(p)'
  BY <1>1, <1>2, <1>3, <1>4, WhereTheyAre
     DEF ServerFits, FailureFits, JsonFits, ServingFits, HelperFits, RefreshFits, SnapshotFits,
         FilterStays, Stops, Restarts, Unsettled, Current, Ending, InsideSteps
<1> QED
  BY <1>2, <1>5 DEF Fitting, FilterStays

LEMMA PageWaits ==
    ASSUME NEW p, Serving(p), WaitServer(p), ~spoiled'
    PROVE  Fitting(p)'
<1>1. /\ At(p, "waitServer") /\ ServerFits(p) /\ todo[p] \in Seq(Step)
      /\ UNCHANGED <<config, alias, pending, json, flag, snapshot, server, serving, read, lock>>
  BY DEF WaitServer, Continue, Fail, world, files, Serving, LifecycleIInv, ControlFits, PageFits, PageList
<1>2. Doing(p) = "waitServer"
  BY <1>1, ListStarts
<1>3. ~failed[p]
  BY <1>2, FailedDoing DEF Ending
<1>4. lock # p /\ ~Locks(p)
  BY <1>2, WhereTheyAre DEF InsideSteps, Serving, PageFits
<1>5. CASE helper' = helper /\ Continue(p, <<>>)
  <2>1. todo' = [todo EXCEPT ![p] = <<>> \o Tail(@)] /\ failed' = failed
    BY <1>5 DEF Continue
  <2>2. Advances(p) /\ PageFits(p)' /\ FilterStays
    BY <1>1, <2>1, PageGoesOn
  <2>3. Doing(p)' = "check" /\ (Reloads(p) => Reloads(p)')
    BY <1>2, <2>2 DEF Advances, Follow, Ending
  <2>4. ServerFits(p)'
    BY <1>1, <1>2, <1>3, <1>5, <2>1, <2>2, <2>3, WhereTheyAre
       DEF ServerFits, FailureFits, JsonFits, ServingFits, HelperFits, RefreshFits, SnapshotFits,
         FilterStays, Stops, Restarts, Unsettled, Current, Ending, InsideSteps
  <2> QED
    BY <2>2, <2>4 DEF Fitting, FilterStays
<1>6. CASE server = "down" /\ helper' = "down" /\ Fail(p, Looking)
  <2>1. /\ todo' = [todo EXCEPT ![p] = DropTo(Looking, Tail(@))]
        /\ failed' = [failed EXCEPT ![p] = TRUE]
    BY <1>6 DEF Fail
  <2>2. /\ PageFits(p)' /\ FilterStays
        /\ Doing(p)' = "check" /\ ~Locks(p)' /\ failed'[p] = TRUE
    BY <1>1, <1>4, <2>1, PageFails DEF WantsCheck
  <2>3. ServerFits(p)'
    BY <1>1, <1>2, <1>6, <2>2, WhereTheyAre
       DEF ServerFits, FailureFits, JsonFits, ServingFits, HelperFits, RefreshFits, SnapshotFits,
         FilterStays, Stops, Restarts, Unsettled, Current, Ending, InsideSteps
  <2> QED
    BY <2>2, <2>3 DEF Fitting, FilterStays
<1> QED
  BY <1>5, <1>6 DEF WaitServer

\* A filter reload that a page asks for, and the callback inside it.
LEMMA PageReloads ==
    ASSUME NEW p, Serving(p), Reload(p)
    PROVE  Fitting(p)'
<1>1. /\ At(p, "reload") /\ ServerFits(p) /\ todo[p] \in Seq(Step) /\ p \in Page
      /\ lock = None /\ lock' = p
      /\ todo' = [todo EXCEPT ![p] = <<"callback", "unlock">> \o Tail(@)]
      /\ UNCHANGED <<config, alias, pending, json, flag, snapshot, helper, server, serving, read, failed>>
  BY DEF Reload, world, files, processes, Serving, LifecycleIInv, ControlFits, PageFits, PageList
<1>2. lock # p /\ lock # Filter /\ ~Locks(p)
  BY <1>1, LifecycleAssumption DEF Serving, PageFits
<1>3. Doing(p) = "reload"
  BY <1>1, ListStarts
<1>4. ~failed[p]
  BY <1>3, FailedDoing DEF Ending
<1> DEFINE a == <<"callback", "unlock">>
<1>5. Chain(a, "callback", "unlock")
  BY TwoParts DEF Step, Follow
<1>6. a \in Seq(Step) /\ Len(a) = 2 /\ a[1] = "callback" /\ a[2] = "unlock"
  BY DEF Step
<1> HIDE DEF a
<1>7. \A i \in 1 .. Len(a) : i = 1 \/ i = 2
  BY <1>6
<1>8. OneUnlock(a)
  <2>1. \A k \in 2 + 1 .. Len(a) : FALSE
    BY <1>6
  <2> QED
    BY <1>6, <1>7, <2>1 DEF OneUnlock
<1>9. Ahead(a, WantsReload, "reload")
  BY <1>6, <1>7 DEF Ahead, WantsReload
<1>10. \A z : <<"reload", z>> \in Follow => <<"unlock", z>> \in Follow
  BY DEF Follow
<1>11. "reload" \in WantsCheck /\ "reload" \notin Ending \cup {"resync", "disable"}
  BY DEF WantsCheck, Ending
<1>12. todo' = [todo EXCEPT ![p] = a \o Tail(@)]
  BY <1>1 DEF a
<1>13. PageList(todo[p])' /\ FilterStays /\ Doing(p)' = "callback"
  BY <1>1, <1>2, <1>5, <1>8, <1>9, <1>10, <1>11, <1>12, PagePutsFirst
<1>14. PageFits(p)'
  BY <1>1, <1>13 DEF PageFits
<1>15. ServerFits(p)'
  BY <1>1, <1>2, <1>3, <1>4, <1>13, WhereTheyAre
     DEF ServerFits, FailureFits, JsonFits, ServingFits, HelperFits, RefreshFits, SnapshotFits,
         FilterStays, Stops, Restarts, Unsettled, Current, Ending, InsideSteps
<1> QED
  BY <1>13, <1>14, <1>15 DEF Fitting, FilterStays

LEMMA PageGenerates ==
    ASSUME NEW p, Serving(p), GenerateRules(p)
    PROVE  Fitting(p)'
<1>1. /\ At(p, "callback") /\ ServerFits(p) /\ todo[p] \in Seq(Step)
      /\ Reads(p)
      /\ UNCHANGED <<config, alias, pending, json, flag, snapshot, helper, server, serving, lock, failed>>
      /\ read \in [Process -> WhatIsRead \cup {None}] /\ Process = {p, Filter} /\ p # Filter
  BY DEF GenerateRules, world, files, processes, Serving, LifecycleIInv, ControlFits, PageFits, PageList
<1>2. Doing(p) = "callback"
  BY <1>1, ListStarts
<1>3. ~failed[p]
  BY <1>2, FailedDoing DEF Ending
<1>4. read'[Filter] = read[Filter] /\ read'[p].alias = alias
  BY <1>1 DEF Reads
<1>5. lock = p
  BY <1>2, WhereTheyAre
<1>6. CASE config.enabled
  <2> DEFINE a == <<"refresh">>
  <2>1. todo' = [todo EXCEPT ![p] = a \o Tail(@)]
    BY <1>6 DEF GenerateRules
  <2>2. Chain(a, "refresh", "refresh") /\ \A z : Has(a, z) <=> z = "refresh"
    BY OnePart DEF Step
  <2>3. Ahead(a, WantsReload, "reload") /\ ~Has(a, "unlock")
    BY <2>2 DEF Ahead, WantsReload, Has
  <2> HIDE DEF a
  <2>4. \A z : <<"callback", z>> \in Follow => <<"refresh", z>> \in Follow
    BY DEF Follow
  <2>5. "callback" \in WantsCheck /\ "callback" \notin Ending \cup {"resync", "disable"}
    BY DEF WantsCheck, Ending
  <2>6. PageList(todo[p])' /\ FilterStays /\ Doing(p)' = "refresh"
    BY <1>1, <1>4, <2>1, <2>2, <2>3, <2>4, <2>5, PagePutsFirst
  <2>7. PageFits(p)'
    BY <1>1, <1>5, <2>6 DEF PageFits
  <2>8. ServerFits(p)'
    BY <1>1, <1>2, <1>3, <1>4, <2>6, WhereTheyAre
       DEF ServerFits, FailureFits, JsonFits, ServingFits, HelperFits, RefreshFits, SnapshotFits,
         FilterStays, Stops, Restarts, Unsettled, Current, Ending, InsideSteps
  <2> QED
    BY <2>6, <2>7, <2>8 DEF Fitting, FilterStays
<1>7. CASE ~config.enabled
  <2>1. todo' = [todo EXCEPT ![p] = <<>> \o Tail(@)]
    BY <1>7 DEF GenerateRules
  <2>2. Advances(p) /\ PageFits(p)' /\ FilterStays
    BY <1>1, <1>4, <2>1, PageGoesOn
  <2>3. Doing(p)' = "unlock" /\ (Reloads(p) => Reloads(p)')
    BY <1>2, <2>2 DEF Advances, Follow, Ending
  <2>4. server \in {"down", "starting", "up"}
    BY DEF Serving, LifecycleIInv, StateFits
  <2>5. ServerFits(p)'
    BY <1>1, <1>2, <1>3, <1>4, <1>7, <2>2, <2>3, <2>4, WhereTheyAre
       DEF ServerFits, FailureFits, JsonFits, ServingFits, HelperFits, RefreshFits, SnapshotFits,
         FilterStays, Stops, Restarts, Unsettled, Current, Ending, InsideSteps
  <2> QED
    BY <2>2, <2>5 DEF Fitting, FilterStays
<1> QED
  BY <1>6, <1>7

LEMMA PageRefreshes ==
    ASSUME NEW p, Serving(p), RefreshWhitelist(p)
    PROVE  Fitting(p)'
<1>1. /\ At(p, "refresh") /\ ServerFits(p) /\ todo[p] \in Seq(Step)
      /\ UNCHANGED <<config, alias, pending, json, flag, helper, server, serving, lock, failed>>
      /\ read' = [read EXCEPT ![p] = None]
      /\ read \in [Process -> WhatIsRead \cup {None}] /\ Process = {p, Filter} /\ p # Filter
  BY DEF RefreshWhitelist, Proceed, world, processes, Serving, LifecycleIInv, ControlFits, PageFits, PageList
<1>2. Doing(p) = "refresh"
  BY <1>1, ListStarts
<1>3. ~failed[p]
  BY <1>2, FailedDoing DEF Ending
<1>4. read'[Filter] = read[Filter]
  BY <1>1
<1>5. lock = p
  BY <1>2, WhereTheyAre
<1>6. CASE snapshot' = read[p].alias /\ Proceed(p, Tail(todo[p]))
  <2>1. todo' = [todo EXCEPT ![p] = Tail(@)]
    BY <1>1, <1>6 DEF Proceed
  <2>2. Advances(p) /\ PageFits(p)' /\ FilterStays
    BY <1>1, <1>4, <2>1, PageGoesOn
  <2>3. Doing(p)' = "unlock" /\ (Reloads(p) => Reloads(p)')
    BY <1>2, <2>2 DEF Advances, Follow, Ending
  <2>4. ServerFits(p)'
    BY <1>1, <1>2, <1>3, <1>4, <1>6, <2>2, <2>3, WhereTheyAre
       DEF ServerFits, FailureFits, JsonFits, ServingFits, HelperFits, RefreshFits, SnapshotFits,
         FilterStays, Stops, Restarts, Unsettled, Current, Ending, InsideSteps
  <2> QED
    BY <2>2, <2>4 DEF Fitting, FilterStays
<1>7. CASE Proceed(p, Disabling(FALSE) \o Tail(todo[p]))
  <2> DEFINE a == Disabling(FALSE)
  <2>1. todo' = [todo EXCEPT ![p] = a \o Tail(@)]
    BY <1>1, <1>7 DEF Proceed
  <2>2. Chain(a, "disable", "disabled") /\ Careful(a) /\ ~Has(a, "unlock")
    BY DisablingPart
  <2> HIDE DEF a
  <2>3. Ahead(a, WantsReload, "reload") /\ Ahead(a, WantsCheck, "check")
    BY <2>2 DEF Careful
  <2>4. \A z : <<"refresh", z>> \in Follow => <<"disabled", z>> \in Follow
    BY DEF Follow
  <2>5. "refresh" \notin Ending \cup {"resync", "disable"}
    BY DEF Ending
  <2>6. PageList(todo[p])' /\ FilterStays /\ Doing(p)' = "disable" /\ ~Lone(p)'
    BY <1>1, <1>4, <2>1, <2>2, <2>3, <2>4, <2>5, PagePutsFirst
  <2>7. PageFits(p)'
    BY <1>1, <1>5, <2>6 DEF PageFits
  <2>8. ServerFits(p)'
    BY <1>1, <1>2, <1>3, <1>4, <2>6, WhereTheyAre
       DEF ServerFits, FailureFits, JsonFits, ServingFits, HelperFits, RefreshFits, SnapshotFits,
         FilterStays, Stops, Restarts, Unsettled, Current, Ending, InsideSteps
  <2> QED
    BY <2>6, <2>7, <2>8 DEF Fitting, FilterStays
<1> QED
  BY <1>6, <1>7 DEF RefreshWhitelist

LEMMA PageEndsReload ==
    ASSUME NEW p, Serving(p), ReloadEnds(p)
    PROVE  Fitting(p)'
<1>1. /\ At(p, "unlock") /\ ServerFits(p) /\ todo[p] \in Seq(Step) /\ PageList(todo[p])
      /\ lock' = None
      /\ UNCHANGED <<config, alias, pending, json, flag, snapshot, helper, server, serving, read>>
      /\ Process = {p, Filter} /\ p # Filter /\ todo \in [Process -> Seq(Step)]
  BY DEF ReloadEnds, world, files, processes, Serving, LifecycleIInv, ControlFits, PageFits, PageList
<1>2. Doing(p) = "unlock" /\ todo[p] # <<>>
  BY <1>1, ListStarts
<1>3. ~failed[p]
  BY <1>2, FailedDoing DEF Ending
<1>4. lock = p
  BY <1>2, WhereTheyAre
<1>5. CASE todo' = [todo EXCEPT ![p] = Tail(@)] /\ failed' = failed
  <2>1. todo'[p] = Tail(todo[p]) /\ todo'[Filter] = todo[Filter]
    BY <1>1, <1>5
  <2>2. Advances(p)
    BY <1>1, <1>2, <2>1, PageAdvances
  <2>3. FilterStays
    BY <1>1, <1>4, <1>5, <2>1, FilterKept
  <2>4. PageFits(p)'
    BY <1>2, <2>2 DEF PageFits, Advances
  <2>5. Doing(p)' \in {"check", "startHelper"} /\ (Reloads(p) => Reloads(p)')
    BY <1>2, <2>2 DEF Advances, Follow, Ending
  <2>6. ServerFits(p)'
    BY <1>1, <1>2, <1>3, <1>4, <1>5, <2>3, <2>5, WhereTheyAre
       DEF ServerFits, FailureFits, JsonFits, ServingFits, HelperFits, RefreshFits, SnapshotFits,
         FilterStays, Stops, Restarts, Unsettled, Current, Ending, InsideSteps
  <2> QED
    BY <2>3, <2>4, <2>6 DEF Fitting, FilterStays
<1>6. CASE todo' = [todo EXCEPT ![p] = DropTo(Looking, Tail(@))] /\ failed' = [failed EXCEPT ![p] = TRUE]
  <2>1. "unlock" \in WantsCheck
    BY DEF WantsCheck
  <2>2. /\ PageFits(p)' /\ FilterStays
        /\ Doing(p)' = "check" /\ ~Locks(p)' /\ failed'[p] = TRUE
    BY <1>1, <1>4, <1>6, <2>1, PageFails
  <2>3. ServerFits(p)'
    BY <1>1, <1>2, <1>4, <1>6, <2>2, WhereTheyAre
       DEF ServerFits, FailureFits, JsonFits, ServingFits, HelperFits, RefreshFits, SnapshotFits,
         FilterStays, Stops, Restarts, Unsettled, Current, Ending, InsideSteps
  <2> QED
    BY <2>2, <2>3 DEF Fitting, FilterStays
<1> QED
  BY <1>5, <1>6 DEF ReloadEnds

LEMMA PageStep ==
    ASSUME NEW p, Serving(p), Does(p), ~spoiled'
    PROVE  Fitting(p)'
<1> QED
  BY PageResyncs, PageWrites, PageWritesDisabled, PageWritesFlag, PageChecks, PageApplied,
     PageStops, PageRestarts, PageStarts, PageStartsHelper, PageStartsServer, PageWaits,
     PageReloads, PageGenerates, PageRefreshes, PageEndsReload
     DEF Does

\* A step of the filter leaves the page where it is.
PageStays(p) ==
    /\ PageFits(p)' /\ Doing(p)' = Doing(p) /\ (Lone(p)' <=> Lone(p))
    /\ (Locks(p)' <=> Locks(p)) /\ (Reloads(p)' <=> Reloads(p))
    /\ (OnlyStops(todo[p])' <=> OnlyStops(todo[p]))
    /\ read'[p] = read[p] /\ (failed'[p] <=> failed[p])

LEMMA PageKept ==
    ASSUME NEW p, Serving(p), todo'[p] = todo[p], read'[p] = read[p], failed'[p] = failed[p],
           lock = p => lock' = p
    PROVE  PageStays(p)
<1>1. (todo[p])' = todo[p] /\ PageFits(p)
  BY DEF Serving
<1>2. /\ Doing(p)' = Doing(p) /\ (Lone(p)' <=> Lone(p)) /\ (Locks(p)' <=> Locks(p))
      /\ (Reloads(p)' <=> Reloads(p)) /\ (OnlyStops(todo[p])' <=> OnlyStops(todo[p]))
  BY <1>1 DEF Doing, Lone, Locks, Reloads
<1>3. PageFits(p)'
  BY <1>1, <1>2 DEF PageFits
<1> QED
  BY <1>2, <1>3 DEF PageStays

\* Inside the reload, the rest of the filter's list.
LEMMA FilterRest ==
    ASSUME NEW p, Serving(p), NEW step, At(Filter, step), step \notin {"reload", "unlock"}
    PROVE  LET t == Tail(todo[Filter]) IN
           /\ lock = Filter /\ Doing(Filter) = step /\ t \in Seq(Step) /\ t # <<>>
           /\ FilterList(t) /\ <<step, HeadOf(t)>> \in Follow
<1> DEFINE s == todo[Filter]
           t == Tail(s)
<1>1. /\ s \in Seq(Step) /\ Filter \in Process /\ ControlFits /\ FilterList(s)
      /\ lock = Filter => Inside(s)
  BY WhereTheyAre DEF Serving, LifecycleIInv, ControlFits, FilterFits
<1>2. Doing(Filter) = step /\ s # <<>> /\ Head(s) = step
  BY <1>1, ListStarts DEF At
<1>3. lock = Filter /\ Inside(s)
  <2>1. Doing(Filter) # "nothing"
    BY <1>1, <1>2 DEF Doing, HeadOf, Step
  <2> QED
    BY <1>1, <1>2, <2>1, WhereTheyAre
<1>4. Inside(t) /\ t \in Seq(Step)
  BY <1>1, <1>2, <1>3, InsideRest
<1>5. t # <<>>
  BY <1>4, InsideHead
<1>6. Remains(t, s, 1)
  BY <1>1, <1>2, TailRemains
<1> HIDE DEF t
<1>7. Linked(t)
  BY <1>1, <1>6, LinkedRemains DEF FilterList
<1>8. /\ Len(t) \in Nat /\ Len(s) = 1 + Len(t)
      /\ \A i \in 1 .. Len(t) : t[i] = s[1 + i] /\ 1 + i \in 1 .. Len(s)
  BY <1>6 DEF Remains
<1>9. ASSUME NEW i \in 1 .. Len(t), t[i] = "unlock"
      PROVE  i = Len(t)
  <2>1. 1 + i = Len(s)
    BY <1>1, <1>8, <1>9 DEF FilterList
  <2> QED
    BY <1>8, <2>1
<1>10. FilterList(t)
  BY <1>4, <1>7, <1>9 DEF FilterList
<1>11. <<step, HeadOf(t)>> \in Follow
  <2>1. Len(t) # 0
    BY <1>4, <1>5
  <2>2. 1 \in 1 .. Len(s) - 1 /\ 1 \in 1 .. Len(t)
    BY <1>8, <2>1
  <2>3. <<s[1], s[1 + 1]>> \in Follow
    BY <1>1, <2>2 DEF FilterList, Linked
  <2>4. s[1] = step
    BY <1>1, <1>2
  <2> QED
    BY <1>5, <1>8, <2>2, <2>3, <2>4 DEF HeadOf
<1> QED
  BY <1>2, <1>3, <1>4, <1>5, <1>10, <1>11 DEF t

LEMMA FilterGoesOn ==
    ASSUME NEW p, Serving(p), NEW step, At(Filter, step), step \notin {"reload", "unlock"},
           todo' = [todo EXCEPT ![Filter] = Tail(@)] \/ todo' = [todo EXCEPT ![Filter] = <<>> \o Tail(@)],
           lock' = lock, read'[p] = read[p], failed'[p] = failed[p], failed'[Filter] = FALSE
    PROVE  /\ FilterFits' /\ PageStays(p) /\ Doing(Filter) = step
           /\ <<step, Doing(Filter)'>> \in Follow
           /\ Doing(p) \notin {"callback", "refresh", "unlock"} /\ lock = Filter
<1> DEFINE t == Tail(todo[Filter])
<1>1. /\ lock = Filter /\ Doing(Filter) = step /\ t \in Seq(Step) /\ t # <<>>
      /\ FilterList(t) /\ <<step, HeadOf(t)>> \in Follow
  BY FilterRest
<1>2. todo \in [Process -> Seq(Step)] /\ p # Filter /\ p \in Process /\ Filter \in Process
  BY WhereTheyAre DEF Serving, LifecycleIInv, ControlFits
<1> HIDE DEF t
<1>3. <<>> \o t = t
  BY <1>1
<1>4. todo'[Filter] = t /\ todo'[p] = todo[p]
  BY <1>2, <1>3 DEF t
<1>5. (todo[Filter])' = t
  BY <1>4
<1>6. FilterFits'
  BY <1>1, <1>5 DEF FilterFits
<1>7. PageStays(p)
  BY <1>4, PageKept
<1>8. Doing(p) \notin {"callback", "refresh", "unlock"}
  BY <1>1, <1>2, WhereTheyAre
<1> QED
  BY <1>1, <1>5, <1>6, <1>7, <1>8 DEF Doing

LEMMA FilterPutsFirst ==
    ASSUME NEW p, Serving(p), NEW step, At(Filter, step), step \notin {"reload", "unlock"},
           NEW a, NEW x, NEW y, Chain(a, x, y), ~Has(a, "unlock"),
           \A z : <<step, z>> \in Follow => <<y, z>> \in Follow,
           todo' = [todo EXCEPT ![Filter] = a \o Tail(@)],
           lock' = lock, read'[p] = read[p], failed' = failed
    PROVE  /\ FilterFits' /\ PageStays(p) /\ Doing(Filter) = step /\ Doing(Filter)' = x
           /\ ~Lone(Filter)'
           /\ Doing(p) \notin {"callback", "refresh", "unlock"} /\ lock = Filter
<1> DEFINE t == Tail(todo[Filter])
           r == a \o t
           n == Len(a)
<1>1. /\ lock = Filter /\ Doing(Filter) = step /\ t \in Seq(Step) /\ t # <<>>
      /\ FilterList(t) /\ <<step, HeadOf(t)>> \in Follow
  BY FilterRest
<1>2. /\ todo \in [Process -> Seq(Step)] /\ p # Filter /\ p \in Process /\ Filter \in Process
      /\ ~failed[Filter]
  BY WhereTheyAre DEF Serving, LifecycleIInv, ControlFits, FilterFits
<1> HIDE DEF t
<1>3. Chain(t, HeadOf(t), t[Len(t)])
  BY <1>1 DEF Chain, FilterList, HeadOf
<1>4. Chain(r, x, t[Len(t)])
  BY <1>1, <1>3, ChainsJoin
<1>5. a \in Seq(Step) /\ n \in Nat \ {0} /\ Len(t) \in Nat \ {0}
  BY <1>1 DEF Chain
<1>6. /\ r \in Seq(Step) /\ Len(r) = n + Len(t)
      /\ \A i \in 1 .. n : r[i] = a[i]
      /\ \A i \in 1 .. Len(r) : i \notin 1 .. n => i - n \in 1 .. Len(t) /\ r[i] = t[i - n]
  BY <1>1, <1>5, Joined
<1> HIDE DEF r
<1>7. ASSUME NEW i \in 1 .. Len(r), r[i] = "unlock"
      PROVE  i = Len(r)
  <2>1. i \notin 1 .. n
    BY <1>6, <1>7 DEF Has
  <2>2. i - n \in 1 .. Len(t) /\ t[i - n] = "unlock"
    BY <1>6, <1>7, <2>1
  <2>3. i - n = Len(t)
    BY <1>1, <2>2 DEF FilterList
  <2> HIDE DEF n
  <2> QED
    BY <1>5, <1>6, <2>3
<1>8. FilterList(r) /\ HeadOf(r) = x
  BY <1>4, <1>7 DEF FilterList, Chain, HeadOf
<1>9. Len(r) # 1
  <2> HIDE DEF n
  <2> QED
    BY <1>5, <1>6
<1>10. todo'[Filter] = r /\ todo'[p] = todo[p]
  BY <1>2 DEF r, t
<1>11. (todo[Filter])' = r
  BY <1>10
<1>12. FilterFits'
  BY <1>1, <1>2, <1>8, <1>11 DEF FilterFits
<1>13. PageStays(p)
  BY <1>10, PageKept
<1>14. Doing(p) \notin {"callback", "refresh", "unlock"}
  BY <1>1, <1>2, WhereTheyAre
<1> QED
  BY <1>1, <1>8, <1>9, <1>11, <1>12, <1>13, <1>14 DEF Doing, Lone

LEMMA FilterReloads ==
    ASSUME NEW p, Serving(p), Reload(Filter)
    PROVE  Fitting(p)'
<1>1. /\ At(Filter, "reload") /\ ServerFits(p) /\ FilterFits
      /\ lock = None /\ lock' = Filter
      /\ todo' = [todo EXCEPT ![Filter] = <<"callback", "unlock">> \o Tail(@)]
      /\ UNCHANGED <<config, alias, pending, json, flag, snapshot, helper, server, serving, read, failed>>
      /\ todo \in [Process -> Seq(Step)] /\ Process = {p, Filter} /\ p # Filter /\ p \in Page
  BY DEF Reload, world, files, processes, Serving, LifecycleIInv, ControlFits
<1>2. lock # p /\ lock # Filter
  BY <1>1, LifecycleAssumption
<1>3. todo[Filter] = <<"reload">> /\ Doing(Filter) = "reload" /\ ~failed[Filter]
  BY <1>1, <1>2 DEF FilterFits, At, Doing, HeadOf
<1> DEFINE r == <<"callback", "unlock">>
<1>4. todo'[Filter] = r /\ todo'[p] = todo[p]
  BY <1>1, <1>3
<1>5. FilterList(r) /\ HeadOf(r) = "callback"
  <2>1. Chain(r, "callback", "unlock")
    BY TwoParts DEF Step, Follow
  <2>2. Len(r) = 2 /\ r[1] = "callback"
    OBVIOUS
  <2> HIDE DEF r
  <2>3. \A i \in 1 .. Len(r) : i = 1 \/ i = Len(r)
    BY <2>2
  <2>4. \A i \in 1 .. Len(r) : r[i] = "unlock" => i = Len(r)
    BY <2>2, <2>3
  <2> QED
    BY <2>1, <2>4 DEF FilterList, Chain, HeadOf
<1> HIDE DEF r
<1>6. (todo[Filter])' = r
  BY <1>4
<1>7. FilterFits' /\ Doing(Filter)' = "callback"
  BY <1>1, <1>3, <1>5, <1>6 DEF FilterFits, Doing
<1>8. PageStays(p)
  BY <1>1, <1>2, <1>4, PageKept
<1>9. Doing(p) \notin {"callback", "refresh", "unlock"}
  BY <1>2, WhereTheyAre
<1>10. ServerFits(p)'
  BY <1>1, <1>3, <1>7, <1>8, <1>9
     DEF ServerFits, FailureFits, JsonFits, ServingFits, HelperFits, RefreshFits, SnapshotFits,
         FilterStays, PageStays, Stops, Restarts, Unsettled, Current, Ending, InsideSteps
<1> QED
  BY <1>7, <1>8, <1>10 DEF Fitting, PageStays

LEMMA FilterGenerates ==
    ASSUME NEW p, Serving(p), GenerateRules(Filter)
    PROVE  Fitting(p)'
<1>1. /\ At(Filter, "callback") /\ ServerFits(p)
      /\ Reads(Filter)
      /\ UNCHANGED <<config, alias, pending, json, flag, snapshot, helper, server, serving, lock, failed>>
      /\ read \in [Process -> WhatIsRead \cup {None}] /\ Process = {p, Filter} /\ p # Filter
      /\ server \in {"down", "starting", "up"} /\ FilterFits
  BY DEF GenerateRules, world, files, processes, Serving, LifecycleIInv, StateFits, ControlFits
<1>2. /\ read'[p] = read[p] /\ read'[Filter].alias = alias /\ failed'[p] = failed[p]
      /\ failed'[Filter] = FALSE
  BY <1>1 DEF Reads, FilterFits, Serving, LifecycleIInv, StateFits
<1>3. CASE config.enabled
  <2> DEFINE a == <<"refresh">>
  <2>1. todo' = [todo EXCEPT ![Filter] = a \o Tail(@)]
    BY <1>3 DEF GenerateRules
  <2>2. Chain(a, "refresh", "refresh") /\ \A z : Has(a, z) <=> z = "refresh"
    BY OnePart DEF Step
  <2> HIDE DEF a
  <2>3. ~Has(a, "unlock")
    BY <2>2
  <2>4. \A z : <<"callback", z>> \in Follow => <<"refresh", z>> \in Follow
    BY DEF Follow
  <2>5. /\ FilterFits' /\ PageStays(p) /\ Doing(Filter) = "callback" /\ Doing(Filter)' = "refresh"
        /\ Doing(p) \notin {"callback", "refresh", "unlock"}
    BY <1>1, <1>2, <2>1, <2>2, <2>3, <2>4, FilterPutsFirst
  <2>6. ServerFits(p)'
    BY <1>1, <1>2, <2>5
       DEF ServerFits, FailureFits, JsonFits, ServingFits, HelperFits, RefreshFits, SnapshotFits,
         FilterStays, PageStays, Stops, Restarts, Unsettled, Current, Ending, InsideSteps
  <2> QED
    BY <2>5, <2>6 DEF Fitting, PageStays
<1>4. CASE ~config.enabled
  <2>1. todo' = [todo EXCEPT ![Filter] = <<>> \o Tail(@)]
    BY <1>4 DEF GenerateRules
  <2>2. /\ FilterFits' /\ PageStays(p) /\ Doing(Filter) = "callback"
        /\ <<"callback", Doing(Filter)'>> \in Follow
        /\ Doing(p) \notin {"callback", "refresh", "unlock"}
    BY <1>1, <1>2, <2>1, FilterGoesOn
  <2>3. Doing(Filter)' = "unlock"
    BY <2>2 DEF Follow
  <2>4. Doing(p) \in {"whitelist", "pems", "json", "flagYes", "restart"} => Reloads(p)
    <3> DEFINE s == todo[p]
    <3>1. PageList(s) /\ s \in Seq(Step)
      BY DEF Serving, PageFits, PageList
    <3>2. ASSUME HeadOf(s) \in WantsReload
          PROVE  Has(s, "reload")
      <4>1. s # <<>> /\ HeadOf(s) = Head(s)
        BY <3>1, <3>2 DEF HeadOf, WantsReload
      <4> QED
        BY <3>1, <3>2, <4>1, RestOfList
    <3> QED
      BY <3>2 DEF Doing, Reloads, WantsReload
  <2>5. ServerFits(p)'
    BY <1>1, <1>2, <1>4, <2>2, <2>3, <2>4
       DEF ServerFits, FailureFits, JsonFits, ServingFits, HelperFits, RefreshFits, SnapshotFits,
         FilterStays, PageStays, Stops, Restarts, Unsettled, Current, Ending, InsideSteps
  <2> QED
    BY <2>2, <2>5 DEF Fitting, PageStays
<1> QED
  BY <1>3, <1>4

LEMMA FilterRefreshes ==
    ASSUME NEW p, Serving(p), RefreshWhitelist(Filter)
    PROVE  Fitting(p)'
<1>1. /\ At(Filter, "refresh") /\ ServerFits(p) /\ FilterFits
      /\ UNCHANGED <<config, alias, pending, json, flag, helper, server, serving, lock, failed>>
      /\ read' = [read EXCEPT ![Filter] = None]
      /\ read \in [Process -> WhatIsRead \cup {None}] /\ Process = {p, Filter} /\ p # Filter
      /\ failed \in [Process -> BOOLEAN]
  BY DEF RefreshWhitelist, Proceed, world, processes, Serving, LifecycleIInv, StateFits, ControlFits
<1>2. read'[p] = read[p] /\ failed'[p] = failed[p] /\ failed'[Filter] = FALSE
  BY <1>1 DEF FilterFits
<1>3. CASE snapshot' = read[Filter].alias /\ Proceed(Filter, Tail(todo[Filter]))
  <2>1. todo' = [todo EXCEPT ![Filter] = Tail(@)]
    BY <1>1, <1>3 DEF Proceed
  <2>2. /\ FilterFits' /\ PageStays(p) /\ Doing(Filter) = "refresh"
        /\ <<"refresh", Doing(Filter)'>> \in Follow
        /\ Doing(p) \notin {"callback", "refresh", "unlock"}
    BY <1>1, <1>2, <2>1, FilterGoesOn
  <2>3. Doing(Filter)' = "unlock"
    BY <2>2 DEF Follow
  <2>4. ServerFits(p)'
    BY <1>1, <1>2, <1>3, <2>2, <2>3
       DEF ServerFits, FailureFits, JsonFits, ServingFits, HelperFits, RefreshFits, SnapshotFits,
         FilterStays, PageStays, Stops, Restarts, Unsettled, Current, Ending, InsideSteps
  <2> QED
    BY <2>2, <2>4 DEF Fitting, PageStays
<1>4. CASE Proceed(Filter, Disabling(FALSE) \o Tail(todo[Filter]))
  <2> DEFINE a == Disabling(FALSE)
  <2>1. todo' = [todo EXCEPT ![Filter] = a \o Tail(@)]
    BY <1>1, <1>4 DEF Proceed
  <2>2. Chain(a, "disable", "disabled") /\ ~Has(a, "unlock")
    BY DisablingPart
  <2> HIDE DEF a
  <2>3. \A z : <<"refresh", z>> \in Follow => <<"disabled", z>> \in Follow
    BY DEF Follow
  <2>4. /\ FilterFits' /\ PageStays(p) /\ Doing(Filter) = "refresh" /\ Doing(Filter)' = "disable"
        /\ ~Lone(Filter)'
        /\ Doing(p) \notin {"callback", "refresh", "unlock"}
    BY <1>1, <1>2, <2>1, <2>2, <2>3, FilterPutsFirst
  <2>5. ServerFits(p)'
    BY <1>1, <1>2, <2>4
       DEF ServerFits, FailureFits, JsonFits, ServingFits, HelperFits, RefreshFits, SnapshotFits,
         FilterStays, PageStays, Stops, Restarts, Unsettled, Current, Ending, InsideSteps
  <2> QED
    BY <2>4, <2>5 DEF Fitting, PageStays
<1> QED
  BY <1>3, <1>4 DEF RefreshWhitelist

LEMMA FilterDisables ==
    ASSUME NEW p, Serving(p), ~spoiled',
           \/ WriteDisabled(Filter) \/ WriteFlagAnyway(Filter)
           \/ \E value \in {"YES", "NO"} : WriteFlag(Filter, value)
    PROVE  Fitting(p)'
<1>1. PICK step \in {"disable", "flagYes", "flagNo", "flagNoAnyway"} :
        /\ At(Filter, step) /\ Continue(Filter, <<>>) /\ UNCHANGED <<snapshot, processes>>
        /\ json' = IF step = "disable" THEN None ELSE json
        /\ step = "disable" => flag' = flag
        /\ step \in {"flagNo", "flagNoAnyway"} => flag' = "NO"
  BY DEF WriteDisabled, WriteFlag, WriteFlagAnyway
<1>2. /\ ServerFits(p) /\ FilterFits /\ Process = {p, Filter} /\ failed \in [Process -> BOOLEAN]
      /\ todo' = [todo EXCEPT ![Filter] = <<>> \o Tail(@)]
      /\ UNCHANGED <<config, alias, pending, read, failed, lock, snapshot, helper, server, serving>>
  BY <1>1 DEF Continue, world, processes, Serving, LifecycleIInv, StateFits
<1>3. failed'[p] = failed[p] /\ failed'[Filter] = FALSE /\ read'[p] = read[p]
  BY <1>2 DEF FilterFits
<1>4. /\ FilterFits' /\ PageStays(p) /\ Doing(Filter) = step
      /\ <<step, Doing(Filter)'>> \in Follow
      /\ Doing(p) \notin {"callback", "refresh", "unlock"}
  BY <1>1, <1>2, <1>3, FilterGoesOn
<1>5. step # "flagYes"
  BY <1>4, WhereTheyAre DEF InsideSteps
<1>6. Doing(Filter)' = IF step = "disable" THEN "flagNo" ELSE "stopServer"
  BY <1>4, <1>5 DEF Follow
<1>7. ServerFits(p)'
  <2>1. CASE step = "disable"
    BY <1>1, <1>2, <1>3, <1>4, <1>6, <2>1
       DEF ServerFits, FailureFits, JsonFits, ServingFits, HelperFits, RefreshFits, SnapshotFits,
         FilterStays, PageStays, Stops, Restarts, Unsettled, Current, Ending, InsideSteps
  <2>2. CASE step # "disable"
    BY <1>1, <1>2, <1>3, <1>4, <1>5, <1>6, <2>2
       DEF ServerFits, FailureFits, JsonFits, ServingFits, HelperFits, RefreshFits, SnapshotFits,
         FilterStays, PageStays, Stops, Restarts, Unsettled, Current, Ending, InsideSteps
  <2> QED
    BY <2>1, <2>2
<1> QED
  BY <1>4, <1>7 DEF Fitting, PageStays

LEMMA FilterStops ==
    ASSUME NEW p, Serving(p), StopServer(Filter) \/ StopHelper(Filter), ~spoiled'
    PROVE  Fitting(p)'
<1>1. PICK step \in {"stopServer", "stopHelper"} :
        /\ At(Filter, step)
        /\ step = "stopServer" => server' = "down" /\ helper' = helper
        /\ step = "stopHelper" => server' = server /\ serving' = serving /\ helper' = "down"
        /\ Continue(Filter, <<>>) /\ UNCHANGED files
  BY DEF StopServer, StopHelper, StopFails
<1>2. /\ ServerFits(p) /\ FilterFits /\ Process = {p, Filter} /\ failed \in [Process -> BOOLEAN]
      /\ todo' = [todo EXCEPT ![Filter] = <<>> \o Tail(@)]
      /\ UNCHANGED <<config, alias, pending, read, failed, lock, json, flag, snapshot>>
  BY <1>1 DEF Continue, world, files, Serving, LifecycleIInv, StateFits
<1>3. failed'[p] = failed[p] /\ failed'[Filter] = FALSE /\ read'[p] = read[p]
  BY <1>2 DEF FilterFits
<1>4. /\ FilterFits' /\ PageStays(p) /\ Doing(Filter) = step
      /\ <<step, Doing(Filter)'>> \in Follow
      /\ Doing(p) \notin {"callback", "refresh", "unlock"}
  BY <1>1, <1>2, <1>3, FilterGoesOn
<1>5. CASE step = "stopServer"
  <2>1. Doing(Filter)' = "stopHelper"
    BY <1>4, <1>5 DEF Follow
  <2>2. ServerFits(p)'
    BY <1>1, <1>2, <1>3, <1>4, <1>5, <2>1
       DEF ServerFits, FailureFits, JsonFits, ServingFits, HelperFits, RefreshFits, SnapshotFits,
         FilterStays, PageStays, Stops, Restarts, Unsettled, Current, Ending, InsideSteps
  <2> QED
    BY <1>4, <2>2 DEF Fitting, PageStays
<1>6. CASE step = "stopHelper"
  <2>1. Doing(Filter)' \in {"start", "check", "applied", "disabled"}
    BY <1>4, <1>6 DEF Follow
  <2>2. ServerFits(p)'
    BY <1>1, <1>2, <1>3, <1>4, <1>6, <2>1
       DEF ServerFits, FailureFits, JsonFits, ServingFits, HelperFits, RefreshFits, SnapshotFits,
         FilterStays, PageStays, Stops, Restarts, Unsettled, Current, Ending, InsideSteps
  <2> QED
    BY <1>4, <2>2 DEF Fitting, PageStays
<1> QED
  BY <1>5, <1>6

LEMMA FilterChecks ==
    ASSUME NEW p, Serving(p), Check(Filter) \/ Applied(Filter)
    PROVE  Fitting(p)'
<1>1. /\ ServerFits(p) /\ FilterFits /\ Process = {p, Filter} /\ p # Filter /\ failed \in [Process -> BOOLEAN]
      /\ todo \in [Process -> Seq(Step)] /\ ~failed[Filter]
      /\ UNCHANGED <<config, alias, pending, read, lock, json, flag, snapshot, helper, server, serving>>
  BY DEF Check, Applied, world, files, processes, Serving, LifecycleIInv, StateFits, ControlFits, FilterFits
<1>2. PICK step \in {"check", "applied", "disabled"} : At(Filter, step)
  BY DEF Check, Applied
<1>3. \/ todo' = [todo EXCEPT ![Filter] = Tail(@)]
      \/ todo' = [todo EXCEPT ![Filter] = <<>> \o Tail(@)]
  BY <1>1 DEF Check, Applied
<1>4. failed'[p] = failed[p] /\ failed'[Filter] = FALSE /\ read'[p] = read[p]
  BY <1>1 DEF Check, Applied
<1>5. /\ FilterFits' /\ PageStays(p) /\ Doing(Filter) = step
      /\ <<step, Doing(Filter)'>> \in Follow
      /\ Doing(p) \notin {"callback", "refresh", "unlock"}
  BY <1>1, <1>2, <1>3, <1>4, FilterGoesOn
<1>6. Doing(Filter)' \in {"reload", "applied", "disabled", "unlock"}
  BY <1>5 DEF Follow
<1>7. ServerFits(p)'
  BY <1>1, <1>4, <1>5, <1>6
     DEF ServerFits, FailureFits, JsonFits, ServingFits, HelperFits, RefreshFits, SnapshotFits,
         FilterStays, PageStays, Stops, Restarts, Unsettled, Current, Ending, InsideSteps
<1> QED
  BY <1>5, <1>7 DEF Fitting, PageStays

LEMMA FilterEndsReload ==
    ASSUME NEW p, Serving(p), ReloadEnds(Filter)
    PROVE  Fitting(p)'
<1>1. /\ At(Filter, "unlock") /\ ServerFits(p) /\ FilterFits /\ Filter \notin Page
      /\ lock' = None
      /\ todo' = [todo EXCEPT ![Filter] = Tail(@)] /\ failed' = failed
      /\ UNCHANGED <<config, alias, pending, json, flag, snapshot, helper, server, serving, read>>
      /\ todo \in [Process -> Seq(Step)] /\ Process = {p, Filter} /\ p # Filter
  BY LifecycleAssumption
     DEF ReloadEnds, world, files, processes, Serving, LifecycleIInv, ControlFits
<1> DEFINE s == todo[Filter]
<1>2. s \in Seq(Step) /\ FilterList(s) /\ Doing(Filter) = "unlock" /\ s # <<>> /\ Head(s) = "unlock"
  BY <1>1, ListStarts DEF FilterFits, At
<1>3. Tail(s) = <<>>
  <2>1. 1 \in 1 .. Len(s) /\ s[1] = "unlock"
    BY <1>2
  <2>2. Len(s) = 1
    BY <1>2, <2>1 DEF FilterList
  <2> DEFINE t == Tail(s)
  <2>3. t \in Seq(Step) /\ Len(t) \in Nat /\ Len(s) = 1 + Len(t)
    BY <1>2, TailRemains DEF Remains
  <2> HIDE DEF t
  <2>4. Len(t) = 0
    <3>1. \A n \in Nat : 1 = 1 + n => n = 0
      OBVIOUS
    <3> QED
      BY <2>2, <2>3, <3>1
  <2>5. t = <<>>
    BY <2>3, <2>4
  <2> QED
    BY <2>5 DEF t
<1>4. todo'[Filter] = <<>> /\ todo'[p] = todo[p]
  BY <1>1, <1>3
<1>5. (todo[Filter])' = <<>>
  BY <1>4
<1>6. FilterFits' /\ Doing(Filter)' = "nothing"
  <2>1. <<>> \in Seq(Step) /\ Len(<<>>) = 0
    OBVIOUS
  <2>2. FilterList(<<>>)
    BY <2>1 DEF FilterList, Linked
  <2> QED
    BY <1>1, <1>5, <2>2 DEF FilterFits, Doing, HeadOf
<1>7. lock # p /\ Doing(p) \notin {"callback", "refresh", "unlock"}
  BY <1>2, WhereTheyAre
<1>8. PageStays(p)
  BY <1>1, <1>4, <1>7, PageKept
<1>9. ServerFits(p)'
  BY <1>1, <1>2, <1>6, <1>7, <1>8
     DEF ServerFits, FailureFits, JsonFits, ServingFits, HelperFits, RefreshFits, SnapshotFits,
         FilterStays, PageStays, Stops, Restarts, Unsettled, Current, Ending, InsideSteps
<1> QED
  BY <1>6, <1>8, <1>9 DEF Fitting, PageStays

LEMMA FilterStep ==
    ASSUME NEW p, Serving(p), Does(Filter), ~spoiled'
    PROVE  Fitting(p)'
<1>1. ASSUME NEW step, At(Filter, step)
      PROVE  step \in InsideSteps \cup {"reload", "unlock"}
  <2>1. todo[Filter] \in Seq(Step)
    BY DEF Serving, FilterFits, FilterList
  <2>2. Doing(Filter) = step /\ todo[Filter] # <<>> /\ Doing(Filter) = todo[Filter][1]
    BY <1>1, <2>1, ListStarts DEF Doing, HeadOf
  <2>3. Doing(Filter) # "nothing"
    <3>1. 1 \in 1 .. Len(todo[Filter])
      BY <2>1, <2>2
    <3>2. todo[Filter][1] \in Step
      BY <2>1, <3>1
    <3> QED
      BY <2>2, <3>2 DEF Step
  <2> QED
    BY <2>2, <2>3, WhereTheyAre
<1>2. \A step \in {"resync", "whitelist", "pems", "json", "restart", "start", "startHelper",
                   "startServer", "waitServer"} : ~At(Filter, step)
  BY <1>1 DEF InsideSteps
<1>3. /\ ~Resync(Filter) /\ ~WriteWhitelist(Filter) /\ ~WritePems(Filter) /\ ~WriteJson(Filter)
      /\ ~Restart(Filter) /\ ~Start(Filter) /\ ~StartHelper(Filter) /\ ~StartServer(Filter)
      /\ ~WaitServer(Filter)
  <2>1. ~Resync(Filter)
    BY <1>2 DEF Resync
  <2>2. ~WriteWhitelist(Filter)
    BY <1>2 DEF WriteWhitelist
  <2>3. ~WritePems(Filter)
    BY <1>2 DEF WritePems
  <2>4. ~WriteJson(Filter)
    BY <1>2 DEF WriteJson
  <2>5. ~Restart(Filter) /\ ~Start(Filter)
    BY <1>2 DEF Restart, Start
  <2>6. ~StartHelper(Filter) /\ ~StartServer(Filter) /\ ~WaitServer(Filter)
    BY <1>2 DEF StartHelper, StartServer, WaitServer
  <2> QED
    BY <2>1, <2>2, <2>3, <2>4, <2>5, <2>6
<1> QED
  BY <1>3, FilterReloads, FilterGenerates, FilterRefreshes, FilterDisables, FilterStops,
     FilterChecks, FilterEndsReload
     DEF Does

\* The server, the administrator, and what pfSense begins.
LEMMA ServerStep ==
    ASSUME NEW p, Serving(p), ServerReadsConfig \/ \E a \in AliasContent : AliasEdited(a)
    PROVE  Fitting(p)'
<1>1. /\ UNCHANGED <<json, flag, snapshot, helper, config, todo, read, failed, lock>>
      /\ PageFits(p) /\ FilterFits /\ ServerFits(p) /\ json \in Clients \cup {None}
  BY DEF ServerReadsConfig, AliasEdited, world, files, processes, Serving, LifecycleIInv, StateFits
<1>2. PageFits(p)' /\ FilterFits'
  BY <1>1 DEF PageFits, Locks, FilterFits
<1>3. /\ Doing(p)' = Doing(p) /\ (Lone(p)' <=> Lone(p)) /\ (Locks(p)' <=> Locks(p))
      /\ (Reloads(p)' <=> Reloads(p)) /\ (OnlyStops(todo[p])' <=> OnlyStops(todo[p]))
      /\ Doing(Filter)' = Doing(Filter) /\ (Lone(Filter)' <=> Lone(Filter))
  BY <1>1 DEF Doing, Lone, Locks, Reloads
<1>4. CASE ServerReadsConfig
  <2>1. /\ UNCHANGED <<alias, pending>> /\ server = "starting"
        /\ \/ json # None /\ server' = "up" /\ serving' = json
           \/ server' = "down" /\ serving' = serving
    BY <1>4 DEF ServerReadsConfig, world
  <2>2. ServerFits(p)'
    BY <1>1, <1>3, <2>1
       DEF ServerFits, FailureFits, JsonFits, ServingFits, HelperFits, RefreshFits, SnapshotFits,
         FilterStays, PageStays, Stops, Restarts, Unsettled, Current, Ending, InsideSteps
  <2> QED
    BY <1>2, <2>2 DEF Fitting
<1>5. CASE \E a \in AliasContent : AliasEdited(a)
  <2>1. pending' = TRUE /\ UNCHANGED <<server, serving>>
    BY <1>5 DEF AliasEdited, processes
  <2>2. ServerFits(p)'
    BY <1>1, <1>3, <2>1
       DEF ServerFits, FailureFits, JsonFits, ServingFits, HelperFits, RefreshFits, SnapshotFits,
         FilterStays, PageStays, Stops, Restarts, Unsettled, Current, Ending, InsideSteps
  <2> QED
    BY <1>2, <2>2 DEF Fitting
<1> QED
  BY <1>4, <1>5

LEMMA FilterBegins ==
    ASSUME NEW p, Serving(p), FilterReloadBegins
    PROVE  Fitting(p)'
<1>1. /\ todo' = [todo EXCEPT ![Filter] = <<"reload">>] /\ todo[Filter] = <<>>
      /\ UNCHANGED <<json, flag, snapshot, helper, server, serving, config, alias, read, failed, lock>>
      /\ ServerFits(p) /\ FilterFits /\ Process = {p, Filter} /\ p # Filter
      /\ todo \in [Process -> Seq(Step)]
  BY DEF FilterReloadBegins, files, processes, Serving, LifecycleIInv, ControlFits
<1> DEFINE r == <<"reload">>
<1>2. todo'[Filter] = r /\ todo'[p] = todo[p]
  BY <1>1
<1>3. FilterList(r) /\ HeadOf(r) = "reload"
  <2>1. Chain(r, "reload", "reload")
    BY OnePart DEF Step
  <2>2. Len(r) = 1
    OBVIOUS
  <2> HIDE DEF r
  <2>3. \A i \in 1 .. Len(r) : i = Len(r)
    BY <2>2
  <2> QED
    BY <2>1, <2>3 DEF FilterList, Chain, HeadOf
<1>4. (todo[Filter])' = r
  BY <1>2
<1>5. FilterFits' /\ Doing(Filter)' = "reload"
  BY <1>1, <1>3, <1>4 DEF FilterFits, Doing
<1>6. PageStays(p)
  BY <1>1, <1>2, PageKept
<1>7. Doing(Filter) = "nothing"
  BY <1>1 DEF Doing, HeadOf
<1>8. ServerFits(p)'
  BY <1>1, <1>5, <1>6, <1>7
     DEF ServerFits, FailureFits, JsonFits, ServingFits, HelperFits, RefreshFits, SnapshotFits,
         FilterStays, PageStays, Stops, Restarts, Unsettled, Current, Ending, InsideSteps
<1> QED
  BY <1>5, <1>6, <1>8 DEF Fitting, PageStays

\* What a page has to do after a save, or after a boot.
LEMMA ResyncIsList ==
    /\ PageList(<<"resync">>) /\ HeadOf(<<"resync">>) = "resync" /\ ~Has(<<"resync">>, "unlock")
    /\ FilterList(<<>>) /\ HeadOf(<<>>) = "nothing"
<1> DEFINE r == <<"resync">>
<1>1. /\ Chain(r, "resync", "resync") /\ Careful(r) /\ Len(r) = 1 /\ r[1] = "resync"
      /\ \A z : Has(r, z) <=> z = "resync"
  BY OnePart DEF Step, WantsReload, WantsCheck
<1> HIDE DEF r
<1>2. PageList(r) /\ HeadOf(r) = "resync" /\ ~Has(r, "unlock")
  BY <1>1 DEF PageList, Chain, OneUnlock, Has, HeadOf
<1>3. <<>> \in Seq(Step) /\ Len(<<>>) = 0
  OBVIOUS
<1>4. FilterList(<<>>) /\ HeadOf(<<>>) = "nothing"
  BY <1>3 DEF FilterList, Linked, HeadOf
<1> QED
  BY <1>2, <1>4 DEF r

LEMMA PageSaves ==
    ASSUME NEW p, Serving(p), NEW c \in Config, Save(p, c)
    PROVE  Fitting(p)'
<1> DEFINE r == <<"resync">>
<1>1. /\ todo[p] = <<>> /\ todo' = [todo EXCEPT ![p] = r]
      /\ UNCHANGED <<json, flag, snapshot, helper, server, serving, alias, pending, read, failed, lock>>
      /\ ServerFits(p)
  BY DEF Save, files, processes, Serving
<1>2. Doing(p) = "nothing" /\ ~failed[p]
  BY <1>1 DEF Doing, HeadOf, ServerFits, FailureFits
<1>3. PageList(r) /\ HeadOf(r) = "resync" /\ ~Has(r, "unlock")
  BY ResyncIsList
<1> HIDE DEF r
<1>4. PageFits(p)' /\ FilterStays /\ ~Locks(p)' /\ Doing(p)' = "resync"
  BY <1>1, <1>3, PageTakesUp
<1>5. ~Reloads(p)
  <2>1. \A i \in 1 .. Len(todo[p]) : FALSE
    BY <1>1
  <2> QED
    BY <2>1 DEF Reloads, Has
<1>6. ServerFits(p)'
  BY <1>1, <1>2, <1>4, <1>5, WhereTheyAre
     DEF ServerFits, FailureFits, JsonFits, ServingFits, HelperFits, RefreshFits, SnapshotFits,
         FilterStays, PageStays, Stops, Restarts, Unsettled, Current, Ending, InsideSteps
<1> QED
  BY <1>4, <1>6 DEF Fitting, FilterStays

LEMMA Boots ==
    ASSUME NEW p, Serving(p), Reboot(p)
    PROVE  Fitting(p)'
<1>1. /\ server' = "down" /\ lock' = None /\ pending' = TRUE
      /\ todo' = [q \in Process |-> IF q = p THEN <<"resync">> ELSE <<>>]
      /\ failed' = [q \in Process |-> FALSE]
      /\ Process = {p, Filter} /\ p # Filter
  BY DEF Reboot, Serving
<1>2. todo'[p] = <<"resync">> /\ todo'[Filter] = <<>> /\ ~failed'[p] /\ ~failed'[Filter]
  BY <1>1
<1>3. (todo[p])' = <<"resync">> /\ (todo[Filter])' = <<>>
  BY <1>2
<1>4. PageFits(p)' /\ ~Locks(p)' /\ Doing(p)' = "resync"
  BY <1>3, ResyncIsList DEF PageFits, Locks, Doing
<1>5. FilterFits' /\ Doing(Filter)' = "nothing"
  BY <1>2, <1>3, ResyncIsList DEF FilterFits, Doing
<1>6. ServerFits(p)'
  BY <1>1, <1>2, <1>4, <1>5
     DEF ServerFits, FailureFits, JsonFits, ServingFits, HelperFits, RefreshFits, SnapshotFits,
         FilterStays, PageStays, Stops, Restarts, Unsettled, Current, Ending, InsideSteps
<1> QED
  BY <1>4, <1>5, <1>6 DEF Fitting

LEMMA ServeStarts ==
    ASSUME NEW p, Page = {p}, LifecycleInit
    PROVE  ServeIInv(p)
<1>1. /\ json = None /\ server = "down" /\ pending = FALSE /\ lock = None
      /\ todo[p] = <<>> /\ todo[Filter] = <<>> /\ ~failed[p] /\ ~failed[Filter]
  BY DEF LifecycleInit, Process
<1>2. PageList(<<>>) /\ ~Has(<<>>, "unlock") /\ FilterList(<<>>) /\ HeadOf(<<>>) = "nothing"
  <2>1. <<>> \in Seq(Step) /\ Len(<<>>) = 0
    OBVIOUS
  <2> QED
    BY <2>1, ResyncIsList DEF PageList, Linked, Careful, Ahead, OneUnlock, Has
<1>3. PageFits(p) /\ FilterFits /\ Doing(p) = "nothing" /\ Doing(Filter) = "nothing"
  BY <1>1, <1>2 DEF PageFits, Locks, FilterFits, Doing
<1>4. ServerFits(p)
  BY <1>1, <1>3
     DEF ServerFits, FailureFits, JsonFits, ServingFits, HelperFits, RefreshFits, SnapshotFits,
         FilterStays, PageStays, Stops, Restarts, Unsettled, Current, Ending, InsideSteps
<1> QED
  BY <1>3, <1>4, LifecycleStarts DEF ServeIInv

LEMMA ServeKeeps ==
    ASSUME NEW p, Page = {p}, ServeIInv(p), [LifecycleNext]_lifecycleVars
    PROVE  ServeIInv(p)'
<1>1. LifecycleIInv'
  BY LifecycleKeeps DEF ServeIInv
<1> SUFFICES ASSUME ~spoiled' PROVE Fitting(p)'
  BY <1>1 DEF ServeIInv, Fitting
<1>2. CASE UNCHANGED lifecycleVars
  <2>1. UNCHANGED <<json, flag, snapshot, helper, server, serving, config, alias, pending,
                    todo, read, failed, lock, spoiled>>
    BY <1>2 DEF lifecycleVars, files, processes, world
  <2>2. ~spoiled
    BY <2>1
  <2>3. PageFits(p) /\ FilterFits /\ ServerFits(p)
    BY <2>2 DEF ServeIInv
  <2>4. PageFits(p)' /\ FilterFits'
    BY <2>1, <2>3 DEF PageFits, Locks, FilterFits
  <2>5. /\ Doing(p)' = Doing(p) /\ (Lone(p)' <=> Lone(p)) /\ (Locks(p)' <=> Locks(p))
        /\ (Reloads(p)' <=> Reloads(p)) /\ (OnlyStops(todo[p])' <=> OnlyStops(todo[p]))
        /\ Doing(Filter)' = Doing(Filter) /\ (Lone(Filter)' <=> Lone(Filter))
    BY <2>1 DEF Doing, Lone, Locks, Reloads
  <2>6. ServerFits(p)'
    BY <2>1, <2>3, <2>5
       DEF ServerFits, FailureFits, JsonFits, ServingFits, HelperFits, RefreshFits, SnapshotFits,
         FilterStays, PageStays, Stops, Restarts, Unsettled, Current, Ending, InsideSteps
  <2> QED
    BY <2>4, <2>6 DEF Fitting
<1>3. CASE LifecycleNext
  <2>1. ~spoiled
    <3>1. spoiled \in BOOLEAN
      BY DEF ServeIInv, LifecycleIInv, StateFits
    <3>2. spoiled' = spoiled \/ spoiled' = TRUE
      BY <1>3
         DEF LifecycleNext, Reboot, Save, AliasEdited, FilterReloadBegins, ServerReadsConfig, Does,
             Resync, WriteWhitelist, WritePems, WriteJson, WriteDisabled, Check, WriteFlagAnyway,
             Applied, WriteFlag, Restart, StopServer, StopHelper, StopFails, Start,
             StartHelper, StartServer, WaitServer, Reload, GenerateRules, RefreshWhitelist, ReloadEnds
    <3> QED
      BY <3>1, <3>2
  <2>2. Serving(p)
    BY <2>1, LifecycleAssumption DEF ServeIInv, Serving, Process
  <2> QED
    BY <1>3, <2>2, PageStep, FilterStep, ServerStep, FilterBegins, PageSaves, Boots
       DEF LifecycleNext, Process
<1> QED
  BY <1>2, <1>3

\* Fail closed, with one page that saves: once everything is applied, a server
\* that runs serves the saved, valid configuration and enforces the alias as it
\* is - whatever page and callback did in between, whenever the firewall reboots,
\* and whatever failed but the three that spoil: a write of config.json, a write
\* of the flag, and a stop that a server or helper outlives.
THEOREM ServesWhatIsSavedHolds ==
    ASSUME NEW p, Page = {p}
    PROVE  LifecycleSpec => []ServesWhatIsSaved
<1>1. LifecycleInit => ServeIInv(p)
  BY ServeStarts
<1>2. ServeIInv(p) /\ [LifecycleNext]_lifecycleVars => ServeIInv(p)'
  BY ServeKeeps
<1>3. ServeIInv(p) => ServesWhatIsSaved
  BY ServesWhenQuiet
<1> QED
  BY <1>1, <1>2, <1>3, PTL DEF LifecycleSpec
=============================================================================
