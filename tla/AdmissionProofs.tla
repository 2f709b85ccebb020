--------------------------- MODULE AdmissionProofs ---------------------------
(***************************************************************************)
(* The slots, the certificates and the rate of Admission, for every list   *)
(* of clients, every number of slots and of connections, every limit and   *)
(* every window.                                                           *)
(*                                                                         *)
(* The inductive invariant has three parts.  Slots: the connections that   *)
(* hold one are finitely many, and with the free ones make up all.         *)
(* Identities: whoever is past the handshake met a legal, loaded list, and *)
(* the client of a connection is what the dictionary says of its           *)
(* certificate.  Rates: the stamps the limiter keeps for a client are      *)
(* those of its last admissions, in the order of the admissions; every     *)
(* stamp it has dropped is a whole window old; admissions follow each      *)
(* other in real time, none before its own stamp.                          *)
(***************************************************************************)
EXTENDS Admission, FiniteSetTheorems, WellFoundedInduction, TLAPS

Connection == [stage : Stages, cert : Fingerprint \cup {None},
               client : Id \cup {None}, stamp : 0 .. MaxClock]
Stamped == [stamp : 0 .. MaxClock, time : 0 .. MaxClock]

\* What config.py makes of a list.
Loaded == [n \in DOMAIN file |-> [id |-> file[n].id, digests |-> Digests(file[n])]]

ConfigIsLegal == file \in Files /\ (config # None => Legal(file) /\ config = Loaded)

\* A connection is not ahead of the clock; only a connection that has asked the
\* limiter has a client, the one of its certificate.
Sound(r) ==
    /\ r \in Connection
    /\ r.stamp <= now
    /\ r.stage # "absent" => config # None
    /\ r.stage = "request" => r.cert \in Fingerprint
    /\ r.stage = "stamped" => r.client # None
    /\ r.client # None =>
          /\ r.stage \in {"stamped", "handling"}
          /\ r.cert \in Fingerprint
          /\ r.client = ClientOf(r.cert)

ConnectionsFit ==
    /\ conn \in [Conn -> Connection]
    /\ \A c \in Conn : Sound(conn[c])

SlotsFit == free \in 0 .. Slots /\ IsFiniteSet(Holding) /\ SlotsBalance

ClockFits == now \in 0 .. MaxClock

\* The list h the limiter keeps of a client, against all its admissions a, at
\* time t.
IsLast(h, a) ==
    /\ Len(h) <= Limit /\ Len(h) <= Len(a)
    /\ \A k \in 1 .. Len(h) : h[k] = a[Len(a) - Len(h) + k].stamp
GoneAreOld(h, a, t) == \A n \in 1 .. Len(a) - Len(h) : a[n].stamp + Window <= t
TimesInOrder(a, t) ==
    /\ \A n \in 1 .. Len(a) : a[n].stamp <= a[n].time /\ a[n].time <= t
    /\ \A m, n \in 1 .. Len(a) : m <= n => a[m].time <= a[n].time
Spaced(a) == \A n \in 1 .. Len(a) - Limit : a[n + Limit].time >= a[n].stamp + Window

RateOf(h, a, t) ==
    /\ h \in Seq(0 .. MaxClock) /\ a \in Seq(Stamped)
    /\ IsLast(h, a) /\ GoneAreOld(h, a, t) /\ TimesInOrder(a, t) /\ Spaced(a)

RateFits ==
    /\ history \in [Id -> Seq(0 .. MaxClock)]
    /\ admitted \in [Id -> Seq(Stamped)]
    /\ \A i \in Id : RateOf(history[i], admitted[i], now)

AdmissionIInv == ClockFits /\ ConfigIsLegal /\ ConnectionsFit /\ SlotsFit /\ RateFits
-----------------------------------------------------------------------------
(***************************************************************************)
(* The popleft loop.                                                       *)
(***************************************************************************)

\* A set of positions of a sequence has a first one.
LEMMA FirstPosition ==
    ASSUME NEW T \in SUBSET Nat, T # {}
    PROVE  \E k \in T : \A l \in T : k <= l
<1> DEFINE less == {ss \in Nat \X Nat : ss[1] < ss[2]}
<1>1. IsWellFoundedOn(less, Nat)
  BY NatLessThanWellFounded DEF OpToRel
<1>2. \A l, k \in Nat : <<l, k>> \in less <=> l < k
  OBVIOUS
<1> HIDE DEF less
<1>3. \E k \in T : \A l \in T : <<l, k>> \notin less
  BY <1>1, WFMin
<1>4. PICK k \in T : \A l \in T : <<l, k>> \notin less
  BY <1>3
<1>5. \A l \in T : k <= l
  <2>1. SUFFICES ASSUME NEW l \in T PROVE k <= l
    OBVIOUS
  <2>2. l \in Nat /\ k \in Nat
    OBVIOUS
  <2>3. ~(l < k)
    BY <1>2, <1>4, <2>2
  <2> QED
    BY <2>2, <2>3
<1> QED
  BY <1>5

\* What is left of a list is its end, from the first stamp inside the window.
LEMMA KeptIsTheEnd ==
    ASSUME NEW s \in Seq(0 .. MaxClock), NEW current \in 0 .. MaxClock
    PROVE  /\ Kept(s, current) \in Seq(0 .. MaxClock)
           /\ Len(Kept(s, current)) <= Len(s)
           /\ \A k \in 1 .. Len(Kept(s, current)) :
                 Kept(s, current)[k] = s[Len(s) - Len(Kept(s, current)) + k]
           /\ \A k \in 1 .. Len(s) - Len(Kept(s, current)) : s[k] + Window <= current
           /\ Kept(s, current) # <<>> => Kept(s, current)[1] > current - Window
<1> DEFINE inside == {k \in DOMAIN s : ~Outside(s[k], current)}
<1>1. /\ Len(s) \in Nat /\ DOMAIN s = 1 .. Len(s) /\ Window \in Nat /\ MaxClock \in Nat
      /\ \A k \in 1 .. Len(s) : s[k] \in 0 .. MaxClock
  BY AdmissionAssumption
<1>2. CASE inside = {}
  <2>1. Kept(s, current) = <<>>
    BY <1>2 DEF Kept
  <2>2. \A k \in 1 .. Len(s) : s[k] + Window <= current
    <3>1. \A k \in 1 .. Len(s) : s[k] <= current - Window
      BY <1>1, <1>2 DEF Outside
    <3> QED
      BY <1>1, <3>1
  <2>3. <<>> \in Seq(0 .. MaxClock) /\ Len(<<>>) = 0
    OBVIOUS
  <2> HIDE DEF inside
  <2> QED
    BY <1>1, <2>1, <2>2, <2>3
<1>3. CASE inside # {}
  <2> DEFINE first == CHOOSE k \in inside : \A l \in inside : k <= l
  <2>1. inside \in SUBSET Nat
    BY <1>1
  <2>2. first \in inside /\ \A l \in inside : first <= l
    <3>1. \E k \in inside : \A l \in inside : k <= l
      <4> HIDE DEF inside
      <4> QED
        BY <1>3, <2>1, FirstPosition
    <3> HIDE DEF inside
    <3> QED
      BY <3>1
  <2>3. Kept(s, current) = SubSeq(s, first, Len(s))
    BY <1>3 DEF Kept
  <2>4. first \in 1 .. Len(s) /\ ~(s[first] <= current - Window)
    BY <1>1, <2>2 DEF Outside
  <2>5. ASSUME NEW k \in 1 .. Len(s), k < first
        PROVE  s[k] + Window <= current
    <3>1. k \notin inside
      <4>1. k \in Nat /\ first \in Nat /\ ~(first <= k)
        <5> HIDE DEF first, inside
        <5> QED
          BY <1>1, <2>4, <2>5
      <4> HIDE DEF first, inside
      <4> QED
        BY <2>2, <4>1
    <3>2. s[k] <= current - Window
      BY <1>1, <3>1 DEF Outside
    <3> QED
      BY <1>1, <3>2
  <2> HIDE DEF inside, first
  <2>6. /\ SubSeq(s, first, Len(s)) \in Seq(0 .. MaxClock)
        /\ Len(SubSeq(s, first, Len(s))) = Len(s) - first + 1
        /\ \A k \in 1 .. (Len(s) - first + 1) :
              SubSeq(s, first, Len(s))[k] = s[first + k - 1]
    BY <1>1, <2>4
  <2>7. \A k \in 1 .. Len(s) - (Len(s) - first + 1) : k \in 1 .. Len(s) /\ k < first
    BY <1>1, <2>4
  <2>8. \A k \in 1 .. (Len(s) - first + 1) :
           first + k - 1 = Len(s) - (Len(s) - first + 1) + k
    BY <1>1, <2>4
  <2>9. SubSeq(s, first, Len(s))[1] = s[first]
    BY <1>1, <2>4, <2>6
  <2>10. s[first] > current - Window
    BY <1>1, <2>4
  <2>11. Len(s) - first + 1 <= Len(s)
    BY <1>1, <2>4
  <2> QED
    BY <2>3, <2>5, <2>6, <2>7, <2>8, <2>9, <2>10, <2>11
<1> QED
  BY <1>2, <1>3

-----------------------------------------------------------------------------
(***************************************************************************)
(* The list of one client.                                                 *)
(***************************************************************************)

LEMMA RateTypes ==
    ASSUME NEW h \in Seq(0 .. MaxClock), NEW a \in Seq(Stamped)
    PROVE  /\ Len(h) \in Nat /\ Len(a) \in Nat /\ Limit \in Nat \ {0} /\ Window \in Nat \ {0}
           /\ \A k \in 1 .. Len(h) : h[k] \in Nat
           /\ \A n \in 1 .. Len(a) : a[n].stamp \in Nat /\ a[n].time \in Nat
<1>1. \A n \in 1 .. Len(a) : a[n] \in Stamped
  OBVIOUS
<1>2. \A n \in 1 .. Len(a) : a[n].stamp \in Nat /\ a[n].time \in Nat
  BY <1>1, AdmissionAssumption DEF Stamped
<1> QED
  BY <1>2, AdmissionAssumption

\* Dropping stamps that have left the window keeps the rest the end of all.
LEMMA DropKeeps ==
    ASSUME NEW h, NEW a, NEW t \in Nat, RateOf(h, a, t),
           NEW stamp \in 0 .. MaxClock, stamp <= t
    PROVE  RateOf(Kept(h, stamp), a, t)
<1> DEFINE r == Kept(h, stamp)
<1>1. /\ h \in Seq(0 .. MaxClock) /\ a \in Seq(Stamped)
      /\ IsLast(h, a) /\ GoneAreOld(h, a, t) /\ TimesInOrder(a, t) /\ Spaced(a)
  BY DEF RateOf
<1>2. /\ r \in Seq(0 .. MaxClock) /\ Len(r) <= Len(h)
      /\ \A k \in 1 .. Len(r) : r[k] = h[Len(h) - Len(r) + k]
      /\ \A k \in 1 .. Len(h) - Len(r) : h[k] + Window <= stamp
  BY <1>1, KeptIsTheEnd
<1>3. /\ Len(h) \in Nat /\ Len(a) \in Nat /\ Limit \in Nat /\ Window \in Nat
      /\ \A k \in 1 .. Len(h) : h[k] \in Nat
      /\ \A n \in 1 .. Len(a) : a[n].stamp \in Nat
  BY <1>1, RateTypes
<1>4. Len(r) \in Nat
  BY <1>2
<1> HIDE DEF r
<1>5. IsLast(r, a)
  <2>1. ASSUME NEW k \in 1 .. Len(r)
        PROVE  r[k] = a[Len(a) - Len(r) + k].stamp
    <3> DEFINE l == Len(h) - Len(r) + k
    <3>1. l \in 1 .. Len(h) /\ Len(a) - Len(h) + l = Len(a) - Len(r) + k
      BY <1>2, <1>3, <1>4
    <3>2. r[k] = h[l]
      BY <1>2
    <3> HIDE DEF l
    <3>3. h[l] = a[Len(a) - Len(h) + l].stamp
      BY <1>1, <3>1 DEF IsLast
    <3> QED
      BY <3>1, <3>2, <3>3
  <2>2. Len(r) <= Limit /\ Len(r) <= Len(a)
    BY <1>1, <1>2, <1>3, <1>4 DEF IsLast
  <2> QED
    BY <2>1, <2>2 DEF IsLast
<1>6. GoneAreOld(r, a, t)
  <2>1. SUFFICES ASSUME NEW n \in 1 .. Len(a) - Len(r) PROVE a[n].stamp + Window <= t
    BY DEF GoneAreOld
  <2>2. Len(h) <= Len(a)
    BY <1>1 DEF IsLast
  <2>3. CASE n \in 1 .. Len(a) - Len(h)
    BY <1>1, <2>3 DEF GoneAreOld
  <2>4. CASE n \notin 1 .. Len(a) - Len(h)
    <3> DEFINE l == n - (Len(a) - Len(h))
    <3>1. l \in 1 .. Len(h) - Len(r) /\ l \in 1 .. Len(h) /\ Len(a) - Len(h) + l = n
          /\ n \in 1 .. Len(a)
      BY <1>2, <1>3, <1>4, <2>2, <2>4
    <3> HIDE DEF l
    <3>2. h[l] + Window <= stamp
      BY <1>2, <3>1
    <3>3. h[l] = a[n].stamp
      BY <1>1, <3>1 DEF IsLast
    <3> QED
      BY <1>3, <3>1, <3>2, <3>3, AdmissionAssumption
  <2> QED
    BY <2>3, <2>4
<1> QED
  BY <1>1, <1>2, <1>5, <1>6 DEF RateOf, r

\* One more admission, below the limit: the request that came Limit admissions
\* ago has been dropped, so it is a window old.
LEMMA AdmitKeeps ==
    ASSUME NEW h, NEW a, NEW t \in 0 .. MaxClock, RateOf(h, a, t), Len(h) < Limit,
           NEW stamp \in 0 .. MaxClock, stamp <= t
    PROVE  RateOf(Append(h, stamp), Append(a, [stamp |-> stamp, time |-> t]), t)
<1> DEFINE e == [stamp |-> stamp, time |-> t]
           g == Append(h, stamp)
           b == Append(a, e)
<1>1. /\ h \in Seq(0 .. MaxClock) /\ a \in Seq(Stamped)
      /\ IsLast(h, a) /\ GoneAreOld(h, a, t) /\ TimesInOrder(a, t) /\ Spaced(a)
  BY DEF RateOf
<1>2. /\ Len(h) \in Nat /\ Len(a) \in Nat /\ Limit \in Nat \ {0} /\ Window \in Nat
      /\ \A n \in 1 .. Len(a) : a[n].stamp \in Nat /\ a[n].time \in Nat
      /\ t \in Nat /\ stamp \in Nat
  BY <1>1, RateTypes, AdmissionAssumption
<1>3. e \in Stamped /\ e.stamp = stamp /\ e.time = t
  BY DEF Stamped
<1> HIDE DEF e
<1>4. /\ g \in Seq(0 .. MaxClock) /\ Len(g) = Len(h) + 1
      /\ g[Len(h) + 1] = stamp /\ \A k \in 1 .. Len(h) : g[k] = h[k]
  BY <1>1
<1>5. /\ b \in Seq(Stamped) /\ Len(b) = Len(a) + 1
      /\ b[Len(a) + 1] = e /\ \A n \in 1 .. Len(a) : b[n] = a[n]
  BY <1>1, <1>3
<1> HIDE DEF g, b
<1>6. Len(h) <= Len(a)
  BY <1>1 DEF IsLast
<1>7. IsLast(g, b)
  <2>1. ASSUME NEW k \in 1 .. Len(g)
        PROVE  g[k] = b[Len(b) - Len(g) + k].stamp
    <3>1. Len(b) - Len(g) = Len(a) - Len(h)
      BY <1>2, <1>4, <1>5
    <3>2. CASE k = Len(h) + 1
      <4>1. Len(b) - Len(g) + k = Len(a) + 1
        BY <1>2, <3>1, <3>2
      <4> QED
        BY <1>3, <1>4, <1>5, <3>2, <4>1
    <3>3. CASE k # Len(h) + 1
      <4>1. k \in 1 .. Len(h) /\ Len(a) - Len(h) + k \in 1 .. Len(a)
        BY <1>2, <1>4, <1>6, <3>3
      <4>2. h[k] = a[Len(a) - Len(h) + k].stamp
        BY <1>1, <4>1 DEF IsLast
      <4> QED
        BY <1>4, <1>5, <3>1, <4>1, <4>2
    <3> QED
      BY <3>2, <3>3
  <2>2. Len(g) <= Limit /\ Len(g) <= Len(b)
    BY <1>2, <1>4, <1>5, <1>6
  <2> QED
    BY <2>1, <2>2 DEF IsLast
<1>8. GoneAreOld(g, b, t)
  <2>1. Len(b) - Len(g) = Len(a) - Len(h)
    BY <1>2, <1>4, <1>5
  <2>2. \A n \in 1 .. Len(a) - Len(h) : n \in 1 .. Len(a)
    BY <1>2, <1>6
  <2> QED
    BY <1>1, <1>5, <2>1, <2>2 DEF GoneAreOld
<1>9. TimesInOrder(b, t)
  <2>1. \A n \in 1 .. Len(b) : n \in 1 .. Len(a) \/ n = Len(a) + 1
    BY <1>2, <1>5
  <2>2. \A n \in 1 .. Len(b) : b[n].stamp <= b[n].time /\ b[n].time <= t
    BY <1>1, <1>2, <1>3, <1>5, <2>1 DEF TimesInOrder
  <2>3. ASSUME NEW m \in 1 .. Len(b), NEW n \in 1 .. Len(b), m <= n
        PROVE  b[m].time <= b[n].time
    <3>1. CASE n = Len(a) + 1
      BY <1>3, <1>5, <2>2, <3>1
    <3>2. CASE n # Len(a) + 1
      <4>1. m \in 1 .. Len(a) /\ n \in 1 .. Len(a)
        BY <1>2, <1>5, <2>3, <3>2
      <4> QED
        BY <1>1, <1>5, <2>3, <4>1 DEF TimesInOrder
    <3> QED
      BY <3>1, <3>2
  <2> QED
    BY <2>2, <2>3 DEF TimesInOrder
<1>10. Spaced(b)
  <2>1. SUFFICES ASSUME NEW n \in 1 .. Len(b) - Limit
                 PROVE  b[n + Limit].time >= b[n].stamp + Window
    BY DEF Spaced
  <2>2. n \in 1 .. Len(a) /\ b[n] = a[n]
    BY <1>2, <1>5
  <2>3. CASE n + Limit = Len(a) + 1
    <3>1. n \in 1 .. Len(a) - Len(h)
      BY <1>2, <2>2, <2>3
    <3>2. a[n].stamp + Window <= t
      BY <1>1, <3>1 DEF GoneAreOld
    <3> QED
      BY <1>2, <1>3, <1>5, <2>2, <2>3, <3>2
  <2>4. CASE n + Limit # Len(a) + 1
    <3>1. n \in 1 .. Len(a) - Limit /\ n + Limit \in 1 .. Len(a)
      BY <1>2, <1>5, <2>4
    <3> QED
      BY <1>1, <1>5, <2>2, <3>1 DEF Spaced
  <2> QED
    BY <2>3, <2>4
<1> QED
  BY <1>4, <1>5, <1>7, <1>8, <1>9, <1>10 DEF RateOf, g, b, e

\* Time passes.
LEMMA LaterKeeps ==
    ASSUME NEW h, NEW a, NEW t \in Nat, RateOf(h, a, t)
    PROVE  RateOf(h, a, t + 1)
<1>1. /\ h \in Seq(0 .. MaxClock) /\ a \in Seq(Stamped)
      /\ IsLast(h, a) /\ GoneAreOld(h, a, t) /\ TimesInOrder(a, t) /\ Spaced(a)
  BY DEF RateOf
<1>2. /\ Len(h) \in Nat /\ Len(a) \in Nat /\ Limit \in Nat \ {0} /\ Window \in Nat
      /\ \A n \in 1 .. Len(a) : a[n].stamp \in Nat /\ a[n].time \in Nat
  BY <1>1, RateTypes
<1>3. GoneAreOld(h, a, t + 1)
  BY <1>1, <1>2 DEF GoneAreOld
<1>4. TimesInOrder(a, t + 1)
  BY <1>1, <1>2 DEF TimesInOrder
<1> QED
  BY <1>1, <1>3, <1>4 DEF RateOf

-----------------------------------------------------------------------------
(***************************************************************************)
(* The clients of a legal list.                                            *)
(***************************************************************************)

\* The dictionary finds, for a certificate, the one entry that lists it.
LEMMA OneEntryListsIt ==
    ASSUME ConfigIsLegal, config # None, NEW digest \in Fingerprint,
           ClientOf(digest) # None
    PROVE  /\ ClientOf(digest) \in Id
           /\ \A n \in DOMAIN file :
                 digest \in Digests(file[n]) <=> file[n].id = ClientOf(digest)
<1> DEFINE at == {n \in DOMAIN config : digest \in config[n].digests}
           listed == {n \in DOMAIN file : digest \in Digests(file[n])}
<1>1. file \in Files /\ Legal(file) /\ config = Loaded
  BY DEF ConfigIsLegal
<1>2. /\ file \in Seq(ClientItem) /\ DOMAIN file = 1 .. Len(file)
      /\ \A n \in DOMAIN file : file[n] \in ClientItem
  BY <1>1, AdmissionAssumption
<1>3. /\ DOMAIN config = DOMAIN file
      /\ \A n \in DOMAIN file : config[n].id = file[n].id /\ config[n].digests = Digests(file[n])
  BY <1>1 DEF Loaded
<1>4. at = listed
  BY <1>3
<1>5. at # {}
  BY DEF ClientOf
<1>6. ASSUME NEW n \in at, NEW o \in at
      PROVE  n = o
  <2>1. /\ n \in DOMAIN file /\ o \in DOMAIN file
        /\ digest \in Digests(file[n]) /\ digest \in Digests(file[o])
    BY <1>3
  <2>2. PICK k \in DOMAIN file[n].cert_sha256 : digest = file[n].cert_sha256[k].digest
    BY <2>1 DEF Digests
  <2>3. PICK l \in DOMAIN file[o].cert_sha256 : digest = file[o].cert_sha256[l].digest
    BY <2>1 DEF Digests
  <2>4. SameFingerprint(file[n].cert_sha256[k], file[o].cert_sha256[l])
    BY <2>2, <2>3 DEF SameFingerprint
  <2> QED
    BY <1>1, <2>1, <2>4 DEF Legal
<1>7. PICK m \in at : TRUE
  BY <1>5
<1>8. m \in DOMAIN file /\ m <= m /\ \A o \in at : o <= m
  <2>1. m \in Nat /\ m \in DOMAIN file
    BY <1>2, <1>3
  <2> QED
    BY <1>6, <1>7, <2>1
<1>9. (CHOOSE n \in at : \A o \in at : o <= n) = m
  <2> HIDE DEF at
  <2>1. \E n \in at : \A o \in at : o <= n
    BY <1>7, <1>8
  <2> QED
    BY <1>6, <1>7, <2>1
<1>10. ClientOf(digest) = file[m].id
  BY <1>3, <1>5, <1>8, <1>9 DEF ClientOf
<1>11. file[m].id \in Id
  BY <1>2, <1>8 DEF ClientItem
<1>12. ASSUME NEW n \in DOMAIN file
       PROVE  digest \in Digests(file[n]) <=> n = m
  <2> HIDE DEF at
  <2>1. n \in listed <=> n = m
    BY <1>4, <1>6, <1>7
  <2> QED
    BY <2>1
<1>13. ASSUME NEW n \in DOMAIN file, file[n].id = file[m].id
       PROVE  n = m
  <2> DEFINE ids == [k \in DOMAIN file |-> file[k].id]
  <2>1. Distinct(ids) /\ DOMAIN ids = DOMAIN file /\ ids[n] = ids[m]
    BY <1>1, <1>8, <1>13 DEF Legal
  <2> HIDE DEF ids
  <2> QED
    BY <1>8, <2>1 DEF Distinct
<1> QED
  BY <1>10, <1>11, <1>12, <1>13

-----------------------------------------------------------------------------
(***************************************************************************)
(* What a step of one connection leaves true.                              *)
(***************************************************************************)

LEMMA AdmissionFacts ==
    ASSUME AdmissionIInv
    PROVE  /\ ClockFits /\ ConfigIsLegal /\ ConnectionsFit /\ SlotsFit /\ RateFits
           /\ now \in Nat /\ MaxClock \in Nat /\ Slots \in Nat
           /\ \A c \in Conn : conn[c] \in Connection
<1> QED
  BY AdmissionAssumption DEF AdmissionIInv, ClockFits, ConnectionsFit

\* A connection goes on: it keeps its slot.
LEMMA GoesOn ==
    ASSUME AdmissionIInv, NEW c \in Conn, NEW r \in Connection,
           conn[c].stage # "absent", r.stage # "absent", r.stamp <= now,
           r.stage = "request" => r.cert \in Fingerprint,
           r.stage = "stamped" => r.client # None,
           r.client # None => /\ r.stage \in {"stamped", "handling"}
                              /\ r.cert \in Fingerprint /\ r.client = ClientOf(r.cert),
           conn' = [conn EXCEPT ![c] = r], UNCHANGED <<file, config, free, now>>
    PROVE  ClockFits' /\ ConfigIsLegal' /\ ConnectionsFit' /\ SlotsFit'
<1>1. /\ conn \in [Conn -> Connection] /\ \A d \in Conn : Sound(conn[d])
      /\ ClockFits /\ ConfigIsLegal /\ SlotsFit
  BY AdmissionFacts DEF ConnectionsFit
<1>2. ClockFits' /\ ConfigIsLegal'
  BY <1>1 DEF ClockFits, ConfigIsLegal, Loaded
<1>3. config # None
  BY <1>1 DEF Sound
<1>4. \A d \in Conn : conn'[d] = IF d = c THEN r ELSE conn[d]
  BY <1>1
<1>5. ConnectionsFit'
  <2>1. conn' \in [Conn -> Connection]
    BY <1>1
  <2>2. ASSUME NEW d \in Conn PROVE Sound(conn[d])'
    <3>1. CASE d = c
      BY <1>3, <1>4, <3>1 DEF Sound, ClientOf
    <3>2. CASE d # c
      <4>1. conn'[d] = conn[d] /\ Sound(conn[d])
        BY <1>1, <1>4, <3>2
      <4> QED
        BY <4>1 DEF Sound, ClientOf
    <3> QED
      BY <3>1, <3>2
  <2> QED
    BY <2>1, <2>2 DEF ConnectionsFit
<1>6. SlotsFit'
  <2>1. conn[c] # Absent /\ r # Absent
    BY DEF Absent
  <2>2. Holding' = Holding
    BY <1>4, <2>1 DEF Holding
  <2> QED
    BY <1>1, <2>2 DEF SlotsFit, SlotsBalance
<1> QED
  BY <1>2, <1>5, <1>6

\* A connection begins and takes a slot, or ends and gives it back.
LEMMA ComesOrLeaves ==
    ASSUME AdmissionIInv, NEW c \in Conn, NEW r \in Connection,
           r.stamp <= now, r.client = None, r.stage \in {"absent", "starting"},
           conn' = [conn EXCEPT ![c] = r], UNCHANGED <<file, config, now>>,
           config # None,
           \/ free > 0 /\ conn[c] = Absent /\ r.stage # "absent" /\ free' = free - 1
           \/ conn[c].stage # "absent" /\ r = Absent /\ free' = free + 1
    PROVE  ClockFits' /\ ConfigIsLegal' /\ ConnectionsFit' /\ SlotsFit'
<1>1. /\ conn \in [Conn -> Connection] /\ \A d \in Conn : Sound(conn[d])
      /\ ClockFits /\ ConfigIsLegal /\ SlotsFit
  BY AdmissionFacts DEF ConnectionsFit
<1>2. ClockFits' /\ ConfigIsLegal'
  BY <1>1 DEF ClockFits, ConfigIsLegal, Loaded
<1>4. \A d \in Conn : conn'[d] = IF d = c THEN r ELSE conn[d]
  BY <1>1
<1>5. ConnectionsFit'
  <2>1. conn' \in [Conn -> Connection]
    BY <1>1
  <2>2. ASSUME NEW d \in Conn PROVE Sound(conn[d])'
    <3>1. CASE d = c
      BY <1>4, <3>1 DEF Sound, ClientOf
    <3>2. CASE d # c
      <4>1. conn'[d] = conn[d] /\ Sound(conn[d])
        BY <1>1, <1>4, <3>2
      <4> QED
        BY <4>1 DEF Sound, ClientOf
    <3> QED
      BY <3>1, <3>2
  <2> QED
    BY <2>1, <2>2 DEF ConnectionsFit
<1>6. /\ IsFiniteSet(Holding) /\ Cardinality(Holding) \in Nat
      /\ free \in 0 .. Slots /\ free + Cardinality(Holding) = Slots /\ Slots \in Nat
  BY <1>1, FS_CardinalityType, AdmissionFacts DEF SlotsFit, SlotsBalance
<1>7. CASE free > 0 /\ conn[c] = Absent /\ r.stage # "absent" /\ free' = free - 1
  <2>1. r # Absent /\ c \notin Holding
    BY <1>7 DEF Absent, Holding
  <2>2. Holding' = Holding \cup {c}
    BY <1>4, <1>7, <2>1 DEF Holding
  <2>3. IsFiniteSet(Holding \cup {c}) /\ Cardinality(Holding \cup {c}) = Cardinality(Holding) + 1
    BY <1>6, <2>1, FS_AddElement
  <2> QED
    BY <1>2, <1>5, <1>6, <1>7, <2>2, <2>3 DEF SlotsFit, SlotsBalance
<1>8. CASE conn[c].stage # "absent" /\ r = Absent /\ free' = free + 1
  <2>1. c \in Holding
    BY <1>8 DEF Absent, Holding
  <2>2. Holding' = Holding \ {c}
    BY <1>4, <1>8 DEF Holding
  <2>3. IsFiniteSet(Holding \ {c}) /\ Cardinality(Holding \ {c}) = Cardinality(Holding) - 1
    BY <1>6, <2>1, FS_RemoveElement
  <2>4. Cardinality(Holding \ {c}) \in Nat
    BY <2>3, FS_CardinalityType
  <2>5. free + 1 \in 0 .. Slots /\ free + 1 + (Cardinality(Holding) - 1) = Slots
    BY <1>6, <2>3, <2>4
  <2> QED
    BY <1>2, <1>5, <1>8, <2>2, <2>3, <2>5 DEF SlotsFit, SlotsBalance
<1> QED
  BY <1>7, <1>8

-----------------------------------------------------------------------------
(***************************************************************************)
(* The steps.                                                              *)
(***************************************************************************)

LEMMA RateRests ==
    ASSUME AdmissionIInv, UNCHANGED <<history, admitted, now>>
    PROVE  RateFits'
<1> QED
  BY AdmissionFacts DEF RateFits

\* Absent and closing connections, and their stages, are what they seem.
LEMMA ConnectionRecords ==
    /\ Absent \in Connection /\ Absent.client = None /\ Absent.stage = "absent" /\ Absent.stamp = 0
    /\ [Absent EXCEPT !.stage = "closing"] \in Connection
    /\ [Absent EXCEPT !.stage = "closing"].client = None
    /\ [Absent EXCEPT !.stage = "closing"].stage = "closing"
    /\ [Absent EXCEPT !.stage = "closing"].stamp = 0
<1> QED
  BY AdmissionAssumption DEF Absent, Connection, Stages

\* A connection in one of these stages may be closed.
LEMMA ClosesKeeps ==
    ASSUME AdmissionIInv, NEW c \in Conn, conn[c].stage # "absent", Closes(c),
           UNCHANGED <<file, config, free, now>>
    PROVE  ClockFits' /\ ConfigIsLegal' /\ ConnectionsFit' /\ SlotsFit'
<1> DEFINE r == [Absent EXCEPT !.stage = "closing"]
<1>1. /\ r \in Connection /\ r.client = None /\ r.stage = "closing" /\ r.stamp <= now
      /\ conn' = [conn EXCEPT ![c] = r]
  BY ConnectionRecords, AdmissionFacts DEF Closes
<1> HIDE DEF r
<1> QED
  BY <1>1, GoesOn

LEMMA LoadConfigStep == AdmissionIInv /\ LoadConfig => AdmissionIInv'
<1> SUFFICES ASSUME AdmissionIInv, LoadConfig PROVE AdmissionIInv'
  OBVIOUS
<1>1. config = None /\ Legal(file) /\ config' = Loaded
      /\ UNCHANGED <<file, free, conn, history, now, arrived, admitted>>
  BY DEF LoadConfig, Loaded
<1>2. /\ conn \in [Conn -> Connection] /\ \A d \in Conn : Sound(conn[d])
      /\ ClockFits /\ ConfigIsLegal /\ SlotsFit
  BY AdmissionFacts DEF ConnectionsFit
<1>3. ConfigIsLegal' /\ ClockFits'
  BY <1>1, <1>2 DEF ConfigIsLegal, Loaded, Legal, ClockFits
<1>4. ASSUME NEW d \in Conn PROVE Sound(conn[d])'
  <2>1. conn[d].stage = "absent" /\ conn[d].client = None
    BY <1>1, <1>2 DEF Sound
  <2> QED
    BY <1>1, <1>2, <2>1 DEF Sound
<1>5. ConnectionsFit' /\ SlotsFit'
  BY <1>1, <1>2, <1>4 DEF ConnectionsFit, SlotsFit, SlotsBalance, Holding
<1> QED
  BY <1>1, <1>3, <1>5, RateRests DEF AdmissionIInv

\* A connection that is refused, and a stutter, change nothing that counts.
LEMMA NothingStep ==
    ASSUME AdmissionIInv, UNCHANGED <<file, config, free, conn, history, now, admitted>>
    PROVE  AdmissionIInv'
<1>1. /\ conn \in [Conn -> Connection] /\ \A d \in Conn : Sound(conn[d])
      /\ ClockFits /\ ConfigIsLegal /\ SlotsFit
  BY AdmissionFacts DEF ConnectionsFit
<1>2. ConfigIsLegal' /\ ClockFits'
  BY <1>1 DEF ConfigIsLegal, Loaded, ClockFits
<1>3. \A d \in Conn : Sound(conn[d])'
  BY <1>1 DEF Sound, ClientOf
<1>4. ConnectionsFit' /\ SlotsFit'
  BY <1>1, <1>3 DEF ConnectionsFit, SlotsFit, SlotsBalance, Holding
<1> QED
  BY <1>2, <1>4, RateRests DEF AdmissionIInv

LEMMA TickStep == AdmissionIInv /\ Tick => AdmissionIInv'
<1> SUFFICES ASSUME AdmissionIInv, Tick PROVE AdmissionIInv'
  OBVIOUS
<1>1. /\ now < MaxClock /\ now' = now + 1
      /\ UNCHANGED <<file, config, free, conn, history, arrived, admitted>>
  BY DEF Tick
<1>2. /\ conn \in [Conn -> Connection] /\ \A d \in Conn : Sound(conn[d])
      /\ ClockFits /\ ConfigIsLegal /\ SlotsFit /\ now \in Nat /\ MaxClock \in Nat
  BY AdmissionFacts DEF ConnectionsFit
<1>3. ConfigIsLegal' /\ ClockFits'
  BY <1>1, <1>2 DEF ConfigIsLegal, Loaded, ClockFits
<1>4. ASSUME NEW d \in Conn PROVE Sound(conn[d])'
  <2>1. conn[d].stamp <= now /\ conn[d].stamp \in Nat
    BY <1>2 DEF Sound, Connection
  <2>2. conn[d].stamp <= now + 1
    BY <1>2, <2>1
  <2> QED
    BY <1>1, <1>2, <2>2 DEF Sound, ClientOf
<1>5. ConnectionsFit' /\ SlotsFit'
  BY <1>1, <1>2, <1>4 DEF ConnectionsFit, SlotsFit, SlotsBalance, Holding
<1>6. RateFits'
  <2>1. ASSUME NEW i \in Id PROVE RateOf(history[i], admitted[i], now + 1)
    BY <1>2, AdmissionFacts, LaterKeeps DEF RateFits
  <2> QED
    BY <1>1, <2>1, AdmissionFacts DEF RateFits
<1> QED
  BY <1>3, <1>5, <1>6 DEF AdmissionIInv

\* A slot is taken, or given back.
LEMMA SlotStep ==
    ASSUME AdmissionIInv, NEW c \in Conn, Accept(c) \/ ThreadFails(c) \/ Release(c)
    PROVE  AdmissionIInv'
<1>1. conn[c] \in Connection /\ Sound(conn[c]) /\ 0 <= now /\ conn \in [Conn -> Connection]
  BY AdmissionFacts DEF ConnectionsFit
<1>2. CASE Accept(c)
  <2> DEFINE r == [conn[c] EXCEPT !.stage = "starting"]
  <2>1. /\ config # None /\ free > 0 /\ conn[c] = Absent /\ free' = free - 1
        /\ conn' = [conn EXCEPT ![c].stage = "starting"]
        /\ UNCHANGED <<file, config, history, now, admitted>>
    BY <1>2 DEF Accept, Goes
  <2>2. conn' = [conn EXCEPT ![c] = r]
    BY <2>1
  <2>3. r \in Connection /\ r.client = None /\ r.stage = "starting" /\ r.stamp <= now
    BY <1>1, <2>1, ConnectionRecords DEF Absent, Connection, Stages
  <2> HIDE DEF r
  <2>4. ClockFits' /\ ConfigIsLegal' /\ ConnectionsFit' /\ SlotsFit'
    BY <2>1, <2>2, <2>3, ComesOrLeaves
  <2> QED
    BY <2>1, <2>4, RateRests DEF AdmissionIInv
<1>3. CASE ThreadFails(c) \/ Release(c)
  <2>1. /\ conn[c].stage # "absent" /\ free' = free + 1
        /\ conn' = [conn EXCEPT ![c] = Absent]
        /\ UNCHANGED <<file, config, history, now, admitted>>
    BY <1>3 DEF ThreadFails, Release
  <2>2. config # None
    BY <1>1, <2>1 DEF Sound
  <2>3. Absent \in Connection /\ Absent.stamp <= now /\ Absent.client = None /\ Absent.stage = "absent"
    BY <1>1, ConnectionRecords
  <2>4. ClockFits' /\ ConfigIsLegal' /\ ConnectionsFit' /\ SlotsFit'
    BY <2>1, <2>2, <2>3, ComesOrLeaves
  <2> QED
    BY <2>1, <2>4, RateRests DEF AdmissionIInv
<1> QED
  BY <1>2, <1>3

\* A connection goes from stage to stage, up to the limiter.
LEMMA ProgressStep ==
    ASSUME AdmissionIInv, NEW c \in Conn,
           \/ ThreadStarts(c) \/ HandshakeEnds(c) \/ ConnectionEnds(c)
           \/ Unknown(c) \/ ReadClock(c)
    PROVE  AdmissionIInv'
<1>1. /\ conn[c] \in Connection /\ Sound(conn[c]) /\ conn \in [Conn -> Connection]
      /\ now \in 0 .. MaxClock
  BY AdmissionFacts DEF ConnectionsFit, ClockFits
<1>2. UNCHANGED <<file, config, free, history, now, admitted>>
  BY DEF ThreadStarts, HandshakeEnds, ConnectionEnds, Unknown, ReadClock
<1>3. SUFFICES ClockFits' /\ ConfigIsLegal' /\ ConnectionsFit' /\ SlotsFit'
  BY <1>2, RateRests DEF AdmissionIInv
<1>4. CASE ConnectionEnds(c) \/ Unknown(c)
  <2>1. conn[c].stage # "absent" /\ Closes(c)
    BY <1>4 DEF ConnectionEnds, Unknown
  <2> QED
    BY <1>2, <2>1, ClosesKeeps
<1>5. CASE ThreadStarts(c)
  <2> DEFINE r == [conn[c] EXCEPT !.stage = "handshake"]
  <2>1. conn[c].stage = "starting" /\ conn' = [conn EXCEPT ![c].stage = "handshake"]
    BY <1>5 DEF ThreadStarts, Goes
  <2>2. conn' = [conn EXCEPT ![c] = r]
    BY <2>1
  <2>3. r \in Connection /\ r.client = None /\ r.stage = "handshake" /\ r.stamp <= now
    BY <1>1, <2>1 DEF Connection, Stages, Sound
  <2> HIDE DEF r
  <2> QED
    BY <1>2, <2>1, <2>2, <2>3, GoesOn
<1>6. CASE HandshakeEnds(c)
  <2>1. PICK f \in Fingerprint :
           /\ conn[c].stage = "handshake"
           /\ conn' = [conn EXCEPT ![c].stage = "request", ![c].cert = f]
    BY <1>6 DEF HandshakeEnds
  <2> DEFINE r == [conn[c] EXCEPT !.stage = "request", !.cert = f]
  <2>2. conn' = [conn EXCEPT ![c] = r]
    BY <1>1, <2>1
  <2>3. r \in Connection /\ r.client = None /\ r.stage = "request" /\ r.stamp <= now
        /\ r.cert = f
    BY <1>1, <2>1 DEF Connection, Stages, Sound
  <2> HIDE DEF r
  <2> QED
    BY <1>2, <2>1, <2>2, <2>3, GoesOn
<1>7. CASE ReadClock(c)
  <2> DEFINE i == ClientOf(conn[c].cert)
             r == [conn[c] EXCEPT !.stage = "stamped", !.stamp = now, !.client = i]
  <2>1. /\ conn[c].stage = "request" /\ i # None
        /\ conn' = [conn EXCEPT ![c].stage = "stamped", ![c].stamp = now, ![c].client = i]
    BY <1>7 DEF ReadClock
  <2>2. conn' = [conn EXCEPT ![c] = r]
    BY <1>1, <2>1
  <2>3. conn[c].cert \in Fingerprint /\ i \in Id
    BY <1>1, <2>1, AdmissionFacts, OneEntryListsIt DEF Sound
  <2>4. r \in Connection /\ r.client = i /\ r.stage = "stamped" /\ r.stamp = now
        /\ r.cert = conn[c].cert /\ now <= now
    BY <1>1, <2>1, <2>3 DEF Connection, Stages, Sound
  <2> HIDE DEF r
  <2> QED
    BY <1>2, <2>1, <2>2, <2>3, <2>4, GoesOn
<1> QED
  BY <1>4, <1>5, <1>6, <1>7

\* The limiter decides.
LEMMA AllowStep ==
    ASSUME AdmissionIInv, NEW c \in Conn, Allow(c)
    PROVE  AdmissionIInv'
<1> DEFINE i == conn[c].client
           stamp == conn[c].stamp
           kept == Kept(history[i], stamp)
<1>1. /\ conn[c] \in Connection /\ Sound(conn[c]) /\ conn \in [Conn -> Connection]
      /\ now \in 0 .. MaxClock /\ now \in Nat /\ RateFits
  BY AdmissionFacts DEF ConnectionsFit, ClockFits
<1>2. conn[c].stage = "stamped" /\ UNCHANGED <<file, config, free, now>>
  BY DEF Allow
<1>3. /\ i \in Id /\ stamp \in 0 .. MaxClock /\ stamp <= now
      /\ conn[c].cert \in Fingerprint /\ i = ClientOf(conn[c].cert)
  BY <1>1, <1>2 DEF Sound, Connection
<1>4. /\ history \in [Id -> Seq(0 .. MaxClock)] /\ admitted \in [Id -> Seq(Stamped)]
      /\ \A j \in Id : RateOf(history[j], admitted[j], now)
  BY <1>1 DEF RateFits
<1>5. RateOf(kept, admitted[i], now)
  BY <1>1, <1>3, <1>4, DropKeeps
<1>6. kept \in Seq(0 .. MaxClock) /\ Len(kept) \in Nat /\ Limit \in Nat
  BY <1>5, AdmissionAssumption DEF RateOf
<1>7. CASE /\ AtLimit(kept) /\ history' = [history EXCEPT ![i] = kept]
           /\ Closes(c) /\ UNCHANGED admitted
  <2>1. ClockFits' /\ ConfigIsLegal' /\ ConnectionsFit' /\ SlotsFit'
    BY <1>2, <1>7, ClosesKeeps
  <2>2. history' \in [Id -> Seq(0 .. MaxClock)]
    BY <1>4, <1>6, <1>7
  <2>3. \A j \in Id : RateOf(history'[j], admitted[j], now)
    <3> HIDE DEF i, kept
    <3> QED
      BY <1>4, <1>5, <1>7
  <2>4. RateFits'
    BY <1>2, <1>4, <1>7, <2>2, <2>3 DEF RateFits
  <2> QED
    BY <2>1, <2>4 DEF AdmissionIInv
<1>8. CASE /\ ~AtLimit(kept) /\ history' = [history EXCEPT ![i] = Append(kept, stamp)]
           /\ conn' = [conn EXCEPT ![c].stage = "handling", ![c].stamp = 0]
           /\ admitted' = [admitted EXCEPT ![i] = Append(@, [stamp |-> stamp, time |-> now])]
  <2> DEFINE r == [conn[c] EXCEPT !.stage = "handling", !.stamp = 0]
             h == Append(kept, stamp)
             a == Append(admitted[i], [stamp |-> stamp, time |-> now])
  <2>1. conn' = [conn EXCEPT ![c] = r]
    BY <1>1, <1>8
  <2>2. /\ r \in Connection /\ r.client = i /\ r.stage = "handling" /\ r.stamp <= now
        /\ r.cert = conn[c].cert
    <3>1. 0 \in 0 .. MaxClock /\ 0 <= now
      BY <1>1, AdmissionAssumption
    <3> HIDE DEF kept, h, a
    <3> QED
      BY <1>1, <3>1 DEF Connection, Stages
  <2>3. ClockFits' /\ ConfigIsLegal' /\ ConnectionsFit' /\ SlotsFit'
    <3> HIDE DEF r, i, kept, stamp
    <3> QED
      BY <1>2, <1>3, <2>1, <2>2, GoesOn
  <2>4. RateOf(h, a, now)
    <3>1. Len(kept) < Limit
      BY <1>6, <1>8 DEF AtLimit
    <3> HIDE DEF kept, i, stamp
    <3> QED
      BY <1>1, <1>3, <1>5, <3>1, AdmitKeeps
  <2>5. history' = [history EXCEPT ![i] = h] /\ admitted' = [admitted EXCEPT ![i] = a]
    BY <1>8
  <2>6. h \in Seq(0 .. MaxClock) /\ a \in Seq(Stamped)
    BY <2>4 DEF RateOf
  <2> HIDE DEF h, a, i
  <2>7. history' \in [Id -> Seq(0 .. MaxClock)] /\ admitted' \in [Id -> Seq(Stamped)]
    BY <1>4, <2>5, <2>6
  <2>8. \A j \in Id : RateOf(history'[j], admitted'[j], now)
    BY <1>4, <2>4, <2>5
  <2>9. RateFits'
    BY <1>2, <2>7, <2>8 DEF RateFits
  <2> QED
    BY <2>3, <2>9 DEF AdmissionIInv
<1> QED
  BY <1>7, <1>8 DEF Allow

-----------------------------------------------------------------------------
(***************************************************************************)
(* The theorems.                                                           *)
(***************************************************************************)

LEMMA AdmissionStarts == AdmissionInit => AdmissionIInv
<1> SUFFICES ASSUME AdmissionInit PROVE AdmissionIInv
  OBVIOUS
<1>1. /\ file \in Files /\ config = None /\ free = Slots /\ conn = [c \in Conn |-> Absent]
      /\ history = [i \in Id |-> <<>>] /\ admitted = [i \in Id |-> <<>>] /\ now = 0
      /\ Slots \in Nat \ {0} /\ MaxClock \in Nat /\ Limit \in Nat \ {0}
  BY AdmissionAssumption DEF AdmissionInit
<1>2. ClockFits /\ ConfigIsLegal
  BY <1>1 DEF ClockFits, ConfigIsLegal
<1>3. ConnectionsFit
  <2>1. \A c \in Conn : conn[c] = Absent
    BY <1>1
  <2>2. conn \in [Conn -> Connection]
    BY <1>1, ConnectionRecords
  <2>3. \A c \in Conn : Sound(conn[c])
    <3>1. Sound(Absent)
      BY <1>1, ConnectionRecords DEF Sound
    <3> QED
      BY <2>1, <3>1
  <2> QED
    BY <2>2, <2>3 DEF ConnectionsFit
<1>4. SlotsFit
  <2>1. Holding = {}
    BY <1>1 DEF Holding
  <2> QED
    BY <1>1, <2>1, FS_EmptySet DEF SlotsFit, SlotsBalance
<1>5. RateFits
  <2>1. RateOf(<<>>, <<>>, 0)
    <3>1. <<>> \in Seq(0 .. MaxClock) /\ <<>> \in Seq(Stamped) /\ Len(<<>>) = 0
      OBVIOUS
    <3>2. 1 .. 0 = {} /\ 1 .. (0 - 0) = {} /\ 1 .. (0 - Limit) = {}
      BY <1>1
    <3> QED
      BY <1>1, <3>1, <3>2 DEF RateOf, IsLast, GoneAreOld, TimesInOrder, Spaced
  <2>2. \A i \in Id : history[i] = <<>> /\ admitted[i] = <<>>
    BY <1>1
  <2> QED
    BY <1>1, <2>1, <2>2 DEF RateFits
<1> QED
  BY <1>2, <1>3, <1>4, <1>5 DEF AdmissionIInv

LEMMA AdmissionKeeps == AdmissionIInv /\ [AdmissionNext]_admissionVars => AdmissionIInv'
<1> SUFFICES ASSUME AdmissionIInv, [AdmissionNext]_admissionVars PROVE AdmissionIInv'
  OBVIOUS
<1>1. CASE LoadConfig
  BY <1>1, LoadConfigStep
<1>2. CASE Tick
  BY <1>2, TickStep
<1>3. CASE Refuse \/ UNCHANGED admissionVars
  <2>1. UNCHANGED <<file, config, free, conn, history, now, admitted>>
    BY <1>3 DEF Refuse, admissionVars
  <2> QED
    BY <2>1, NothingStep
<1>4. ASSUME NEW c \in Conn, Accept(c) \/ ThreadFails(c) \/ Release(c)
      PROVE  AdmissionIInv'
  BY <1>4, SlotStep
<1>5. ASSUME NEW c \in Conn,
             \/ ThreadStarts(c) \/ HandshakeEnds(c) \/ ConnectionEnds(c)
             \/ Unknown(c) \/ ReadClock(c)
      PROVE  AdmissionIInv'
  BY <1>5, ProgressStep
<1>6. ASSUME NEW c \in Conn, Allow(c)
      PROVE  AdmissionIInv'
  BY <1>6, AllowStep
<1> QED
  BY <1>1, <1>2, <1>3, <1>4, <1>5, <1>6 DEF AdmissionNext

\* The invariant holds of every behaviour: of every list of clients, every
\* number of connections, slots and requests, every limit and every clock.
THEOREM AdmissionInvariant == AdmissionSpec => []AdmissionIInv
<1> QED
  BY AdmissionStarts, AdmissionKeeps, PTL DEF AdmissionSpec

\* The slots, the connections, the lists of RateLimiter and the clock keep
\* their types, and no list outgrows requests_per_minute.
THEOREM AdmissionTypeCorrect == AdmissionSpec => []AdmissionTypeOK
<1>1. AdmissionIInv => AdmissionTypeOK
  <2> SUFFICES ASSUME AdmissionIInv PROVE AdmissionTypeOK
    OBVIOUS
  <2>1. \A i \in Id : Len(history[i]) <= Limit
    BY AdmissionFacts DEF RateFits, RateOf, IsLast
  <2> QED
    BY <2>1, AdmissionFacts DEF AdmissionTypeOK, SlotsFit, ClockFits, ConnectionsFit, Connection
<1> QED
  BY <1>1, AdmissionInvariant, PTL

\* The semaphore of GuardHTTPServer counts the connections it has not given up:
\* each way out of process_request and process_request_thread releases once.
THEOREM SlotsBalanceHolds == AdmissionSpec => []SlotsBalance
<1>1. AdmissionIInv => SlotsBalance
  BY DEF AdmissionIInv, SlotsFit
<1> QED
  BY <1>1, AdmissionInvariant, PTL

\* What load_config accepts and the dictionary clients_by_fingerprint give a
\* certificate to one client, the one whose entry lists it in either case.
THEOREM ServedAsTheOneListedHolds == AdmissionSpec => []ServedAsTheOneListed
<1>1. AdmissionIInv => ServedAsTheOneListed
  <2> SUFFICES ASSUME AdmissionIInv, NEW c \in Conn, conn[c].client # None, NEW n \in DOMAIN file
               PROVE  conn[c].cert \in Digests(file[n]) <=> file[n].id = conn[c].client
    BY DEF ServedAsTheOneListed
  <2>1. Sound(conn[c]) /\ ConfigIsLegal
    BY AdmissionFacts DEF ConnectionsFit
  <2>2. /\ config # None /\ conn[c].cert \in Fingerprint
        /\ conn[c].client = ClientOf(conn[c].cert)
    BY <2>1 DEF Sound
  <2> QED
    BY <2>1, <2>2, OneEntryListsIt
<1> QED
  BY <1>1, AdmissionInvariant, PTL

\* RateLimiter.allow keeps the rate in real time, in whatever order the threads
\* that read the clock before the lock come to hold the lock.
THEOREM RateIsKeptHolds == AdmissionSpec => []RateIsKept
<1>1. AdmissionIInv => RateIsKept
  BY DEF AdmissionIInv, RateFits, RateOf, Spaced, RateIsKept
<1> QED
  BY <1>1, AdmissionInvariant, PTL

\* Of a client the limiter turns away, the last Limit admissions lie within
\* the window of the request: the list then holds exactly those, and its first
\* stamp is inside.
LEMMA FullMeansBusy ==
    ASSUME NEW h, NEW a, NEW t \in Nat, RateOf(h, a, t),
           NEW stamp \in 0 .. MaxClock, stamp <= t, AtLimit(Kept(h, stamp))
    PROVE  /\ Len(a) >= Limit
           /\ \A n \in Len(a) - Limit + 1 .. Len(a) : a[n].time > stamp - Window
<1> DEFINE r == Kept(h, stamp)
<1>1. RateOf(r, a, t) /\ h \in Seq(0 .. MaxClock)
  BY DropKeeps DEF RateOf
<1>2. /\ r \in Seq(0 .. MaxClock) /\ a \in Seq(Stamped)
      /\ IsLast(r, a) /\ TimesInOrder(a, t)
  BY <1>1 DEF RateOf
<1>3. r # <<>> => r[1] > stamp - Window
  BY <1>1, KeptIsTheEnd
<1>4. Len(r) >= Limit
  BY DEF AtLimit
<1> HIDE DEF r
<1>5. /\ Len(r) \in Nat /\ Len(a) \in Nat /\ Limit \in Nat \ {0} /\ Window \in Nat \ {0}
      /\ \A n \in 1 .. Len(a) : a[n].stamp \in Nat /\ a[n].time \in Nat
      /\ stamp \in Nat
  BY <1>2, RateTypes, AdmissionAssumption
<1>6. Len(r) = Limit /\ Len(a) >= Limit
  BY <1>2, <1>4, <1>5 DEF IsLast
<1> DEFINE first == Len(a) - Limit + 1
<1>7. first \in 1 .. Len(a) /\ 1 \in 1 .. Len(r) /\ Len(a) - Len(r) + 1 = first
  BY <1>5, <1>6
<1>8. r # <<>> /\ r[1] = a[first].stamp
  BY <1>2, <1>5, <1>6, <1>7 DEF IsLast
<1> HIDE DEF first
<1>9. a[first].time > stamp - Window
  <2>1. a[first].stamp > stamp - Window /\ a[first].stamp <= a[first].time
    BY <1>2, <1>3, <1>7, <1>8 DEF TimesInOrder
  <2> QED
    BY <1>5, <1>7, <2>1
<1>10. ASSUME NEW n \in first .. Len(a)
       PROVE  a[n].time > stamp - Window
  <2>1. n \in 1 .. Len(a) /\ first <= n
    BY <1>5, <1>7
  <2>2. a[first].time <= a[n].time
    BY <1>2, <1>7, <2>1 DEF TimesInOrder
  <2> QED
    BY <1>5, <1>7, <1>9, <2>1, <2>2
<1> QED
  BY <1>6, <1>10 DEF first

\* RateLimiter.allow answers 429 to no request the rate allows, although it
\* keeps a late stamp that stands behind a younger one.
THEOREM NoNeedlessRefusalHolds == AdmissionSpec => NoNeedlessRefusal
<1> DEFINE refusal == \A c \in Conn :
        conn[c].stage = "stamped" /\ conn'[c].stage = "closing" =>
            LET past == admitted[conn[c].client]
            IN  /\ Len(past) >= Limit
                /\ \A n \in Len(past) - Limit + 1 .. Len(past) :
                      past[n].time > conn[c].stamp - Window
<1>1. AdmissionIInv /\ [AdmissionNext]_admissionVars => [refusal]_admissionVars
  <2> SUFFICES ASSUME AdmissionIInv, AdmissionNext, NEW c \in Conn,
                      conn[c].stage = "stamped", conn'[c].stage = "closing"
               PROVE  /\ Len(admitted[conn[c].client]) >= Limit
                      /\ \A n \in Len(admitted[conn[c].client]) - Limit + 1
                                 .. Len(admitted[conn[c].client]) :
                            admitted[conn[c].client][n].time > conn[c].stamp - Window
    OBVIOUS
  <2>1. /\ conn \in [Conn -> Connection] /\ Sound(conn[c]) /\ now \in Nat /\ RateFits
    BY AdmissionFacts DEF ConnectionsFit
  <2>2. conn'[c] # conn[c]
    OBVIOUS
  <2>3. Allow(c)
    <3>1. ~(LoadConfig \/ Refuse \/ Tick)
      BY <2>2 DEF LoadConfig, Refuse, Tick
    <3>2. PICK d \in Conn :
             \/ Accept(d) \/ ThreadStarts(d) \/ ThreadFails(d) \/ HandshakeEnds(d)
             \/ ConnectionEnds(d) \/ Unknown(d) \/ ReadClock(d) \/ Allow(d) \/ Release(d)
      BY <3>1 DEF AdmissionNext
    <3>3. \E r : conn' = [conn EXCEPT ![d] = r]
      BY <2>1, <3>2 DEF Accept, ThreadStarts, ThreadFails, HandshakeEnds, ConnectionEnds,
                        Unknown, ReadClock, Allow, Release, Goes, Closes
    <3>4. d = c
      BY <2>1, <2>2, <3>3
    <3> QED
      BY <2>1, <3>2, <3>4 DEF Accept, ThreadStarts, ThreadFails, HandshakeEnds, ConnectionEnds,
                        Unknown, ReadClock, Release, Absent
  <2>4. AtLimit(Kept(history[conn[c].client], conn[c].stamp))
    <3>1. CASE conn' = [conn EXCEPT ![c].stage = "handling", ![c].stamp = 0]
      <4>1. conn'[c] = [conn[c] EXCEPT !.stage = "handling", !.stamp = 0]
        BY <2>1, <3>1
      <4>2. conn[c] \in Connection
        BY <2>1
      <4>3. conn'[c].stage = "handling"
        BY <4>1, <4>2 DEF Connection
      <4> QED
        BY <4>3
    <3> QED
      BY <2>3, <3>1 DEF Allow
  <2>5. /\ conn[c].client \in Id /\ conn[c].stamp \in 0 .. MaxClock /\ conn[c].stamp <= now
    BY <2>1 DEF Sound, Connection
  <2>6. RateOf(history[conn[c].client], admitted[conn[c].client], now)
    BY <2>1, <2>5 DEF RateFits
  <2> QED
    BY <2>1, <2>4, <2>5, <2>6, FullMeansBusy
<1>2. AdmissionSpec => [][refusal]_admissionVars
  BY <1>1, AdmissionInvariant, PTL DEF AdmissionSpec
<1> QED
  BY <1>2 DEF NoNeedlessRefusal
=============================================================================
