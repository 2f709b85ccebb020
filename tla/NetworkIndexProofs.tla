------------------------- MODULE NetworkIndexProofs -------------------------
(***************************************************************************)
(* The index answers exactly what the whitelist file lists, for files,     *)
(* networks and addresses of any number and size.                          *)
(*                                                                         *)
(* The inductive invariant says what the loop over the sorted ranges       *)
(* keeps: the ranges that remain and the intervals built so far cover      *)
(* together what the lines read so far list; the intervals lie apart, in   *)
(* order; and no range that remains begins before the last interval does.  *)
(*                                                                         *)
(* From it follows what AddressPath says of an address that is reported:   *)
(* what the receiver stores the helper takes, and it applies exactly the   *)
(* ordinary addresses that the file does not list.                         *)
(***************************************************************************)
EXTENDS AddressPath, FiniteSetTheorems, TLAPS

Within(r, n) == r.first <= n /\ n <= r.last
InSeq(m, n) == \E i \in 1 .. Len(m) : Within(m[i], n)
InSet(S, n) == \E r \in S : Within(r, n)
Lists(k, v, n) == \E x \in NetworksOf(k) : x.version = v /\ Within(x, n)

InOrder(m) ==
    /\ \A i \in 1 .. Len(m) : m[i].first <= m[i].last
    /\ \A i, j \in 1 .. Len(m) : i < j => m[i].last + 1 < m[j].first

\* The last interval begins no later than r does.
NotAfter(m, r) == m # <<>> => m[Len(m)].first <= r.first

RangesFit ==
    \A v \in Version : \A r \in ranges[v] : r.first <= r.last /\ NotAfter(merged[v], r)

NothingLost ==
    stage # "refused" => \A v \in Version : \A n \in Nat :
        InSet(ranges[v], n) \/ InSeq(merged[v], n) <=> Lists(at, v, n)

StageFits ==
    /\ stage = "parse" => \A v \in Version : merged[v] = <<>>
    /\ stage \in {"merge", "ready"} => at = Len(file)
    /\ stage # "refused" => \A i \in 1 .. at : file[i] # Invalid
    /\ stage = "ready" => \A v \in Version : ranges[v] = {}

IndexInv == IndexTypeOK /\ IntervalsApart /\ RangesFit /\ NothingLost /\ StageFits

-----------------------------------------------------------------------------
(***************************************************************************)
(* The merge of one range into the list.                                   *)
(***************************************************************************)

\* The ends of an interval are numbers.
LEMMA NumbersOf ==
    ASSUME NEW m \in Seq(Interval)
    PROVE  \A i \in 1 .. Len(m) : m[i].first \in Nat /\ m[i].last \in Nat
<1>1. \A i \in 1 .. Len(m) : m[i] \in Interval
  OBVIOUS
<1> QED BY <1>1 DEF Interval

\* A range that lies behind the last interval becomes one of its own.
LEMMA AppendMerges ==
    ASSUME NEW m \in Seq(Interval), NEW r \in Interval, InOrder(m), r.first <= r.last,
           m = <<>> \/ Apart(m, r)
    PROVE  /\ Append(m, r) \in Seq(Interval)
           /\ InOrder(Append(m, r))
           /\ Append(m, r)[Len(Append(m, r))] = r
           /\ \A n \in Nat : InSeq(Append(m, r), n) <=> InSeq(m, n) \/ Within(r, n)
<1> DEFINE a == Append(m, r)
<1>1. a \in Seq(Interval) /\ Len(a) = Len(m) + 1 /\ Len(m) \in Nat
  OBVIOUS
<1>2. a[Len(m) + 1] = r /\ \A i \in 1 .. Len(m) : a[i] = m[i]
  OBVIOUS
<1>3. \A i \in 1 .. Len(m) : m[i].first \in Nat /\ m[i].last \in Nat
  BY NumbersOf
<1>4. r.first \in Nat /\ r.last \in Nat
  BY DEF Interval
<1> HIDE DEF a
<1>5. ASSUME NEW i \in 1 .. Len(m) PROVE m[i].last + 1 < r.first
  <2>1. Len(m) \in 1 .. Len(m) /\ r.first > m[Len(m)].last + 1
    BY <1>1, <1>5 DEF Apart
  <2>2. i # Len(m) => m[i].last + 1 < m[Len(m)].first
    BY <2>1 DEF InOrder
  <2>3. m[Len(m)].first <= m[Len(m)].last
    BY <2>1 DEF InOrder
  <2> QED BY <1>3, <1>4, <2>1, <2>2, <2>3
<1>6. InOrder(a)
  <2>1. ASSUME NEW i \in 1 .. Len(a) PROVE a[i].first <= a[i].last
    <3>1. CASE i = Len(m) + 1
      BY <1>2, <3>1
    <3>2. CASE i \in 1 .. Len(m)
      BY <1>2, <3>2 DEF InOrder
    <3> QED BY <1>1, <3>1, <3>2
  <2>2. ASSUME NEW i \in 1 .. Len(a), NEW j \in 1 .. Len(a), i < j
        PROVE  a[i].last + 1 < a[j].first
    <3>1. i \in 1 .. Len(m) /\ a[i] = m[i]
      BY <1>1, <1>2, <2>2
    <3>2. CASE j = Len(m) + 1
      BY <1>2, <1>5, <3>1, <3>2
    <3>3. CASE j \in 1 .. Len(m)
      <4>1. m[i].last + 1 < m[j].first
        BY <2>2, <3>1, <3>3 DEF InOrder
      <4> QED BY <1>2, <3>1, <3>3, <4>1
    <3> QED BY <1>1, <3>2, <3>3
  <2> QED BY <2>1, <2>2 DEF InOrder
<1>7. ASSUME NEW n \in Nat
      PROVE  InSeq(a, n) <=> InSeq(m, n) \/ Within(r, n)
  BY <1>1, <1>2 DEF InSeq
<1> QED BY <1>1, <1>2, <1>6, <1>7 DEF a

\* A range that overlaps or touches the last interval only moves its end.
LEMMA JoinMerges ==
    ASSUME NEW m \in Seq(Interval), NEW r \in Interval, InOrder(m), r.first <= r.last,
           m # <<>>, ~Apart(m, r), NotAfter(m, r)
    PROVE  /\ Joined(m, r) \in Seq(Interval)
           /\ InOrder(Joined(m, r))
           /\ Joined(m, r) # <<>>
           /\ Joined(m, r)[Len(Joined(m, r))].first <= r.first
           /\ \A n \in Nat : InSeq(Joined(m, r), n) <=> InSeq(m, n) \/ Within(r, n)
<1> DEFINE k == Len(m)
           j == Joined(m, r)
<1>1. k \in Nat /\ k \in 1 .. k
  OBVIOUS
<1>2. \A i \in 1 .. k : m[i].first \in Nat /\ m[i].last \in Nat
  BY NumbersOf
<1>3. r.first \in Nat /\ r.last \in Nat
  BY DEF Interval
<1>4. m[k].first <= m[k].last /\ m[k].first <= r.first /\ r.first <= m[k].last + 1
  <2>1. m[k].first <= m[k].last
    BY <1>1 DEF InOrder
  <2>2. m[k].first <= r.first
    BY DEF NotAfter
  <2>3. ~(r.first > m[k].last + 1)
    BY DEF Apart
  <2> QED BY <1>1, <1>2, <1>3, <2>1, <2>2, <2>3
<1>5. /\ j \in Seq(Interval) /\ Len(j) = k
      /\ \A i \in 1 .. k : i # k => j[i] = m[i]
      /\ j[k].first = m[k].first /\ j[k].last \in Nat
      /\ j[k].last >= m[k].last /\ j[k].last >= r.last
      /\ j[k].last = m[k].last \/ j[k].last = r.last
  <2>1. CASE r.last > m[k].last
    <3> DEFINE e == [first |-> m[k].first, last |-> r.last]
    <3>1. j = [m EXCEPT ![k] = e]
      BY <2>1 DEF Joined
    <3>2. e \in Interval /\ e.first = m[k].first /\ e.last = r.last
      BY <1>1, <1>2, <1>3 DEF Interval
    <3> HIDE DEF e
    <3>3. j \in Seq(Interval) /\ Len(j) = k
      BY <1>1, <3>1, <3>2
    <3>4. j[k] = e /\ \A i \in 1 .. k : i # k => j[i] = m[i]
      BY <1>1, <3>1
    <3> HIDE DEF j
    <3> QED BY <1>1, <1>2, <1>3, <2>1, <3>2, <3>3, <3>4
  <2>2. CASE ~(r.last > m[k].last)
    <3>1. j = m
      BY <2>2 DEF Joined
    <3> HIDE DEF j
    <3> QED BY <1>1, <1>2, <1>3, <2>2, <3>1
  <2> QED BY <2>1, <2>2
<1> HIDE DEF j
<1>6. InOrder(j)
  <2>1. ASSUME NEW x \in 1 .. Len(j) PROVE j[x].first <= j[x].last
    <3>1. CASE x = k
      BY <1>1, <1>2, <1>4, <1>5, <3>1
    <3>2. CASE x # k
      <4>1. m[x].first <= m[x].last
        BY <1>5 DEF InOrder
      <4> QED BY <1>5, <3>2, <4>1
    <3> QED BY <3>1, <3>2
  <2>2. ASSUME NEW x \in 1 .. Len(j), NEW y \in 1 .. Len(j), x < y
        PROVE  j[x].last + 1 < j[y].first
    <3>1. x \in 1 .. k /\ y \in 1 .. k /\ x # k
      BY <1>1, <1>5, <2>2
    <3>2. m[x].last + 1 < m[y].first
      BY <2>2, <3>1 DEF InOrder
    <3>3. j[x] = m[x] /\ j[y].first = m[y].first
      BY <1>5, <3>1
    <3> QED BY <3>2, <3>3
  <2> QED BY <2>1, <2>2 DEF InOrder
<1>7. ASSUME NEW n \in Nat
      PROVE  InSeq(j, n) <=> InSeq(m, n) \/ Within(r, n)
  <2>1. Within(j[k], n) <=> Within(m[k], n) \/ Within(r, n)
    BY <1>1, <1>2, <1>3, <1>4, <1>5 DEF Within
  <2>2. InSeq(j, n) <=> Within(j[k], n) \/ \E i \in 1 .. k : i # k /\ Within(m[i], n)
    BY <1>1, <1>5 DEF InSeq
  <2>3. InSeq(m, n) <=> Within(m[k], n) \/ \E i \in 1 .. k : i # k /\ Within(m[i], n)
    BY <1>1 DEF InSeq
  <2> QED BY <2>1, <2>2, <2>3
<1>8. j # <<>> /\ j[Len(j)].first <= r.first
  BY <1>1, <1>4, <1>5
<1> QED BY <1>5, <1>6, <1>7, <1>8 DEF j

\* Either way the list stays in order, covers the range as well, and its last
\* interval begins no later than the range does.
LEMMA RangeMerges ==
    ASSUME NEW m \in Seq(Interval), NEW r \in Interval, InOrder(m), r.first <= r.last,
           NotAfter(m, r)
    PROVE  /\ MergedWith(m, r) \in Seq(Interval)
           /\ InOrder(MergedWith(m, r))
           /\ MergedWith(m, r) # <<>>
           /\ MergedWith(m, r)[Len(MergedWith(m, r))].first <= r.first
           /\ \A n \in Nat : InSeq(MergedWith(m, r), n) <=> InSeq(m, n) \/ Within(r, n)
<1>1. CASE m = <<>> \/ Apart(m, r)
  <2>1. MergedWith(m, r) = Append(m, r)
    BY <1>1 DEF MergedWith
  <2>2. Append(m, r) # <<>> /\ r.first <= r.first
    BY DEF Interval
  <2> QED BY <1>1, <2>1, <2>2, AppendMerges
<1>2. CASE ~(m = <<>> \/ Apart(m, r))
  <2>1. MergedWith(m, r) = Joined(m, r)
    BY <1>2 DEF MergedWith
  <2> QED BY <1>2, <2>1, JoinMerges
<1> QED BY <1>1, <1>2

\* The search finds a number exactly when one of the intervals has it.
LEMMA SearchIsMembership ==
    ASSUME NEW m \in Seq(Interval), InOrder(m), NEW n \in Nat
    PROVE  Finds(m, n) <=> InSeq(m, n)
<1>1. \A i \in 1 .. Len(m) : m[i].first \in Nat /\ m[i].last \in Nat
  BY NumbersOf
<1>2. ASSUME NEW p \in 1 .. Len(m), BisectRight(m, n, p), n <= m[p].last
      PROVE  InSeq(m, n)
  <2>1. m[p].first <= n
    BY <1>2 DEF BisectRight
  <2> QED BY <1>2, <2>1 DEF InSeq, Within
<1>3. ASSUME NEW p \in 1 .. Len(m), Within(m[p], n)
      PROVE  BisectRight(m, n, p)
  <2> USE <1>3 DEF Within
  <2>1. ASSUME NEW i \in 1 .. p PROVE m[i].first <= n
    <3>1. i \in 1 .. Len(m)
      OBVIOUS
    <3>2. i # p => m[i].last + 1 < m[p].first
      BY <3>1 DEF InOrder
    <3>3. m[i].first <= m[i].last
      BY <3>1 DEF InOrder
    <3> QED BY <1>1, <3>1, <3>2, <3>3
  <2>2. ASSUME NEW i \in (p + 1) .. Len(m) PROVE m[i].first > n
    <3>1. i \in 1 .. Len(m) /\ p < i
      OBVIOUS
    <3>2. m[p].last + 1 < m[i].first
      BY <3>1 DEF InOrder
    <3> QED BY <1>1, <3>1, <3>2
  <2> QED BY <2>1, <2>2 DEF BisectRight
<1> QED BY <1>2, <1>3 DEF Finds, InSeq, Within

-----------------------------------------------------------------------------
(***************************************************************************)
(* The steps.                                                              *)
(***************************************************************************)

\* One more line lists what the lines before it list, and its own network.
LEMMA OneMoreLine ==
    ASSUME file \in Seq(Line), at \in 0 .. Len(file), at < Len(file),
           NEW v \in Version, NEW n \in Nat
    PROVE  Lists(at + 1, v, n) <=>
             \/ Lists(at, v, n)
             \/ /\ file[at + 1] \in Network
                /\ file[at + 1].version = v
                /\ Within(file[at + 1], n)
<1>1. 1 .. (at + 1) = (1 .. at) \cup {at + 1}
  OBVIOUS
<1>2. NetworksOf(at + 1) = NetworksOf(at) \cup ({file[at + 1]} \cap Network)
  BY <1>1 DEF NetworksOf
<1> QED BY <1>2 DEF Lists

\* A network of the file is a range of numbers.
LEMMA NetworksAreRanges ==
    ASSUME NEW x \in Network
    PROVE  /\ x.version \in Version
           /\ IntervalOf(x) \in Interval
           /\ IntervalOf(x).first <= IntervalOf(x).last
           /\ \A n : Within(IntervalOf(x), n) <=> Within(x, n)
<1>1. x \in [version : Version, first : Nat, last : Nat] /\ x.first <= x.last
  BY IndexAssumption
<1> QED BY <1>1 DEF IntervalOf, Interval, Within

\* Nothing has been read, nothing is listed.
LEMMA InitEstablishesInv == IndexInit => IndexInv
<1> SUFFICES ASSUME IndexInit PROVE IndexInv
  OBVIOUS
<1> USE DEF IndexInit
<1>1. file \in Seq(Line)
  BY IndexAssumption
<1>2. IndexTypeOK
  <2>1. Len(file) \in Nat
    BY <1>1
  <2>2. merged \in [Version -> Seq(Interval)] /\ ranges \in [Version -> SUBSET Interval]
    OBVIOUS
  <2> QED BY <1>1, <2>1, <2>2, IndexAssumption DEF IndexTypeOK
<1>3. IntervalsApart
  BY DEF IntervalsApart
<1>4. RangesFit
  BY DEF RangesFit
<1>5. NothingLost
  BY DEF NothingLost, InSet, InSeq, Lists, NetworksOf
<1>6. StageFits
  BY DEF StageFits
<1> QED BY <1>2, <1>3, <1>4, <1>5, <1>6 DEF IndexInv

\* A line adds its network, or nothing, or ends the attempt.
LEMMA ParseLineKeepsInv == IndexInv /\ ParseLine => IndexInv'
<1> SUFFICES ASSUME IndexInv, ParseLine PROVE IndexInv'
  OBVIOUS
<1> DEFINE x == file[at + 1]
<1>1. /\ file \in Seq(Line) /\ Len(file) \in Nat
      /\ at \in 0 .. Len(file) /\ at < Len(file)
      /\ file' = file /\ at' = at + 1 /\ merged' = merged /\ stage = "parse"
  BY DEF IndexInv, IndexTypeOK, ParseLine
<1>2. x \in Line /\ at + 1 \in 0 .. Len(file)
  BY <1>1
<1>3. \A v \in Version : merged[v] = <<>>
  BY <1>1 DEF IndexInv, StageFits
<1>4. \A i \in 1 .. at : file[i] # Invalid
  BY <1>1 DEF IndexInv, StageFits
<1>5. IntervalsApart'
  BY <1>1 DEF IndexInv, IntervalsApart
<1>6. CASE SkipLine
  <2>1. x = Ignored /\ UNCHANGED <<count, ranges, stage>>
    BY <1>6 DEF SkipLine
  <2>2. x \notin Network /\ x # Invalid
    BY <2>1, IndexAssumption
  <2> HIDE DEF x
  <2>3. IndexTypeOK'
    BY <1>1, <1>2, <2>1 DEF IndexInv, IndexTypeOK
  <2>4. RangesFit'
    BY <1>1, <2>1 DEF IndexInv, RangesFit, NotAfter
  <2>5. NothingLost'
    <3>1. ASSUME NEW v \in Version, NEW n \in Nat
          PROVE  Lists(at, v, n)' <=> Lists(at, v, n)
      <4>1. Lists(at + 1, v, n) <=> Lists(at, v, n)
        BY <1>1, <2>2, OneMoreLine DEF x
      <4> QED BY <1>1, <4>1 DEF Lists, NetworksOf
    <3> QED BY <1>1, <2>1, <3>1 DEF IndexInv, NothingLost, InSet, InSeq
  <2>6. StageFits'
    <3>1. \A i \in 1 .. (at + 1) : file[i] # Invalid
      BY <1>1, <1>4, <2>2 DEF x
    <3> QED BY <1>1, <1>3, <2>1, <3>1 DEF StageFits
  <2> QED BY <1>5, <2>3, <2>4, <2>5, <2>6 DEF IndexInv
<1>7. CASE RefuseLine
  <2>1. stage' = "refused" /\ UNCHANGED <<count, ranges>>
    BY <1>7 DEF RefuseLine
  <2>2. IndexTypeOK'
    BY <1>1, <1>2, <2>1 DEF IndexInv, IndexTypeOK
  <2>3. RangesFit'
    BY <1>1, <2>1 DEF IndexInv, RangesFit, NotAfter
  <2>4. NothingLost' /\ StageFits'
    BY <2>1 DEF NothingLost, StageFits
  <2> QED BY <1>5, <2>2, <2>3, <2>4 DEF IndexInv
<1>8. CASE TakeNetwork
  <2> DEFINE r == IntervalOf(x)
             w == x.version
  <2>1. x \in Network /\ x # Invalid
    BY <1>8, IndexAssumption DEF TakeNetwork
  <2>2. /\ r \in Interval /\ r.first <= r.last /\ w \in Version
        /\ \A n : Within(r, n) <=> Within(x, n)
    BY <2>1, NetworksAreRanges
  <2>3. /\ count' = count + 1 /\ count + 1 <= MaxEntries /\ stage' = stage
        /\ ranges' = [ranges EXCEPT ![w] = @ \cup {r}]
    BY <1>8 DEF TakeNetwork
  <2> HIDE DEF x, r, w
  <2>4. /\ ranges \in [Version -> SUBSET Interval] /\ count \in 0 .. MaxEntries
        /\ ranges' \in [Version -> SUBSET Interval]
    BY <2>2, <2>3 DEF IndexInv, IndexTypeOK
  <2>5. \A v \in Version : ranges'[v] = IF v = w THEN ranges[v] \cup {r} ELSE ranges[v]
    BY <2>3, <2>4
  <2>6. IndexTypeOK'
    BY <1>1, <1>2, <2>3, <2>4, IndexAssumption DEF IndexInv, IndexTypeOK
  <2>7. RangesFit'
    <3>1. ASSUME NEW v \in Version, NEW q \in ranges'[v]
          PROVE  q.first <= q.last
      BY <2>2, <2>5, <3>1 DEF IndexInv, RangesFit
    <3> QED BY <1>1, <1>3, <3>1 DEF RangesFit, NotAfter
  <2>8. NothingLost'
    <3>1. ASSUME NEW v \in Version, NEW n \in Nat
          PROVE  InSet(ranges'[v], n) \/ InSeq(merged[v], n) <=> Lists(at, v, n)'
      <4>1. Lists(at, v, n)' <=> Lists(at, v, n) \/ (w = v /\ Within(x, n))
        <5>1. Lists(at + 1, v, n) <=> Lists(at, v, n) \/ (w = v /\ Within(x, n))
          BY <1>1, <2>1, OneMoreLine DEF x, w
        <5> QED BY <1>1, <5>1 DEF Lists, NetworksOf
      <4>2. InSet(ranges'[v], n) <=> InSet(ranges[v], n) \/ (w = v /\ Within(r, n))
        BY <2>5 DEF InSet
      <4>3. InSet(ranges[v], n) \/ InSeq(merged[v], n) <=> Lists(at, v, n)
        BY <1>1 DEF IndexInv, NothingLost
      <4> QED BY <2>2, <4>1, <4>2, <4>3
    <3> QED BY <1>1, <3>1 DEF NothingLost, InSet, InSeq
  <2>9. StageFits'
    <3>1. \A i \in 1 .. (at + 1) : file[i] # Invalid
      BY <1>1, <1>4, <2>1 DEF x
    <3> QED BY <1>1, <1>3, <2>3, <3>1 DEF StageFits
  <2> QED BY <1>5, <2>6, <2>7, <2>8, <2>9 DEF IndexInv
<1> QED BY <1>6, <1>7, <1>8 DEF ParseLine

\* The file has been read, or merged, to its end: nothing else changes.
LEMMA EndsKeepInv == IndexInv /\ (ParseEnds \/ MergeEnds) => IndexInv'
<1> SUFFICES ASSUME IndexInv, ParseEnds \/ MergeEnds PROVE IndexInv'
  OBVIOUS
<1>1. /\ UNCHANGED <<file, at, count, ranges, merged>>
      /\ \/ stage = "parse" /\ at = Len(file) /\ stage' = "merge"
         \/ /\ stage = "merge" /\ stage' = "ready"
            /\ \A v \in Version : ranges[v] = {}
  BY DEF ParseEnds, MergeEnds
<1>2. IndexTypeOK'
  BY <1>1 DEF IndexInv, IndexTypeOK
<1>3. IntervalsApart' /\ RangesFit'
  BY <1>1 DEF IndexInv, IntervalsApart, RangesFit, NotAfter
<1>4. NothingLost'
  BY <1>1 DEF IndexInv, NothingLost, InSet, InSeq, Lists, NetworksOf
<1>5. StageFits'
  BY <1>1 DEF IndexInv, StageFits
<1> QED BY <1>2, <1>3, <1>4, <1>5 DEF IndexInv

\* The least range moves into the list; those that remain begin behind it.
LEMMA MergeRangeKeepsInv ==
    ASSUME IndexInv, NEW w \in Version, MergeRange(w)
    PROVE  IndexInv'
<1>1. PICK r \in Least(ranges[w]) :
          /\ ranges' = [ranges EXCEPT ![w] = @ \ {r}]
          /\ merged' = [merged EXCEPT ![w] = MergedWith(@, r)]
  BY DEF MergeRange
<1> DEFINE g == MergedWith(merged[w], r)
<1>2. stage = "merge" /\ UNCHANGED <<file, at, count, stage>>
  BY DEF MergeRange
<1>3. /\ ranges \in [Version -> SUBSET Interval]
      /\ merged \in [Version -> Seq(Interval)]
  BY DEF IndexInv, IndexTypeOK
<1>4. r \in ranges[w] /\ r \in Interval /\ \A q \in ranges[w] : Before(r, q)
  BY <1>1, <1>3 DEF Least
<1>5. /\ merged[w] \in Seq(Interval) /\ InOrder(merged[w])
      /\ r.first <= r.last /\ NotAfter(merged[w], r)
  BY <1>3, <1>4 DEF IndexInv, IntervalsApart, InOrder, RangesFit
<1>6. /\ g \in Seq(Interval) /\ InOrder(g) /\ g # <<>> /\ g[Len(g)].first <= r.first
      /\ \A n \in Nat : InSeq(g, n) <=> InSeq(merged[w], n) \/ Within(r, n)
  BY <1>4, <1>5, RangeMerges
<1>7. merged' = [merged EXCEPT ![w] = g]
  BY <1>1
<1> HIDE DEF g
<1>8. \A v \in Version : /\ merged'[v] = IF v = w THEN g ELSE merged[v]
                         /\ ranges'[v] = IF v = w THEN ranges[v] \ {r} ELSE ranges[v]
  BY <1>1, <1>3, <1>7
<1>9. IndexTypeOK'
  <2>1. merged' \in [Version -> Seq(Interval)] /\ ranges' \in [Version -> SUBSET Interval]
    BY <1>1, <1>3, <1>6, <1>7
  <2> QED BY <1>2, <2>1 DEF IndexInv, IndexTypeOK
<1>10. IntervalsApart'
  <2>1. \A v \in Version : InOrder(merged'[v])
    BY <1>6, <1>8 DEF IndexInv, IntervalsApart, InOrder
  <2> QED BY <2>1 DEF IntervalsApart, InOrder
<1>11. RangesFit'
  <2>1. ASSUME NEW v \in Version, NEW q \in ranges'[v]
        PROVE  q.first <= q.last /\ NotAfter(merged'[v], q)
    <3>1. q \in ranges[v] /\ q.first <= q.last /\ NotAfter(merged[v], q)
      BY <1>8, <2>1 DEF IndexInv, RangesFit
    <3>2. CASE v = w
      <4>1. r.first <= q.first
        <5>1. Before(r, q) /\ q \in Interval
          BY <1>3, <1>4, <3>1, <3>2
        <5> QED BY <1>4, <5>1 DEF Before, Interval
      <4>2. g[Len(g)].first \in Nat /\ q.first \in Nat /\ r.first \in Nat
        <5>1. Len(g) \in 1 .. Len(g)
          BY <1>6
        <5>2. g[Len(g)].first \in Nat
          BY <1>6, <5>1, NumbersOf
        <5>3. q \in Interval
          BY <1>3, <3>1
        <5> QED BY <1>4, <5>2, <5>3 DEF Interval
      <4>3. g[Len(g)].first <= q.first
        BY <1>6, <4>1, <4>2
      <4> QED BY <1>8, <3>1, <3>2, <4>3 DEF NotAfter
    <3>3. CASE v # w
      BY <1>8, <3>1, <3>3
    <3> QED BY <3>2, <3>3
  <2> QED BY <2>1 DEF RangesFit, NotAfter
<1>12. NothingLost'
  <2>1. ASSUME NEW v \in Version, NEW n \in Nat
        PROVE  InSet(ranges'[v], n) \/ InSeq(merged'[v], n) <=> Lists(at, v, n)
    <3>1. InSet(ranges[v], n) \/ InSeq(merged[v], n) <=> Lists(at, v, n)
      BY <1>2 DEF IndexInv, NothingLost
    <3>2. CASE v = w
      <4>1. InSet(ranges[w], n) <=> InSet(ranges[w] \ {r}, n) \/ Within(r, n)
        BY <1>4 DEF InSet
      <4> QED BY <1>6, <1>8, <3>1, <3>2, <4>1
    <3>3. CASE v # w
      BY <1>8, <3>1, <3>3
    <3> QED BY <3>2, <3>3
  <2> QED BY <1>2, <2>1 DEF NothingLost, InSet, InSeq, Lists, NetworksOf
<1>13. StageFits'
  BY <1>2 DEF IndexInv, StageFits
<1> QED BY <1>9, <1>10, <1>11, <1>12, <1>13 DEF IndexInv

\* The invariant is inductive.
LEMMA NextKeepsInv == IndexInv /\ [IndexNext]_indexVars => IndexInv'
<1> SUFFICES ASSUME IndexInv, [IndexNext]_indexVars PROVE IndexInv'
  OBVIOUS
<1>1. CASE ParseLine
  BY <1>1, ParseLineKeepsInv
<1>2. CASE ParseEnds \/ MergeEnds
  BY <1>2, EndsKeepInv
<1>3. CASE \E v \in Version : MergeRange(v)
  BY <1>3, MergeRangeKeepsInv
<1>4. CASE UNCHANGED indexVars
  <2>1. UNCHANGED <<file, at, count, ranges, merged, stage>>
    BY <1>4 DEF indexVars
  <2> QED BY <2>1 DEF IndexInv, IndexTypeOK, IntervalsApart, RangesFit, NotAfter,
                      NothingLost, InSet, InSeq, Lists, NetworksOf, StageFits
<1> QED BY <1>1, <1>2, <1>3, <1>4 DEF IndexNext

\* In every reachable state.
LEMMA InvHolds == IndexSpec => []IndexInv
<1> QED BY InitEstablishesInv, NextKeepsInv, PTL DEF IndexSpec

\* The variables keep their types; parse_whitelist never takes more entries than
\* MAX_WHITELIST_ENTRIES.
THEOREM IndexTypeCorrect == IndexSpec => []IndexTypeOK
<1>1. IndexInv => IndexTypeOK
  BY DEF IndexInv
<1> QED BY <1>1, InvHolds, PTL

\* What _merge builds is sorted, without overlap and without adjacent intervals,
\* which is what the binary search of _Intervals.contains relies on.
THEOREM IntervalsApartHolds == IndexSpec => []IntervalsApart
<1>1. IndexInv => IntervalsApart
  BY DEF IndexInv
<1> QED BY <1>1, InvHolds, PTL

\* A whitelist file with a line that cannot be read gives no index at all.
THEOREM NoPartialWhitelistHolds == IndexSpec => []NoPartialWhitelist
<1>1. IndexInv => NoPartialWhitelist
  <2> SUFFICES ASSUME IndexInv, stage \in {"merge", "ready"}
               PROVE  at = Len(file) /\ \A i \in 1 .. Len(file) : file[i] # Invalid
    BY DEF NoPartialWhitelist
  <2>1. at = Len(file) /\ \A i \in 1 .. at : file[i] # Invalid
    BY DEF IndexInv, StageFits
  <2> QED BY <2>1
<1> QED BY <1>1, InvHolds, PTL

LEMMA ContainsIsListed ==
    ASSUME IndexInv, stage = "ready", NEW a \in Address
    PROVE  Contains(a) <=> \E x \in NetworksOf(Len(file)) : Covers(x, a)
<1>1. a.version \in Version /\ a.number \in Nat
  BY IndexAssumption
<1>2. at = Len(file) /\ ranges[a.version] = {}
  BY <1>1 DEF IndexInv, StageFits
<1>3. merged[a.version] \in Seq(Interval) /\ InOrder(merged[a.version])
  BY <1>1 DEF IndexInv, IndexTypeOK, IntervalsApart, InOrder
<1>4. Contains(a) <=> InSeq(merged[a.version], a.number)
  BY <1>1, <1>3, SearchIsMembership DEF Contains
<1>5. InSeq(merged[a.version], a.number) <=> Lists(at, a.version, a.number)
  BY <1>1, <1>2 DEF IndexInv, NothingLost, InSet
<1> QED BY <1>2, <1>4, <1>5 DEF Lists, Covers, Within

\* NetworkIndex.contains says yes to exactly the addresses that a network of
\* the whitelist file covers.
THEOREM ExemptsWhatIsListedHolds == IndexSpec => []ExemptsWhatIsListed
<1>1. IndexInv => ExemptsWhatIsListed
  BY ContainsIsListed DEF ExemptsWhatIsListed
<1> QED BY <1>1, InvHolds, PTL

-----------------------------------------------------------------------------
(***************************************************************************)
(* The way of an address.                                                  *)
(***************************************************************************)

\* The addresses of a report that every one of the three programs accepts.
Ordinary(ls) ==
    {l.address : l \in {m \in ls : m.spelling # "scoped" /\ KindOf[m.address] = "ordinary"}}

\* The receiver stores the same claims, whether the sender normalized the
\* literals or another client sent them as they are.
LEMMA StoredIsOrdinary ==
    ASSUME NEW ls \in SUBSET Literal, NEW reported \in {ls, Sent(ls)}
    PROVE  Stored(reported) = {Canonical(a) : a \in Ordinary(ls)}
<1>1. \A a \in Address : /\ (KindOf[a] \notin SenderRefuses <=> KindOf[a] = "ordinary")
                        /\ (KindOf[a] \notin StoreRefuses <=> KindOf[a] = "ordinary")
  BY PathAssumption DEF Kind, SenderRefuses, StoreRefuses, HelperRefuses
<1>2. \A l \in ls : /\ l.address \in Address
                   /\ (KindOf[l.address] \notin SenderRefuses <=> KindOf[l.address] = "ordinary")
                   /\ (KindOf[l.address] \notin StoreRefuses <=> KindOf[l.address] = "ordinary")
  <2>1. \A l \in ls : l.address \in Address
    BY DEF Literal
  <2> QED
    BY <1>1, <2>1
<1>3. Ordinary(ls) \subseteq Address
  BY <1>2 DEF Ordinary
<1> DEFINE passing == {m \in ls : m.spelling # "scoped" /\ KindOf[m.address] = "ordinary"}
<1>4. Stored(ls) = {Canonical(a) : a \in Ordinary(ls)}
  <2>1. {m \in ls : Passes(m, StoreRefuses)} = passing
    BY <1>2 DEF Passes
  <2>2. Stored(ls) = {Canonical(l.address) : l \in passing}
    BY <2>1 DEF Stored
  <2>3. Ordinary(ls) = {l.address : l \in passing}
    BY DEF Ordinary
  <2> HIDE DEF passing
  <2> QED
    BY <2>2, <2>3
<1>5. Sent(ls) = {Canonical(a) : a \in Ordinary(ls)}
  <2>1. {m \in ls : Passes(m, SenderRefuses)} = passing
    BY <1>2 DEF Passes
  <2>2. Sent(ls) = {Canonical(l.address) : l \in passing}
    BY <2>1 DEF Sent
  <2>3. Ordinary(ls) = {l.address : l \in passing}
    BY DEF Ordinary
  <2> HIDE DEF passing
  <2> QED
    BY <2>2, <2>3
<1>6. \A a : Canonical(a).address = a /\ Canonical(a).spelling = "canonical"
  BY DEF Canonical
<1>7. \A a \in Ordinary(ls) : KindOf[a] = "ordinary"
  BY DEF Ordinary
<1>8. \A l \in Sent(ls) : /\ l.address \in Address /\ l.address \in Ordinary(ls)
                         /\ l = Canonical(l.address) /\ Passes(l, StoreRefuses)
  BY <1>1, <1>3, <1>5, <1>6, <1>7 DEF Passes
<1>9. Stored(Sent(ls)) = Sent(ls)
  BY <1>8 DEF Stored
<1> QED
  BY <1>4, <1>5, <1>9

AsClaims(A) == {Canonical(a) : a \in A}
RequestFor(claims) == [v \in Version |-> Requested(claims, v)]

\* The requests for both versions together hold the ordinary addresses that
\* are not exempt, and the helper takes them.
LEMMA RequestIsTaken ==
    ASSUME NEW A \in SUBSET Address, \A a \in A : KindOf[a] = "ordinary",
           IsFiniteSet(AsClaims(A)), Cardinality(AsClaims(A)) <= TotalLimit
    PROVE  /\ HelperTakes(RequestFor(AsClaims(A)))
           /\ Exclude({l.address : l \in UNION {RequestFor(AsClaims(A))[v] : v \in Version}})
                 = Exclude(A)
<1> DEFINE claims == AsClaims(A)
           request == RequestFor(claims)
<1>1. \A a \in Address : a.version \in Version /\ a \in [version : {a.version}, number : Nat]
  <2>1. \A a \in Address : a \in [version : Version, number : Nat]
    BY IndexAssumption
  <2> QED
    BY <2>1
<1>2. \A a : Canonical(a).address = a /\ Canonical(a).spelling = "canonical"
  BY DEF Canonical
<1>3. {l.address : l \in claims} = A
  BY <1>2 DEF AsClaims
<1>4. \A v \in Version : request[v] =
         {Canonical(a) : a \in {b \in A : ~Contains(b) /\ b.version = v}}
  <2>1. ASSUME NEW v \in Version
        PROVE  A \cap [version : {v}, number : Nat] = {b \in A : b.version = v}
    BY <1>1
  <2>2. ASSUME NEW v \in Version
        PROVE  Exclude(A \cap [version : {v}, number : Nat])
                  = {b \in A : ~Contains(b) /\ b.version = v}
    BY <2>1 DEF Exclude
  <2> QED
    BY <1>3, <2>2 DEF RequestFor, Requested
<1> DEFINE all == UNION {request[v] : v \in Version}
<1> HIDE DEF request
<1>5. all = {Canonical(a) : a \in Exclude(A)}
  <2>1. ASSUME NEW a \in A, ~Contains(a)
        PROVE  Canonical(a) \in all
    <3>1. a.version \in Version /\ Canonical(a) \in request[a.version]
      BY <1>1, <1>4, <2>1
    <3> QED
      BY <3>1
  <2>2. ASSUME NEW l \in all
        PROVE  l \in {Canonical(a) : a \in Exclude(A)}
    <3>1. PICK v \in Version : l \in request[v]
      BY <2>2
    <3> QED
      BY <1>4, <3>1 DEF Exclude
  <2> HIDE DEF all
  <2> QED
    BY <2>1, <2>2 DEF Exclude
<1>6. HelperTakes(request)
  <2>1. Cardinality(all) <= MaxEntries
    <3>1. all \subseteq claims
      BY <1>5 DEF Exclude, AsClaims
    <3>2. IsFiniteSet(all) /\ Cardinality(all) <= Cardinality(claims)
      BY <3>1, FS_Subset
    <3>3. Cardinality(all) \in Nat /\ Cardinality(claims) \in Nat
      BY <3>2, FS_CardinalityType
    <3> HIDE DEF all
    <3> QED
      BY <3>2, <3>3, PathAssumption, IndexAssumption
  <2>2. ASSUME NEW v \in Version, NEW l \in request[v]
        PROVE  Passes(l, HelperRefuses) /\ l.address.version = v /\ l.spelling = "canonical"
    <3>1. PICK a \in A : l = Canonical(a) /\ a.version = v
      BY <1>4
    <3>2. KindOf[a] \notin HelperRefuses
      BY DEF HelperRefuses
    <3> QED
      BY <1>2, <3>1, <3>2 DEF Passes
  <2> QED
    BY <2>1, <2>2 DEF HelperTakes
<1>7. {l.address : l \in all} = Exclude(A)
  <2> HIDE DEF all
  <2> QED
    BY <1>2, <1>5
<1>8. Exclude(Exclude(A)) = Exclude(A)
  BY DEF Exclude
<1> QED
  BY <1>6, <1>7, <1>8 DEF request

LEMMA EnforceTakes ==
    ASSUME IndexInv, NEW ls \in Reports, Enforce(ls)
    PROVE  OneAddressBlocksNoOther'
<1>1. PICK reported \in {ls, Sent(ls)} :
          LET claims == Stored(reported)
              request == [v \in Version |-> Requested(claims, v)]
              taken == HelperTakes(request)
          IN  /\ Cardinality(claims) <= TotalLimit
              /\ applied' = [reports |-> ls, taken |-> taken, addresses |->
                    IF taken THEN Exclude({l.address : l \in UNION {request[v] : v \in Version}})
                    ELSE {}]
  BY DEF Enforce
<1> DEFINE claims == Stored(reported)
           request == RequestFor(claims)
<1>2. /\ stage = "ready" /\ UNCHANGED <<file, at, count, ranges, merged, stage>>
      /\ ls \in SUBSET Literal /\ IsFiniteSet(ls)
  BY PathAssumption DEF Enforce, indexVars
<1>3. /\ Ordinary(ls) \in SUBSET Address
      /\ \A a \in Ordinary(ls) : KindOf[a] = "ordinary"
      /\ claims = AsClaims(Ordinary(ls))
  <2>1. \A l \in ls : l.address \in Address
    BY <1>2 DEF Literal
  <2> QED
    BY <1>2, <2>1, StoredIsOrdinary DEF Ordinary, AsClaims
<1>4. IsFiniteSet(claims)
  <2> DEFINE f == [l \in ls |-> Canonical(l.address)]
  <2>1. \A l \in claims : \E m \in ls : f[m] = l
    BY <1>3 DEF Ordinary, AsClaims
  <2>2. claims \subseteq {f[m] : m \in ls}
    BY <2>1
  <2>3. f \in Surjection(ls, {f[m] : m \in ls})
    BY DEF Surjection
  <2>4. IsFiniteSet({f[m] : m \in ls})
    BY <1>2, <2>3, FS_Surjection
  <2> QED
    BY <2>2, <2>4, FS_Subset
<1>5. Cardinality(claims) <= TotalLimit
  BY <1>1
<1> HIDE DEF claims
<1>6. /\ HelperTakes(request)
      /\ Exclude({l.address : l \in UNION {request[v] : v \in Version}}) = Exclude(Ordinary(ls))
  BY <1>3, <1>4, <1>5, RequestIsTaken
<1>7. applied' = [reports |-> ls, taken |-> TRUE, addresses |-> Exclude(Ordinary(ls))]
  BY <1>1, <1>6 DEF claims, RequestFor
<1>8. Exclude(Ordinary(ls)) =
         {l.address : l \in {m \in ls :
             /\ m.spelling # "scoped" /\ KindOf[m.address] = "ordinary"
             /\ \A x \in NetworksOf(Len(file)) : ~Covers(x, m.address)}}
  <2>1. \A a \in Ordinary(ls) :
           ~Contains(a) <=> \A x \in NetworksOf(Len(file)) : ~Covers(x, a)
    BY <1>2, <1>3, ContainsIsListed
  <2> QED
    BY <2>1 DEF Exclude, Ordinary
<1> QED
  BY <1>2, <1>7, <1>8 DEF OneAddressBlocksNoOther, NetworksOf

\* Of every report, in every spelling, of every kind of address, through the
\* sender or not, against every whitelist file: what _ip of store.py stores and
\* the server asks for, parse_request of pf_helper.py takes as a whole, and it
\* applies the ordinary addresses the file does not list.
THEOREM OneAddressBlocksNoOtherHolds == PathSpec => []OneAddressBlocksNoOther
<1>1. PathInit => IndexInv /\ OneAddressBlocksNoOther
  BY InitEstablishesInv DEF PathInit, OneAddressBlocksNoOther
<1>2. IndexInv /\ [PathNext]_pathVars => IndexInv'
  <2>1. ASSUME NEW ls \in Reports, Enforce(ls)
        PROVE  UNCHANGED indexVars
    BY <2>1 DEF Enforce
  <2> QED
    BY <2>1, NextKeepsInv DEF PathNext, pathVars
<1>3. IndexInv /\ OneAddressBlocksNoOther /\ [PathNext]_pathVars => OneAddressBlocksNoOther'
  <2> SUFFICES ASSUME IndexInv, OneAddressBlocksNoOther, [PathNext]_pathVars
               PROVE  OneAddressBlocksNoOther'
    OBVIOUS
  <2>1. CASE UNCHANGED <<file, applied>>
    BY <2>1 DEF OneAddressBlocksNoOther, NetworksOf
  <2>2. ASSUME NEW ls \in Reports, Enforce(ls)
        PROVE  OneAddressBlocksNoOther'
    BY <2>2, EnforceTakes
  <2>3. IndexNext => UNCHANGED file
    BY DEF IndexNext, ParseLine, ParseEnds, MergeRange, MergeEnds
  <2> QED
    BY <2>1, <2>2, <2>3 DEF PathNext, pathVars, indexVars
<1> QED
  BY <1>1, <1>2, <1>3, PTL DEF PathSpec
=============================================================================
