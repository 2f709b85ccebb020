---------------------------- MODULE NetworkIndex ----------------------------
(***************************************************************************)
(* How a whitelist file becomes the index of the addresses it exempts:     *)
(* parse_whitelist of f2bguard/server.py and of f2bguard/pf_helper.py,     *)
(* which read the same file, and class NetworkIndex of                     *)
(* f2bguard/networks.py, which both build from it.                         *)
(*                                                                         *)
(* An address is a version and a number, a network the numbers from its    *)
(* first address to its last.  The ranges of one version are kept as a     *)
(* set, since a range that is listed twice is merged without effect; the   *)
(* loop over the sorted list takes the least of those that remain.         *)
(* bisect_right is the library's: the position before which every start is *)
(* at most the value and from which on every start is greater.             *)
(***************************************************************************)
EXTENDS Integers, Sequences

CONSTANTS
    Address,        \* [version, number]
    Network,        \* [version, first, last]
    Ignored,        \* a line that is blank or a comment
    Invalid,        \* a line that is no network, or has a scope
    MaxEntries,     \* MAX_WHITELIST_ENTRIES, and MAX_ADDRESSES in the helper
    Files           \* the contents the whitelist file may have

Version == {4, 6}
Interval == [first : Nat, last : Nat]
Line == Network \cup {Ignored, Invalid}

ASSUME IndexAssumption ==
    /\ Address \subseteq [version : Version, number : Nat]
    /\ Network \subseteq [version : Version, first : Nat, last : Nat]
    /\ \A x \in Network : x.first <= x.last
    /\ {Ignored, Invalid} \cap Network = {}
    /\ Ignored # Invalid
    /\ MaxEntries \in Nat
    /\ Files \subseteq Seq(Line)

VARIABLES
    file,       \* the content that is read
    at,         \* how many of its lines have been looked at
    count,      \* len(networks)
    ranges,     \* ranges[v]: the ranges of version v not merged yet
    merged,     \* merged[v]: the intervals of version v
    stage       \* "parse", "merge", "ready" or "refused"

indexVars == <<file, at, count, ranges, merged, stage>>

IndexTypeOK ==
    /\ file \in Seq(Line)
    /\ at \in 0 .. Len(file)
    /\ count \in 0 .. MaxEntries
    /\ ranges \in [Version -> SUBSET Interval]
    /\ merged \in [Version -> Seq(Interval)]
    /\ stage \in {"parse", "merge", "ready", "refused"}

IndexInit ==
    /\ file \in Files
    /\ at = 0
    /\ count = 0
    /\ ranges = [v \in Version |-> {}]
    /\ merged = [v \in Version |-> <<>>]
    /\ stage = "parse"

-----------------------------------------------------------------------------
IntervalOf(x) == [first |-> x.first, last |-> x.last]

\* Mutant: a line that cannot be read is passed over.
SkipLine_Invalid ==
    /\ file[at + 1] \in {Ignored, Invalid}
    /\ UNCHANGED <<count, ranges, stage>>

SkipLine ==
    /\ file[at + 1] = Ignored
    /\ UNCHANGED <<count, ranges, stage>>

\* EnforcementError, HelperError: nothing is built from this file.
RefuseLine ==
    /\ \/ file[at + 1] = Invalid
       \/ file[at + 1] \in Network /\ count + 1 > MaxEntries
    /\ stage' = "refused"
    /\ UNCHANGED <<count, ranges>>

TakeNetwork ==
    /\ file[at + 1] \in Network
    /\ count + 1 <= MaxEntries
    /\ count' = count + 1
    /\ ranges' = [ranges EXCEPT ![file[at + 1].version] = @ \cup {IntervalOf(file[at + 1])}]
    /\ UNCHANGED stage

ParseLine ==
    /\ stage = "parse"
    /\ at < Len(file)
    /\ at' = at + 1
    /\ SkipLine \/ RefuseLine \/ TakeNetwork
    /\ UNCHANGED <<file, merged>>

ParseEnds ==
    /\ stage = "parse"
    /\ at = Len(file)
    /\ stage' = "merge"
    /\ UNCHANGED <<file, at, count, ranges, merged>>

-----------------------------------------------------------------------------
\* ranges.sort(): by the first address, then by the last.
Before(r, q) == r.first < q.first \/ (r.first = q.first /\ r.last <= q.last)

Least(S) == {r \in S : \A q \in S : Before(r, q)}

\* Mutant: two ranges with one address between them become one.
Apart_OffByOne(m, r) == r.first > m[Len(m)].last + 2

\* Mutant: a range that touches the last interval begins another.
Apart_Touching(m, r) == r.first > m[Len(m)].last

\* A range that neither overlaps nor touches the last interval.
Apart(m, r) == r.first > m[Len(m)].last + 1

\* The last interval grows if the range ends behind it.
Joined(m, r) ==
    IF r.last > m[Len(m)].last
    THEN [m EXCEPT ![Len(m)] = [first |-> @.first, last |-> r.last]]
    ELSE m

MergedWith(m, r) == IF m = <<>> \/ Apart(m, r) THEN Append(m, r) ELSE Joined(m, r)

\* One turn of the loop in _merge.  Version 4 is merged before version 6.
MergeRange(v) ==
    /\ stage = "merge"
    /\ v = 6 => ranges[4] = {}
    /\ \E r \in Least(ranges[v]) :
          /\ ranges' = [ranges EXCEPT ![v] = @ \ {r}]
          /\ merged' = [merged EXCEPT ![v] = MergedWith(@, r)]
    /\ UNCHANGED <<file, at, count, stage>>

MergeEnds ==
    /\ stage = "merge"
    /\ \A v \in Version : ranges[v] = {}
    /\ stage' = "ready"
    /\ UNCHANGED <<file, at, count, ranges, merged>>

IndexNext == ParseLine \/ ParseEnds \/ (\E v \in Version : MergeRange(v)) \/ MergeEnds

IndexSpec == IndexInit /\ [][IndexNext]_indexVars

-----------------------------------------------------------------------------
(***************************************************************************)
(* What the index answers.                                                 *)
(***************************************************************************)

\* p = bisect_right(starts, n)
BisectRight(m, n, p) ==
    /\ \A i \in 1 .. p : m[i].first <= n
    /\ \A i \in (p + 1) .. Len(m) : m[i].first > n

\* _Intervals.contains: the interval before the position, if there is one.
Finds(m, n) ==
    \E p \in 1 .. Len(m) : BisectRight(m, n, p) /\ n <= m[p].last

Contains(a) == Finds(merged[a.version], a.number)

Exclude(S) == {a \in S : ~Contains(a)}

-----------------------------------------------------------------------------
(***************************************************************************)
(* Properties.                                                             *)
(***************************************************************************)
Covers(x, a) == x.version = a.version /\ x.first <= a.number /\ a.number <= x.last

\* The networks of the first n lines of the file.
NetworksOf(n) == {file[i] : i \in 1 .. n} \cap Network

\* An address is exempt exactly when a network of the file covers it: parsing,
\* sorting, merging and the binary search lose no address and add none, at the
\* ends of nested, overlapping and adjacent networks as well.
ExemptsWhatIsListed ==
    stage = "ready" =>
        \A a \in Address : Contains(a) <=> \E x \in NetworksOf(Len(file)) : Covers(x, a)

\* "Missing or invalid whitelist data blocks new table updates; it never means
\* an empty whitelist" (docs/security-and-release.md): an index is only ever
\* built from a file of which every line could be read, never from a part.
NoPartialWhitelist ==
    stage \in {"merge", "ready"} =>
        /\ at = Len(file)
        /\ \A i \in 1 .. Len(file) : file[i] # Invalid

\* What the binary search needs of the merged list: intervals in order, no
\* two of them overlapping or touching.
IntervalsApart ==
    \A v \in Version :
        /\ \A i \in 1 .. Len(merged[v]) : merged[v][i].first <= merged[v][i].last
        /\ \A i, j \in 1 .. Len(merged[v]) :
              i < j => merged[v][i].last + 1 < merged[v][j].first
=============================================================================
