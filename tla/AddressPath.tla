----------------------------- MODULE AddressPath -----------------------------
(***************************************************************************)
(* The way of an address from Fail2Ban's output to a PF table: three       *)
(* programs look at it, each with a filter of its own, and the last one    *)
(* refuses the whole replacement for one address it does not like.         *)
(*                                                                         *)
(* sender.py (canonical_ip) normalizes what Fail2Ban prints; the receiver  *)
(* (_ip of store.py) does not trust the sender and looks again at what     *)
(* arrives; the server leaves out what the whitelist exempts; the helper   *)
(* (parse_request of pf_helper.py) does not trust the server.  Server and  *)
(* helper build the index of NetworkIndex from the same file here; that it *)
(* may change in between is in Enforcement.                                *)
(***************************************************************************)
EXTENDS NetworkIndex, FiniteSets

CONSTANTS
    KindOf,         \* KindOf[a]: what ipaddress says an address is
    Reports,        \* the sets of literals clients may report
    TotalLimit,     \* MAX_TOTAL_CLAIMS of the store
    None            \* nothing asked of the helper yet

\* What the three programs call special-purpose.
SenderRefuses == {"unspecified", "multicast", "loopback", "link_local", "ipv4_mapped"}
StoreRefuses == {"unspecified", "multicast", "loopback", "link_local", "ipv4_mapped"}
HelperRefuses == {"unspecified", "multicast", "loopback", "link_local", "ipv4_mapped"}

Kind == {"ordinary"} \cup SenderRefuses \cup StoreRefuses \cup HelperRefuses

\* A literal as it is spelled; a scope is the part of a literal after "%".
Literal == [address : Address, spelling : {"canonical", "other", "scoped"}]

ASSUME PathAssumption ==
    /\ KindOf \in [Address -> Kind]
    /\ Reports \subseteq SUBSET Literal
    /\ \A ls \in Reports : IsFiniteSet(ls)
    /\ TotalLimit \in Nat
    \* MAX_ADDRESSES and the global limit of the store are the same number
    /\ TotalLimit <= MaxEntries

VARIABLE applied    \* the last replacement asked of the helper, or None

pathVars == <<indexVars, applied>>

PathInit == IndexInit /\ applied = None

-----------------------------------------------------------------------------
Canonical(a) == [address |-> a, spelling |-> "canonical"]

Passes(l, refused) == l.spelling # "scoped" /\ KindOf[l.address] \notin refused

\* canonical_ip: what the sender puts into its claims.
Sent(ls) == {Canonical(l.address) : l \in {m \in ls : Passes(m, SenderRefuses)}}

\* Mutant: the receiver lets a link-local address in.
Stored_LinkLocal(ls) ==
    {Canonical(l.address) : l \in {m \in ls : Passes(m, StoreRefuses \ {"link_local"})}}

\* _ip, for whoever reports it, sender.py or another client of the API.
Stored(ls) == {Canonical(l.address) : l \in {m \in ls : Passes(m, StoreRefuses)}}

\* The addresses of one version, without those the whitelist exempts.
Requested(ls, v) ==
    {Canonical(a) : a \in Exclude({l.address : l \in ls} \cap [version : {v}, number : Nat])}

\* parse_request, which raises HelperError for the whole message.
HelperTakes(request) ==
    /\ Cardinality(UNION {request[v] : v \in Version}) <= MaxEntries
    /\ \A v \in Version : \A l \in request[v] :
          /\ Passes(l, HelperRefuses)
          /\ l.address.version = v
          /\ l.spelling = "canonical"

\* Clients report ls, each literal in an event of its own, through the sender
\* or not, and the receiver enforces.
Enforce(ls) ==
    /\ stage = "ready"
    /\ \E reported \in {ls, Sent(ls)} :
          LET claims == Stored(reported)
              request == [v \in Version |-> Requested(claims, v)]
              taken == HelperTakes(request)
          IN  /\ Cardinality(claims) <= TotalLimit
              /\ applied' = [reports |-> ls, taken |-> taken, addresses |->
                    IF taken THEN Exclude({l.address : l \in UNION {request[v] : v \in Version}})
                    ELSE {}]
    /\ UNCHANGED indexVars

PathNext == (IndexNext /\ UNCHANGED applied) \/ \E ls \in Reports : Enforce(ls)

PathSpec == PathInit /\ [][PathNext]_pathVars

-----------------------------------------------------------------------------
\* No claim the receiver stores makes the helper refuse a replacement, and with
\* it every other address: the sender's, the receiver's and the helper's idea of
\* a legal address, of its spelling and of how many there may be agree.  What is
\* applied is every ordinary address reported that no network of the file covers.
OneAddressBlocksNoOther ==
    applied # None =>
        /\ applied.taken
        /\ applied.addresses =
              {l.address : l \in {m \in applied.reports :
                  /\ m.spelling # "scoped" /\ KindOf[m.address] = "ordinary"
                  /\ \A x \in NetworksOf(Len(file)) : ~Covers(x, m.address)}}
=============================================================================
