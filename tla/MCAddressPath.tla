---------------------------- MODULE MCAddressPath ----------------------------
(***************************************************************************)
(* Four addresses of each version, files of up to MaxLines lines whose      *)
(* networks are CIDR blocks, host bits masked as with strict=False, and    *)
(* reports that hold one literal of each kind and spelling, or as many as  *)
(* the limit allows.                                                       *)
(***************************************************************************)
EXTENDS AddressPath

CONSTANT MaxLines

MCAddress == [version : {4}, number : 0 .. 3] \cup [version : {6}, number : 0 .. 3]

\* ip_network(address/prefix, strict=False), for a block of this size.
Block(a, size) ==
    LET first == (a.number \div size) * size
    IN  [version |-> a.version, first |-> first, last |-> first + size - 1]

MCNetwork ==
    {Block(a, size) : a \in [version : {4}, number : 0 .. 3], size \in {1, 2, 4}}
    \cup {Block(a, 2) : a \in [version : {6}, number : 0 .. 3]}

MCFiles == UNION {[1 .. n -> MCNetwork \cup {Ignored, Invalid}] : n \in 0 .. MaxLines}

MCKindOf == [a \in MCAddress |->
    CASE a = [version |-> 4, number |-> 0] -> "unspecified"
      [] a = [version |-> 4, number |-> 3] -> "multicast"
      [] a = [version |-> 6, number |-> 0] -> "loopback"
      [] a = [version |-> 6, number |-> 1] -> "link_local"
      [] a = [version |-> 6, number |-> 3] -> "ipv4_mapped"
      [] OTHER -> "ordinary"]

Spelled(v, n, s) == [address |-> [version |-> v, number |-> n], spelling |-> s]

MCReports ==
    {{Spelled(4, 1, "canonical"), l} : l \in
        {Spelled(4, 0, "canonical"), Spelled(4, 3, "other"), Spelled(6, 0, "canonical"),
         Spelled(6, 1, "other"), Spelled(6, 1, "scoped"), Spelled(6, 3, "canonical"),
         Spelled(6, 2, "other"), Spelled(6, 2, "scoped")}}
    \cup {{Spelled(4, 1, "other"), Spelled(4, 2, "canonical"), Spelled(6, 2, "canonical")}}
=============================================================================
