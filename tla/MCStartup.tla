------------------------------ MODULE MCStartup -----------------------------
(***************************************************************************)
(* Instances of Startup for TLC: addresses of a few bits, so that every    *)
(* cluster CIDR and every node mask can be tried.                          *)
(***************************************************************************)
EXTENDS Startup

Flags(cidrs, m4, m6, mode, tick, empty) ==
  [clusterCIDRs |-> cidrs, maskIPv4 |-> m4, maskIPv6 |-> m6, mode |-> mode,
   tickPeriod |-> tick, empty |-> empty]

\* Every single cluster CIDR with every node mask, too short and too long ones
\* included, and such with which 1 << n leaves the int.
ArithmeticFlags ==
  {Flags(<<net>>, m4, 6, mode, 1, {}) :
     net \in {n \in AllNets : n.fam = "v4"}, m4 \in -1 .. IntBits + 1,
     mode \in {"ipv4", "ipv6"}}
  \cup
  {Flags(<<net>>, 3, m6, "ipv6", 1, {}) :
     net \in {n \in AllNets : n.fam = "v6"}, m6 \in -1 .. V6Bits + 1}

\* Lists of cluster CIDRs under every mode, with and without a tick.
A4 == Net("v4", 8, 2)
B4 == Net("v4", 4, 2)
A6 == Net("v6", 16, 2)

ModeFlags ==
  {Flags(cidrs, 3, m6, mode, tick, empty) :
     cidrs \in {<<>>, <<A4>>, <<A6>>, <<A4, A6>>, <<A6, A4>>, <<A4, B4>>,
                <<A4, Malformed>>},
     m6 \in {5, V6Bits + 1},
     mode \in {"ipv4", "dual-stack", "ipv6", "IPv6"},
     tick \in {-1, 0, 1}, empty \in {{}, {"region"}}}

SomeSecrets ==
  {[found |-> FALSE, data |-> <<>>]}
  \cup {[found |-> TRUE, data |-> data] :
           data \in UNION {[K -> BOOLEAN] : K \in SUBSET SecretKeys}}

GoodSecret ==
  [found |-> TRUE, data |-> [k \in {"accessKeyID", "secretAccessKey"} |-> TRUE]]

AnyStarts == (ArithmeticFlags \X {GoodSecret}) \cup (ModeFlags \X SomeSecrets)
=============================================================================
