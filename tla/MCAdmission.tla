----------------------------- MODULE MCAdmission -----------------------------
(***************************************************************************)
(* Instances of Admission for TLC.                                         *)
(***************************************************************************)
EXTENDS Admission, TLC

CONSTANTS h1, h2, a, b

\* red and green are on physnets, blue is an overlay network with a subnet,
\* grey one without.  Neutron has two networks named red, the second is used.
MCNetworkName == {"red", "green", "blue", "grey", "lost"}
MCNetworkList ==
  << [name |-> "red",   id |-> "r0", physnet |-> "",     subnet |-> FALSE],
     [name |-> "blue",  id |-> "b1", physnet |-> "",     subnet |-> TRUE],
     [name |-> "red",   id |-> "r1", physnet |-> "phys", subnet |-> FALSE],
     [name |-> "grey",  id |-> "y1", physnet |-> "",     subnet |-> FALSE],
     [name |-> "green", id |-> "g1", physnet |-> "phys", subnet |-> TRUE] >>

OneName == [n \in MCNetworkName |-> {n \o "-x"}]
TwoNames == [n \in MCNetworkName |-> {n \o "-x", n \o "-y"}]

Single == {<<"red">>, NoNetworks}
TwoOrNone == {<<"red", "blue">>, NoNetworks}
\* Excluded by the proofs: it makes two ports and one entry.
Duplicate == {<<"red", "red">>}

\* Every list of distinct networks, in any order.
Distinct(S) ==
  UNION {{s \in [1..n -> S] : \A i, j \in 1..n : s[i] = s[j] => i = j} : n \in 0..4}
AllDistinct == Distinct(MCNetworkName)

Symmetry == Permutations(Handler) \cup Permutations(PodName)

=============================================================================
