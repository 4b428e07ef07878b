---------------------------- MODULE MCInventory ----------------------------
(***************************************************************************)
(* Instances of Inventory for TLC.                                         *)
(***************************************************************************)
EXTENDS Inventory

\* One argument or two, of any kind, and all addresses at once.
MCArgument ==
  {[op |-> o, ip |-> x] : o \in {"ip", "-ip"}, x \in IP}
  \cup {[op |-> "-name", name |-> [prefix |-> Prefix, id |-> i]] : i \in {1, MaxHostID}}

MCArguments ==
  {<<a>> : a \in MCArgument} \cup {<<a, b>> : a, b \in MCArgument}
  \cup {[i \in DOMAIN s |-> [op |-> "ip", ip |-> s[i]]] : s \in SetToSeqs(IP)}

\* A host of another name, in a group of its own.
MCFiles ==
  {[group |-> "group1", name |-> [prefix |-> "host", id |-> 2], ip |-> x] : x \in IP}

Symmetry == Permutations(IP)

=============================================================================
