---------------------------- MODULE MCPodNetwork ----------------------------
(***************************************************************************)
(* Instances of PodNetwork for TLC.                                        *)
(***************************************************************************)
EXTENDS PodNetwork

CONSTANTS p, q

\* Two ports of p and one of q.
red   == [portName |-> "red-1",  portID |-> "id1", macAddress |-> "m1"]
blue  == [portName |-> "blue-1", portID |-> "id2", macAddress |-> "m2"]
green == [portName |-> "red-2",  portID |-> "id3", macAddress |-> "m3"]
MCEntry == {red, blue, green}

MCName == {"k8s_POD_web_a", "k8s_POD_db_a"}
Distinct == [x \in Pod |-> IF x = p THEN "k8s_POD_web_a" ELSE "k8s_POD_db_a"]
Exact == {<<n, n>> : n \in MCName}
TwoAndOne == [x \in Pod |-> IF x = p THEN {red, blue} ELSE {green}]
One == [x \in Pod |-> 1]

\* q's network is an overlay without a subnet and needs no address, p's both
\* need one, or the first.
NoneForQ == [x \in Pod |-> IF x = p THEN <<"blue-1", "red-1">> ELSE <<>>]
OneForP == [x \in Pod |-> IF x = p THEN <<"red-1">> ELSE <<>>]

=============================================================================
