--------------------------- MODULE MCDevicePlugin ---------------------------
(***************************************************************************)
(* Instances of DevicePlugin for TLC.                                      *)
(***************************************************************************)
EXTENDS DevicePlugin

CONSTANTS p, q, r

\* Ports of the pods: the two of p, one of q, and one of r that has the name
\* of p's second, as names chosen by an unseeded generator may.
red   == [portName |-> "red-1",  portID |-> "id1", macAddress |-> "m1"]
blue  == [portName |-> "blue-1", portID |-> "id2", macAddress |-> "m2"]
green == [portName |-> "red-2",  portID |-> "id3", macAddress |-> "m3"]
again == [portName |-> "blue-1", portID |-> "id4", macAddress |-> "m4"]
MCEntry == {red, blue, green, again}

MCName == {"k8s_POD_web_a", "k8s_POD_web_ab", "k8s_POD_db_a"}

\* The three pods have names of their own.
Distinct == [x \in Pod |-> CASE x = p -> "k8s_POD_web_a"
                             [] x = q -> "k8s_POD_web_ab"
                             [] OTHER -> "k8s_POD_db_a"]

\* q is created under the name of p after p has been deleted.
Reused == [x \in Pod |-> IF x = r THEN "k8s_POD_db_a" ELSE "k8s_POD_web_a"]

Exact == {<<n, n>> : n \in MCName}

\* What the pods get.
OneEach == [x \in Pod |-> CASE x = p -> {red} [] x = q -> {green} [] OTHER -> {}]
PlainQ == [x \in Pod |-> CASE x = p -> {red, blue} [] x = q -> {} [] OTHER -> {again}]
SameName == [x \in Pod |-> CASE x = p -> {red, blue} [] x = q -> {again} [] OTHER -> {}]

\* The counts of main devices in the limits: r asks for more than one.
One == [x \in Pod |-> 1]
TwoForR == [x \in Pod |-> IF x = r THEN 2 ELSE 1]

=============================================================================
