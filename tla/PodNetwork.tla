----------------------------- MODULE PodNetwork -----------------------------
(***************************************************************************)
(* The side-container of a pod, cmd/sidecar/assign-addresses, beside the   *)
(* device plugin and attach-pod.  They share nothing but the interfaces in *)
(* the pod's namespace: the script waits for each of its arguments, the    *)
(* dhclientInterfaces of the webhook, and then starts dhclient on them.    *)
(***************************************************************************)
EXTENDS DevicePlugin, Sequences

CONSTANTS
  Args,          \* Args[p]: the arguments the webhook gave the side-container
  DhclientFails  \* whether dhclient may fail; the container is then restarted

Eth0 == "eth0"   \* the interface every pod has

ASSUME ArgsAssumption ==
  /\ Args \in [Pod -> Seq(PortName)]
  /\ \A p \in Pod : \A i \in DOMAIN Args[p] :
       \E e \in NetworksSpec[p] : e.portName = Args[p][i]
  /\ Eth0 \notin PortName
  /\ DhclientFails \in BOOLEAN

VARIABLES
  sidecar  \* the script in each pod's side-container, and what it has started

podVars == <<vars, sidecar>>

\* at is where the script is, todo the arguments still to be seen, clients the
\* interfaces dhclient was started on, with the MAC each had then: dhclient
\* reads it once and asks with it.
Sidecar == [at : {"none", "wait", "sleep"}, todo : Seq(PortName),
            clients : SUBSET [name : PortName \cup {Eth0}, mac : MacAddress \cup {None}]]

NoSidecar == [at |-> "none", todo |-> <<>>, clients |-> {}]

PodInit == Init /\ sidecar = [p \in Pod |-> NoSidecar]

-----------------------------------------------------------------------------
(* The container lives as long as the sandbox it is in *)

NodeStep ==
  /\ Next
  /\ sidecar' = [p \in Pod |-> IF sandbox'[p] = "running" THEN sidecar[p] ELSE NoSidecar]

StartSidecar(p) ==
  /\ p \in Requesting
  /\ sandbox[p] = "running"
  /\ sidecar[p].at = "none"
  /\ sidecar' = [sidecar EXCEPT ![p] = [NoSidecar EXCEPT !.at = "wait", !.todo = Args[p]]]
  /\ UNCHANGED vars

(***************************************************************************)
(* The script                                                              *)
(***************************************************************************)

\* The interfaces that ip link and dhclient see in the pod.
Present(p) == {n \in PortName : iface[n].place = p}

\* One round of the loop: until ip link show finds the interface.
SeeInterface(p) ==
  /\ sidecar[p].at = "wait"
  /\ sidecar[p].todo # <<>>
  /\ Head(sidecar[p].todo) \in Present(p)
  /\ sidecar' = [sidecar EXCEPT ![p].todo = Tail(@)]
  /\ UNCHANGED vars

\* Mutant: without arguments the loopback interface is taken too.
ClientInterfacesLoopback(p) ==
  IF Args[p] = <<>> THEN Present(p) \cup {Eth0, "lo"}
  ELSE {Args[p][i] : i \in DOMAIN Args[p]}

\* dhclient takes its arguments, and every interface it finds if it has none,
\* the loopback interface excepted.
ClientInterfaces(p) ==
  IF Args[p] = <<>> THEN Present(p) \cup {Eth0}
  ELSE {Args[p][i] : i \in DOMAIN Args[p]}

RunDhclient(p) ==
  /\ sidecar[p].at = "wait"
  /\ sidecar[p].todo = <<>>
  /\ sidecar' = [sidecar EXCEPT
       ![p].at = "sleep",
       ![p].clients = {[name |-> n, mac |-> IF n \in PortName THEN iface[n].mac ELSE None] :
                         n \in ClientInterfaces(p)}]
  /\ UNCHANGED vars

\* bash -e ends the script, and the kubelet starts the container again.
RunDhclientFails(p) ==
  /\ DhclientFails
  /\ sidecar[p].at = "wait"
  /\ sidecar[p].todo = <<>>
  /\ sidecar' = [sidecar EXCEPT ![p] = NoSidecar]
  /\ UNCHANGED vars

-----------------------------------------------------------------------------
AssignAddresses(p) == SeeInterface(p) \/ RunDhclient(p) \/ RunDhclientFails(p)

PodNext == NodeStep \/ \E p \in Pod : StartSidecar(p) \/ AssignAddresses(p)

\* The kubelet starts the container, the script goes on, and dhclient does not
\* fail for ever.
PodSpec ==
  /\ PodInit
  /\ [][PodNext]_podVars
  /\ Fairness
  /\ \A p \in Requesting :
       WF_podVars(StartSidecar(p)) /\ WF_podVars(AssignAddresses(p)) /\ SF_podVars(RunDhclient(p))

-----------------------------------------------------------------------------
(* Properties *)

PodTypeOK == sidecar \in [Pod -> Sidecar]

\* dhclient runs where it should: on interfaces of the pod's own networksSpec,
\* that are in the pod and stay there as long as it does, and on eth0 only if
\* the script got no arguments.  Without arguments it takes whatever is there,
\* so no attachment may have left an interface of another pod.
ClientsStayInPod ==
  \A p \in Pod : \A c \in sidecar[p].clients :
    IF c.name = Eth0 THEN Args[p] = <<>>
    ELSE iface[c.name].place = p /\ \E e \in NetworksSpec[p] : e.portName = c.name

ClientNames(p) == {c.name : c \in sidecar[p].clients}

\* A pod that got its device gets all its interfaces, and every interface that
\* needs an address gets a dhclient: attachments may be tried again and come in
\* any order, the script waits for them in the order of its arguments, and
\* starts over when it failed.
FullyServed ==
  \A p \in Requesting :
    pc[p] = "sleep" ~>
      \/ /\ Attached(p)
         /\ ClientNames(p) # {}
         /\ \A i \in DOMAIN Args[p] : Args[p][i] \in ClientNames(p)
      \/ ~Active(p) \/ p \in emptied

\* They ask for the address of their port, that is with its MAC.
AddressesObtained ==
  \A p \in Requesting :
    pc[p] = "sleep" ~>
      \/ \A i \in DOMAIN Args[p] : \E e \in NetworksSpec[p] :
           /\ e.portName = Args[p][i]
           /\ [name |-> e.portName, mac |-> e.macAddress] \in sidecar[p].clients
      \/ ~Active(p) \/ p \in emptied

=============================================================================
