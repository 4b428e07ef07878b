-------------------------- MODULE PodNetworkProofs --------------------------
(***************************************************************************)
(* Proofs about the side-container beside the device plugin: for any pods, *)
(* ports, arguments, container names and environment.                      *)
(***************************************************************************)
EXTENDS PodNetwork, DevicePluginProofs

-----------------------------------------------------------------------------
(* The side-container leaves the device plugin as it is *)

LEMMA PodStep == [PodNext]_podVars => [Next]_vars
BY DEF PodNext, podVars, NodeStep, AssignAddresses, StartSidecar, SeeInterface, RunDhclient,
       RunDhclientFails

\* What the script of a side-container does, the device plugin cannot tell: all
\* that holds of DevicePlugin holds beside any number of side-containers.
THEOREM SidecarsOnlyLook == PodSpec => FairSpec
<1>1. PodInit => Init
  BY DEF PodInit
<1>2. [PodNext]_podVars => [Next]_vars
  BY PodStep
<1> QED
  BY <1>1, <1>2, PTL DEF PodSpec, FairSpec, Spec

-----------------------------------------------------------------------------
(* Interfaces in a pod *)

\* Whatever names the containers have: an interface is one script's from the
\* time it is added until the script ends, and on the node until it is moved.
ScriptsHoldInterfaces ==
  /\ ScriptsApart
  /\ \A g \in Pod : pc[g] \in Script =>
       /\ local[g].entry \in Entry
       /\ iface[PortNameOf(g)].place # None
       /\ pc[g] \in {"unlink", "link", "move"} => iface[PortNameOf(g)].place = Host

LEMMA HoldsInit == Init => ScriptsHoldInterfaces
BY DEF Init, ScriptsHoldInterfaces, ScriptsApart, Script

\* A step that starts no script, and takes no interface away from one.
LEMMA HoldsQuiet ==
  ASSUME ScriptsHoldInterfaces, TypeOK,
         \A g \in Pod : \/ pc'[g] \notin Script
                        \/ /\ pc[g] \in Script /\ local'[g].entry = local[g].entry
                           /\ pc'[g] \in {"unlink", "link", "move"} =>
                                pc[g] \in {"unlink", "link", "move"},
         \A n \in PortName : \/ iface'[n].place = iface[n].place
                             \/ iface[n].place \notin {None, Host} /\ iface'[n].place # None
  PROVE  ScriptsHoldInterfaces'
<1>1. ScriptsApart'
  BY DEF ScriptsHoldInterfaces, ScriptsApart, PortNameOf
<1>2. ASSUME NEW g \in Pod, pc'[g] \in Script
      PROVE  /\ local'[g].entry \in Entry
             /\ iface'[PortNameOf(g)'].place # None
             /\ pc'[g] \in {"unlink", "link", "move"} => iface'[PortNameOf(g)'].place = Host
  <2>1. PortNameOf(g)' = PortNameOf(g) /\ PortNameOf(g) \in PortName
    BY <1>2, DataTypes DEF ScriptsHoldInterfaces, PortNameOf
  <2> QED
    BY <1>2, <2>1 DEF ScriptsHoldInterfaces
<1> QED
  BY <1>1, <1>2 DEF ScriptsHoldInterfaces

\* No script adds an interface that another one works on.
LEMMA HoldsAddPort ==
  ASSUME ScriptsHoldInterfaces, TypeOK, NEW g \in Pod, AddPort(g)
  PROVE  ScriptsHoldInterfaces'
<1>1. PICK e \in local[g].todo :
        /\ iface[e.portName].place = None
        /\ iface' = [iface EXCEPT ![e.portName] = NewInterface]
        /\ local' = [local EXCEPT ![g].todo = @ \ {e}, ![g].entry = e]
  BY DEF AddPort
<1>2. e \in Entry /\ e.portName \in PortName
  BY DataTypes DEF TypeOK, Local
<1>3. /\ local'[g].entry = e /\ pc'[g] = "unlink"
      /\ \A h \in Pod : h # g => pc'[h] = pc[h] /\ local'[h] = local[h]
  BY <1>1 DEF AddPort, Goto, TypeOK, Local
<1>4. /\ iface'[e.portName].place = Host
      /\ \A n \in PortName : n # e.portName => iface'[n] = iface[n]
  BY <1>1, <1>2 DEF TypeOK, NewInterface
<1>5. \A h \in Pod : pc[h] \in Script =>
        PortNameOf(h) # e.portName /\ PortNameOf(h) \in PortName
  BY <1>1, DataTypes DEF ScriptsHoldInterfaces, PortNameOf
<1>6. PortNameOf(g)' = e.portName /\ \A h \in Pod : h # g => PortNameOf(h)' = PortNameOf(h)
  BY <1>3 DEF PortNameOf
<1>7. ScriptsApart'
  BY <1>3, <1>5, <1>6 DEF ScriptsHoldInterfaces, ScriptsApart
<1>8. Host # None
  BY DEF Host, None
<1>9. ASSUME NEW h \in Pod, pc'[h] \in Script
      PROVE  /\ local'[h].entry \in Entry
             /\ iface'[PortNameOf(h)'].place # None
             /\ pc'[h] \in {"unlink", "link", "move"} => iface'[PortNameOf(h)'].place = Host
  <2>1. CASE h = g
    BY <1>2, <1>3, <1>4, <1>6, <1>8, <2>1
  <2>2. CASE h # g
    BY <1>3, <1>4, <1>5, <1>6, <1>9, <2>2 DEF ScriptsHoldInterfaces
  <2> QED
    BY <2>1, <2>2
<1> QED
  BY <1>7, <1>9 DEF ScriptsHoldInterfaces

\* The only step that takes an interface from the node into a pod.
LEMMA HoldsMove ==
  ASSUME ScriptsHoldInterfaces, TypeOK, NEW g \in Pod, Move(g)
  PROVE  ScriptsHoldInterfaces'
<1> DEFINE n == PortNameOf(g)
<1>1. n \in PortName /\ local[g].entry \in Entry
  BY DataTypes DEF Move, ScriptsHoldInterfaces, Script, PortNameOf
<1>2. PICK p \in Pod : links[Netns(g)] = p
  BY DEF Move, Reachable
<1>3. /\ pc[g] = "move" /\ pc'[g] = "address" /\ local' = local
      /\ \A h \in Pod : h # g => pc'[h] = pc[h]
      /\ iface'[n].place = p /\ \A m \in PortName : m # n => iface'[m] = iface[m]
  BY <1>1, <1>2 DEF Move, Goto, TypeOK, Interface
<1>4. p # None
  BY PodAssumption
<1>5. \A h \in Pod : PortNameOf(h)' = PortNameOf(h)
  BY <1>3 DEF PortNameOf
<1>6. \A h \in Pod : h # g /\ pc[h] \in Script => PortNameOf(h) # n /\ PortNameOf(h) \in PortName
  BY <1>3, DataTypes DEF ScriptsHoldInterfaces, ScriptsApart, Script, PortNameOf
<1>7. ScriptsApart'
  BY <1>3, <1>5 DEF ScriptsHoldInterfaces, ScriptsApart, Script
<1>8. ASSUME NEW h \in Pod, pc'[h] \in Script
      PROVE  /\ local'[h].entry \in Entry
             /\ iface'[PortNameOf(h)'].place # None
             /\ pc'[h] \in {"unlink", "link", "move"} => iface'[PortNameOf(h)'].place = Host
  <2>1. CASE h = g
    BY <1>1, <1>3, <1>4, <1>5, <2>1
  <2>2. CASE h # g
    BY <1>3, <1>5, <1>6, <1>8, <2>2 DEF ScriptsHoldInterfaces
  <2> QED
    BY <2>1, <2>2
<1> QED
  BY <1>7, <1>8 DEF ScriptsHoldInterfaces

\* What each step of the node does to the places of interfaces.
LEMMA Places ==
  ASSUME TypeOK, ScriptsHoldInterfaces, [Next]_vars
  PROVE  \/ \A n \in PortName : iface'[n].place = iface[n].place
         \/ \E p \in Pod : EndPod(p) /\ \A n \in PortName :
              iface'[n].place = IF iface[n].place = p THEN Lost ELSE iface[n].place
         \/ \E g \in Pod : AddPort(g) /\ \A n \in PortName :
              iface[n].place = None \/ iface'[n].place = iface[n].place
         \/ \E g \in Pod : Move(g) /\ \A n \in PortName :
              iface[n].place = Host \/ iface'[n].place = iface[n].place
<1>1. ASSUME NEW p \in Pod, EndPod(p)
      PROVE  \A n \in PortName :
               iface'[n].place = IF iface[n].place = p THEN Lost ELSE iface[n].place
  BY <1>1 DEF EndPod, TypeOK, Interface
<1>2. ASSUME NEW g \in Pod, AddPort(g)
      PROVE  \A n \in PortName : iface[n].place = None \/ iface'[n].place = iface[n].place
  BY <1>2 DEF AddPort, TypeOK
<1>3. ASSUME NEW g \in Pod, Move(g)
      PROVE  \A n \in PortName : iface[n].place = Host \/ iface'[n].place = iface[n].place
  BY <1>3 DEF Move, ScriptsHoldInterfaces, Script, TypeOK
<1>4. ASSUME NEW g \in Pod, SetAddress(g) \/ SetUp(g) \/ Mark(g)
      PROVE  \A n \in PortName : iface'[n].place = iface[n].place
  BY <1>4 DEF SetAddress, SetUp, Mark, TypeOK, Interface
<1>5. CASE UNCHANGED iface
  BY <1>5
<1>6. \/ \E g \in Pod : EndPod(g) \/ AddPort(g) \/ Move(g) \/ SetAddress(g) \/ SetUp(g) \/ Mark(g)
      \/ UNCHANGED iface
  BY DEF Next, Node, Find, Attach, SchedulePlain, Allocate, RefuseAllocate, StartSandbox,
         RemoveSandbox, EmptyAnnotation, DeletePod, FindPodUID, FindPod, ListContainers,
         Inspect, Retry, AddPortFails, AttachEnds, Unlink, Link, ScriptFails,
         WriteCheckpoint, Crash, nodeVars, vars
<1> QED
  BY <1>1, <1>2, <1>3, <1>4, <1>5, <1>6

\* What each step does to the scripts.
LEMMA Scripts ==
  ASSUME TypeOK, [Next]_vars, NEW g \in Pod, \A h \in Pod : ~AddPort(h)
  PROVE  \/ pc'[g] \notin Script
         \/ /\ pc[g] \in Script /\ local'[g].entry = local[g].entry
            /\ pc'[g] \in {"unlink", "link", "move"} => pc[g] \in {"unlink", "link", "move"}
<1>1. CASE Crash
  BY <1>1 DEF Crash, Die, Script
<1>2. CASE WriteCheckpoint \/ UNCHANGED vars
  BY <1>2 DEF WriteCheckpoint, goroutineVars, vars
<1>3. ASSUME NEW h \in Pod, Node(h)
      PROVE  \/ pc'[g] = pc[g] /\ local'[g] = local[g]
             \/ pc'[g] = "sleep"
  BY <1>3 DEF Node, SchedulePlain, Allocate, RefuseAllocate, StartSandbox, EndPod,
              RemoveSandbox, EmptyAnnotation, DeletePod, goroutineVars, TypeOK
<1>4. ASSUME NEW h \in Pod, Find(h)
      PROVE  \/ pc'[g] = pc[g] /\ local'[g] = local[g]
             \/ pc'[g] \notin Script
  BY <1>4 DEF Find, FindPodUID, Lookup, Die, FindPod, ListContainers, Inspect, Retry, Finish,
              Goto, Script, TypeOK
<1>5. ASSUME NEW h \in Pod, Attach(h), h # g
      PROVE  pc'[g] = pc[g] /\ local'[g] = local[g]
  BY <1>5 DEF Attach, AddPort, AddPortFails, AttachEnds, Unlink, Link, Move, SetAddress, SetUp,
              Mark, ScriptFails, Finish, Goto, TypeOK
<1>6. CASE Attach(g)
  BY <1>6 DEF Attach, AddPort, AddPortFails, AttachEnds, Unlink, Link, Move, SetAddress, SetUp,
              Mark, ScriptFails, Finish, Goto, Script, TypeOK
<1> QED
  BY <1>1, <1>2, <1>3, <1>4, <1>5, <1>6 DEF Next, Script

LEMMA HoldsNext == TypeOK /\ ScriptsHoldInterfaces /\ [Next]_vars => ScriptsHoldInterfaces'
<1> SUFFICES ASSUME TypeOK, ScriptsHoldInterfaces, [Next]_vars PROVE ScriptsHoldInterfaces'
  OBVIOUS
<1>1. CASE \E g \in Pod : AddPort(g)
  BY <1>1, HoldsAddPort
<1>2. CASE \E g \in Pod : Move(g)
  BY <1>2, HoldsMove
<1>3. CASE \A g \in Pod : ~AddPort(g) /\ ~Move(g)
  <2>1. Lost # None /\ \A p \in Pod : p \notin {None, Host}
    BY PodAssumption DEF Lost, None
  <2>2. \A n \in PortName :
          \/ iface'[n].place = iface[n].place
          \/ iface[n].place \notin {None, Host} /\ iface'[n].place # None
    <3>1. CASE \A n \in PortName : iface'[n].place = iface[n].place
      BY <3>1
    <3>2. CASE \E p \in Pod : \A n \in PortName :
                 iface'[n].place = IF iface[n].place = p THEN Lost ELSE iface[n].place
      BY <2>1, <3>2
    <3> QED
      BY <1>3, <3>1, <3>2, Places
  <2>3. \A g \in Pod :
          \/ pc'[g] \notin Script
          \/ /\ pc[g] \in Script /\ local'[g].entry = local[g].entry
             /\ pc'[g] \in {"unlink", "link", "move"} => pc[g] \in {"unlink", "link", "move"}
    BY <1>3, Scripts
  <2> QED
    BY <2>2, <2>3, HoldsQuiet
<1> QED
  BY <1>1, <1>2, <1>3

\* An interface in a pod stays there as long as the pod's sandbox runs.
LEMMA PlaceKept ==
  ASSUME TypeOK, ScriptsHoldInterfaces, [Next]_vars,
         NEW p \in Pod, NEW n \in PortName, iface[n].place = p, sandbox'[p] = "running"
  PROVE  iface'[n].place = p
<1>1. p \notin {None, Host}
  BY PodAssumption
<1>2. ~EndPod(p)
  BY DEF EndPod, TypeOK
<1> QED
  BY <1>1, <1>2, Places

-----------------------------------------------------------------------------
(* The side-containers *)

\* What a script has still to see, or has seen in its pod.
SeenInPod ==
  \A p \in Pod : sidecar[p].at = "wait" =>
    \A i \in DOMAIN Args[p] :
      \/ iface[Args[p][i]].place = p
      \/ \E j \in DOMAIN sidecar[p].todo : sidecar[p].todo[j] = Args[p][i]

\* dhclient runs on interfaces that are in the pod, and stay there; whose they
\* are depends on the attachments.
ClientsInside ==
  \A p \in Pod : \A c \in sidecar[p].clients :
    IF c.name = Eth0 THEN Args[p] = <<>> ELSE iface[c.name].place = p

\* The inductive invariant behind ClientsStayInPod.
Clients ==
  /\ TypeOK
  /\ ScriptsHoldInterfaces
  /\ PodTypeOK
  /\ SeenInPod
  /\ ClientsInside

LEMMA ArgumentTypes ==
  ASSUME NEW p \in Pod
  PROVE  /\ Args[p] \in Seq(PortName) /\ Eth0 \notin PortName
         /\ \A i \in DOMAIN Args[p] : Args[p][i] \in PortName
<1>1. Args[p] \in Seq(PortName) /\ Eth0 \notin PortName
  BY ArgsAssumption
<1> QED
  BY <1>1

LEMMA NoSidecarType == NoSidecar \in Sidecar
BY DEF NoSidecar, Sidecar

LEMMA ClientsInit == PodInit => Clients
<1> SUFFICES ASSUME PodInit PROVE Clients
  OBVIOUS
<1>1. TypeOK /\ ScriptsHoldInterfaces
  BY TypeInit, HoldsInit DEF PodInit
<1>2. PodTypeOK
  BY NoSidecarType DEF PodInit, PodTypeOK
<1>3. SeenInPod /\ ClientsInside
  BY DEF PodInit, SeenInPod, ClientsInside, NoSidecar
<1> QED
  BY <1>1, <1>2, <1>3 DEF Clients

\* The node goes on: a side-container that is left has its interfaces.
LEMMA ClientsNodeStep ==
  ASSUME Clients, TypeOK', ScriptsHoldInterfaces', NodeStep \/ UNCHANGED podVars
  PROVE  Clients'
<1>1. [Next]_vars
  BY DEF NodeStep, podVars
<1>2. \A p \in Pod : \/ sidecar'[p] = sidecar[p] /\ (sandbox'[p] = "running" \/ UNCHANGED vars)
                     \/ sidecar'[p] = NoSidecar
  BY DEF NodeStep, podVars, Clients, PodTypeOK
<1>3. PodTypeOK'
  <2>1. CASE NodeStep
    BY <2>1, NoSidecarType DEF NodeStep, Clients, PodTypeOK
  <2>2. CASE UNCHANGED podVars
    BY <2>2 DEF podVars, Clients, PodTypeOK
  <2> QED
    BY <2>1, <2>2
<1>4. \A p \in Pod, n \in PortName :
        sidecar'[p] # NoSidecar /\ iface[n].place = p => iface'[n].place = p
  BY <1>1, <1>2, PlaceKept DEF Clients, vars
<1>5. SeenInPod'
  BY <1>2, <1>4, ArgumentTypes DEF Clients, SeenInPod, NoSidecar
<1>6. ClientsInside'
  <2> SUFFICES ASSUME NEW p \in Pod, NEW c \in sidecar'[p].clients
               PROVE  IF c.name = Eth0 THEN Args[p] = <<>> ELSE iface'[c.name].place = p
    BY DEF ClientsInside
  <2>1. sidecar'[p] = sidecar[p] /\ sidecar'[p] # NoSidecar
    BY <1>2 DEF NoSidecar
  <2>2. c.name \in PortName \cup {Eth0}
    BY <2>1 DEF Clients, PodTypeOK, Sidecar
  <2> QED
    BY <1>4, <2>1, <2>2 DEF Clients, ClientsInside
<1> QED
  BY <1>3, <1>5, <1>6 DEF Clients

\* One side-container goes on.
LEMMA ClientsSidecar ==
  ASSUME Clients, NEW p \in Pod, NEW r \in Sidecar, UNCHANGED vars,
         sidecar' = [sidecar EXCEPT ![p] = r],
         r.at = "wait" => \A i \in DOMAIN Args[p] :
                            \/ iface[Args[p][i]].place = p
                            \/ \E j \in DOMAIN r.todo : r.todo[j] = Args[p][i],
         \A c \in r.clients : IF c.name = Eth0 THEN Args[p] = <<>> ELSE iface[c.name].place = p
  PROVE  Clients'
<1>1. sidecar'[p] = r /\ \A q \in Pod : q # p => sidecar'[q] = sidecar[q]
  BY DEF Clients, PodTypeOK
<1>2. TypeOK' /\ ScriptsHoldInterfaces'
  BY DEF Clients, TypeOK, ScriptsHoldInterfaces, ScriptsApart, PortNameOf, vars
<1>3. PodTypeOK'
  BY DEF Clients, PodTypeOK
<1>4. SeenInPod' /\ ClientsInside'
  BY <1>1 DEF Clients, SeenInPod, ClientsInside, vars
<1> QED
  BY <1>2, <1>3, <1>4 DEF Clients

\* dhclient is started on what the script has seen, or on what is there.
LEMMA ClientsRunDhclient ==
  ASSUME Clients, NEW p \in Pod, RunDhclient(p)
  PROVE  Clients'
<1> DEFINE found == {[name |-> n, mac |-> IF n \in PortName THEN iface[n].mac ELSE None] :
                       n \in ClientInterfaces(p)}
           r == [sidecar[p] EXCEPT !.at = "sleep", !.clients = found]
<1>1. \A n \in ClientInterfaces(p) :
        \/ n = Eth0 /\ Args[p] = <<>>
        \/ n \in PortName /\ n # Eth0 /\ iface[n].place = p
  <2>1. CASE Args[p] = <<>>
    BY <2>1, ArgumentTypes DEF ClientInterfaces, Present
  <2>2. CASE Args[p] # <<>>
    BY <2>2, ArgumentTypes DEF ClientInterfaces, RunDhclient, Clients, SeenInPod
  <2> QED
    BY <2>1, <2>2
<1>2. \A n \in PortName : iface[n].mac \in MacAddress \cup {None}
  BY DEF Clients, TypeOK, Interface
<1>3. found \in SUBSET [name : PortName \cup {Eth0}, mac : MacAddress \cup {None}]
  BY <1>1, <1>2
<1>4. \A c \in found : IF c.name = Eth0 THEN Args[p] = <<>> ELSE iface[c.name].place = p
  BY <1>1
<1> HIDE DEF found
<1>5. r \in Sidecar /\ r.at = "sleep" /\ r.clients = found
  BY <1>3 DEF Clients, PodTypeOK, Sidecar
<1>6. sidecar' = [sidecar EXCEPT ![p] = r] /\ UNCHANGED vars
  BY DEF RunDhclient, found, Clients, PodTypeOK
<1> HIDE DEF r
<1> QED
  BY <1>4, <1>5, <1>6, ClientsSidecar

LEMMA ClientsSeeInterface ==
  ASSUME Clients, NEW p \in Pod, SeeInterface(p)
  PROVE  Clients'
<1> DEFINE todo == sidecar[p].todo
           r == [sidecar[p] EXCEPT !.todo = Tail(todo)]
<1>1. todo \in Seq(PortName) /\ todo # <<>> /\ iface[Head(todo)].place = p
      /\ sidecar[p].at = "wait" /\ sidecar[p] \in Sidecar
  BY DEF SeeInterface, Present, Clients, PodTypeOK, Sidecar
<1>2. Tail(todo) \in Seq(PortName)
  BY <1>1
<1>3. \A j \in DOMAIN todo :
        \/ todo[j] = Head(todo)
        \/ \E k \in DOMAIN Tail(todo) : Tail(todo)[k] = todo[j]
  <2> SUFFICES ASSUME NEW j \in DOMAIN todo, j # 1
               PROVE  \E k \in DOMAIN Tail(todo) : Tail(todo)[k] = todo[j]
    BY <1>1
  <2>1. j - 1 \in DOMAIN Tail(todo) /\ Tail(todo)[j - 1] = todo[j]
    BY <1>1
  <2> QED
    BY <2>1
<1>4. \A i \in DOMAIN Args[p] :
        \/ iface[Args[p][i]].place = p
        \/ \E k \in DOMAIN Tail(todo) : Tail(todo)[k] = Args[p][i]
  BY <1>1, <1>3 DEF Clients, SeenInPod
<1>5. /\ r \in Sidecar /\ r.at = "wait" /\ r.todo = Tail(todo)
      /\ r.clients = sidecar[p].clients
  BY <1>1, <1>2 DEF Sidecar
<1>6. sidecar' = [sidecar EXCEPT ![p] = r] /\ UNCHANGED vars
  BY DEF SeeInterface, Clients, PodTypeOK
<1>7. /\ \A i \in DOMAIN Args[p] :
           \/ iface[Args[p][i]].place = p
           \/ \E k \in DOMAIN r.todo : r.todo[k] = Args[p][i]
      /\ \A c \in r.clients : IF c.name = Eth0 THEN Args[p] = <<>> ELSE iface[c.name].place = p
  <2> HIDE DEF r, todo
  <2> QED
    BY <1>4, <1>5 DEF Clients, ClientsInside
<1> HIDE DEF r
<1> QED
  BY <1>5, <1>6, <1>7, ClientsSidecar

LEMMA ClientsStart ==
  ASSUME Clients, NEW p \in Pod, StartSidecar(p) \/ RunDhclientFails(p)
  PROVE  Clients'
<1>1. CASE StartSidecar(p)
  <2> DEFINE r == [NoSidecar EXCEPT !.at = "wait", !.todo = Args[p]]
  <2>1. r \in Sidecar /\ r.at = "wait" /\ r.todo = Args[p] /\ r.clients = {}
    BY ArgumentTypes DEF NoSidecar, Sidecar
  <2>2. sidecar' = [sidecar EXCEPT ![p] = r] /\ UNCHANGED vars
    BY <1>1 DEF StartSidecar
  <2> HIDE DEF r
  <2> QED
    BY <2>1, <2>2, ClientsSidecar
<1>2. CASE RunDhclientFails(p)
  <2>1. NoSidecar \in Sidecar /\ NoSidecar.at # "wait" /\ NoSidecar.clients = {}
    BY NoSidecarType DEF NoSidecar
  <2>2. sidecar' = [sidecar EXCEPT ![p] = NoSidecar] /\ UNCHANGED vars
    BY <1>2 DEF RunDhclientFails
  <2> QED
    BY <2>1, <2>2, ClientsSidecar
<1> QED
  BY <1>1, <1>2

LEMMA ClientsNext == Clients /\ [PodNext]_podVars => Clients'
<1> SUFFICES ASSUME Clients, [PodNext]_podVars PROVE Clients'
  OBVIOUS
<1>1. TypeOK' /\ ScriptsHoldInterfaces'
  BY PodStep, TypeNext, HoldsNext DEF Clients
<1>2. CASE NodeStep \/ UNCHANGED podVars
  BY <1>1, <1>2, ClientsNodeStep
<1>3. ASSUME NEW p \in Pod, StartSidecar(p) \/ AssignAddresses(p) PROVE Clients'
  BY <1>3, ClientsStart, ClientsSeeInterface, ClientsRunDhclient DEF AssignAddresses
<1> QED
  BY <1>2, <1>3 DEF PodNext

LEMMA ClientsHold == PodSpec => []Clients
<1> QED
  BY ClientsInit, ClientsNext, PTL DEF PodSpec

\* What is known of a side-container has its type.
THEOREM SidecarTypeCorrect == PodSpec => []PodTypeOK
<1>1. Clients => PodTypeOK
  BY DEF Clients
<1> QED
  BY <1>1, ClientsHold, PTL

\* A dhclient never works outside of its pod, and on eth0 only without any
\* arguments: also where names do not tell pods apart, attachments fail at any
\* command, the process dies, and pods and side-containers are started again.
THEOREM ClientsKeepInside == PodSpec => []ClientsInside
<1>1. Clients => ClientsInside
  BY DEF Clients
<1> QED
  BY <1>1, ClientsHold, PTL

\* If container names tell pods apart, dhclient moreover serves only interfaces
\* that the networksSpec of its own pod names, although without arguments it
\* takes whatever the attachments of all pods have left in the namespace.
THEOREM ClientsInTheirPods ==
  ASSUME ExactNames PROVE PodSpec => []ClientsStayInPod
<1>1. Clients /\ InterfaceInOwnNamespace => ClientsStayInPod
  <2> SUFFICES ASSUME Clients, InterfaceInOwnNamespace,
                      NEW p \in Pod, NEW c \in sidecar[p].clients, c.name # Eth0
               PROVE  iface[c.name].place = p /\ \E e \in NetworksSpec[p] : e.portName = c.name
    BY DEF Clients, ClientsInside, ClientsStayInPod
  <2>1. iface[c.name].place = p
    BY DEF Clients, ClientsInside
  <2>2. c.name \in PortName
    BY DEF Clients, PodTypeOK, Sidecar
  <2> QED
    BY <2>1, <2>2 DEF InterfaceInOwnNamespace
<1>2. PodSpec => []InterfaceInOwnNamespace
  BY SidecarsOnlyLook, OwnNamespaces, PTL DEF FairSpec
<1> QED
  BY <1>1, <1>2, ClientsHold, PTL

\* Beside side-containers, too, goroutines find their pods.
THEOREM PodsServedBySidecars ==
  ASSUME SleepsSuffice PROVE PodSpec => []GoroutineServesItsPod
<1> QED
  BY SidecarsOnlyLook, GoroutinesFindTheirPods, PTL DEF FairSpec

=============================================================================
