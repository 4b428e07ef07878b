------------------------- MODULE DevicePluginProofs -------------------------
(***************************************************************************)
(* Proofs about DevicePlugin, for every set of pods, names and ports, every *)
(* size of the pools, number of tries and environment.                     *)
(***************************************************************************)
EXTENDS DevicePlugin, TLAPS

(***************************************************************************)
(* Typing                                                                  *)
(***************************************************************************)

\* What is in the pools and records has the types the variables need.
LEMMA DataTypes ==
  /\ NoInterface \in Interface
  /\ NewInterface \in Interface
  /\ NoLocal \in Local
  /\ \A d \in MainDevices : [NoLocal EXCEPT !.device = d] \in Local
  /\ \A e \in Entry : /\ e.portName \in PortName
                      /\ e.portID \in PortID
                      /\ e.macAddress \in MacAddress
<1>1. NoInterface \in Interface
  BY DEF NoInterface, Interface
<1>3. NewInterface \in Interface
  BY DEF NewInterface, Interface
<1>4. NoLocal \in Local
  BY DEF NoLocal, Local
<1>5. \A d \in MainDevices : [NoLocal EXCEPT !.device = d] \in Local
  BY DEF NoLocal, Local
<1>6. \A e \in Entry : /\ e.portName \in PortName
                       /\ e.portID \in PortID
                       /\ e.macAddress \in MacAddress
  BY DEF PortName, PortID, MacAddress
<1> QED
  BY <1>1, <1>3, <1>4, <1>5, <1>6

LEMMA TypeInit == Init => TypeOK
<1> SUFFICES ASSUME Init PROVE TypeOK
  OBVIOUS
<1>1. \A g \in Pod : local[g].tries < Tries
  BY BoundAssumption DEF Init, NoLocal
<1>2. pc \in [Pod -> Label] /\ local \in [Pod -> Local] /\ iface \in [PortName -> Interface]
  BY DataTypes DEF Init, Label
<1> QED
  BY <1>1, <1>2 DEF Init, TypeOK

\* The kubelet, the API server and Docker.
LEMMA TypeNode ==
  ASSUME TypeOK, NEW p \in Pod, Node(p) \/ WriteCheckpoint
  PROVE  TypeOK'
<1> USE DEF TypeOK
<1>1. CASE SchedulePlain(p)
  BY <1>1 DEF SchedulePlain, kubeletVars, nodeVars, goroutineVars
<1>2. CASE Allocate(p)
  <2>1. PICK d \in Free("main"), o \in Free("overlay") :
          /\ alloc' = Held \cup {[resource |-> "main", device |-> d, pod |-> p],
                                 [resource |-> "overlay", device |-> o, pod |-> p]}
          /\ local' = [local EXCEPT ![p] = [NoLocal EXCEPT !.device = d]]
    BY <1>2 DEF Allocate
  <2>2. d \in MainDevices /\ o \in OverlayDevices
    BY DEF Free, Devices
  <2>3. alloc' \subseteq Allocation
    BY <2>1, <2>2 DEF Held, Allocation
  <2>4. [NoLocal EXCEPT !.device = d] \in Local /\ [NoLocal EXCEPT !.device = d].tries = 0
    BY <2>2, DataTypes DEF NoLocal
  <2>5. local' \in [Pod -> Local] /\ \A g \in Pod : local'[g].tries < Tries
    BY <2>1, <2>4, BoundAssumption
  <2>6. pc' \in [Pod -> Label]
    BY <1>2 DEF Allocate, Label
  <2> QED
    BY <1>2, <2>3, <2>5, <2>6 DEF Allocate, nodeVars
<1>3. CASE RefuseAllocate(p)
  BY <1>3 DEF RefuseAllocate, Held, nodeVars, goroutineVars
<1>4. CASE StartSandbox(p)
  BY <1>4 DEF StartSandbox, kubeletVars, apiVars, nodeVars, goroutineVars
<1>5. CASE EndPod(p)
  <2>1. \A n \in PortName : [iface[n] EXCEPT !.place = Lost] \in Interface
    BY DEF Interface
  <2>2. iface' \in [PortName -> Interface]
    BY <1>5, <2>1 DEF EndPod
  <2> QED
    BY <1>5, <2>2 DEF EndPod, kubeletVars, apiVars, goroutineVars
<1>6. CASE RemoveSandbox(p)
  BY <1>6 DEF RemoveSandbox, kubeletVars, apiVars, nodeVars, goroutineVars
<1>7. CASE EmptyAnnotation(p)
  BY <1>7 DEF EmptyAnnotation, kubeletVars, nodeVars, goroutineVars
<1>8. CASE DeletePod(p)
  BY <1>8 DEF DeletePod, kubeletVars, nodeVars, goroutineVars
<1>9. CASE WriteCheckpoint
  BY <1>9 DEF WriteCheckpoint, apiVars, nodeVars, goroutineVars
<1> QED
  BY <1>1, <1>2, <1>3, <1>4, <1>5, <1>6, <1>7, <1>8, <1>9 DEF Node

\* The local variables of one goroutine are replaced.
LEMMA LocalUpdate ==
  ASSUME TypeOK, NEW g \in Pod, NEW r \in Local, r.tries < Tries,
         local' = [local EXCEPT ![g] = r]
  PROVE  local' \in [Pod -> Local] /\ \A h \in Pod : local'[h].tries < Tries
BY DEF TypeOK

\* Each of them, of its type.
LEMMA LocalUid ==
  ASSUME TypeOK, NEW g \in Pod, NEW q \in Pod,
         local' = [local EXCEPT ![g] = [local[g] EXCEPT !.uid = q]]
  PROVE  local' \in [Pod -> Local] /\ \A h \in Pod : local'[h].tries < Tries
<1> DEFINE r == [local[g] EXCEPT !.uid = q]
<1>1. local[g] \in Local /\ local[g].tries < Tries
  BY DEF TypeOK
<1>2. r \in Local /\ r.tries < Tries
  BY <1>1 DEF Local
<1> HIDE DEF r
<1> QED
  BY <1>2, LocalUpdate DEF r

LEMMA LocalTodo ==
  ASSUME TypeOK, NEW g \in Pod, NEW S \in SUBSET Entry,
         local' = [local EXCEPT ![g] = [local[g] EXCEPT !.todo = S]]
  PROVE  local' \in [Pod -> Local] /\ \A h \in Pod : local'[h].tries < Tries
<1> DEFINE r == [local[g] EXCEPT !.todo = S]
<1>1. local[g] \in Local /\ local[g].tries < Tries
  BY DEF TypeOK
<1>2. r \in Local /\ r.tries < Tries
  BY <1>1 DEF Local
<1> HIDE DEF r
<1> QED
  BY <1>2, LocalUpdate DEF r

LEMMA LocalListed ==
  ASSUME TypeOK, NEW g \in Pod, NEW S \in SUBSET Pod,
         local' = [local EXCEPT ![g] = [local[g] EXCEPT !.listed = S]]
  PROVE  local' \in [Pod -> Local] /\ \A h \in Pod : local'[h].tries < Tries
<1> DEFINE r == [local[g] EXCEPT !.listed = S]
<1>1. local[g] \in Local /\ local[g].tries < Tries
  BY DEF TypeOK
<1>2. r \in Local /\ r.tries < Tries
  BY <1>1 DEF Local
<1> HIDE DEF r
<1> QED
  BY <1>2, LocalUpdate DEF r

LEMMA LocalPid ==
  ASSUME TypeOK, NEW g \in Pod, NEW pid \in Pod \cup {None, Dead},
         local' = [local EXCEPT ![g] = [local[g] EXCEPT !.pid = pid, !.listed = {}]]
  PROVE  local' \in [Pod -> Local] /\ \A h \in Pod : local'[h].tries < Tries
<1> DEFINE r == [local[g] EXCEPT !.pid = pid, !.listed = {}]
<1>1. local[g] \in Local /\ local[g].tries < Tries
  BY DEF TypeOK
<1>2. r \in Local /\ r.tries < Tries
  BY <1>1 DEF Local
<1> HIDE DEF r
<1> QED
  BY <1>2, LocalUpdate DEF r

LEMMA LocalTries ==
  ASSUME TypeOK, NEW g \in Pod, NEW k \in Nat, k < Tries,
         local' = [local EXCEPT ![g] = [local[g] EXCEPT !.tries = k]]
  PROVE  local' \in [Pod -> Local] /\ \A h \in Pod : local'[h].tries < Tries
<1> DEFINE r == [local[g] EXCEPT !.tries = k]
<1>1. local[g] \in Local
  BY DEF TypeOK
<1>2. r \in Local /\ r.tries < Tries
  BY <1>1 DEF Local
<1> HIDE DEF r
<1> QED
  BY <1>2, LocalUpdate DEF r

LEMMA LocalEntry ==
  ASSUME TypeOK, NEW g \in Pod, NEW S \in SUBSET Entry, NEW e \in Entry,
         local' = [local EXCEPT ![g] = [local[g] EXCEPT !.todo = S, !.entry = e]]
  PROVE  local' \in [Pod -> Local] /\ \A h \in Pod : local'[h].tries < Tries
<1> DEFINE r == [local[g] EXCEPT !.todo = S, !.entry = e]
<1>1. local[g] \in Local /\ local[g].tries < Tries
  BY DEF TypeOK
<1>2. r \in Local /\ r.tries < Tries
  BY <1>1 DEF Local
<1> HIDE DEF r
<1> QED
  BY <1>2, LocalUpdate DEF r

LEMMA LocalNoEntry ==
  ASSUME TypeOK, NEW g \in Pod,
         local' = [local EXCEPT ![g] = [local[g] EXCEPT !.entry = NoEntry]]
  PROVE  local' \in [Pod -> Local] /\ \A h \in Pod : local'[h].tries < Tries
<1> DEFINE r == [local[g] EXCEPT !.entry = NoEntry]
<1>1. local[g] \in Local /\ local[g].tries < Tries
  BY DEF TypeOK
<1>2. r \in Local /\ r.tries < Tries
  BY <1>1 DEF Local
<1> HIDE DEF r
<1> QED
  BY <1>2, LocalUpdate DEF r

\* A command of the script sets one property of one interface.
LEMMA InterfaceUpdate ==
  ASSUME TypeOK, NEW n, NEW i, n \in PortName => i \in Interface,
         iface' = [iface EXCEPT ![n] = i]
  PROVE  iface' \in [PortName -> Interface]
BY DEF TypeOK

\* The steps before attach-pod.
LEMMA TypeFinish ==
  ASSUME TypeOK, NEW g \in Pod, Finish(g) \/ Die
  PROVE  /\ pc' \in [Pod -> Label]
         /\ local' \in [Pod -> Local]
         /\ \A h \in Pod : local'[h].tries < Tries
<1>1. NoLocal \in Local /\ NoLocal.tries < Tries
  BY DataTypes, BoundAssumption DEF NoLocal
<1>2. {"idle", "done"} \subseteq Label
  BY DEF Label
<1>3. CASE Finish(g)
  BY <1>1, <1>2, <1>3 DEF TypeOK, Finish, Goto
<1>4. CASE Die
  BY <1>1, <1>2, <1>4 DEF TypeOK, Die
<1> QED
  BY <1>3, <1>4

LEMMA TypeFind ==
  ASSUME TypeOK, NEW g \in Pod, Find(g)
  PROVE  TypeOK'
<1> DEFINE Kept == UNCHANGED <<kubeletVars, apiVars, sandbox, nodeVars>>
<1>0. Kept
  BY DEF Find, FindPodUID, FindPod, ListContainers, Inspect, Retry
<1>a. ASSUME pc' \in [Pod -> Label], local' \in [Pod -> Local],
             \A h \in Pod : local'[h].tries < Tries
      PROVE  TypeOK'
  BY <1>0, <1>a DEF TypeOK, kubeletVars, apiVars, nodeVars
<1>b. CASE Finish(g) \/ Die
  BY <1>a, <1>b, TypeFinish
<1>c. \A label \in Label : Goto(g, label) => pc' \in [Pod -> Label]
  BY DEF Goto, TypeOK
<1>1. CASE Lookup(g)
  <2>1. PICK e \in checkpoint : local' = [local EXCEPT ![g].uid = e.pod]
    BY <1>1 DEF Lookup
  <2>2. e.pod \in Pod
    BY DEF TypeOK, Allocation
  <2>3. local' \in [Pod -> Local] /\ \A h \in Pod : local'[h].tries < Tries
    <3>1. local' = [local EXCEPT ![g] = [local[g] EXCEPT !.uid = e.pod]]
      BY <2>1
    <3> QED
      BY <2>2, <3>1, LocalUid
  <2> QED
    BY <1>1, <1>a, <1>c, <2>3 DEF Lookup, Label
<1>2. CASE FindPod(g) /\ ~Finish(g)
  <2>1. /\ local[g].uid \in stored
        /\ local' = [local EXCEPT ![g].todo = Annotation(local[g].uid)]
        /\ Goto(g, "list")
    BY <1>2 DEF FindPod
  <2>2. Annotation(local[g].uid) \in SUBSET Entry
    BY <2>1, PodAssumption DEF TypeOK, Annotation
  <2>3. local' \in [Pod -> Local] /\ \A h \in Pod : local'[h].tries < Tries
    <3>1. local' = [local EXCEPT ![g] = [local[g] EXCEPT !.todo = Annotation(local[g].uid)]]
      BY <2>1
    <3> QED
      BY <2>2, <3>1, LocalTodo
  <2> QED
    BY <1>a, <1>c, <2>1, <2>3 DEF Label
<1>3. CASE ListContainers(g) /\ ~Finish(g)
  <2>1. /\ local' = [local EXCEPT ![g].listed = {p \in Pod : sandbox[p] = "running"}]
        /\ Goto(g, "inspect")
    BY <1>3 DEF ListContainers
  <2>2. PICK S \in SUBSET Pod :
          local' = [local EXCEPT ![g] = [local[g] EXCEPT !.listed = S]]
    BY <2>1
  <2>3. local' \in [Pod -> Local] /\ \A h \in Pod : local'[h].tries < Tries
    BY <2>2, LocalListed
  <2> QED
    BY <1>a, <1>c, <2>1, <2>3 DEF Label
<1>4. CASE Inspect(g) /\ ~Finish(g)
  <2>1. PICK c \in local[g].listed :
          \/ /\ local' = [local EXCEPT ![g].pid = IF sandbox[c] = "running" THEN c ELSE Dead,
                                        ![g].listed = {}]
             /\ Goto(g, "next")
          \/ /\ local' = [local EXCEPT ![g].listed = @ \ {c}]
             /\ UNCHANGED pc
    BY <1>4 DEF Inspect
  <2>2. c \in Pod
    BY DEF TypeOK, Local
  <2>3. local' \in [Pod -> Local] /\ \A h \in Pod : local'[h].tries < Tries
    <3>1. CASE local' = [local EXCEPT ![g].listed = @ \ {c}]
      <4>1. local[g].listed \ {c} \in SUBSET Pod
        BY DEF TypeOK, Local
      <4>2. local' = [local EXCEPT ![g] = [local[g] EXCEPT !.listed = local[g].listed \ {c}]]
        BY <3>1
      <4> QED
        BY <4>1, <4>2, LocalListed
    <3>2. CASE local' = [local EXCEPT ![g].pid = IF sandbox[c] = "running" THEN c ELSE Dead,
                                      ![g].listed = {}]
      <4>1. PICK pid \in Pod \cup {None, Dead} :
              local' = [local EXCEPT ![g] = [local[g] EXCEPT !.pid = pid, !.listed = {}]]
        BY <2>2, <3>2
      <4> QED
        BY <4>1, LocalPid
    <3> QED
      BY <2>1, <3>1, <3>2
  <2>4. pc' \in [Pod -> Label]
    BY <2>1, <1>c DEF TypeOK, Label
  <2> QED
    BY <1>a, <2>3, <2>4
<1>5. CASE Retry(g) /\ ~Finish(g)
  <2>1. /\ local[g].tries + 1 < Tries
        /\ local' = [local EXCEPT ![g].tries = @ + 1]
        /\ Goto(g, "list")
    BY <1>5 DEF Retry
  <2>2. local' \in [Pod -> Local] /\ \A h \in Pod : local'[h].tries < Tries
    <3>1. local[g].tries + 1 \in Nat
      BY DEF TypeOK, Local
    <3>2. local' = [local EXCEPT ![g] = [local[g] EXCEPT !.tries = local[g].tries + 1]]
      BY <2>1
    <3> QED
      BY <2>1, <3>1, <3>2, LocalTries
  <2> QED
    BY <1>a, <1>c, <2>1, <2>2 DEF Label
<1> QED
  BY <1>b, <1>1, <1>2, <1>3, <1>4, <1>5 DEF Find, FindPodUID

LEMMA TypeAttach ==
  ASSUME TypeOK, NEW g \in Pod, Attach(g)
  PROVE  TypeOK'
<1>c. \A label \in Label : Goto(g, label) => pc' \in [Pod -> Label]
  BY DEF Goto, TypeOK
<1>d. {"next", "unlink", "link", "move", "address", "up", "mark"} \subseteq Label
  BY DEF Label, Script
<1>1. CASE AddPort(g)
  <2>1. PICK e \in local[g].todo :
          /\ iface' = [iface EXCEPT ![e.portName] = NewInterface]
          /\ local' = [local EXCEPT ![g].todo = @ \ {e}, ![g].entry = e]
    BY <1>1 DEF AddPort
  <2>2. e \in Entry
    BY DEF TypeOK, Local
  <2>3. local' \in [Pod -> Local] /\ \A h \in Pod : local'[h].tries < Tries
    <3>1. local[g].todo \ {e} \in SUBSET Entry
      BY DEF TypeOK, Local
    <3>2. local' = [local EXCEPT ![g] = [local[g] EXCEPT !.todo = local[g].todo \ {e},
                                                         !.entry = e]]
      BY <2>1
    <3> QED
      BY <2>2, <3>1, <3>2, LocalEntry
  <2>4. iface' \in [PortName -> Interface]
    BY <2>1, <2>2, DataTypes DEF TypeOK
  <2> QED
    BY <1>1, <1>c, <1>d, <2>3, <2>4 DEF AddPort, TypeOK, kubeletVars, apiVars
<1>2. CASE AddPortFails(g)
  <2>1. PICK e \in local[g].todo : local' = [local EXCEPT ![g].todo = @ \ {e}]
    BY <1>2 DEF AddPortFails
  <2>2. local' \in [Pod -> Local] /\ \A h \in Pod : local'[h].tries < Tries
    <3>1. local[g].todo \ {e} \in SUBSET Entry
      BY DEF TypeOK, Local
    <3>2. local' = [local EXCEPT ![g] = [local[g] EXCEPT !.todo = local[g].todo \ {e}]]
      BY <2>1
    <3> QED
      BY <3>1, <3>2, LocalTodo
  <2> QED
    BY <1>2, <2>2 DEF AddPortFails, TypeOK, kubeletVars, apiVars, nodeVars
<1>3. CASE AttachEnds(g)
  BY <1>3, TypeFinish DEF AttachEnds, TypeOK, kubeletVars, apiVars, nodeVars
<1>4. CASE Unlink(g)
  BY <1>4, <1>c, <1>d DEF Unlink, TypeOK, kubeletVars, apiVars
<1>5. CASE Link(g)
  <2>1. local[g].pid \in Pod \cup {None, Dead}
    BY DEF TypeOK, Local
  <2> QED
    BY <1>5, <1>c, <1>d, <2>1 DEF Link, TypeOK, kubeletVars, apiVars
<1>6. CASE Move(g)
  <2>1. links[Netns(g)] \in Pod
    BY <1>6 DEF Move, Reachable
  <2>2. iface' \in [PortName -> Interface]
    <3> DEFINE n == PortNameOf(g)
               i == [iface[n] EXCEPT !.place = links[Netns(g)]]
    <3>1. iface' = [iface EXCEPT ![n] = i]
      BY <1>6 DEF Move, TypeOK
    <3>2. n \in PortName => i \in Interface
      BY <2>1 DEF TypeOK, Interface
    <3> HIDE DEF n, i
    <3> QED
      BY <3>1, <3>2, InterfaceUpdate
  <2> QED
    BY <1>6, <1>c, <1>d, <2>2 DEF Move, TypeOK, kubeletVars, apiVars
<1>7. CASE SetAddress(g)
  <2>1. local[g].entry.macAddress \in MacAddress \cup {None}
    BY DataTypes DEF TypeOK, Local, NoEntry
  <2>2. iface' \in [PortName -> Interface]
    <3> DEFINE n == PortNameOf(g)
               i == [iface[n] EXCEPT !.mac = local[g].entry.macAddress]
    <3>1. iface' = [iface EXCEPT ![n] = i]
      BY <1>7 DEF SetAddress, TypeOK
    <3>2. n \in PortName => i \in Interface
      BY <2>1 DEF TypeOK, Interface
    <3> HIDE DEF n, i
    <3> QED
      BY <3>1, <3>2, InterfaceUpdate
  <2> QED
    BY <1>7, <1>c, <1>d, <2>2 DEF SetAddress, TypeOK, kubeletVars, apiVars
<1>8. CASE SetUp(g)
  <2>1. iface' \in [PortName -> Interface]
    <3> DEFINE n == PortNameOf(g)
               i == [iface[n] EXCEPT !.up = TRUE]
    <3>1. iface' = [iface EXCEPT ![n] = i]
      BY <1>8 DEF SetUp, TypeOK
    <3>2. n \in PortName => i \in Interface
      BY DEF TypeOK, Interface
    <3> HIDE DEF n, i
    <3> QED
      BY <3>1, <3>2, InterfaceUpdate
  <2> QED
    BY <1>8, <1>c, <1>d, <2>1 DEF SetUp, TypeOK, kubeletVars, apiVars
<1>9. CASE Mark(g)
  <2>1. local[g].entry.portID \in PortID \cup {None}
    BY DataTypes DEF TypeOK, Local, NoEntry
  <2>2. iface' \in [PortName -> Interface]
    <3> DEFINE n == PortNameOf(g)
               i == [iface[n] EXCEPT !.id = local[g].entry.portID]
    <3>1. iface' = [iface EXCEPT ![n] = i]
      BY <1>9 DEF Mark, TypeOK
    <3>2. n \in PortName => i \in Interface
      BY <2>1 DEF TypeOK, Interface
    <3> HIDE DEF n, i
    <3> QED
      BY <3>1, <3>2, InterfaceUpdate
  <2>3. local' \in [Pod -> Local] /\ \A h \in Pod : local'[h].tries < Tries
    <3>1. local' = [local EXCEPT ![g] = [local[g] EXCEPT !.entry = NoEntry]]
      BY <1>9 DEF Mark, TypeOK
    <3> QED
      BY <3>1, LocalNoEntry
  <2> QED
    BY <1>9, <1>c, <1>d, <2>2, <2>3 DEF Mark, TypeOK, kubeletVars, apiVars
<1>10. CASE ScriptFails(g)
  <2>1. local' \in [Pod -> Local] /\ \A h \in Pod : local'[h].tries < Tries
    <3>1. local' = [local EXCEPT ![g] = [local[g] EXCEPT !.entry = NoEntry]]
      BY <1>10 DEF ScriptFails, TypeOK
    <3> QED
      BY <3>1, LocalNoEntry
  <2> QED
    BY <1>10, <1>c, <1>d, <2>1 DEF ScriptFails, TypeOK, kubeletVars, apiVars, nodeVars
<1> QED
  BY <1>1, <1>2, <1>3, <1>4, <1>5, <1>6, <1>7, <1>8, <1>9, <1>10 DEF Attach

LEMMA TypeNext == TypeOK /\ [Next]_vars => TypeOK'
<1> SUFFICES ASSUME TypeOK, [Next]_vars PROVE TypeOK'
  OBVIOUS
<1>1. ASSUME NEW p \in Pod, Node(p) \/ Find(p) \/ Attach(p)
      PROVE  TypeOK'
  BY <1>1, TypeNode, TypeFind, TypeAttach
<1>2. CASE WriteCheckpoint
  BY <1>2 DEF WriteCheckpoint, TypeOK, apiVars, nodeVars, goroutineVars
<1>3. CASE Crash
  <2>1. PICK g \in Pod : TRUE
    BY <1>3 DEF Crash
  <2> QED
    BY <1>3, <2>1, TypeFinish DEF Crash, TypeOK, kubeletVars, apiVars, nodeVars
<1>4. CASE UNCHANGED vars
  BY <1>4 DEF vars, TypeOK
<1> QED
  BY <1>1, <1>2, <1>3, <1>4 DEF Next

\* The state of node, cluster and goroutines keeps its type, and no search for
\* a sandbox makes more tries than the code's loop allows.
THEOREM NodeTypeCorrect == Spec => []TypeOK
<1>1. Init => TypeOK
  BY TypeInit
<1>2. TypeOK /\ [Next]_vars => TypeOK'
  BY TypeNext
<1> QED
  BY <1>1, <1>2, PTL DEF Spec

-----------------------------------------------------------------------------
(* Wiring: what holds of links, scripts and interfaces                     *)

\* Two pods never have one name.
LEMMA NamesTellApart ==
  ASSUME ExactNames, NEW p \in Pod, NEW q \in Pod, NameOf[p] = NameOf[q]
  PROVE  p = q
<1>1. <<NameOf[p], NameOf[q]>> \in Prefix
  BY PodAssumption, PrefixAssumption
<1>2. Contains(q, NameOf[p])
  BY <1>1 DEF Contains
<1> QED
  BY <1>2 DEF ExactNames

\* The entry of a script names an interface.
LEMMA ScriptEntry ==
  ASSUME TypeOK, WorkOfOnePod, NEW g \in Pod, pc[g] \in Script
  PROVE  /\ local[g].uid \in Pod
         /\ local[g].entry \in NetworksSpec[local[g].uid]
         /\ local[g].entry \in Entry
         /\ PortNameOf(g) \in PortName
         /\ Netns(g) \in Name
<1>1. local[g].uid \in Pod /\ local[g].entry \in NetworksSpec[local[g].uid]
  BY DEF WorkOfOnePod, WorkOf, Script
<1>2. local[g].entry \in Entry
  BY <1>1, PodAssumption
<1>3. PortNameOf(g) \in PortName /\ Netns(g) \in Name
  BY <1>1, <1>2, DataTypes, PodAssumption DEF PortNameOf, Netns
<1> QED
  BY <1>1, <1>2, <1>3

\* An interface that is marked as before needs no new witness.
LEMMA MarkedStays ==
  ASSUME MarkedWhenReady, \A n \in PortName : iface'[n].id # None => iface'[n] = iface[n]
  PROVE  MarkedWhenReady'
<1> SUFFICES ASSUME NEW n \in PortName, iface'[n].id # None
             PROVE  Ready(n, iface'[n])
  BY DEF MarkedWhenReady
<1>1. iface'[n] = iface[n]
  OBVIOUS
<1> QED
  BY <1>1 DEF MarkedWhenReady

LEMMA WiringInit == Init => Wiring
<1> SUFFICES ASSUME Init PROVE Wiring
  OBVIOUS
<1>1. \A g \in Pod : pc[g] = "idle" /\ local[g] = NoLocal
  BY DEF Init
<1>2. WorkOfOnePod
  BY <1>1 DEF WorkOfOnePod, WorkOf, NoLocal, Script
<1>3. ScriptsApart /\ ScriptProgress
  BY <1>1 DEF ScriptsApart, ScriptProgress, Script
<1>4. LinksLeadHome
  BY PodAssumption DEF Init, LinksLeadHome
<1>5. InterfaceInOwnNamespace /\ MarkedWhenReady
  BY PodAssumption DEF Init, InterfaceInOwnNamespace, MarkedWhenReady, NoInterface
<1> QED
  BY <1>2, <1>3, <1>4, <1>5 DEF Wiring

\* A step of one goroutine outside of the script, or out of it.
LEMMA WiringElsewhere ==
  ASSUME Wiring, NEW g \in Pod, UNCHANGED <<iface, links>>,
         \A h \in Pod \ {g} : pc'[h] = pc[h] /\ local'[h] = local[h],
         pc'[g] \notin Script, WorkOf(g)'
  PROVE  Wiring'
<1>1. WorkOfOnePod'
  BY DEF Wiring, WorkOfOnePod, WorkOf
<1>2. LinksLeadHome'
  BY DEF Wiring, LinksLeadHome
<1>3. ScriptsApart'
  BY DEF Wiring, ScriptsApart, PortNameOf
<1>4. ScriptProgress'
  BY DEF Wiring, ScriptProgress, Progress, PortNameOf
<1>5. InterfaceInOwnNamespace' /\ MarkedWhenReady'
  BY DEF Wiring, InterfaceInOwnNamespace, MarkedWhenReady
<1> QED
  BY <1>1, <1>2, <1>3, <1>4, <1>5 DEF Wiring

\* A goroutine that ends, or all of them.
LEMMA WiringFinish ==
  ASSUME TypeOK, Wiring, NEW g \in Pod, Finish(g) \/ Die, UNCHANGED <<iface, links>>
  PROVE  Wiring'
<1>1. CASE Finish(g)
  <2>1. pc'[g] = "done" /\ local'[g] = NoLocal
    BY <1>1 DEF Finish, Goto, TypeOK
  <2>2. \A h \in Pod \ {g} : pc'[h] = pc[h] /\ local'[h] = local[h]
    BY <1>1 DEF Finish, Goto, TypeOK
  <2>3. WorkOf(g)' /\ pc'[g] \notin Script
    BY <2>1 DEF WorkOf, NoLocal, Script
  <2> QED
    BY <2>2, <2>3, WiringElsewhere
<1>2. CASE Die
  <2>1. \A h \in Pod : pc'[h] \in {"idle", "done"} /\ local'[h] = NoLocal
    BY <1>2 DEF Die
  <2>2. WorkOfOnePod'
    BY <2>1 DEF WorkOfOnePod, WorkOf, NoLocal, Script
  <2>3. ScriptsApart' /\ ScriptProgress'
    BY <2>1 DEF ScriptsApart, ScriptProgress, Script
  <2>4. LinksLeadHome' /\ InterfaceInOwnNamespace' /\ MarkedWhenReady'
    BY DEF Wiring, LinksLeadHome, InterfaceInOwnNamespace, MarkedWhenReady
  <2> QED
    BY <2>2, <2>3, <2>4 DEF Wiring
<1> QED
  BY <1>1, <1>2

\* Nothing that the invariant is about changes.
LEMMA WiringUnchanged ==
  ASSUME Wiring, UNCHANGED <<iface, links, pc, local>>
  PROVE  Wiring'
BY DEF Wiring, WorkOfOnePod, WorkOf, LinksLeadHome, ScriptsApart, ScriptProgress,
       Progress, PortNameOf, InterfaceInOwnNamespace, MarkedWhenReady

\* An interface destroyed with its namespace is not passed to any other.
LEMMA WiringEndPod ==
  ASSUME TypeOK, Wiring, NEW p \in Pod, EndPod(p)
  PROVE  Wiring'
<1>1. UNCHANGED <<links, pc, local>>
  BY DEF EndPod, goroutineVars
<1>2. \A n \in PortName :
        /\ iface'[n].id = iface[n].id
        /\ iface'[n].mac = iface[n].mac
        /\ iface'[n].up = iface[n].up
        /\ iface'[n].place = IF iface[n].place = p THEN Lost ELSE iface[n].place
  BY DEF EndPod, TypeOK, Interface
<1>3. Lost \notin Pod /\ Host \notin Pod
  BY PodAssumption
<1>4. WorkOfOnePod' /\ LinksLeadHome' /\ ScriptsApart'
  BY <1>1 DEF Wiring, WorkOfOnePod, WorkOf, LinksLeadHome, ScriptsApart, PortNameOf
<1>5. ScriptProgress'
  <2> SUFFICES ASSUME NEW g \in Pod, pc'[g] \in Script
               PROVE  Progress(g, iface[PortNameOf(g)])'
    BY DEF ScriptProgress
  <2>1. PortNameOf(g) \in PortName /\ Progress(g, iface[PortNameOf(g)])
    BY <1>1, ScriptEntry DEF Wiring, ScriptProgress
  <2>2. PortNameOf(g)' = PortNameOf(g)
    BY <1>1 DEF PortNameOf
  <2> QED
    BY <1>1, <1>2, <1>3, <2>1, <2>2 DEF Progress
<1>6. InterfaceInOwnNamespace'
  BY <1>2, <1>3 DEF Wiring, InterfaceInOwnNamespace
<1>7. MarkedWhenReady'
  <2> SUFFICES ASSUME NEW n \in PortName, iface'[n].id # None
               PROVE  Ready(n, iface'[n])
    BY DEF MarkedWhenReady
  <2>0. PICK q \in Pod : \E e \in NetworksSpec[q] :
          /\ e.portName = n
          /\ iface[n] \in [place : {q, Lost}, mac : {e.macAddress}, up : {TRUE}, id : {e.portID}]
    BY <1>2 DEF Wiring, MarkedWhenReady, Ready
  <2>1. PICK e \in NetworksSpec[q] :
          /\ e.portName = n
          /\ iface[n] \in [place : {q, Lost}, mac : {e.macAddress}, up : {TRUE}, id : {e.portID}]
    BY <2>0
  <2>2. iface'[n] = [iface[n] EXCEPT !.place = Lost] \/ iface'[n] = iface[n]
    BY DEF EndPod
  <2>3. iface'[n] \in [place : {q, Lost}, mac : {e.macAddress}, up : {TRUE}, id : {e.portID}]
    BY <2>1, <2>2
  <2> QED
    BY <2>1, <2>3 DEF Ready
<1> QED
  BY <1>4, <1>5, <1>6, <1>7 DEF Wiring

LEMMA WiringNode ==
  ASSUME TypeOK, Wiring, NEW p \in Pod, Node(p)
  PROVE  Wiring'
<1>1. CASE Allocate(p)
  <2>1. UNCHANGED <<iface, links>>
    BY <1>1 DEF Allocate, nodeVars
  <2>2. \A h \in Pod \ {p} : pc'[h] = pc[h] /\ local'[h] = local[h]
    BY <1>1 DEF Allocate, TypeOK
  <2>3. pc'[p] = "sleep" /\ local'[p].todo = {}
    BY <1>1 DEF Allocate, TypeOK, NoLocal
  <2>4. WorkOf(p)' /\ pc'[p] \notin Script
    BY <2>3 DEF WorkOf, Script
  <2> QED
    BY <2>1, <2>2, <2>4, WiringElsewhere
<1>2. CASE EndPod(p)
  BY <1>2, WiringEndPod
<1>3. CASE ~Allocate(p) /\ ~EndPod(p)
  <2>1. UNCHANGED <<iface, links, pc, local>>
    BY <1>3 DEF Node, SchedulePlain, RefuseAllocate, StartSandbox, RemoveSandbox,
                EmptyAnnotation, DeletePod, nodeVars, goroutineVars
  <2> QED
    BY <2>1, WiringUnchanged
<1> QED
  BY <1>1, <1>2, <1>3

LEMMA WiringFind ==
  ASSUME ExactNames, TypeOK, Wiring, NEW g \in Pod, Find(g)
  PROVE  Wiring'
<1>0. UNCHANGED <<iface, links>>
  BY DEF Find, FindPodUID, FindPod, ListContainers, Inspect, Retry, nodeVars
<1>a. CASE Finish(g) \/ Die
  BY <1>0, <1>a, WiringFinish
<1>b. ASSUME \A h \in Pod \ {g} : pc'[h] = pc[h] /\ local'[h] = local[h],
             pc'[g] \notin Script, WorkOf(g)'
      PROVE  Wiring'
  BY <1>0, <1>b, WiringElsewhere
<1>c. WorkOf(g)
  BY DEF Wiring, WorkOfOnePod
<1>1. CASE Lookup(g) /\ pc[g] = "sleep"
  <2>1. PICK e \in checkpoint : local' = [local EXCEPT ![g].uid = e.pod]
    BY <1>1 DEF Lookup
  <2>2. e.pod \in Pod
    BY DEF TypeOK, Allocation
  <2>3. /\ \A h \in Pod \ {g} : pc'[h] = pc[h] /\ local'[h] = local[h]
        /\ pc'[g] = "pod"
        /\ local'[g].uid = e.pod
        /\ local'[g].todo = local[g].todo
    BY <1>1, <2>1 DEF Lookup, Goto, TypeOK, Local
  <2>4. WorkOf(g)' /\ pc'[g] \notin Script
    BY <1>1, <1>c, <2>2, <2>3 DEF WorkOf, Script
  <2> QED
    BY <1>b, <2>3, <2>4
<1>2. CASE FindPod(g) /\ ~Finish(g)
  <2>1. /\ pc[g] = "pod"
        /\ local[g].uid \in stored
        /\ local' = [local EXCEPT ![g].todo = Annotation(local[g].uid)]
        /\ pc' = [pc EXCEPT ![g] = "list"]
    BY <1>2 DEF FindPod, Goto
  <2>2. local[g].uid \in Pod
    BY <2>1 DEF TypeOK
  <2>3. Annotation(local[g].uid) \subseteq NetworksSpec[local[g].uid]
    BY DEF Annotation
  <2>4. /\ \A h \in Pod \ {g} : pc'[h] = pc[h] /\ local'[h] = local[h]
        /\ pc'[g] = "list"
        /\ local'[g].uid = local[g].uid
        /\ local'[g].todo = Annotation(local[g].uid)
    BY <2>1 DEF TypeOK, Local
  <2>5. WorkOf(g)' /\ pc'[g] \notin Script
    BY <2>2, <2>3, <2>4 DEF WorkOf, Script
  <2> QED
    BY <1>b, <2>4, <2>5
<1>3. CASE ListContainers(g) /\ ~Finish(g)
  <2>1. /\ pc[g] = "list"
        /\ local' = [local EXCEPT ![g].listed = {p \in Pod : sandbox[p] = "running"}]
        /\ pc' = [pc EXCEPT ![g] = "inspect"]
    BY <1>3 DEF ListContainers, Goto
  <2>2. /\ \A h \in Pod \ {g} : pc'[h] = pc[h] /\ local'[h] = local[h]
        /\ pc'[g] = "inspect"
        /\ local'[g].uid = local[g].uid
        /\ local'[g].todo = local[g].todo
    BY <2>1 DEF TypeOK, Local
  <2>3. WorkOf(g)' /\ pc'[g] \notin Script
    BY <1>c, <2>1, <2>2 DEF WorkOf, Script
  <2> QED
    BY <1>b, <2>2, <2>3
<1>4. CASE Inspect(g) /\ ~Finish(g)
  <2>1. PICK c \in local[g].listed :
          \/ /\ Contains(c, NameOf[local[g].uid])
             /\ local' = [local EXCEPT ![g].pid = IF sandbox[c] = "running" THEN c ELSE Dead,
                                       ![g].listed = {}]
             /\ pc' = [pc EXCEPT ![g] = "next"]
          \/ /\ local' = [local EXCEPT ![g].listed = @ \ {c}]
             /\ UNCHANGED pc
    BY <1>4 DEF Inspect, Goto
  <2>2. c \in Pod /\ pc[g] = "inspect" /\ local[g].uid \in Pod
    BY <1>4, <1>c DEF TypeOK, Local, Inspect, WorkOf
  <2>3. /\ \A h \in Pod \ {g} : pc'[h] = pc[h] /\ local'[h] = local[h]
        /\ local'[g].uid = local[g].uid
        /\ local'[g].todo = local[g].todo
    <3>1. CASE local' = [local EXCEPT ![g].listed = @ \ {c}] /\ UNCHANGED pc
      BY <3>1 DEF TypeOK, Local
    <3>2. CASE /\ local' = [local EXCEPT
                              ![g].pid = IF sandbox[c] = "running" THEN c ELSE Dead,
                              ![g].listed = {}]
               /\ pc' = [pc EXCEPT ![g] = "next"]
      BY <3>2 DEF TypeOK, Local
    <3> QED
      BY <2>1, <3>1, <3>2
  <2>4. CASE UNCHANGED pc
    <3>1. WorkOf(g)' /\ pc'[g] \notin Script
      BY <1>c, <2>2, <2>3, <2>4 DEF WorkOf, Script
    <3> QED
      BY <1>b, <2>3, <3>1
  <2>5. CASE /\ Contains(c, NameOf[local[g].uid])
             /\ local' = [local EXCEPT ![g].pid = IF sandbox[c] = "running" THEN c ELSE Dead,
                                       ![g].listed = {}]
             /\ pc' = [pc EXCEPT ![g] = "next"]
    <3>1. local[g].uid = c
      BY <2>2, <2>5 DEF ExactNames
    <3>2. local'[g].pid \in {local[g].uid, Dead} /\ pc'[g] = "next"
      BY <2>5, <3>1 DEF TypeOK, Local
    <3>3. WorkOf(g)' /\ pc'[g] \notin Script
      BY <1>c, <2>2, <2>3, <3>2 DEF WorkOf, Script
    <3> QED
      BY <1>b, <2>3, <3>3
  <2> QED
    BY <2>1, <2>4, <2>5
<1>5. CASE Retry(g) /\ ~Finish(g)
  <2>1. /\ pc[g] = "inspect"
        /\ local' = [local EXCEPT ![g].tries = @ + 1]
        /\ pc' = [pc EXCEPT ![g] = "list"]
    BY <1>5 DEF Retry, Goto
  <2>2. /\ \A h \in Pod \ {g} : pc'[h] = pc[h] /\ local'[h] = local[h]
        /\ pc'[g] = "list"
        /\ local'[g].uid = local[g].uid
        /\ local'[g].todo = local[g].todo
    BY <2>1 DEF TypeOK, Local
  <2>3. WorkOf(g)' /\ pc'[g] \notin Script
    BY <1>c, <2>1, <2>2 DEF WorkOf, Script
  <2> QED
    BY <1>b, <2>2, <2>3
<1> QED
  BY <1>a, <1>1, <1>2, <1>3, <1>4, <1>5 DEF Find, FindPodUID

\* A script leaves off: with its last command, at a failure, or for want of
\* another entry.  Only its own interface may change, and not its place.
LEMMA WiringNextEntry ==
  ASSUME TypeOK, Wiring, NEW g \in Pod, ScriptFails(g) \/ AddPortFails(g)
  PROVE  Wiring'
<1>1. UNCHANGED <<iface, links>>
  BY DEF ScriptFails, AddPortFails, nodeVars
<1>2. WorkOf(g) /\ pc[g] \in Script \cup {"next"}
  BY DEF Wiring, WorkOfOnePod, ScriptFails, AddPortFails
<1>3. /\ \A h \in Pod \ {g} : pc'[h] = pc[h] /\ local'[h] = local[h]
      /\ pc'[g] = "next"
      /\ local'[g].uid = local[g].uid
      /\ local'[g].pid = local[g].pid
      /\ local'[g].todo \subseteq local[g].todo
  <2>1. CASE ScriptFails(g)
    BY <2>1 DEF ScriptFails, Goto, TypeOK, Local
  <2>2. CASE AddPortFails(g)
    BY <2>2 DEF AddPortFails, TypeOK, Local
  <2> QED
    BY <2>1, <2>2
<1>4. WorkOf(g)' /\ pc'[g] \notin Script
  BY <1>2, <1>3 DEF WorkOf, Script
<1> QED
  BY <1>1, <1>3, <1>4, WiringElsewhere

\* The port that is added belongs to no other script.
LEMMA WiringAddPort ==
  ASSUME TypeOK, Wiring, NEW g \in Pod, AddPort(g)
  PROVE  Wiring'
<1>1. PICK e \in local[g].todo :
        /\ iface[e.portName].place = None
        /\ iface' = [iface EXCEPT ![e.portName] = NewInterface]
        /\ local' = [local EXCEPT ![g].todo = @ \ {e}, ![g].entry = e]
  BY DEF AddPort
<1>2. /\ pc[g] = "next"
      /\ pc' = [pc EXCEPT ![g] = "unlink"]
      /\ UNCHANGED links
  BY DEF AddPort, Goto
<1>3. WorkOf(g) /\ e \in Entry /\ e.portName \in PortName
  BY <1>1, DataTypes DEF Wiring, WorkOfOnePod, TypeOK, Local
<1>4. local[g].uid \in Pod /\ e \in NetworksSpec[local[g].uid]
  BY <1>1, <1>3 DEF WorkOf
<1>5. /\ \A h \in Pod \ {g} : pc'[h] = pc[h] /\ local'[h] = local[h]
      /\ pc'[g] = "unlink"
      /\ local'[g].uid = local[g].uid
      /\ local'[g].pid = local[g].pid
      /\ local'[g].todo \subseteq local[g].todo
      /\ local'[g].entry = e
  BY <1>1, <1>2 DEF TypeOK, Local
<1>6. WorkOfOnePod'
  <2>1. WorkOf(g)'
    BY <1>2, <1>3, <1>4, <1>5 DEF WorkOf, Script
  <2> QED
    BY <1>5, <2>1 DEF Wiring, WorkOfOnePod, WorkOf
<1>7. LinksLeadHome'
  BY <1>2 DEF Wiring, LinksLeadHome
<1>8. \A h \in Pod \ {g} : pc[h] \in Script => PortNameOf(h) # e.portName
  <2> SUFFICES ASSUME NEW h \in Pod \ {g}, pc[h] \in Script, PortNameOf(h) = e.portName
               PROVE  FALSE
    OBVIOUS
  <2>1. Progress(h, iface[e.portName]) /\ local[h].uid \in Pod
    BY ScriptEntry DEF Wiring, ScriptProgress
  <2>2. iface[e.portName].place \in {local[h].uid, Lost, Host}
    BY <2>1 DEF Progress, Script
  <2> QED
    BY <1>1, <2>1, <2>2, PodAssumption DEF None, Lost, Host
<1>9. ScriptsApart'
  BY <1>5, <1>8 DEF Wiring, ScriptsApart, PortNameOf
<1>10. \A n \in PortName :
         iface'[n] = IF n = e.portName THEN NewInterface ELSE iface[n]
  BY <1>1, <1>3 DEF TypeOK
<1>11. ScriptProgress'
  <2> SUFFICES ASSUME NEW h \in Pod, pc'[h] \in Script
               PROVE  Progress(h, iface[PortNameOf(h)])'
    BY DEF ScriptProgress
  <2>1. CASE h = g
    <3>1. PortNameOf(h)' = e.portName
      BY <1>5, <2>1 DEF PortNameOf
    <3>2. iface'[e.portName] = NewInterface
      BY <1>3, <1>10
    <3> QED
      BY <1>5, <2>1, <3>1, <3>2 DEF Progress, NewInterface
  <2>2. CASE h # g
    <3>1. pc'[h] = pc[h] /\ local'[h] = local[h] /\ PortNameOf(h)' = PortNameOf(h)
      BY <1>5, <2>2 DEF PortNameOf
    <3>2. PortNameOf(h) \in PortName /\ PortNameOf(h) # e.portName
      BY <1>8, <2>2, <3>1, ScriptEntry DEF Wiring
    <3>3. Progress(h, iface[PortNameOf(h)])
      BY <3>1 DEF Wiring, ScriptProgress
    <3> QED
      BY <1>10, <3>1, <3>2, <3>3 DEF Progress
  <2> QED
    BY <2>1, <2>2
<1>12. InterfaceInOwnNamespace'
  BY <1>10, PodAssumption DEF Wiring, InterfaceInOwnNamespace, NewInterface
<1>13. MarkedWhenReady'
  <2>1. \A n \in PortName : iface'[n].id # None => iface'[n] = iface[n]
    BY <1>10 DEF NewInterface
  <2> QED
    BY <2>1, MarkedStays DEF Wiring
<1> QED
  BY <1>6, <1>7, <1>9, <1>11, <1>12, <1>13 DEF Wiring

\* A link is removed, or made to the sandbox of the pod of its name.
LEMMA WiringLink ==
  ASSUME TypeOK, Wiring, NEW g \in Pod, Unlink(g) \/ Link(g)
  PROVE  Wiring'
<1>1. /\ pc[g] \in {"unlink", "link"}
      /\ pc' = [pc EXCEPT ![g] = IF pc[g] = "unlink" THEN "link" ELSE "move"]
      /\ UNCHANGED <<iface, local>>
      /\ links' = [links EXCEPT ![Netns(g)] = IF pc[g] = "unlink" THEN None
                                              ELSE local[g].pid]
  BY DEF Unlink, Link, Goto
<1>2. pc[g] \in Script /\ pc'[g] \in {"link", "move"}
  BY <1>1 DEF TypeOK, Script
<1>3. \A h \in Pod \ {g} : pc'[h] = pc[h]
  BY <1>1 DEF TypeOK
<1>4. WorkOfOnePod'
  BY <1>1, <1>2, <1>3 DEF Wiring, WorkOfOnePod, WorkOf, Script
<1>5. LinksLeadHome'
  <2>1. local[g].uid \in Pod /\ local[g].pid \in {local[g].uid, Dead} /\ Netns(g) \in Name
    BY <1>2, ScriptEntry DEF Wiring, WorkOfOnePod, WorkOf
  <2>2. None \notin Pod /\ Dead \notin Pod
    BY PodAssumption
  <2> QED
    BY <1>1, <2>1, <2>2 DEF Wiring, LinksLeadHome, TypeOK, Netns
<1>6. ScriptsApart'
  BY <1>1, <1>2, <1>3 DEF Wiring, ScriptsApart, PortNameOf, Script
<1>7. ScriptProgress'
  BY <1>1, <1>2, <1>3 DEF Wiring, ScriptProgress, Progress, PortNameOf, Script
<1>8. InterfaceInOwnNamespace' /\ MarkedWhenReady'
  BY <1>1 DEF Wiring, InterfaceInOwnNamespace, MarkedWhenReady
<1> QED
  BY <1>4, <1>5, <1>6, <1>7, <1>8 DEF Wiring

\* A command changes the interface of its script, which is not marked yet.
LEMMA WiringChange ==
  ASSUME TypeOK, Wiring, NEW g \in Pod, pc[g] \in Script,
         NEW label \in {"address", "up", "mark"}, pc' = [pc EXCEPT ![g] = label],
         UNCHANGED <<links, local>>,
         \A n \in PortName \ {PortNameOf(g)} : iface'[n] = iface[n],
         iface'[PortNameOf(g)].id = None,
         iface'[PortNameOf(g)].place \in {local[g].uid, Lost},
         label \in {"up", "mark"} =>
           iface'[PortNameOf(g)].mac = local[g].entry.macAddress,
         label = "mark" => iface'[PortNameOf(g)].up
  PROVE  Wiring'
<1>1. /\ PortNameOf(g) \in PortName
      /\ local[g].uid \in Pod
      /\ local[g].entry \in NetworksSpec[local[g].uid]
  BY ScriptEntry DEF Wiring
<1>2. pc'[g] = label /\ label \in Script /\ \A h \in Pod \ {g} : pc'[h] = pc[h]
  BY DEF TypeOK, Script
<1>3. WorkOfOnePod'
  BY <1>2 DEF Wiring, WorkOfOnePod, WorkOf, Script
<1>4. LinksLeadHome'
  BY DEF Wiring, LinksLeadHome
<1>5. ScriptsApart'
  BY <1>2 DEF Wiring, ScriptsApart, PortNameOf
<1>6. ScriptProgress'
  <2> SUFFICES ASSUME NEW h \in Pod, pc'[h] \in Script
               PROVE  Progress(h, iface[PortNameOf(h)])'
    BY DEF ScriptProgress
  <2>1. pc[h] \in Script /\ PortNameOf(h)' = PortNameOf(h)
    BY <1>2 DEF PortNameOf
  <2>2. CASE h = g
    BY <1>2, <2>1, <2>2 DEF Progress
  <2>3. CASE h # g
    <3>1. PortNameOf(h) \in PortName /\ PortNameOf(h) # PortNameOf(g)
      BY <2>1, <2>3, ScriptEntry DEF Wiring, ScriptsApart
    <3>2. Progress(h, iface[PortNameOf(h)]) /\ iface'[PortNameOf(h)] = iface[PortNameOf(h)]
      BY <2>1, <3>1 DEF Wiring, ScriptProgress
    <3> QED
      BY <1>2, <2>1, <2>3, <3>2 DEF Progress
  <2> QED
    BY <2>2, <2>3
<1>7. InterfaceInOwnNamespace'
  <2>1. iface'[PortNameOf(g)].place \in Pod => iface'[PortNameOf(g)].place = local[g].uid
    BY PodAssumption
  <2> QED
    BY <1>1, <2>1 DEF Wiring, InterfaceInOwnNamespace, PortNameOf
<1>8. MarkedWhenReady'
  BY <1>1, MarkedStays DEF Wiring
<1> QED
  BY <1>3, <1>4, <1>5, <1>6, <1>7, <1>8 DEF Wiring

\* The link leads to the sandbox of the pod the entry is of.
LEMMA WiringMove ==
  ASSUME ExactNames, TypeOK, Wiring, NEW g \in Pod, Move(g)
  PROVE  Wiring'
<1>1. pc[g] = "move" /\ pc[g] \in Script
  BY DEF Move, Script
<1>2. /\ PortNameOf(g) \in PortName
      /\ iface[PortNameOf(g)] \in Interface
      /\ Progress(g, iface[PortNameOf(g)])
      /\ local[g].uid \in Pod
      /\ Netns(g) \in Name
  BY <1>1, ScriptEntry DEF TypeOK, Wiring, ScriptProgress
<1>3. links[Netns(g)] \in Pod
  BY DEF Move, Reachable
<1>4. NameOf[links[Netns(g)]] = NameOf[local[g].uid]
  BY <1>2, <1>3 DEF Wiring, LinksLeadHome, Netns
<1>5. links[Netns(g)] = local[g].uid
  BY <1>2, <1>3, <1>4, NamesTellApart
<1>6. /\ \A n \in PortName \ {PortNameOf(g)} : iface'[n] = iface[n]
      /\ iface'[PortNameOf(g)].place = local[g].uid
      /\ iface'[PortNameOf(g)].id = None
  BY <1>2, <1>5 DEF Move, TypeOK, Interface, Progress
<1>7. pc' = [pc EXCEPT ![g] = "address"] /\ UNCHANGED <<links, local>>
  BY DEF Move, Goto
<1> QED
  BY <1>1, <1>6, <1>7, WiringChange

\* MAC and state are set in the namespace the interface was moved to.
LEMMA WiringConfigure ==
  ASSUME TypeOK, Wiring, NEW g \in Pod, SetAddress(g) \/ SetUp(g)
  PROVE  Wiring'
<1>1. pc[g] \in {"address", "up"} /\ pc[g] \in Script /\ UNCHANGED <<links, local>>
  BY DEF SetAddress, SetUp, Script
<1>2. /\ PortNameOf(g) \in PortName
      /\ iface[PortNameOf(g)] \in Interface
      /\ Progress(g, iface[PortNameOf(g)])
  BY <1>1, ScriptEntry DEF TypeOK, Wiring, ScriptProgress
<1>3. CASE SetAddress(g)
  <2>1. pc[g] = "address" /\ pc' = [pc EXCEPT ![g] = "up"]
    BY <1>3 DEF SetAddress, Goto
  <2>2. /\ \A n \in PortName \ {PortNameOf(g)} : iface'[n] = iface[n]
        /\ iface'[PortNameOf(g)].place = iface[PortNameOf(g)].place
        /\ iface'[PortNameOf(g)].id = iface[PortNameOf(g)].id
        /\ iface'[PortNameOf(g)].mac = local[g].entry.macAddress
    BY <1>2, <1>3 DEF SetAddress, TypeOK, Interface
  <2> QED
    BY <1>1, <1>2, <2>1, <2>2, WiringChange DEF Progress
<1>4. CASE SetUp(g)
  <2>1. pc[g] = "up" /\ pc' = [pc EXCEPT ![g] = "mark"]
    BY <1>4 DEF SetUp, Goto
  <2>2. /\ \A n \in PortName \ {PortNameOf(g)} : iface'[n] = iface[n]
        /\ iface'[PortNameOf(g)].place = iface[PortNameOf(g)].place
        /\ iface'[PortNameOf(g)].id = iface[PortNameOf(g)].id
        /\ iface'[PortNameOf(g)].mac = iface[PortNameOf(g)].mac
        /\ iface'[PortNameOf(g)].up
    BY <1>2, <1>4 DEF SetUp, TypeOK, Interface
  <2> QED
    BY <1>1, <1>2, <2>1, <2>2, WiringChange DEF Progress
<1> QED
  BY <1>3, <1>4

\* The interface gets its port's ID when it is complete.
LEMMA WiringMark ==
  ASSUME TypeOK, Wiring, NEW g \in Pod, Mark(g)
  PROVE  Wiring'
<1> DEFINE n == PortNameOf(g)
           e == local[g].entry
           q == local[g].uid
<1>1. pc[g] = "mark" /\ pc[g] \in Script
  BY DEF Mark, Script
<1>2. n \in PortName /\ q \in Pod /\ e \in NetworksSpec[q] /\ e.portName = n
  BY <1>1, ScriptEntry DEF Wiring, PortNameOf
<1>3. iface[n] \in Interface /\ Progress(g, iface[n])
  BY <1>1, <1>2 DEF TypeOK, Wiring, ScriptProgress
<1>4. /\ \A h \in Pod \ {g} : pc'[h] = pc[h] /\ local'[h] = local[h]
      /\ pc'[g] = "next"
      /\ local'[g].uid = local[g].uid
      /\ local'[g].pid = local[g].pid
      /\ local'[g].todo = local[g].todo
      /\ UNCHANGED links
  BY DEF Mark, Goto, TypeOK, Local
<1>5. iface' = [iface EXCEPT ![n] = [iface[n] EXCEPT !.id = e.portID]]
  BY DEF Mark
<1>6. \A m \in PortName \ {n} : iface'[m] = iface[m]
  BY <1>5 DEF TypeOK
<1>7. /\ iface'[n] = [iface[n] EXCEPT !.id = e.portID]
      /\ iface'[n].place = iface[n].place
  BY <1>2, <1>3, <1>5 DEF TypeOK, Interface
<1>8. WorkOfOnePod'
  <2>1. WorkOf(g)'
    BY <1>1, <1>4 DEF Wiring, WorkOfOnePod, WorkOf, Script
  <2> QED
    BY <1>4, <2>1 DEF Wiring, WorkOfOnePod, WorkOf
<1>9. LinksLeadHome'
  BY <1>4 DEF Wiring, LinksLeadHome
<1>10. pc'[g] \notin Script
  BY <1>4 DEF Script
<1>11. ScriptsApart'
  BY <1>4, <1>10 DEF Wiring, ScriptsApart, PortNameOf
<1>12. ScriptProgress'
  <2> SUFFICES ASSUME NEW h \in Pod, pc'[h] \in Script
               PROVE  Progress(h, iface[PortNameOf(h)])'
    BY DEF ScriptProgress
  <2>1. h # g /\ pc'[h] = pc[h] /\ local'[h] = local[h] /\ PortNameOf(h)' = PortNameOf(h)
    BY <1>4, <1>10 DEF PortNameOf
  <2>2. PortNameOf(h) \in PortName /\ PortNameOf(h) # n
    BY <1>1, <2>1, ScriptEntry DEF Wiring, ScriptsApart
  <2>3. Progress(h, iface[PortNameOf(h)])
    BY <2>1 DEF Wiring, ScriptProgress
  <2> QED
    BY <1>6, <2>1, <2>2, <2>3 DEF Progress
<1>13. InterfaceInOwnNamespace'
  BY <1>6, <1>7 DEF Wiring, InterfaceInOwnNamespace
<1>14. MarkedWhenReady'
  <2>1. iface'[n] \in [place : {q, Lost}, mac : {e.macAddress}, up : {TRUE}, id : {e.portID}]
    <3>1. /\ iface[n].place \in {q, Lost}
          /\ iface[n].mac = e.macAddress
          /\ iface[n].up = TRUE
      BY <1>1, <1>3 DEF Progress, Interface
    <3> QED
      BY <1>3, <1>7, <3>1 DEF Interface
  <2> SUFFICES ASSUME NEW m \in PortName, iface'[m].id # None
               PROVE  Ready(m, iface'[m])
    BY DEF MarkedWhenReady
  <2>2. CASE m = n
    BY <1>2, <2>1, <2>2 DEF Ready
  <2>3. CASE m # n
    BY <1>6, <2>3 DEF Wiring, MarkedWhenReady
  <2> QED
    BY <2>2, <2>3
<1> QED
  BY <1>8, <1>9, <1>11, <1>12, <1>13, <1>14 DEF Wiring

LEMMA WiringNext == ExactNames /\ TypeOK /\ Wiring /\ [Next]_vars => Wiring'
<1> SUFFICES ASSUME ExactNames, TypeOK, Wiring, [Next]_vars PROVE Wiring'
  OBVIOUS
<1>1. ASSUME NEW g \in Pod, Attach(g)
      PROVE  Wiring'
  <2>1. CASE AttachEnds(g)
    BY <2>1, WiringFinish DEF AttachEnds, nodeVars
  <2> QED
    BY <1>1, <2>1, WiringAddPort, WiringNextEntry, WiringLink, WiringMove,
       WiringConfigure, WiringMark DEF Attach
<1>2. ASSUME NEW g \in Pod, Node(g) \/ Find(g)
      PROVE  Wiring'
  BY <1>2, WiringNode, WiringFind
<1>3. CASE WriteCheckpoint
  BY <1>3, WiringUnchanged DEF WriteCheckpoint, nodeVars, goroutineVars
<1>4. CASE Crash
  <2>1. PICK g \in Pod : TRUE
    BY <1>4 DEF Crash
  <2> QED
    BY <1>4, <2>1, WiringFinish DEF Crash, nodeVars
<1>5. CASE UNCHANGED vars
  BY <1>5, WiringUnchanged DEF vars
<1> QED
  BY <1>1, <1>2, <1>3, <1>4, <1>5 DEF Next

\* Goroutines, scripts, links and interfaces agree at every step, if names tell
\* pods apart.
THEOREM WiringHolds == ASSUME ExactNames PROVE Spec => []Wiring
<1>1. Init => TypeOK /\ Wiring
  BY TypeInit, WiringInit
<1>2. TypeOK /\ Wiring /\ [Next]_vars => (TypeOK /\ Wiring)'
  BY TypeNext, WiringNext
<1> QED
  BY <1>1, <1>2, PTL DEF Spec

\* Where sandbox names tell pods apart, no interface is ever passed to the
\* namespace of another pod: not by a stale checkpoint, a relinked name, two
\* attachments of one pod, a failing script or a crash at any command.
THEOREM OwnNamespaces == ASSUME ExactNames PROVE Spec => []InterfaceInOwnNamespace
<1>1. Wiring => InterfaceInOwnNamespace
  BY DEF Wiring
<1> QED
  BY <1>1, WiringHolds, PTL

\* ... and OVN is told of an interface only when it is ready.
THEOREM ReadyWhenMarked == ASSUME ExactNames PROVE Spec => []MarkedWhenReady
<1>1. Wiring => MarkedWhenReady
  BY DEF Wiring
<1> QED
  BY <1>1, WiringHolds, PTL

-----------------------------------------------------------------------------
(* Service: a goroutine finds the pod its device was allocated to.  It has *)
(* to read the file after it was written, and before the device is passed  *)
(* on: the code's ten seconds have to be enough for the first and not too  *)
(* many for the second.                                                    *)

SleepsSuffice == "slowCheckpoint" \notin Env /\ "shortLived" \notin Env

\* No device is with two pods, in the kubelet's memory or in its file.
OneHolder(entries) ==
  \A e, f \in entries : e.resource = f.resource /\ e.device = f.device => e.pod = f.pod

MainAllocation(g) == [resource |-> "main", device |-> local[g].device, pod |-> g]

\* The device of a goroutine that sleeps is still its pod's.
SleepersHoldDevices ==
  \A g \in Pod : pc[g] = "sleep" =>
    g \in stored /\ Active(g) /\ MainAllocation(g) \in alloc

Service ==
  /\ OneHolder(alloc)
  /\ OneHolder(checkpoint)
  /\ SleepersHoldDevices
  /\ GoroutineServesItsPod

LEMMA ServiceInit == Init => Service
BY DEF Init, Service, OneHolder, SleepersHoldDevices, GoroutineServesItsPod, NoLocal

\* A new pod gets devices that no active pod has, and takes none from those
\* that sleep.
LEMMA ServiceAllocate ==
  ASSUME TypeOK, Service, NEW p \in Pod, Allocate(p)
  PROVE  Service'
<1>1. PICK d \in Free("main"), o \in Free("overlay") :
        /\ alloc' = Held \cup {[resource |-> "main", device |-> d, pod |-> p],
                               [resource |-> "overlay", device |-> o, pod |-> p]}
        /\ local' = [local EXCEPT ![p] = [NoLocal EXCEPT !.device = d]]
  BY DEF Allocate
<1>2. /\ UNCHANGED <<checkpoint, sandbox>> /\ stored' = stored \cup {p}
      /\ local'[p].device = d /\ local'[p].uid = None
      /\ \A g \in Pod : g # p => pc'[g] = pc[g] /\ local'[g] = local[g]
      /\ sandbox[p] = None
  BY <1>1 DEF Allocate, Fresh, TypeOK, NoLocal
<1>3. OneHolder(alloc)'
  <2>1. \A e, f \in Held : e.resource = f.resource /\ e.device = f.device => e.pod = f.pod
    BY DEF Service, OneHolder, Held
  <2>2. \A e \in Held : /\ e.resource = "main" => e.device # d
                        /\ e.resource = "overlay" => e.device # o
    BY DEF Free
  <2> QED
    BY <1>1, <2>1, <2>2 DEF OneHolder
<1>4. OneHolder(checkpoint)'
  BY <1>2 DEF Service, OneHolder
<1>5. SleepersHoldDevices'
  <2> SUFFICES ASSUME NEW g \in Pod, pc'[g] = "sleep"
               PROVE  g \in stored' /\ Active(g)' /\ MainAllocation(g)' \in alloc'
    BY DEF SleepersHoldDevices
  <2>1. CASE g = p
    BY <1>1, <1>2, <2>1 DEF Active, MainAllocation
  <2>2. CASE g # p
    <3>1. g \in stored /\ Active(g) /\ MainAllocation(g) \in alloc
      BY <1>2, <2>2 DEF Service, SleepersHoldDevices
    <3>2. MainAllocation(g) \in Held
      BY <3>1 DEF Held, MainAllocation
    <3> QED
      BY <1>1, <1>2, <2>2, <3>1, <3>2 DEF Active, MainAllocation
  <2> QED
    BY <2>1, <2>2
<1>6. GoroutineServesItsPod'
  BY <1>2 DEF Service, GoroutineServesItsPod
<1> QED
  BY <1>3, <1>4, <1>5, <1>6 DEF Service

LEMMA ServiceNode ==
  ASSUME SleepsSuffice, TypeOK, Service, NEW p \in Pod, Node(p) \/ WriteCheckpoint
  PROVE  Service'
<1>1. CASE Allocate(p)
  BY <1>1, ServiceAllocate
<1>2. CASE RefuseAllocate(p)
  <2>1. /\ alloc' = Held /\ p \notin stored /\ stored \subseteq stored'
        /\ \A g \in Pod : g # p => sandbox'[g] = sandbox[g]
        /\ UNCHANGED <<checkpoint, pc, local>>
    BY <1>2 DEF RefuseAllocate, Fresh, TypeOK, goroutineVars
  <2>2. OneHolder(alloc)' /\ OneHolder(checkpoint)' /\ GoroutineServesItsPod'
    BY <2>1 DEF Service, OneHolder, GoroutineServesItsPod, Held
  <2>3. SleepersHoldDevices'
    BY <2>1 DEF Service, SleepersHoldDevices, MainAllocation, Active, Held
  <2> QED
    BY <2>2, <2>3 DEF Service
<1>3. CASE WriteCheckpoint
  <2>1. UNCHANGED <<alloc, stored, sandbox, pc, local>> /\ checkpoint' = alloc
    BY <1>3 DEF WriteCheckpoint, apiVars, goroutineVars
  <2> QED
    BY <2>1 DEF Service, OneHolder, SleepersHoldDevices, MainAllocation, Active,
                GoroutineServesItsPod
<1>4. CASE SchedulePlain(p) \/ StartSandbox(p) \/ EndPod(p) \/ RemoveSandbox(p)
             \/ EmptyAnnotation(p) \/ DeletePod(p)
  <2>1. UNCHANGED <<alloc, checkpoint, pc, local>>
    BY <1>4 DEF SchedulePlain, StartSandbox, EndPod, RemoveSandbox, EmptyAnnotation,
                DeletePod, kubeletVars, goroutineVars
  <2>2. \A g \in Pod : pc[g] = "sleep" /\ g \in stored /\ Active(g) => g \in stored' /\ Active(g)'
    <3>1. CASE SchedulePlain(p) \/ EmptyAnnotation(p)
      BY <3>1 DEF SchedulePlain, EmptyAnnotation, Active
    <3>2. CASE StartSandbox(p)
      BY <3>2 DEF StartSandbox, apiVars, Active, TypeOK
    <3>3. CASE EndPod(p)
      BY <3>3 DEF EndPod, apiVars, Active, TypeOK, SleepsSuffice
    <3>4. CASE RemoveSandbox(p)
      BY <3>4 DEF RemoveSandbox, apiVars, Active, None, TypeOK
    <3>5. CASE DeletePod(p)
      BY <3>5 DEF DeletePod, Active
    <3> QED
      BY <1>4, <3>1, <3>2, <3>3, <3>4, <3>5
  <2> QED
    BY <2>1, <2>2 DEF Service, OneHolder, SleepersHoldDevices, MainAllocation,
                      GoroutineServesItsPod
<1> QED
  BY <1>1, <1>2, <1>3, <1>4 DEF Node

\* A step of the goroutines that puts none to sleep and tells none a pod.
LEMMA ServiceQuiet ==
  ASSUME Service, UNCHANGED <<alloc, checkpoint, stored, sandbox>>,
         \A g \in Pod : /\ pc'[g] = "sleep" => pc[g] = "sleep" /\ local'[g] = local[g]
                        /\ local'[g].uid \in {local[g].uid, g, None}
  PROVE  Service'
BY DEF Service, OneHolder, SleepersHoldDevices, MainAllocation, Active, GoroutineServesItsPod

\* The file has been written and names one pod for the device, this one.
LEMMA ServiceLookup ==
  ASSUME SleepsSuffice, TypeOK, Service, NEW g \in Pod, FindPodUID(g)
  PROVE  Service'
<1>1. UNCHANGED <<alloc, checkpoint, stored, sandbox>>
  BY DEF FindPodUID, kubeletVars, apiVars
<1>2. MainAllocation(g) \in checkpoint
  <2>1. MainAllocation(g) \in AllocationsOf(g)
    BY DEF FindPodUID, Service, SleepersHoldDevices, AllocationsOf, MainAllocation
  <2> QED
    BY <2>1 DEF FindPodUID, SleepsSuffice, Written
<1>3. CASE Lookup(g)
  <2>1. PICK e \in checkpoint : /\ e.resource = "main" /\ e.device = local[g].device
                                /\ local' = [local EXCEPT ![g].uid = e.pod]
    BY <1>3 DEF Lookup
  <2>2. e.pod = g
    BY <1>2, <2>1 DEF Service, OneHolder, MainAllocation
  <2>3. /\ pc'[g] = "pod" /\ local'[g].uid = g
        /\ \A h \in Pod : h # g => pc'[h] = pc[h] /\ local'[h] = local[h]
    BY <1>3, <2>1, <2>2 DEF Lookup, Goto, TypeOK, Local
  <2> QED
    BY <1>1, <2>3, ServiceQuiet
<1>4. CASE Finish(g) \/ Die
  BY <1>1, <1>4, ServiceQuiet DEF Finish, Goto, Die, TypeOK, NoLocal
<1> QED
  BY <1>3, <1>4 DEF FindPodUID

LEMMA ServiceNext == SleepsSuffice /\ TypeOK /\ Service /\ [Next]_vars => Service'
<1> SUFFICES ASSUME SleepsSuffice, TypeOK, Service, [Next]_vars PROVE Service'
  OBVIOUS
<1>1. ASSUME NEW g \in Pod, Find(g) \/ Attach(g), ~FindPodUID(g) PROVE Service'
  <2>1. UNCHANGED <<alloc, checkpoint, stored, sandbox>>
    BY <1>1 DEF Find, FindPod, ListContainers, Inspect, Retry, Attach, AddPort, AddPortFails,
                AttachEnds, Unlink, Link, Move, SetAddress, SetUp, Mark, ScriptFails,
                kubeletVars, apiVars
  <2>2. /\ pc'[g] # "sleep"
        /\ \A h \in Pod : h # g => pc'[h] = pc[h] /\ local'[h] = local[h]
    <3>1. CASE Find(g)
      BY <1>1, <3>1 DEF Find, FindPod, ListContainers, Inspect, Retry, Goto, Finish, TypeOK
    <3>2. CASE Attach(g)
      BY <3>2 DEF Attach, AddPort, AddPortFails, AttachEnds, Unlink, Link, Move, SetAddress,
                  SetUp, Mark, ScriptFails, Goto, Finish, Script, TypeOK
    <3> QED
      BY <1>1, <3>1, <3>2
  <2>3. local'[g].uid \in {local[g].uid, None}
    <3>1. CASE Finish(g)
      BY <3>1 DEF Finish, TypeOK, NoLocal
    <3>2. CASE UNCHANGED local
      BY <3>2
    <3>3. local[g] \in Local
      BY DEF TypeOK
    <3>4. CASE FindPod(g) \/ ListContainers(g)
      BY <3>1, <3>3, <3>4 DEF FindPod, ListContainers, TypeOK, Local
    <3>5. CASE Inspect(g)
      BY <3>1, <3>3, <3>5 DEF Inspect, TypeOK, Local
    <3>6. CASE Retry(g)
      BY <3>1, <3>3, <3>6 DEF Retry, TypeOK, Local
    <3>7. CASE AddPort(g) \/ AddPortFails(g)
      <4>1. PICK e \in local[g].todo :
              \/ local' = [local EXCEPT ![g].todo = @ \ {e}, ![g].entry = e]
              \/ local' = [local EXCEPT ![g].todo = @ \ {e}]
        BY <3>7 DEF AddPort, AddPortFails
      <4> QED
        BY <3>3, <4>1 DEF TypeOK, Local
    <3>8. CASE Mark(g) \/ ScriptFails(g)
      <4>1. local' = [local EXCEPT ![g].entry = NoEntry]
        BY <3>8 DEF Mark, ScriptFails
      <4> QED
        BY <3>3, <4>1 DEF TypeOK, Local
    <3>9. CASE AttachEnds(g) \/ Unlink(g) \/ Link(g) \/ Move(g) \/ SetAddress(g) \/ SetUp(g)
      BY <3>1, <3>2, <3>9 DEF AttachEnds, Unlink, Link, Move, SetAddress, SetUp
    <3> QED
      BY <1>1, <3>4, <3>5, <3>6, <3>7, <3>8, <3>9 DEF Find, Attach
  <2> QED
    BY <2>1, <2>2, <2>3, ServiceQuiet
<1>2. ASSUME NEW p \in Pod, Node(p) PROVE Service'
  BY <1>2, ServiceNode
<1>3. ASSUME NEW g \in Pod, FindPodUID(g) PROVE Service'
  BY <1>3, ServiceLookup
<1>4. CASE WriteCheckpoint
  <2>1. CASE Pod = {}
    BY <1>4, <2>1 DEF WriteCheckpoint, Service, OneHolder, SleepersHoldDevices,
                      GoroutineServesItsPod
  <2>2. CASE Pod # {}
    BY <1>4, <2>2, ServiceNode
  <2> QED
    BY <2>1, <2>2
<1>5. CASE Crash
  BY <1>5, ServiceQuiet DEF Crash, Die, NoLocal, kubeletVars, apiVars
<1>6. CASE UNCHANGED vars
  BY <1>6, ServiceQuiet DEF vars
<1> QED
  BY <1>1, <1>2, <1>3, <1>4, <1>5, <1>6 DEF Next

\* As long as the file is written within the first sleep, and no pod that was
\* just admitted ends within it, a goroutine works for the pod its device was
\* allocated to: for any pool, and however often devices are passed on from
\* pods that ended, were deleted, or lost their goroutine in a crash.
THEOREM GoroutinesFindTheirPods == ASSUME SleepsSuffice PROVE Spec => []GoroutineServesItsPod
<1>1. Init => TypeOK /\ Service
  BY TypeInit, ServiceInit
<1>2. TypeOK /\ Service /\ [Next]_vars => (TypeOK /\ Service)'
  BY TypeNext, ServiceNext
<1>3. Service => GoroutineServesItsPod
  BY DEF Service
<1> QED
  BY <1>1, <1>2, <1>3, PTL DEF Spec

=============================================================================
