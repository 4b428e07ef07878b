--------------------------- MODULE AdmissionProofs ---------------------------
(***************************************************************************)
(* Proofs about Admission for any number of handlers, names, networks and  *)
(* requests.                                                               *)
(***************************************************************************)
EXTENDS Admission, WellFoundedInduction, TLAPS

(* The network a name stands for *)

\* A non-empty set of indexes of a list has a last one.
LEMMA LastIndex ==
  ASSUME NEW n \in Nat, NEW S \in SUBSET (1..n), S # {}
  PROVE  \E i \in S : \A j \in S : j <= i
<1> DEFINE T == {k \in Nat : \E i \in S : k = n - i}
<1>1. T \subseteq Nat /\ T # {}
  <2>1. PICK i \in S : TRUE
    OBVIOUS
  <2>2. n - i \in Nat
    OBVIOUS
  <2> QED
    BY <2>1, <2>2
<1>2. \E k \in T : \A m \in T : ~(<<m, k>> \in OpToRel(<, Nat))
  BY <1>1, NatLessThanWellFounded, WFMin
<1>3. PICK k \in T : \A m \in T : ~(<<m, k>> \in OpToRel(<, Nat))
  BY <1>2
<1>4. \A m \in T : ~(m < k)
  BY <1>3, <1>1 DEF OpToRel
<1>5. PICK i \in S : k = n - i
  OBVIOUS
<1>6. \A j \in S : j <= i
  <2> TAKE j \in S
  <2>1. n - j \in T
    OBVIOUS
  <2>2. ~(n - j < n - i)
    BY <1>4, <1>5, <2>1
  <2> QED
    BY <2>2
<1> QED
  BY <1>6

Network == [name : NetworkName, id : NetworkID, physnet : Physnet, subnet : BOOLEAN]

\* ListNetworkByName maps every listed name to a network Neutron has.
LEMMA NetworkByNameType ==
  ASSUME NEW n, NetworkNamed(n) # {}
  PROVE  NetworkByName(n) \in Network
<1>1. NetworkList \in Seq(Network)
  BY NetworkAssumption DEF Network
<1>2. NetworkNamed(n) \in SUBSET (1..Len(NetworkList)) /\ Len(NetworkList) \in Nat
  BY <1>1 DEF NetworkNamed
<1>3. \E i \in NetworkNamed(n) : \A j \in NetworkNamed(n) : j <= i
  BY <1>2, LastIndex
<1>4. (CHOOSE i \in NetworkNamed(n) : \A j \in NetworkNamed(n) : j <= i)
        \in 1..Len(NetworkList)
  BY <1>2, <1>3
<1> QED
  BY <1>1, <1>4 DEF NetworkByName

-----------------------------------------------------------------------------
(* Type correctness *)

LEMMA NullTypes == NoLocal \in Local /\ NoPod \in Pod
BY DEF NoLocal, Local, NoPod, Pod, NoResources, NoNetworks

\* What the writers of a pod make of it.
LEMMA PodTypes ==
  ASSUME NEW pod \in Pod
  PROVE  /\ [pod EXCEPT !.networksSpec = {}, !.version = @ + 1] \in Pod
         /\ [pod EXCEPT !.deleting = TRUE, !.version = @ + 1] \in Pod
         /\ [pod EXCEPT !.version = @ + 1] \in Pod
<1>1. pod.version + 1 \in Nat
  BY DEF Pod
<1>2. [pod EXCEPT !.version = @ + 1] \in Pod
  BY <1>1 DEF Pod
<1>3. [pod EXCEPT !.networksSpec = {}, !.version = @ + 1] \in Pod
  BY <1>1 DEF Pod
<1>4. [pod EXCEPT !.deleting = TRUE, !.version = @ + 1] \in Pod
  BY <1>1 DEF Pod
<1> QED
  BY <1>2, <1>3, <1>4

LEMMA ResourceTypes ==
  ASSUME NEW requested \in [ResourceName -> Nat], NEW physnet \in Physnet
  PROVE  /\ AddResource(requested, physnet) \in [ResourceName -> Nat]
         /\ Limits(requested) \in [ResourceName -> Nat]
BY DEF AddResource, Limits, ResourceName

LEMMA InterfaceTypes ==
  ASSUME NEW dhclient \in Seq(AnyPortName), NEW network, NEW name \in AnyPortName
  PROVE  AddInterface(dhclient, network, name) \in Seq(AnyPortName)
BY DEF AddInterface

Typed == TypeOK /\ HandlersWellFormed

\* A handler that becomes idle keeps its types, whatever else happens.
LEMMA FinishTyped ==
  ASSUME Typed, NEW h \in Handler, Finish(h),
         UNCHANGED providerVars, UNCHANGED apiVars, UNCHANGED historyVars
  PROVE  Typed'
BY NullTypes
   DEF Typed, TypeOK, HandlersWellFormed, Finish, providerVars, apiVars, historyVars

\* A round of the loop over the requested networks leaves well-typed locals.
LEMMA CreatePortTyped ==
  ASSUME Typed, NEW h \in Handler, CreatePort(h)
  PROVE  Typed'
<1> DEFINE todo == local[h].todo
           n == Head(todo)
<1>1. /\ todo \in Seq(NetworkName) /\ todo # <<>>
      /\ \A i \in DOMAIN todo : NetworkNamed(todo[i]) # {}
  BY DEF Typed, TypeOK, HandlersWellFormed, CreatePort, Local
<1>2. /\ n \in NetworkName /\ NetworkByName(n) \in Network
      /\ Tail(todo) \in Seq(NetworkName)
      /\ \A i \in DOMAIN Tail(todo) : NetworkNamed(Tail(todo)[i]) # {}
  <2> HIDE DEF todo
  <2>1. 1 \in DOMAIN todo /\ n = todo[1]
    BY <1>1
  <2>2. n \in NetworkName /\ NetworkNamed(n) # {}
    BY <1>1, <2>1
  <2>3. NetworkByName(n) \in Network
    BY <2>2, NetworkByNameType
  <2>4. /\ Tail(todo) \in Seq(NetworkName)
        /\ \A i \in DOMAIN Tail(todo) : i + 1 \in DOMAIN todo /\ Tail(todo)[i] = todo[i + 1]
    BY <1>1
  <2>5. \A i \in DOMAIN Tail(todo) : NetworkNamed(Tail(todo)[i]) # {}
    BY <1>1, <2>4
  <2> QED
    BY <2>2, <2>3, <2>4, <2>5
<1>3. PICK name \in PortNames[n], mac \in Mac :
        /\ NewPort(h, n, name, mac)
        /\ local' = [local EXCEPT
             ![h].todo = Tail(@),
             ![h].networksSpec = Put(@, [network |-> n, portName |-> name,
                                         portID |-> nextPort, macAddress |-> mac]),
             ![h].requested = AddResource(@, NetworkByName(n).physnet),
             ![h].dhclient = AddInterface(@, NetworkByName(n), name)]
  BY DEF CreatePort
<1>4. name \in AnyPortName
  BY <1>2, <1>3, NetworkAssumption DEF AnyPortName
<1> DEFINE e == [network |-> n, portName |-> name, portID |-> nextPort,
                 macAddress |-> mac]
           q == [id |-> nextPort, network |-> NetworkByName(n).id,
                 name |-> name, mac |-> mac, pod |-> req[h].uid]
<1>5. req[h] \in Request /\ nextPort \in Nat /\ local[h] \in Local
  BY DEF Typed, TypeOK, HandlersWellFormed, CreatePort, NoRequest
<1>6. e \in Entry /\ q \in Port
  BY <1>2, <1>4, <1>5 DEF Entry, Port, Request, Network
<1>7. Put(local[h].networksSpec, e) \in SUBSET Entry
  BY <1>5, <1>6 DEF Put, Local
<1>8. /\ AddResource(local[h].requested, NetworkByName(n).physnet)
            \in [ResourceName -> Nat]
      /\ AddInterface(local[h].dhclient, NetworkByName(n), name) \in Seq(AnyPortName)
  BY <1>2, <1>4, <1>5, ResourceTypes, InterfaceTypes DEF Local, Network
<1>9. local' \in [Handler -> Local] /\ local'[h].todo = Tail(todo)
  BY <1>2, <1>3, <1>5, <1>7, <1>8 DEF Typed, TypeOK, Local
<1>10. ports' \subseteq Port /\ nextPort' \in Nat
  BY <1>3, <1>5, <1>6 DEF NewPort, Typed, TypeOK
<1>11. TypeOK'
  BY <1>9, <1>10 DEF Typed, TypeOK, CreatePort, Goto, apiVars, historyVars
<1>12. \A g \in Handler : g # h => local'[g] = local[g] /\ pc'[g] = pc[g]
  BY <1>3 DEF Typed, TypeOK, CreatePort, Goto
<1>13. HandlersWellFormed'
  <2>1. req[h].op = "CREATE" /\ req' = req
    BY DEF Typed, HandlersWellFormed, CreatePort, Goto
  <2>2. pc'[h] = IF Tail(todo) = <<>> THEN "allowed" ELSE "ports"
    BY DEF Typed, TypeOK, CreatePort, Goto
  <2>3. /\ pc'[h] = "allowed" => req'[h].op \in {"CREATE", "DELETE"}
        /\ pc'[h] = "ports" => req'[h].op = "CREATE" /\ Tail(todo) # <<>>
        /\ pc'[h] \in {"allowed", "ports"}
    BY <2>1, <2>2
  <2>4. pc'[h] = "ports" =>
          /\ local'[h].todo # <<>>
          /\ \A i \in DOMAIN local'[h].todo : NetworkNamed(local'[h].todo[i]) # {}
    BY <1>2, <1>9, <2>3
  <2> HIDE DEF todo
  <2> QED
    BY <1>12, <2>1, <2>3, <2>4 DEF Typed, HandlersWellFormed
<1> QED
  BY <1>11, <1>13 DEF Typed

\* The other steps of a handler.
LEMMA ServeTyped ==
  ASSUME Typed, NEW h \in Handler, Serve(h)
  PROVE  Typed'
<1> USE DEF Typed, TypeOK, HandlersWellFormed
<1>1. CASE ListNetworks(h)
  <2> DEFINE networks == req[h].networks
  <2>1. networks \in Seq(NetworkName) /\ networks # <<>> /\ local[h] = NoLocal
    BY <1>1, NetworkAssumption DEF ListNetworks, NoNetworks
  <2>2. CASE \A i \in DOMAIN networks : NetworkNamed(networks[i]) # {}
    <3>1. local' = [local EXCEPT ![h].todo = networks] /\ pc' = [pc EXCEPT ![h] = "ports"]
      BY <1>1, <2>2 DEF ListNetworks, Goto
    <3>2. local' \in [Handler -> Local] /\ local'[h].todo = networks
      <4>1. local \in [Handler -> Local] /\ local[h] \in Local
        OBVIOUS
      <4>2. local'[h] = [local[h] EXCEPT !.todo = networks]
        BY <3>1, <4>1
      <4>3. local'[h] \in Local /\ local'[h].todo = networks
        BY <2>1, <4>1, <4>2 DEF Local
      <4> QED
        BY <3>1, <4>1, <4>2, <4>3
    <3>3. TypeOK'
      <4>1. /\ UNCHANGED <<ports, nextPort, pods, creates, admitted, examined>>
            /\ UNCHANGED <<req, abandoned>>
        BY <1>1, <2>2 DEF ListNetworks, Goto, providerVars, apiVars, historyVars
      <4> QED
        BY <3>1, <3>2, <4>1
    <3>4. HandlersWellFormed'
      BY <1>1, <2>1, <2>2, <3>1, <3>2 DEF ListNetworks, Goto
    <3> QED
      BY <3>3, <3>4
  <2>3. CASE ~ \A i \in DOMAIN networks : NetworkNamed(networks[i]) # {}
    BY <1>1, <2>3, FinishTyped DEF ListNetworks
  <2> QED
    BY <2>2, <2>3
<1>2. CASE ListNetworksFails(h)
  BY <1>2, FinishTyped DEF ListNetworksFails
<1>3. CASE CreatePort(h)
  BY <1>3, CreatePortTyped
<1>4. CASE CreatePortFails(h)
  <2>1. nextPort' \in Nat /\ ports' \subseteq Port
    <3>1. CASE UNCHANGED providerVars
      BY <3>1 DEF providerVars
    <3>2. CASE ~UNCHANGED providerVars
      <4> DEFINE n == Head(local[h].todo)
      <4>1. PICK name \in PortNames[n], mac \in Mac : NewPort(h, n, name, mac)
        BY <1>4, <3>2 DEF CreatePortFails
      <4>2. n \in NetworkName /\ NetworkByName(n) \in Network
        <5>1. /\ local[h].todo \in Seq(NetworkName) /\ local[h].todo # <<>>
              /\ \A i \in DOMAIN local[h].todo : NetworkNamed(local[h].todo[i]) # {}
          BY <1>4 DEF CreatePortFails, Local
        <5> QED
          BY <5>1, NetworkByNameType
      <4>3. name \in AnyPortName
        BY <4>1, <4>2, NetworkAssumption DEF AnyPortName
      <4>4. req[h].uid \in Nat
        BY <1>4 DEF CreatePortFails, NoRequest, Request
      <4> QED
        BY <4>1, <4>2, <4>3, <4>4 DEF NewPort, Port, Network
    <3> QED
      BY <3>1, <3>2
  <2> QED
    BY <1>4, <2>1, NullTypes DEF CreatePortFails, Finish, apiVars, historyVars
<1>5. CASE GetPod(h)
  <2>1. CASE Finish(h) /\ UNCHANGED examined
    BY <1>5, <2>1, FinishTyped DEF GetPod, historyVars
  <2>2. CASE Goto(h, "allowed") /\ UNCHANGED <<local, examined>>
    BY <1>5, <2>2 DEF GetPod, Goto, providerVars, apiVars
  <2>3. CASE /\ Goto(h, "unport")
             /\ local' = [local EXCEPT ![h].networksSpec = pods[req[h].pod].networksSpec,
                                       ![h].uid = pods[req[h].pod].uid,
                                       ![h].version = pods[req[h].pod].version]
             /\ examined' = examined \cup {pods[req[h].pod].uid}
    <3>1. pods[req[h].pod] \in Pod
      BY <1>5 DEF GetPod, NoRequest, Request
    <3>2. /\ pods[req[h].pod].networksSpec \in SUBSET Entry
          /\ pods[req[h].pod].uid \in Nat /\ pods[req[h].pod].version \in Nat
      BY <3>1 DEF Pod
    <3>3. [local[h] EXCEPT !.networksSpec = pods[req[h].pod].networksSpec,
                           !.uid = pods[req[h].pod].uid,
                           !.version = pods[req[h].pod].version] \in Local
      <4>1. local[h] \in Local
        OBVIOUS
      <4> HIDE DEF Typed, TypeOK, HandlersWellFormed
      <4> QED
        BY <3>2, <4>1 DEF Local
    <3>4. local' \in [Handler -> Local] /\ examined' \subseteq Nat
      BY <2>3, <3>2, <3>3
    <3>5. /\ pc' = [pc EXCEPT ![h] = "unport"] /\ UNCHANGED <<req, abandoned>>
          /\ UNCHANGED <<providerVars, apiVars, admitted>>
      BY <1>5, <2>3 DEF GetPod, Goto
    <3>6. \A g \in Handler : g # h => pc'[g] = pc[g] /\ local'[g] = local[g]
      BY <2>3, <3>5
    <3>7. pc'[h] = "unport" /\ req[h].op = "DELETE"
      BY <1>5, <3>5 DEF GetPod
    <3>8. TypeOK'
      BY <3>4, <3>5 DEF providerVars, apiVars
    <3>9. HandlersWellFormed'
      BY <3>5, <3>6, <3>7
    <3> QED
      BY <3>8, <3>9
  <2> QED
    BY <1>5, <2>1, <2>2, <2>3 DEF GetPod
<1>6. CASE DeletePort(h)
  <2>1. PICK e \in local[h].networksSpec :
          /\ Drop(e.portID)
          /\ local' = [local EXCEPT ![h].networksSpec = @ \ {e}]
          /\ Goto(h, IF local[h].networksSpec = {e} THEN "update" ELSE "unport")
    BY <1>6 DEF DeletePort
  <2>2. local' \in [Handler -> Local] /\ ports' \subseteq Port
    <3>1. [local[h] EXCEPT !.networksSpec = local[h].networksSpec \ {e}] \in Local
      <4>1. local[h] \in Local
        OBVIOUS
      <4> HIDE DEF Typed, TypeOK, HandlersWellFormed
      <4> QED
        BY <4>1 DEF Local
    <3>2. local' = [local EXCEPT ![h] = [local[h] EXCEPT !.networksSpec =
                                           local[h].networksSpec \ {e}]]
      BY <2>1
    <3>3. ports' \subseteq Port
      BY <2>1 DEF Drop
    <3> QED
      BY <3>1, <3>2, <3>3
  <2> QED
    BY <1>6, <2>1, <2>2 DEF DeletePort, Goto, apiVars, historyVars
<1>7. CASE DeletePortFails(h)
  <2>1. ports' \subseteq Port
    BY <1>7 DEF DeletePortFails, Drop
  <2> QED
    BY <1>7, <2>1, NullTypes DEF DeletePortFails, Finish, apiVars, historyVars
<1>8. CASE UpdatePod(h) \/ UpdatePodFails(h)
  <2>1. req[h] \in Request
    BY <1>8 DEF UpdatePod, UpdatePodFails, NoRequest
  <2>2. pods' = pods \/ WriteAnnotation(req[h].pod)
    BY <1>8 DEF UpdatePod, UpdatePodFails
  <2>3. pods' \in [PodName -> Pod]
    <3> DEFINE p == req[h].pod
               pod == [pods[p] EXCEPT !.networksSpec = {}, !.version = @ + 1]
    <3>1. p \in PodName /\ pods[p] \in Pod
      BY <2>1 DEF Request
    <3>2. pod \in Pod
      BY <3>1, PodTypes
    <3>3. pods' = pods \/ pods' = [pods EXCEPT ![p] = pod]
      BY <2>2 DEF WriteAnnotation
    <3> HIDE DEF pod
    <3> QED
      BY <3>1, <3>2, <3>3
  <2>4. CASE UpdatePod(h)
    BY <2>3, <2>4 DEF UpdatePod, Goto, providerVars, historyVars
  <2>5. CASE UpdatePodFails(h)
    BY <2>3, <2>5, NullTypes DEF UpdatePodFails, Finish, providerVars, historyVars
  <2> QED
    BY <1>8, <2>4, <2>5
<1> QED
  BY <1>1, <1>2, <1>3, <1>4, <1>5, <1>6, <1>7, <1>8 DEF Serve

\* The API server and the other writers of a pod.
LEMMA CompleteTyped ==
  ASSUME Typed, NEW h \in Handler, Complete(h)
  PROVE  Typed'
<1> USE DEF Typed, TypeOK, HandlersWellFormed
<1>1. CASE StorePod(h)
  <2>1. req[h] \in Request /\ local[h] \in Local
    BY <1>1 DEF StorePod, Waiting, NoRequest
  <2>2. [uid |-> req[h].uid, version |-> 1, networks |-> req[h].networks,
         networksSpec |-> local[h].networksSpec, args |-> local[h].dhclient,
         limits |-> IF req[h].networks = NoNetworks THEN NoResources
                    ELSE Limits(local[h].requested),
         deleting |-> FALSE] \in Pod
    <3>1. /\ Limits(local[h].requested) \in [ResourceName -> Nat]
          /\ NoResources \in [ResourceName -> Nat]
      <4>1. local[h].requested \in [ResourceName -> Nat] /\ NoPhysnet \in Physnet
        BY <2>1 DEF Local, Physnet
      <4> QED
        BY <4>1, ResourceTypes DEF NoResources
    <3> QED
      BY <2>1, <3>1 DEF Pod, Request, Local
  <2>3. pods' \in [PodName -> Pod]
    <3> DEFINE p == req[h].pod
               pod == [uid |-> req[h].uid, version |-> 1, networks |-> req[h].networks,
                       networksSpec |-> local[h].networksSpec, args |-> local[h].dhclient,
                       limits |-> IF req[h].networks = NoNetworks THEN NoResources
                                  ELSE Limits(local[h].requested),
                       deleting |-> FALSE]
    <3>1. p \in PodName
      BY <2>1 DEF Request
    <3>2. pod \in Pod
      BY <2>2
    <3>3. pods' = [pods EXCEPT ![p] = pod]
      BY <1>1 DEF StorePod
    <3> HIDE DEF pod
    <3> QED
      BY <3>1, <3>2, <3>3
  <2>4. admitted' \subseteq [uid : Nat, pod : PodName]
    BY <1>1, <2>1 DEF StorePod, Request
  <2> QED
    BY <1>1, <2>3, <2>4, NullTypes DEF StorePod, Finish, providerVars
<1>2. CASE RefusePod(h)
  BY <1>2, FinishTyped DEF RefusePod
<1>3. CASE DeletePod(h)
  <2>1. req[h] \in Request
    BY <1>3 DEF DeletePod, Waiting, NoRequest
  <2>2. pods' \in [PodName -> Pod]
    <3> DEFINE p == req[h].pod
               pod == [pods[p] EXCEPT !.deleting = TRUE, !.version = @ + 1]
    <3>1. p \in PodName /\ pods[p] \in Pod
      BY <2>1 DEF Request
    <3>2. pod \in Pod
      BY <3>1, PodTypes
    <3>3. \/ pods' = pods
          \/ pods' = [pods EXCEPT ![p] = NoPod]
          \/ pods' = [pods EXCEPT ![p] = pod]
      BY <1>3 DEF DeletePod
    <3> HIDE DEF pod
    <3> QED
      BY <3>1, <3>2, <3>3, NullTypes
  <2> QED
    BY <1>3, <2>2, NullTypes DEF DeletePod, Finish, providerVars, historyVars
<1>4. CASE DropResponse(h)
  BY <1>4, FinishTyped DEF DropResponse
<1> QED
  BY <1>1, <1>2, <1>3, <1>4 DEF Complete

LEMMA TypedInit == Init => Typed
BY NullTypes, BoundAssumption
   DEF Init, Typed, TypeOK, HandlersWellFormed

LEMMA TypedNext == Typed /\ [Next]_vars => Typed'
<1> SUFFICES ASSUME Typed, [Next]_vars PROVE Typed'
  OBVIOUS
<1>1. ASSUME NEW h \in Handler, NEW p \in PodName, NEW networks \in Annotation,
             ReceiveCreate(h, p, networks)
      PROVE  Typed'
  <2>1. networks \in Seq(NetworkName) /\ creates' \in Nat
    BY <1>1, NetworkAssumption DEF ReceiveCreate, Typed, TypeOK
  <2>2. [op |-> "CREATE", pod |-> p, uid |-> creates + 1,
         networks |-> networks, final |-> FALSE] \in Request
    BY <2>1 DEF Request, Typed, TypeOK
  <2>3. PICK spec \in Carried(networks) : local' = [local EXCEPT ![h].networksSpec = spec]
    BY <1>1 DEF ReceiveCreate
  <2>4. spec \in SUBSET Entry /\ (networks # NoNetworks => spec = {})
    BY <2>3 DEF Carried, Typed, TypeOK, Pod
  <2>5. local[h] = NoLocal /\ local' \in [Handler -> Local]
    <3> DEFINE new == [local[h] EXCEPT !.networksSpec = spec]
    <3>1. local[h] = NoLocal
      BY <1>1 DEF ReceiveCreate, Typed, HandlersWellFormed
    <3>2. new \in Local
      BY <2>4, <3>1, NullTypes DEF Local
    <3>3. local' = [local EXCEPT ![h] = new]
      BY <2>3
    <3> HIDE DEF new
    <3> QED
      BY <3>1, <3>2, <3>3 DEF Typed, TypeOK
  <2>6. networks # NoNetworks => local'[h] = NoLocal
    <3>1. [NoLocal EXCEPT !.networksSpec = {}] = NoLocal
      <4>1. \A l \in Local : l.networksSpec = {} => [l EXCEPT !.networksSpec = {}] = l
        BY DEF Local
      <4>2. NoLocal.networksSpec = {}
        BY DEF NoLocal
      <4> QED
        BY <4>1, <4>2, NullTypes
    <3> QED
      BY <2>3, <2>4, <2>5, <3>1 DEF Typed, TypeOK
  <2>7. \A g \in Handler : g # h => local'[g] = local[g]
    BY <2>3 DEF Typed, TypeOK
  <2> QED
    BY <1>1, <2>1, <2>2, <2>5, <2>6, <2>7
       DEF ReceiveCreate, Typed, TypeOK, HandlersWellFormed, providerVars, historyVars
<1>2. ASSUME NEW h \in Handler, NEW p \in PodName, NEW final \in BOOLEAN,
             NEW uid \in {0, pods[p].uid}, ReceiveDelete(h, p, uid, final)
      PROVE  Typed'
  <2>1. [op |-> "DELETE", pod |-> p, uid |-> uid, networks |-> NoNetworks,
         final |-> final] \in Request
    BY DEF Request, Typed, TypeOK, Pod, NoNetworks
  <2> QED
    BY <1>2, <2>1
       DEF ReceiveDelete, Typed, TypeOK, HandlersWellFormed, providerVars, apiVars, historyVars
<1>3. ASSUME NEW h \in Handler, Serve(h) PROVE Typed'
  BY <1>3, ServeTyped
<1>4. ASSUME NEW h \in Handler, Complete(h) PROVE Typed'
  BY <1>4, CompleteTyped
<1>5. ASSUME NEW h \in Handler, Timeout(h) PROVE Typed'
  BY <1>5 DEF Timeout, Typed, TypeOK, HandlersWellFormed, providerVars, apiVars, historyVars
<1>6. ASSUME NEW p \in PodName, UpdateStatus(p) PROVE Typed'
  BY <1>6, PodTypes
     DEF UpdateStatus, Typed, TypeOK, HandlersWellFormed, providerVars, handlerVars, historyVars
<1>7. CASE Crash
  BY <1>7, NullTypes
     DEF Crash, Typed, TypeOK, HandlersWellFormed, providerVars, apiVars, historyVars
<1>8. CASE UNCHANGED vars
  BY <1>8 DEF vars, Typed, TypeOK, HandlersWellFormed
<1> QED
  BY <1>1, <1>2, <1>3, <1>4, <1>5, <1>6, <1>7, <1>8 DEF Next

\* Type correctness, with what the place of a handler says about its locals:
\* a handler of pkg/admission never works on a list it has exhausted or on a
\* network that ListNetworkByName did not return.
THEOREM TypeCorrect == Spec => []TypeOK
<1>1. Init => Typed
  BY TypedInit
<1>2. Typed /\ [Next]_vars => Typed'
  BY TypedNext
<1>3. Typed => TypeOK
  BY DEF Typed
<1> QED
  BY <1>1, <1>2, <1>3, PTL DEF Spec

-----------------------------------------------------------------------------
(* No port of a stored pod is lost *)

\* Handlers that end, by themselves or with their process, and ports that are
\* deleted disturb nothing.
LEMMA QuietAccounting ==
  ASSUME Accounting, Typed',
         ports' \subseteq ports, UNCHANGED <<pods, creates, admitted>>,
         \A h \in Handler : \/ pc'[h] = pc[h] /\ req'[h] = req[h] /\ local'[h] = local[h]
                            \/ pc'[h] = "idle"
  PROVE  Accounting'
<1> USE DEF Accounting
<1>1. \A h \in Handler : pc'[h] = "idle" => req'[h].op = "none"
  BY DEF Typed, HandlersWellFormed, NoRequest
<1>2. TodoDistinct'
  BY DEF TodoDistinct
<1>3. UIDsConsistent'
  BY <1>1 DEF UIDsConsistent, AdmittedUIDs, Exists
<1>4. PodsNameTheirPorts'
  BY DEF PodsNameTheirPorts, PortIDs
<1>5. CreatesNameTheirPorts'
  BY <1>1 DEF CreatesNameTheirPorts, PortIDs
<1>6. DeletesNameTheirPorts'
  BY <1>1 DEF DeletesNameTheirPorts, AdmittedUIDs, PortIDs
<1>7. PortsAccountedFor'
  BY DEF PortsAccountedFor, Listed, AdmittedUIDs, PortIDs
<1> QED
  BY <1>2, <1>3, <1>4, <1>5, <1>6, <1>7 DEF Typed

LEMMA ReceiveCreateAccounting ==
  ASSUME Accounting, Typed', NEW h \in Handler, NEW p \in PodName,
         NEW networks \in Annotation, ReceiveCreate(h, p, networks)
  PROVE  Accounting'
<1> USE DEF Accounting
<1>1. /\ req'[h].op = "CREATE" /\ req'[h].uid = creates + 1
      /\ pc'[h] \in {"allowed", "list"}
      /\ \A g \in Handler :
           g # h => req'[g] = req[g] /\ pc'[g] = pc[g] /\ local'[g] = local[g]
      /\ creates' = creates + 1 /\ creates \in Nat
      /\ UNCHANGED <<ports, pods, admitted>>
  BY DEF ReceiveCreate, TypeOK, providerVars, historyVars
<1>2. TodoDistinct'
  BY <1>1 DEF TodoDistinct
<1>3. UIDsConsistent'
  BY <1>1 DEF UIDsConsistent, AdmittedUIDs, Exists
<1>4. PodsNameTheirPorts'
  BY <1>1 DEF PodsNameTheirPorts, PortIDs
<1>5. CreatesNameTheirPorts'
  <2>1. \A q \in ports : q.pod # creates + 1
    BY <1>1 DEF UIDsConsistent
  <2> QED
    BY <1>1, <2>1 DEF CreatesNameTheirPorts, PortIDs
<1>6. DeletesNameTheirPorts'
  BY <1>1 DEF DeletesNameTheirPorts, AdmittedUIDs, PortIDs
<1>7. PortsAccountedFor'
  BY <1>1 DEF PortsAccountedFor, Listed, AdmittedUIDs, PortIDs
<1> QED
  BY <1>2, <1>3, <1>4, <1>5, <1>6, <1>7 DEF Typed

LEMMA ReceiveDeleteAccounting ==
  ASSUME Accounting, Typed', NEW h \in Handler, NEW p \in PodName, NEW uid,
         NEW final, ReceiveDelete(h, p, uid, final)
  PROVE  Accounting'
<1> USE DEF Accounting
<1>1. /\ req'[h].op = "DELETE" /\ req'[h].pod = p /\ pc'[h] = "get" /\ local' = local
      /\ \A g \in Handler : g # h => req'[g] = req[g] /\ pc'[g] = pc[g]
      /\ UNCHANGED <<ports, pods, creates, admitted>>
  BY DEF ReceiveDelete, TypeOK, providerVars, apiVars, historyVars
<1>2. \E r \in admitted : r.pod = p
  BY DEF ReceiveDelete, UIDsConsistent
<1>3. TodoDistinct'
  BY <1>1 DEF TodoDistinct
<1>4. UIDsConsistent'
  BY <1>1 DEF UIDsConsistent, AdmittedUIDs, Exists
<1>5. PodsNameTheirPorts'
  BY <1>1 DEF PodsNameTheirPorts, PortIDs
<1>6. CreatesNameTheirPorts'
  BY <1>1 DEF CreatesNameTheirPorts, PortIDs
<1>7. DeletesNameTheirPorts'
  BY <1>1, <1>2 DEF DeletesNameTheirPorts, AdmittedUIDs, PortIDs
<1>8. PortsAccountedFor'
  BY <1>1 DEF PortsAccountedFor, Listed, AdmittedUIDs, PortIDs
<1> QED
  BY <1>3, <1>4, <1>5, <1>6, <1>7, <1>8 DEF Typed

\* The loop starts with distinct networks, none of which has an entry.
LEMMA ListNetworksAccounting ==
  ASSUME Accounting, Typed', DistinctNetworks, NEW h \in Handler, ListNetworks(h)
  PROVE  Accounting'
<1> USE DEF Accounting
<1> DEFINE networks == req[h].networks
<1>1. CASE Finish(h)
  BY <1>1, QuietAccounting
     DEF ListNetworks, Finish, providerVars, apiVars, historyVars, TypeOK
<1>2. CASE Goto(h, "ports") /\ local' = [local EXCEPT ![h].todo = networks]
  <2>1. /\ networks \in Annotation /\ local[h] = NoLocal /\ req[h].op = "CREATE"
    BY DEF ListNetworks, HandlersWellFormed
  <2>2. /\ local'[h].todo = networks /\ local'[h].networksSpec = local[h].networksSpec
        /\ local'[h].networksSpec = {}
        /\ pc'[h] = "ports" /\ req' = req
        /\ \A g \in Handler : g # h => local'[g] = local[g] /\ pc'[g] = pc[g]
        /\ UNCHANGED <<ports, pods, creates, admitted>>
    BY <1>2, <2>1
       DEF Goto, NoLocal, ListNetworks, TypeOK, Local, providerVars, apiVars, historyVars
  <2>3. TodoDistinct'
    BY <2>1, <2>2 DEF TodoDistinct, DistinctNetworks
  <2>4. UIDsConsistent'
    BY <2>2 DEF UIDsConsistent, AdmittedUIDs, Exists
  <2>5. PodsNameTheirPorts'
    BY <2>2 DEF PodsNameTheirPorts, PortIDs
  <2>6. CreatesNameTheirPorts'
    BY <2>2 DEF CreatesNameTheirPorts, PortIDs
  <2>7. DeletesNameTheirPorts'
    BY <2>1, <2>2 DEF DeletesNameTheirPorts, AdmittedUIDs, PortIDs
  <2>8. PortsAccountedFor'
    BY <2>2 DEF PortsAccountedFor, Listed, AdmittedUIDs, PortIDs
  <2> QED
    BY <2>3, <2>4, <2>5, <2>6, <2>7, <2>8 DEF Typed
<1> QED
  BY <1>1, <1>2 DEF ListNetworks

\* A port made for a CREATE in progress belongs to no stored pod, to no other
\* CREATE and to no DELETE; its own handler keeps it or ends.
LEMMA NewPortAccounting ==
  ASSUME Accounting, Typed', NEW h \in Handler, req[h].op = "CREATE",
         NEW n, NEW name, NEW mac, NewPort(h, n, name, mac),
         UNCHANGED <<pods, creates, admitted>>,
         \A g \in Handler \ {h} :
           pc'[g] = pc[g] /\ req'[g] = req[g] /\ local'[g] = local[g],
         TodoDistinct',
         \/ pc'[h] = "idle"
         \/ /\ req'[h] = req[h] /\ pc'[h] \in {"ports", "allowed"}
            /\ PortIDs(local'[h].networksSpec) =
                 PortIDs(local[h].networksSpec) \cup {nextPort}
  PROVE  Accounting'
<1> USE DEF Accounting
<1>1. /\ req[h].uid \in 1..creates /\ req[h].uid \notin AdmittedUIDs
      /\ \A g \in Handler \ {h} : req[g].op = "CREATE" => req[g].uid # req[h].uid
  BY DEF UIDsConsistent
<1>2. pc'[h] = "idle" => req'[h].op = "none"
  BY DEF Typed, HandlersWellFormed, NoRequest
<1> DEFINE q == [id |-> nextPort, network |-> NetworkByName(n).id,
                 name |-> name, mac |-> mac, pod |-> req[h].uid]
<1>3. ports' = ports \cup {q} /\ q.pod = req[h].uid /\ q.id = nextPort
  BY DEF NewPort
<1> HIDE DEF q
<1>4. AdmittedUIDs' = AdmittedUIDs
  BY DEF AdmittedUIDs
<1>5. \A p \in PodName : pods[p].uid # req[h].uid
  <2> SUFFICES ASSUME NEW p \in PodName, pods[p].uid = req[h].uid PROVE FALSE
    OBVIOUS
  <2>1. pods[p].uid # 0
    BY <1>1
  <2>2. [uid |-> pods[p].uid, pod |-> p] \in admitted
    BY <2>1 DEF UIDsConsistent, Exists
  <2> QED
    BY <1>1, <2>2 DEF AdmittedUIDs
<1>6. UIDsConsistent'
  BY <1>1, <1>2, <1>3, <1>4 DEF UIDsConsistent, Exists
<1>7. PodsNameTheirPorts'
  BY <1>3, <1>5 DEF PodsNameTheirPorts, PortIDs
<1>8. CreatesNameTheirPorts'
  <2> SUFFICES ASSUME NEW g \in Handler, NEW r \in ports',
                      req'[g].op = "CREATE", r.pod = req'[g].uid
               PROVE  r.id \in PortIDs(local'[g].networksSpec)
    BY DEF CreatesNameTheirPorts, PortIDs
  <2>1. CASE g = h
    BY <1>2, <1>3, <2>1 DEF CreatesNameTheirPorts
  <2>2. CASE g # h
    <3>1. r \in ports /\ req[g] = req'[g] /\ local'[g] = local[g]
      BY <1>1, <1>3, <2>2
    <3> QED
      BY <3>1 DEF CreatesNameTheirPorts
  <2> QED
    BY <2>1, <2>2
<1>9. DeletesNameTheirPorts'
  <2> SUFFICES ASSUME NEW g \in Handler, req'[g].op = "DELETE"
               PROVE  /\ \E r \in admitted' : r.pod = req'[g].pod
                      /\ pc'[g] \in {"unport", "update"} =>
                           /\ local'[g].uid \in AdmittedUIDs'
                           /\ \A r \in ports' : r.pod = local'[g].uid =>
                                r.id \in PortIDs(local'[g].networksSpec)
                      /\ pc'[g] = "update" => local'[g].networksSpec = {}
                      /\ pc'[g] = "allowed" =>
                           \A r \in ports' : r.pod # pods'[req'[g].pod].uid
    BY DEF DeletesNameTheirPorts, PortIDs
  <2>1. g # h /\ req[g].op = "DELETE"
    BY <1>2
  <2>2. pc'[g] = pc[g] /\ req'[g] = req[g] /\ local'[g] = local[g]
    BY <2>1
  <2>3. req[g].pod \in PodName
    BY <2>1 DEF TypeOK, NoRequest, Request
  <2> QED
    BY <1>1, <1>3, <1>4, <1>5, <2>1, <2>2, <2>3 DEF DeletesNameTheirPorts
<1>10. PortsAccountedFor'
  <2>1. \A r \in ports : Listed(r) => Listed(r)'
    BY DEF Listed, PortIDs
  <2> QED
    BY <1>1, <1>3, <1>4, <2>1 DEF PortsAccountedFor
<1> QED
  BY <1>6, <1>7, <1>8, <1>9, <1>10 DEF Typed

\* The entry of a distinct network replaces no other.
LEMMA PutNew ==
  ASSUME NEW spec, NEW e, \A f \in spec : f.network # e.network
  PROVE  Put(spec, e) = spec \cup {e} /\ PortIDs(Put(spec, e)) = PortIDs(spec) \cup {e.portID}
BY DEF Put, PortIDs

\* What is left of a list of distinct elements does not hold its head.
LEMMA TailDistinct ==
  ASSUME NEW S, NEW s \in Seq(S), s # <<>>,
         \A i, j \in DOMAIN s : s[i] = s[j] => i = j
  PROVE  /\ Head(s) = s[1] /\ 1 \in DOMAIN s
         /\ \A i \in DOMAIN Tail(s) : /\ i + 1 \in DOMAIN s /\ Tail(s)[i] = s[i + 1]
                                      /\ Tail(s)[i] # Head(s)
         /\ \A i, j \in DOMAIN Tail(s) : Tail(s)[i] = Tail(s)[j] => i = j
<1>1. /\ Head(s) = s[1] /\ 1 \in DOMAIN s /\ DOMAIN s = 1..Len(s)
      /\ DOMAIN Tail(s) = 1..(Len(s) - 1) /\ Len(s) \in Nat
      /\ \A i \in DOMAIN Tail(s) : Tail(s)[i] = s[i + 1]
  OBVIOUS
<1>2. \A i \in DOMAIN Tail(s) : i + 1 \in DOMAIN s /\ i \in Nat /\ i + 1 # 1
  BY <1>1
<1> QED
  BY <1>1, <1>2

LEMMA CreatePortAccounting ==
  ASSUME Accounting, Typed', NEW h \in Handler, CreatePort(h)
  PROVE  Accounting'
<1> USE DEF Accounting
<1> DEFINE todo == local[h].todo
           n == Head(todo)
<1>1. /\ todo \in Seq(NetworkName) /\ todo # <<>> /\ req[h].op = "CREATE"
      /\ \A i, j \in DOMAIN todo : todo[i] = todo[j] => i = j
      /\ \A i \in DOMAIN todo, f \in local[h].networksSpec : f.network # todo[i]
  BY DEF CreatePort, TypeOK, Local, HandlersWellFormed, TodoDistinct
<1>2. PICK name \in PortNames[n], mac \in Mac :
        /\ NewPort(h, n, name, mac)
        /\ local' = [local EXCEPT
             ![h].todo = Tail(@),
             ![h].networksSpec = Put(@, [network |-> n, portName |-> name,
                                         portID |-> nextPort, macAddress |-> mac]),
             ![h].requested = AddResource(@, NetworkByName(n).physnet),
             ![h].dhclient = AddInterface(@, NetworkByName(n), name)]
  BY DEF CreatePort
<1> DEFINE e == [network |-> n, portName |-> name, portID |-> nextPort,
                 macAddress |-> mac]
<1>3. /\ local'[h].todo = Tail(todo)
      /\ local'[h].networksSpec = Put(local[h].networksSpec, e)
      /\ \A g \in Handler \ {h} :
           pc'[g] = pc[g] /\ req'[g] = req[g] /\ local'[g] = local[g]
      /\ req' = req /\ pc'[h] \in {"ports", "allowed"}
      /\ UNCHANGED <<pods, creates, admitted>>
  BY <1>2 DEF CreatePort, Goto, TypeOK, Local, apiVars, historyVars
<1>4. n = todo[1] /\ 1 \in DOMAIN todo
  BY <1>1, TailDistinct
<1>5. \A f \in local[h].networksSpec : f.network # e.network
  BY <1>1, <1>4
<1>6. /\ local'[h].networksSpec = local[h].networksSpec \cup {e}
      /\ PortIDs(local'[h].networksSpec) = PortIDs(local[h].networksSpec) \cup {nextPort}
  BY <1>3, <1>5, PutNew
<1>7. /\ \A i, j \in DOMAIN Tail(todo) : Tail(todo)[i] = Tail(todo)[j] => i = j
      /\ \A i \in DOMAIN Tail(todo) :
           /\ i + 1 \in DOMAIN todo /\ Tail(todo)[i] = todo[i + 1]
           /\ Tail(todo)[i] # n
  BY <1>1, TailDistinct
<1>8. \A i \in DOMAIN Tail(todo), f \in local'[h].networksSpec : f.network # Tail(todo)[i]
  <2> TAKE i \in DOMAIN Tail(todo), f \in local'[h].networksSpec
  <2>1. CASE f = e
    BY <1>7, <2>1
  <2>2. CASE f \in local[h].networksSpec
    BY <1>1, <1>7, <2>2
  <2> QED
    BY <1>6, <2>1, <2>2
<1>9. TodoDistinct'
  <2> SUFFICES ASSUME NEW g \in Handler, pc'[g] = "ports"
               PROVE  LET t == local'[g].todo IN
                        /\ \A i, j \in DOMAIN t : t[i] = t[j] => i = j
                        /\ \A i \in DOMAIN t, f \in local'[g].networksSpec :
                             f.network # t[i]
    BY DEF TodoDistinct
  <2>1. CASE g = h
    <3> DEFINE t == Tail(todo)
    <3>1. local'[g].todo = t
      BY <1>3, <2>1
    <3>2. /\ \A i, j \in DOMAIN t : t[i] = t[j] => i = j
          /\ \A i \in DOMAIN t, f \in local'[g].networksSpec : f.network # t[i]
      BY <1>7, <1>8, <2>1
    <3> HIDE DEF t
    <3> QED
      BY <3>1, <3>2
  <2>2. CASE g # h
    BY <1>3, <2>2 DEF TodoDistinct
  <2> QED
    BY <2>1, <2>2
<1> QED
  BY <1>1, <1>2, <1>3, <1>6, <1>9, NewPortAccounting

\* A port whose creation is not reported back is lost with its CREATE, before
\* any pod is stored.
LEMMA CreatePortFailsAccounting ==
  ASSUME Accounting, Typed', NEW h \in Handler, CreatePortFails(h)
  PROVE  Accounting'
<1> USE DEF Accounting
<1>1. /\ pc'[h] = "idle" /\ req[h].op = "CREATE"
      /\ \A g \in Handler \ {h} :
           pc'[g] = pc[g] /\ req'[g] = req[g] /\ local'[g] = local[g]
      /\ UNCHANGED <<pods, creates, admitted>>
  BY DEF CreatePortFails, Finish, TypeOK, HandlersWellFormed, apiVars, historyVars
<1>2. CASE UNCHANGED providerVars
  BY <1>1, <1>2, QuietAccounting DEF providerVars
<1>3. CASE ~UNCHANGED providerVars
  <2>1. PICK n, name, mac : NewPort(h, n, name, mac)
    BY <1>3 DEF CreatePortFails
  <2>2. TodoDistinct'
    BY <1>1 DEF TodoDistinct
  <2> QED
    BY <1>1, <2>1, <2>2, NewPortAccounting
<1> QED
  BY <1>2, <1>3

\* The networksSpec a DELETE reads names every port there is of the pod.
LEMMA GetPodAccounting ==
  ASSUME Accounting, Typed', NEW h \in Handler, GetPod(h)
  PROVE  Accounting'
<1> USE DEF Accounting
<1> DEFINE p == req[h].pod
<1>1. /\ req[h].op = "DELETE" /\ p \in PodName /\ pods[p] \in Pod
      /\ \E r \in admitted : r.pod = p
      /\ UNCHANGED <<ports, pods, creates, admitted>>
  BY DEF GetPod, TypeOK, HandlersWellFormed, NoRequest, Request,
         DeletesNameTheirPorts, providerVars, apiVars
<1>2. CASE Finish(h)
  BY <1>1, <1>2, QuietAccounting DEF Finish, TypeOK
<1>3. CASE ~Finish(h)
  <2>1. /\ Exists(p) /\ req' = req
        /\ \A g \in Handler : g # h => local'[g] = local[g] /\ pc'[g] = pc[g]
        /\ \/ pods[p].networksSpec = {} /\ pc'[h] = "allowed" /\ local' = local
           \/ /\ pc'[h] = "unport" /\ local'[h].uid = pods[p].uid
              /\ local'[h].networksSpec = pods[p].networksSpec
    <3>1. CASE pods[p].networksSpec = {}
      BY <1>3, <3>1 DEF GetPod, Goto, TypeOK
    <3>2. CASE pods[p].networksSpec # {}
      <4>1. /\ Exists(p) /\ Goto(h, "unport")
            /\ local' = [local EXCEPT ![h].networksSpec = pods[p].networksSpec,
                                      ![h].uid = pods[p].uid,
                                      ![h].version = pods[p].version]
        BY <1>3, <3>2 DEF GetPod
      <4>2. local[h] \in Local
        BY DEF TypeOK
      <4>3. /\ local'[h].networksSpec = pods[p].networksSpec
            /\ local'[h].uid = pods[p].uid
            /\ \A g \in Handler : g # h => local'[g] = local[g]
        BY <4>1, <4>2 DEF TypeOK, Local
      <4> QED
        BY <4>1, <4>3 DEF Goto, TypeOK
    <3> QED
      BY <3>1, <3>2
  <2>2. /\ pods[p].uid \in AdmittedUIDs
        /\ \A q \in ports : q.pod = pods[p].uid => q.id \in PortIDs(pods[p].networksSpec)
    <3>1. [uid |-> pods[p].uid, pod |-> p] \in admitted
      BY <1>1, <2>1 DEF UIDsConsistent
    <3>2. pods[p].uid \in AdmittedUIDs
      BY <3>1 DEF AdmittedUIDs
    <3> QED
      BY <1>1, <3>2 DEF PodsNameTheirPorts
  <2>3. TodoDistinct'
    BY <2>1 DEF TodoDistinct
  <2>4. UIDsConsistent'
    BY <1>1, <2>1 DEF UIDsConsistent, AdmittedUIDs, Exists
  <2>5. PodsNameTheirPorts'
    BY <1>1 DEF PodsNameTheirPorts, PortIDs
  <2>6. CreatesNameTheirPorts'
    BY <1>1, <2>1 DEF CreatesNameTheirPorts, PortIDs
  <2>7. DeletesNameTheirPorts'
    BY <1>1, <2>1, <2>2 DEF DeletesNameTheirPorts, AdmittedUIDs, PortIDs
  <2>8. PortsAccountedFor'
    BY <1>1 DEF PortsAccountedFor, Listed, AdmittedUIDs, PortIDs
  <2> QED
    BY <2>3, <2>4, <2>5, <2>6, <2>7, <2>8 DEF Typed
<1> QED
  BY <1>2, <1>3

\* An entry leaves the local networksSpec only when its port is gone.
LEMMA DeletePortAccounting ==
  ASSUME Accounting, Typed', NEW h \in Handler, DeletePort(h)
  PROVE  Accounting'
<1> USE DEF Accounting
<1>1. PICK e \in local[h].networksSpec :
        /\ Drop(e.portID)
        /\ local' = [local EXCEPT ![h].networksSpec = @ \ {e}]
        /\ Goto(h, IF local[h].networksSpec = {e} THEN "update" ELSE "unport")
  BY DEF DeletePort
<1>2. /\ req[h].op = "DELETE" /\ pc[h] = "unport" /\ req' = req
      /\ local'[h].networksSpec = local[h].networksSpec \ {e}
      /\ local'[h].uid = local[h].uid
      /\ \A g \in Handler : g # h => local'[g] = local[g] /\ pc'[g] = pc[g]
      /\ \/ pc'[h] = "unport"
         \/ pc'[h] = "update" /\ local[h].networksSpec = {e}
      /\ ports' = {q \in ports : q.id # e.portID}
      /\ UNCHANGED <<pods, creates, admitted>>
  BY <1>1 DEF DeletePort, Drop, Goto, TypeOK, Local, HandlersWellFormed, apiVars, historyVars
<1>3. TodoDistinct'
  BY <1>2 DEF TodoDistinct
<1>4. UIDsConsistent'
  BY <1>2 DEF UIDsConsistent, AdmittedUIDs, Exists
<1>5. PodsNameTheirPorts'
  BY <1>2 DEF PodsNameTheirPorts, PortIDs
<1>6. CreatesNameTheirPorts'
  BY <1>2 DEF CreatesNameTheirPorts, PortIDs
<1>7. DeletesNameTheirPorts'
  BY <1>2 DEF DeletesNameTheirPorts, AdmittedUIDs, PortIDs
<1>8. PortsAccountedFor'
  BY <1>2 DEF PortsAccountedFor, Listed, AdmittedUIDs, PortIDs
<1> QED
  BY <1>3, <1>4, <1>5, <1>6, <1>7, <1>8 DEF Typed

\* The annotation is emptied when no port of the pod is left.
LEMMA UpdateAccounting ==
  ASSUME Accounting, Typed', NEW h \in Handler, UpdatePod(h) \/ UpdatePodFails(h)
  PROVE  Accounting'
<1> USE DEF Accounting
<1> DEFINE p == req[h].pod
<1>1. /\ req[h].op = "DELETE" /\ pc[h] = "update" /\ p \in PodName /\ pods[p] \in Pod
      /\ \A q \in ports : q.pod # local[h].uid
      /\ \E r \in admitted : r.pod = p
      /\ UNCHANGED <<ports, creates, admitted>>
  BY DEF UpdatePod, UpdatePodFails, TypeOK, HandlersWellFormed, NoRequest, Request,
         DeletesNameTheirPorts, PortIDs, providerVars, historyVars
<1>2. /\ \A g \in Handler : g # h => /\ local'[g] = local[g] /\ pc'[g] = pc[g]
                                     /\ req'[g] = req[g]
      /\ \/ pc'[h] = "allowed" /\ req'[h] = req[h] /\ local'[h] = local[h] /\ Unmodified(h)
         \/ pc'[h] = "idle"
  BY DEF UpdatePod, UpdatePodFails, Goto, Finish, TypeOK
<1>3. pc'[h] = "idle" => req'[h].op = "none"
  BY DEF Typed, HandlersWellFormed, NoRequest
<1>4. CASE UNCHANGED pods
  <2>1. Unmodified(h) => \A q \in ports : q.pod # pods[p].uid
    BY <1>1 DEF Unmodified
  <2>2. DeletesNameTheirPorts'
    BY <1>1, <1>2, <1>3, <1>4, <2>1 DEF DeletesNameTheirPorts, AdmittedUIDs, PortIDs
  <2>3. TodoDistinct'
    BY <1>2 DEF TodoDistinct
  <2>4. UIDsConsistent'
    BY <1>1, <1>2, <1>3, <1>4 DEF UIDsConsistent, AdmittedUIDs, Exists
  <2>5. PodsNameTheirPorts' /\ PortsAccountedFor'
    BY <1>1, <1>4
       DEF PodsNameTheirPorts, PortIDs, PortsAccountedFor, Listed, AdmittedUIDs
  <2>6. CreatesNameTheirPorts'
    BY <1>1, <1>2, <1>3 DEF CreatesNameTheirPorts, PortIDs
  <2> QED
    BY <2>2, <2>3, <2>4, <2>5, <2>6 DEF Typed
<1>5. CASE ~UNCHANGED pods
  <2>1. Unmodified(h) /\ WriteAnnotation(p)
    BY <1>5 DEF UpdatePod, UpdatePodFails
  <2>2. /\ pods[p].uid = local[h].uid /\ pods'[p].uid = pods[p].uid
        /\ \A r \in PodName : pods'[r].uid = pods[r].uid
        /\ \A r \in PodName : r # p => pods'[r] = pods[r]
    BY <1>1, <2>1 DEF Unmodified, WriteAnnotation, TypeOK, Pod
  <2>3. TodoDistinct'
    BY <1>2 DEF TodoDistinct
  <2>4. UIDsConsistent'
    BY <1>1, <1>2, <1>3, <2>2 DEF UIDsConsistent, AdmittedUIDs, Exists
  <2>5. PodsNameTheirPorts'
    BY <1>1, <2>2 DEF PodsNameTheirPorts, PortIDs
  <2>6. CreatesNameTheirPorts'
    BY <1>1, <1>2, <1>3 DEF CreatesNameTheirPorts, PortIDs
  <2>7. DeletesNameTheirPorts'
    <3>1. \A g \in Handler : req[g].op = "DELETE" => req[g].pod \in PodName
      BY DEF TypeOK, NoRequest, Request
    <3> QED
      BY <1>1, <1>2, <1>3, <2>2, <3>1 DEF DeletesNameTheirPorts, AdmittedUIDs, PortIDs
  <2>8. PortsAccountedFor'
    BY <1>1, <2>2 DEF PortsAccountedFor, Listed, AdmittedUIDs, PortIDs
  <2> QED
    BY <2>3, <2>4, <2>5, <2>6, <2>7, <2>8 DEF Typed
<1> QED
  BY <1>4, <1>5

\* The stored networksSpec is the one the CREATE has collected.
LEMMA StorePodAccounting ==
  ASSUME Accounting, Typed', "nameReuse" \notin Env, NEW h \in Handler, StorePod(h)
  PROVE  Accounting'
<1> USE DEF Accounting
<1> DEFINE p == req[h].pod
           u == req[h].uid
<1>1. /\ req[h] \in Request /\ req[h].op = "CREATE" /\ p \in PodName
      /\ u \in 1..creates /\ u \notin AdmittedUIDs
      /\ pods[p].uid = 0 /\ \A r \in admitted : r.pod # p
  BY DEF StorePod, Waiting, TypeOK, NoRequest, Request, UIDsConsistent, Exists
<1>2. /\ pods'[p].uid = u /\ pods'[p].networksSpec = local[h].networksSpec
      /\ \A r \in PodName : r # p => pods'[r] = pods[r]
      /\ admitted' = admitted \cup {[uid |-> u, pod |-> p]}
      /\ pc'[h] = "idle" /\ req'[h].op = "none"
      /\ \A g \in Handler : g # h => /\ local'[g] = local[g] /\ pc'[g] = pc[g]
                                     /\ req'[g] = req[g]
      /\ UNCHANGED <<ports, creates>>
  BY <1>1 DEF StorePod, Finish, TypeOK, NoRequest, providerVars
<1>3. AdmittedUIDs' = AdmittedUIDs \cup {u}
  <2> DEFINE new == [uid |-> u, pod |-> p]
  <2>1. new.uid = u /\ admitted' = admitted \cup {new}
    BY <1>2
  <2> HIDE DEF new
  <2> QED
    BY <2>1 DEF AdmittedUIDs
<1>4. \A q \in ports : /\ q.pod \in 1..creates /\ q.pod # 0
                       /\ q.pod = u => q.id \in PortIDs(local[h].networksSpec)
  BY <1>1 DEF UIDsConsistent, CreatesNameTheirPorts
<1>5. TodoDistinct'
  BY <1>2 DEF TodoDistinct
<1>6. UIDsConsistent'
  <2>1. \A r \in PodName : Exists(r)' => [uid |-> pods'[r].uid, pod |-> r] \in admitted'
    BY <1>1, <1>2 DEF UIDsConsistent, Exists
  <2>2. \A g \in Handler : req'[g].op = "CREATE" => req'[g].uid # u /\ req'[g] = req[g]
    BY <1>1, <1>2 DEF UIDsConsistent
  <2>3. \A g \in Handler : req'[g].op = "CREATE" =>
          req'[g].uid \in 1..creates /\ req'[g].uid \notin AdmittedUIDs'
    BY <1>3, <2>2 DEF UIDsConsistent
  <2>4. \A g, k \in Handler :
          g # k /\ req'[g].op = "CREATE" /\ req'[k].op = "CREATE" =>
            req'[g].uid # req'[k].uid
    BY <2>2 DEF UIDsConsistent
  <2>5. AdmittedUIDs' \subseteq 1..creates
    BY <1>1, <1>3 DEF UIDsConsistent
  <2> QED
    BY <1>2, <1>4, <2>1, <2>3, <2>4, <2>5 DEF UIDsConsistent
<1>7. PodsNameTheirPorts'
  BY <1>1, <1>2, <1>4 DEF PodsNameTheirPorts, PortIDs
<1>8. CreatesNameTheirPorts'
  BY <1>2 DEF CreatesNameTheirPorts, PortIDs
<1>9. DeletesNameTheirPorts'
  <2>1. \A g \in Handler : req'[g].op = "DELETE" =>
          /\ g # h /\ req'[g] = req[g] /\ req[g].pod \in PodName /\ req[g].pod # p
    BY <1>1, <1>2 DEF DeletesNameTheirPorts, TypeOK, NoRequest, Request
  <2> QED
    BY <1>2, <1>3, <2>1 DEF DeletesNameTheirPorts, PortIDs
<1>10. PortsAccountedFor'
  <2> SUFFICES ASSUME NEW q \in ports, q.pod \in AdmittedUIDs' PROVE Listed(q)'
    BY <1>2 DEF PortsAccountedFor
  <2>1. CASE q.pod = u
    BY <1>1, <1>2, <1>4, <2>1 DEF Listed, PortIDs
  <2>2. CASE q.pod # u
    <3>1. PICK r \in PodName : /\ pods[r].uid = q.pod
                               /\ q.id \in PortIDs(pods[r].networksSpec)
      BY <1>3, <2>2 DEF PortsAccountedFor, Listed
    <3>2. pods'[r] = pods[r]
      BY <1>1, <1>2, <1>4, <3>1
    <3> QED
      BY <3>1, <3>2 DEF Listed, PortIDs
  <2> QED
    BY <2>1, <2>2
<1> QED
  BY <1>5, <1>6, <1>7, <1>8, <1>9, <1>10 DEF Typed

\* Removing a pod, marking it and writing it otherwise: no networksSpec of a
\* pod that stays changes, and the pod that goes has no port.
LEMMA PodWriteAccounting ==
  ASSUME Accounting, Typed', NEW p \in PodName,
         UNCHANGED <<ports, creates, admitted>>,
         \A r \in PodName : r # p => pods'[r] = pods[r],
         \/ /\ pods'[p].uid = pods[p].uid
            /\ pods'[p].networksSpec = pods[p].networksSpec
         \/ /\ pods'[p].uid = 0
            /\ \A q \in ports : q.pod # pods[p].uid,
         \A h \in Handler : \/ pc'[h] = pc[h] /\ req'[h] = req[h] /\ local'[h] = local[h]
                            \/ pc'[h] = "idle"
  PROVE  Accounting'
<1> USE DEF Accounting
<1>1. \A h \in Handler : pc'[h] = "idle" => req'[h].op = "none"
  BY DEF Typed, HandlersWellFormed, NoRequest
<1>2. \A q \in ports : q.pod \in 1..creates /\ q.pod # 0
  BY DEF UIDsConsistent
<1>3. TodoDistinct'
  BY DEF TodoDistinct
<1>4. UIDsConsistent'
  BY <1>1 DEF UIDsConsistent, AdmittedUIDs, Exists
<1>5. PodsNameTheirPorts'
  BY <1>2 DEF PodsNameTheirPorts, PortIDs
<1>6. CreatesNameTheirPorts'
  BY <1>1 DEF CreatesNameTheirPorts, PortIDs
<1>7. DeletesNameTheirPorts'
  <2>1. \A h \in Handler : req[h].op = "DELETE" => req[h].pod \in PodName
    BY DEF TypeOK, NoRequest, Request
  <2> QED
    BY <1>1, <1>2, <2>1 DEF DeletesNameTheirPorts, AdmittedUIDs, PortIDs
<1>8. PortsAccountedFor'
  BY <1>2 DEF PortsAccountedFor, Listed, AdmittedUIDs, PortIDs
<1> QED
  BY <1>3, <1>4, <1>5, <1>6, <1>7, <1>8 DEF Typed

LEMMA DeletePodAccounting ==
  ASSUME Accounting, Typed', NEW h \in Handler, DeletePod(h)
  PROVE  Accounting'
<1> USE DEF Accounting
<1> DEFINE p == req[h].pod
<1>1. /\ req[h].op = "DELETE" /\ pc[h] = "allowed" /\ p \in PodName /\ pods[p] \in Pod
      /\ UNCHANGED <<ports, creates, admitted>>
  BY DEF DeletePod, Waiting, TypeOK, NoRequest, Request, providerVars, historyVars
<1>2. \A q \in ports : q.pod # pods[p].uid
  BY <1>1 DEF DeletesNameTheirPorts
<1>3. \A g \in Handler : \/ pc'[g] = pc[g] /\ req'[g] = req[g] /\ local'[g] = local[g]
                         \/ pc'[g] = "idle"
  BY DEF DeletePod, Finish, TypeOK
<1>4. /\ \A r \in PodName : r # p => pods'[r] = pods[r]
      /\ \/ /\ pods'[p].uid = pods[p].uid
            /\ pods'[p].networksSpec = pods[p].networksSpec
         \/ pods'[p].uid = 0
  <2> DEFINE pod == [pods[p] EXCEPT !.deleting = TRUE, !.version = @ + 1]
  <2>1. \/ pods' = pods
        \/ pods' = [pods EXCEPT ![p] = NoPod]
        \/ pods' = [pods EXCEPT ![p] = pod]
    BY DEF DeletePod
  <2>2. /\ pod.uid = pods[p].uid /\ pod.networksSpec = pods[p].networksSpec
        /\ NoPod.uid = 0
    BY <1>1 DEF Pod, NoPod
  <2> HIDE DEF pod
  <2> QED
    BY <1>1, <2>1, <2>2 DEF TypeOK
<1> QED
  BY <1>1, <1>2, <1>3, <1>4, PodWriteAccounting

LEMMA UpdateStatusAccounting ==
  ASSUME Accounting, Typed', NEW p \in PodName, UpdateStatus(p)
  PROVE  Accounting'
<1> USE DEF Accounting
<1>1. /\ pods[p] \in Pod /\ UNCHANGED <<ports, creates, admitted, pc, req, local>>
  BY DEF UpdateStatus, TypeOK, providerVars, historyVars, handlerVars
<1>2. /\ \A r \in PodName : r # p => pods'[r] = pods[r]
      /\ pods'[p].uid = pods[p].uid /\ pods'[p].networksSpec = pods[p].networksSpec
  BY <1>1 DEF UpdateStatus, TypeOK, Pod
<1> QED
  BY <1>1, <1>2, PodWriteAccounting

LEMMA AccountingInit == Init => Accounting
<1> SUFFICES ASSUME Init PROVE Accounting
  OBVIOUS
<1>1. Typed
  BY TypedInit
<1>2. \A h \in Handler : pc[h] = "idle" /\ req[h].op = "none"
  BY DEF Init, NoRequest
<1>3. ports = {} /\ admitted = {} /\ \A p \in PodName : pods[p].uid = 0
  BY DEF Init, NoPod
<1> QED
  BY <1>1, <1>2, <1>3
     DEF Accounting, Typed, TodoDistinct, UIDsConsistent, AdmittedUIDs, Exists,
         PodsNameTheirPorts, CreatesNameTheirPorts, DeletesNameTheirPorts, PortsAccountedFor

LEMMA AccountingNext ==
  ASSUME DistinctNetworks, "nameReuse" \notin Env
  PROVE  Accounting /\ [Next]_vars => Accounting'
<1> SUFFICES ASSUME Accounting, [Next]_vars PROVE Accounting'
  OBVIOUS
<1>1. Typed'
  BY TypedNext DEF Accounting, Typed
<1>2. ASSUME NEW h \in Handler, NEW p \in PodName, NEW networks \in Annotation,
             ReceiveCreate(h, p, networks)
      PROVE  Accounting'
  BY <1>1, <1>2, ReceiveCreateAccounting
<1>3. ASSUME NEW h \in Handler, NEW p \in PodName, NEW final \in BOOLEAN,
             NEW uid \in {0, pods[p].uid}, ReceiveDelete(h, p, uid, final)
      PROVE  Accounting'
  BY <1>1, <1>3, ReceiveDeleteAccounting
<1>4. ASSUME NEW h \in Handler, Serve(h)
      PROVE  Accounting'
  <2>1. CASE ListNetworks(h)
    BY <1>1, <2>1, ListNetworksAccounting
  <2>2. CASE ListNetworksFails(h)
    BY <1>1, <2>2, QuietAccounting
       DEF ListNetworksFails, Finish, Accounting, TypeOK, providerVars, apiVars, historyVars
  <2>3. CASE CreatePort(h)
    BY <1>1, <2>3, CreatePortAccounting
  <2>4. CASE CreatePortFails(h)
    BY <1>1, <2>4, CreatePortFailsAccounting
  <2>5. CASE GetPod(h)
    BY <1>1, <2>5, GetPodAccounting
  <2>6. CASE DeletePort(h)
    BY <1>1, <2>6, DeletePortAccounting
  <2>7. CASE DeletePortFails(h)
    <3>1. ports' \subseteq ports
      BY <2>7 DEF DeletePortFails, Drop
    <3> QED
      BY <1>1, <2>7, <3>1, QuietAccounting
         DEF DeletePortFails, Finish, Accounting, TypeOK, apiVars, historyVars
  <2>8. CASE UpdatePod(h) \/ UpdatePodFails(h)
    BY <1>1, <2>8, UpdateAccounting
  <2> QED
    BY <1>4, <2>1, <2>2, <2>3, <2>4, <2>5, <2>6, <2>7, <2>8 DEF Serve
<1>5. ASSUME NEW h \in Handler, Complete(h)
      PROVE  Accounting'
  <2>1. CASE StorePod(h)
    BY <1>1, <2>1, StorePodAccounting
  <2>2. CASE RefusePod(h) \/ DropResponse(h)
    BY <1>1, <2>2, QuietAccounting
       DEF RefusePod, DropResponse, Finish, Accounting, TypeOK,
           providerVars, apiVars, historyVars
  <2>3. CASE DeletePod(h)
    BY <1>1, <2>3, DeletePodAccounting
  <2> QED
    BY <1>5, <2>1, <2>2, <2>3 DEF Complete
<1>6. ASSUME NEW h \in Handler, Timeout(h)
      PROVE  Accounting'
  BY <1>1, <1>6, QuietAccounting DEF Timeout, providerVars, apiVars, historyVars
<1>7. ASSUME NEW p \in PodName, UpdateStatus(p)
      PROVE  Accounting'
  BY <1>1, <1>7, UpdateStatusAccounting
<1>8. CASE Crash
  BY <1>1, <1>8, QuietAccounting DEF Crash, providerVars, apiVars, historyVars
<1>9. CASE UNCHANGED vars
  BY <1>1, <1>9, QuietAccounting DEF vars
<1> QED
  BY <1>2, <1>3, <1>4, <1>5, <1>6, <1>7, <1>8, <1>9 DEF Next

\* Stored pods, CREATEs and DELETEs in progress name all the ports there are of
\* their pods, if no annotation names a network twice and no name is given to a
\* second pod.
THEOREM PortsNamed ==
  ASSUME DistinctNetworks, "nameReuse" \notin Env
  PROVE  Spec => []Accounting
<1>1. Init => Accounting
  BY AccountingInit
<1>2. Accounting /\ [Next]_vars => Accounting'
  BY AccountingNext
<1> QED
  BY <1>1, <1>2, PTL DEF Spec

\* Whatever fails, is repeated, overlaps or dies, a stored pod never leaves a
\* port behind.  The code needs both assumptions: a second port of a network
\* replaces the entry of the first, and a DELETE examined against one pod may
\* remove the next of its name.
THEOREM NoPortLost ==
  ASSUME DistinctNetworks, "nameReuse" \notin Env
  PROVE  Spec => []PortsAccountedFor
<1>1. Spec => []Accounting
  BY PortsNamed
<1>2. Accounting => PortsAccountedFor
  BY DEF Accounting
<1> QED
  BY <1>1, <1>2, PTL

=============================================================================
