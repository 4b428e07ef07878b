--------------------------- MODULE PortLeaseProofs ---------------------------
(***************************************************************************)
(* Admission implements PortLease, for any number of handlers, names,      *)
(* networks and requests and under every fault.                            *)
(***************************************************************************)
EXTENDS AdmissionProofs

-----------------------------------------------------------------------------
(* What a networksSpec may name *)

\* Steps that make no port: the entries that are kept, copied or stored name
\* ports of pods that were admitted, or of their own CREATE.
LEMMA SpecsKept ==
  ASSUME SpecsNameStoredPods, ports' \subseteq ports, UNCHANGED nextPort,
         \A r, s \in admitted' : r.uid = s.uid => r = s,
         \A p \in PodName : \A e \in pods'[p].networksSpec :
           NamesPortOf(e, AdmittedUIDs'),
         \A h \in Handler : \A e \in local'[h].networksSpec :
           NamesPortOf(e, PodsServed(h)')
  PROVE  SpecsNameStoredPods'
BY DEF SpecsNameStoredPods, NamesPortOf

\* No handler has an entry for its request that it did not have before.
HandlersNameLess ==
  \A h \in Handler :
    \/ local'[h].networksSpec = {}
    \/ req'[h] = req[h] /\ local'[h].networksSpec \subseteq local[h].networksSpec

LEMMA FinishNamesLess ==
  ASSUME TypeOK, NEW h \in Handler, Finish(h)
  PROVE  HandlersNameLess
BY DEF HandlersNameLess, Finish, NoLocal, TypeOK

\* In particular when no pod is stored and the handlers' entries become fewer.
LEMMA FewerEntries ==
  ASSUME SpecsNameStoredPods, ports' \subseteq ports, UNCHANGED <<nextPort, admitted>>,
         \A p \in PodName : pods'[p].networksSpec \subseteq pods[p].networksSpec,
         HandlersNameLess
  PROVE  SpecsNameStoredPods'
<1>1. AdmittedUIDs' = AdmittedUIDs
  BY DEF AdmittedUIDs
<1>2. \A h \in Handler : req'[h] = req[h] => PodsServed(h)' = PodsServed(h)
  BY <1>1 DEF PodsServed
<1>3. \A p \in PodName : \A e \in pods'[p].networksSpec : NamesPortOf(e, AdmittedUIDs')
  BY <1>1 DEF SpecsNameStoredPods
<1>4. \A h \in Handler : \A e \in local'[h].networksSpec : NamesPortOf(e, PodsServed(h)')
  BY <1>2 DEF SpecsNameStoredPods, HandlersNameLess
<1> QED
  BY <1>3, <1>4, SpecsKept DEF SpecsNameStoredPods

\* A networksSpec that arrives with a pod is one of a stored pod.
LEMMA ReceiveCreateSpecs ==
  ASSUME Accounting, SpecsNameStoredPods, NEW h \in Handler, NEW p \in PodName,
         NEW networks \in Annotation, ReceiveCreate(h, p, networks)
  PROVE  SpecsNameStoredPods'
<1>1. /\ UNCHANGED <<ports, nextPort, pods, admitted>>
      /\ \A g \in Handler : g # h => req'[g] = req[g] /\ local'[g] = local[g]
  BY DEF ReceiveCreate, Accounting, TypeOK, providerVars, historyVars
<1>2. PICK spec \in Carried(networks) : local' = [local EXCEPT ![h].networksSpec = spec]
  BY DEF ReceiveCreate
<1>3. local'[h].networksSpec = spec
  BY <1>2 DEF Accounting, TypeOK, Local
<1>4. \A e \in spec : NamesPortOf(e, AdmittedUIDs)
  BY <1>2 DEF Carried, SpecsNameStoredPods
<1>5. AdmittedUIDs' = AdmittedUIDs /\ AdmittedUIDs \subseteq PodsServed(h)'
  BY <1>1 DEF AdmittedUIDs, PodsServed
<1>6. \A g \in Handler : g # h => PodsServed(g)' = PodsServed(g)
  BY <1>1, <1>5 DEF PodsServed
<1>7. \A e \in spec : NamesPortOf(e, PodsServed(h)')
  BY <1>4, <1>5 DEF NamesPortOf
<1>8. \A g \in Handler : \A e \in local'[g].networksSpec : NamesPortOf(e, PodsServed(g)')
  BY <1>1, <1>3, <1>6, <1>7 DEF SpecsNameStoredPods
<1>9. \A r \in PodName : \A e \in pods'[r].networksSpec : NamesPortOf(e, AdmittedUIDs')
  BY <1>1, <1>5 DEF SpecsNameStoredPods
<1> QED
  BY <1>1, <1>8, <1>9, SpecsKept DEF SpecsNameStoredPods

\* The ID of a new port is in no networksSpec yet; its own handler may put it
\* into its own.
LEMMA NewPortSpecs ==
  ASSUME Accounting, SpecsNameStoredPods, NEW h \in Handler, req[h].op = "CREATE",
         NEW n, NEW name, NEW mac, NewPort(h, n, name, mac),
         UNCHANGED <<pods, admitted>>,
         \A g \in Handler \ {h} : req'[g] = req[g] /\ local'[g] = local[g],
         \/ local'[h].networksSpec = {}
         \/ /\ req'[h] = req[h]
            /\ \A e \in local'[h].networksSpec :
                 e \in local[h].networksSpec \/ e.portID = nextPort
  PROVE  SpecsNameStoredPods'
<1> DEFINE q == [id |-> nextPort, network |-> NetworkByName(n).id,
                 name |-> name, mac |-> mac, pod |-> req[h].uid]
<1>1. /\ ports' = ports \cup {q} /\ q.pod = req[h].uid /\ q.id = nextPort
      /\ nextPort' = nextPort + 1 /\ nextPort \in Nat /\ \A r \in ports : r.id \in Nat
  BY DEF NewPort, Accounting, TypeOK, Port
<1> HIDE DEF q
<1>2. AdmittedUIDs' = AdmittedUIDs
  BY DEF AdmittedUIDs
<1>3. /\ \A g \in Handler \ {h} : PodsServed(g)' = PodsServed(g)
      /\ req'[h] = req[h] => PodsServed(h)' = PodsServed(h)
  BY <1>2 DEF PodsServed
<1>4. \A p \in PodName : \A e \in pods[p].networksSpec : e.portID \in Nat
  BY DEF Accounting, TypeOK, Pod, Entry
<1>5. \A g \in Handler : \A e \in local[g].networksSpec : e.portID \in Nat
  BY DEF Accounting, TypeOK, Local, Entry
<1>6. /\ \A r \in ports' : r.id < nextPort'
      /\ \A r, s \in ports' : r.id = s.id => r = s
  BY <1>1 DEF SpecsNameStoredPods
<1>7. \A p \in PodName : \A e \in pods'[p].networksSpec : NamesPortOf(e, AdmittedUIDs)'
  BY <1>1, <1>2, <1>4 DEF SpecsNameStoredPods, NamesPortOf
<1>8. \A g \in Handler \ {h} : \A e \in local'[g].networksSpec :
        NamesPortOf(e, PodsServed(g))'
  BY <1>1, <1>3, <1>5 DEF SpecsNameStoredPods, NamesPortOf
<1>9. \A e \in local'[h].networksSpec : NamesPortOf(e, PodsServed(h))'
  <2> SUFFICES ASSUME NEW e \in local'[h].networksSpec
               PROVE  NamesPortOf(e, PodsServed(h))'
    OBVIOUS
  <2>1. PodsServed(h)' = PodsServed(h) /\ req[h].uid \in PodsServed(h)
    BY <1>3 DEF PodsServed
  <2>2. CASE e \in local[h].networksSpec
    BY <1>1, <1>5, <2>1, <2>2 DEF SpecsNameStoredPods, NamesPortOf
  <2>3. CASE e.portID = nextPort
    <3>1. \A r \in ports : r.id # e.portID
      BY <1>1, <2>3 DEF SpecsNameStoredPods
    <3> QED
      BY <1>1, <2>1, <2>3, <3>1 DEF NamesPortOf
  <2> QED
    BY <2>2, <2>3
<1> QED
  BY <1>6, <1>7, <1>8, <1>9 DEF SpecsNameStoredPods

LEMMA CreatePortSpecs ==
  ASSUME Accounting, SpecsNameStoredPods, NEW h \in Handler,
         CreatePort(h) \/ CreatePortFails(h)
  PROVE  SpecsNameStoredPods'
<1> DEFINE n == Head(local[h].todo)
<1>1. req[h].op = "CREATE" /\ UNCHANGED <<pods, admitted>>
  BY DEF CreatePort, CreatePortFails, Accounting, HandlersWellFormed, apiVars, historyVars
<1>2. CASE CreatePort(h)
  <2>1. PICK name \in PortNames[n], mac \in Mac :
          /\ NewPort(h, n, name, mac)
          /\ local' = [local EXCEPT
               ![h].todo = Tail(@),
               ![h].networksSpec = Put(@, [network |-> n, portName |-> name,
                                           portID |-> nextPort, macAddress |-> mac]),
               ![h].requested = AddResource(@, NetworkByName(n).physnet),
               ![h].dhclient = AddInterface(@, NetworkByName(n), name)]
    BY <1>2 DEF CreatePort
  <2> DEFINE e == [network |-> n, portName |-> name, portID |-> nextPort,
                   macAddress |-> mac]
  <2>2. req' = req /\ local \in [Handler -> Local]
    BY <1>2 DEF CreatePort, Goto, Accounting, TypeOK
  <2>3. /\ local'[h].networksSpec = Put(local[h].networksSpec, e)
        /\ \A g \in Handler \ {h} : local'[g] = local[g]
    BY <2>1, <2>2 DEF Local
  <2>4. \A f \in local'[h].networksSpec :
          f \in local[h].networksSpec \/ f.portID = nextPort
    BY <2>3 DEF Put
  <2> QED
    BY <1>1, <2>1, <2>2, <2>3, <2>4, NewPortSpecs
<1>3. CASE CreatePortFails(h)
  <2>1. /\ local'[h].networksSpec = {}
        /\ \A g \in Handler \ {h} : req'[g] = req[g] /\ local'[g] = local[g]
    BY <1>3 DEF CreatePortFails, Finish, NoLocal, Accounting, TypeOK
  <2>2. CASE UNCHANGED providerVars
    BY <1>1, <2>1, <2>2, FewerEntries DEF HandlersNameLess, providerVars
  <2>3. CASE ~UNCHANGED providerVars
    <3>1. PICK m, name, mac : NewPort(h, m, name, mac)
      BY <1>3, <2>3 DEF CreatePortFails
    <3> QED
      BY <1>1, <2>1, <3>1, NewPortSpecs
  <2> QED
    BY <2>2, <2>3
<1> QED
  BY <1>2, <1>3

LEMMA GetPodSpecs ==
  ASSUME Accounting, SpecsNameStoredPods, NEW h \in Handler, GetPod(h)
  PROVE  SpecsNameStoredPods'
<1> DEFINE p == req[h].pod
<1>1. p \in PodName /\ UNCHANGED <<ports, nextPort, pods, admitted>>
  BY DEF GetPod, Accounting, TypeOK, HandlersWellFormed, NoRequest, Request,
         providerVars, apiVars
<1>2. CASE Finish(h)
  BY <1>1, <1>2, FinishNamesLess, FewerEntries DEF Accounting
<1>3. CASE Goto(h, "allowed") /\ UNCHANGED local
  BY <1>1, <1>3, FewerEntries DEF Goto, HandlersNameLess
<1>4. CASE /\ Goto(h, "unport")
           /\ local' = [local EXCEPT ![h].networksSpec = pods[p].networksSpec,
                                     ![h].uid = pods[p].uid,
                                     ![h].version = pods[p].version]
  <2>1. local[h] \in Local
    BY DEF Accounting, TypeOK
  <2>2. /\ local'[h].networksSpec = pods[p].networksSpec /\ req' = req
        /\ \A g \in Handler : g # h => local'[g] = local[g]
    BY <1>4, <2>1 DEF Goto, Accounting, TypeOK, Local
  <2>3. AdmittedUIDs' = AdmittedUIDs /\ AdmittedUIDs \subseteq PodsServed(h)'
    BY <1>1 DEF AdmittedUIDs, PodsServed
  <2>4. \A g \in Handler : PodsServed(g)' = PodsServed(g)
    BY <2>2, <2>3 DEF PodsServed
  <2>5. \A g \in Handler : \A e \in local'[g].networksSpec : NamesPortOf(e, PodsServed(g)')
    BY <1>1, <2>2, <2>3, <2>4 DEF SpecsNameStoredPods, NamesPortOf
  <2>6. \A r \in PodName : \A e \in pods'[r].networksSpec : NamesPortOf(e, AdmittedUIDs')
    BY <1>1, <2>3 DEF SpecsNameStoredPods
  <2> QED
    BY <1>1, <2>5, <2>6, SpecsKept DEF SpecsNameStoredPods
<1> QED
  BY <1>2, <1>3, <1>4 DEF GetPod

\* The stored pod carries the entries of its CREATE; its UID is new.
LEMMA StorePodSpecs ==
  ASSUME Accounting, SpecsNameStoredPods, NEW h \in Handler, StorePod(h)
  PROVE  SpecsNameStoredPods'
<1> DEFINE p == req[h].pod
           u == req[h].uid
           new == [uid |-> u, pod |-> p]
<1>1. p \in PodName /\ req[h].op = "CREATE" /\ u \notin AdmittedUIDs
  BY DEF StorePod, Waiting, Accounting, TypeOK, NoRequest, Request, UIDsConsistent
<1>2. /\ pods'[p].networksSpec = local[h].networksSpec
      /\ \A r \in PodName : r # p => pods'[r] = pods[r]
      /\ admitted' = admitted \cup {new} /\ new.uid = u
      /\ local'[h].networksSpec = {}
      /\ \A g \in Handler : g # h => local'[g] = local[g] /\ req'[g] = req[g]
      /\ UNCHANGED <<ports, nextPort>>
  BY <1>1 DEF StorePod, Finish, NoLocal, Accounting, TypeOK, providerVars
<1> HIDE DEF new
<1>3. AdmittedUIDs' = AdmittedUIDs \cup {u} /\ PodsServed(h) = AdmittedUIDs \cup {u}
  BY <1>1, <1>2 DEF AdmittedUIDs, PodsServed
<1>4. \A r, s \in admitted' : r.uid = s.uid => r = s
  BY <1>1, <1>2 DEF SpecsNameStoredPods, AdmittedUIDs
<1>5. \A r \in PodName : \A e \in pods'[r].networksSpec : NamesPortOf(e, AdmittedUIDs')
  BY <1>2, <1>3 DEF SpecsNameStoredPods, NamesPortOf
<1>6. \A g \in Handler : g # h => PodsServed(g) \subseteq PodsServed(g)'
  BY <1>2, <1>3 DEF PodsServed
<1>7. \A g \in Handler : \A e \in local'[g].networksSpec : NamesPortOf(e, PodsServed(g)')
  BY <1>2, <1>6 DEF SpecsNameStoredPods, NamesPortOf
<1> QED
  BY <1>2, <1>4, <1>5, <1>7, SpecsKept

LEMMA SpecsInit == Init => SpecsNameStoredPods
BY DEF Init, SpecsNameStoredPods, NoLocal, NoPod

LEMMA SpecsNext ==
  Accounting /\ SpecsNameStoredPods /\ [Next]_vars => SpecsNameStoredPods'
<1> SUFFICES ASSUME Accounting, SpecsNameStoredPods, [Next]_vars
             PROVE  SpecsNameStoredPods'
  OBVIOUS
<1>1. ASSUME NEW h \in Handler, NEW p \in PodName, NEW networks \in Annotation,
             ReceiveCreate(h, p, networks)
      PROVE  SpecsNameStoredPods'
  BY <1>1, ReceiveCreateSpecs
<1>2. ASSUME NEW h \in Handler, NEW p \in PodName, NEW final \in BOOLEAN,
             NEW uid \in {0, pods[p].uid}, ReceiveDelete(h, p, uid, final)
      PROVE  SpecsNameStoredPods'
  <2>1. /\ UNCHANGED <<ports, nextPort, pods, admitted, local>>
        /\ local[h].networksSpec = {}
        /\ \A g \in Handler : g # h => req'[g] = req[g]
    BY <1>2 DEF ReceiveDelete, Accounting, TypeOK, HandlersWellFormed, NoLocal,
                providerVars, apiVars, historyVars
  <2> QED
    BY <2>1, FewerEntries DEF HandlersNameLess
<1>3. ASSUME NEW h \in Handler, Serve(h)
      PROVE  SpecsNameStoredPods'
  <2>1. CASE CreatePort(h) \/ CreatePortFails(h)
    BY <2>1, CreatePortSpecs
  <2>2. CASE GetPod(h)
    BY <2>2, GetPodSpecs
  <2>3. CASE ListNetworks(h) \/ ListNetworksFails(h)
    <3>1. UNCHANGED <<ports, nextPort, pods, admitted>>
      BY <2>3 DEF ListNetworks, ListNetworksFails, providerVars, apiVars, historyVars
    <3>2. CASE Finish(h)
      BY <3>1, <3>2, FinishNamesLess, FewerEntries DEF Accounting
    <3>3. CASE /\ Goto(h, "ports")
               /\ local' = [local EXCEPT ![h].todo = req[h].networks]
      <4>1. local[h] \in Local
        BY DEF Accounting, TypeOK
      <4>2. HandlersNameLess
        BY <3>3, <4>1 DEF HandlersNameLess, Goto, Accounting, TypeOK, Local
      <4> QED
        BY <3>1, <4>2, FewerEntries
    <3> QED
      BY <2>3, <3>2, <3>3 DEF ListNetworks, ListNetworksFails
  <2>4. CASE DeletePort(h) \/ DeletePortFails(h)
    <3>1. ports' \subseteq ports /\ UNCHANGED <<nextPort, pods, admitted>>
      BY <2>4 DEF DeletePort, DeletePortFails, Drop, apiVars, historyVars
    <3>2. CASE DeletePort(h)
      <4>1. PICK e \in local[h].networksSpec :
              local' = [local EXCEPT ![h].networksSpec = @ \ {e}]
        BY <3>2 DEF DeletePort
      <4>2. local[h] \in Local /\ req' = req
        BY <3>2 DEF DeletePort, Goto, Accounting, TypeOK
      <4>3. HandlersNameLess
        BY <4>1, <4>2 DEF HandlersNameLess, Accounting, TypeOK, Local
      <4> QED
        BY <3>1, <4>3, FewerEntries
    <3>3. CASE DeletePortFails(h)
      BY <3>1, <3>3, FinishNamesLess, FewerEntries DEF DeletePortFails, Accounting
    <3> QED
      BY <2>4, <3>2, <3>3
  <2>5. CASE UpdatePod(h) \/ UpdatePodFails(h)
    <3>1. /\ UNCHANGED <<ports, nextPort, admitted>> /\ req[h].pod \in PodName
          /\ pods' = pods \/ WriteAnnotation(req[h].pod)
      BY <2>5 DEF UpdatePod, UpdatePodFails, Accounting, TypeOK, HandlersWellFormed,
                  NoRequest, Request, providerVars, historyVars
    <3>2. \A p \in PodName : pods'[p].networksSpec \subseteq pods[p].networksSpec
      BY <3>1 DEF WriteAnnotation, Accounting, TypeOK, Pod
    <3>3. HandlersNameLess
      BY <2>5, FinishNamesLess
         DEF UpdatePod, UpdatePodFails, Goto, HandlersNameLess, Accounting
    <3> QED
      BY <3>1, <3>2, <3>3, FewerEntries
  <2> QED
    BY <1>3, <2>1, <2>2, <2>3, <2>4, <2>5 DEF Serve
<1>4. ASSUME NEW h \in Handler, Complete(h)
      PROVE  SpecsNameStoredPods'
  <2>1. CASE StorePod(h)
    BY <2>1, StorePodSpecs
  <2>2. CASE RefusePod(h) \/ DropResponse(h) \/ DeletePod(h)
    <3>1. /\ UNCHANGED <<ports, nextPort, admitted>>
          /\ HandlersNameLess
      BY <2>2, FinishNamesLess DEF RefusePod, DropResponse, DeletePod, Accounting,
                                   providerVars, apiVars, historyVars
    <3>2. \A p \in PodName : pods'[p].networksSpec \subseteq pods[p].networksSpec
      <4>1. CASE pods' = pods
        BY <4>1
      <4>2. CASE pods' # pods
        <5>1. DeletePod(h) /\ req[h].pod \in PodName
          BY <2>2, <4>2 DEF RefusePod, DropResponse, DeletePod, Waiting, Accounting, TypeOK,
                            NoRequest, Request, apiVars
        <5> DEFINE p == req[h].pod
                   pod == [pods[p] EXCEPT !.deleting = TRUE, !.version = @ + 1]
        <5>2. pods' = [pods EXCEPT ![p] = NoPod] \/ pods' = [pods EXCEPT ![p] = pod]
          BY <4>2, <5>1 DEF DeletePod
        <5>3. pods[p] \in Pod /\ pods \in [PodName -> Pod]
          BY <5>1 DEF Accounting, TypeOK
        <5>4. pod.networksSpec = pods[p].networksSpec /\ NoPod.networksSpec = {}
          BY <5>3 DEF Pod, NoPod
        <5> HIDE DEF pod
        <5> QED
          BY <5>1, <5>2, <5>3, <5>4
      <4> QED
        BY <4>1, <4>2
    <3> QED
      BY <3>1, <3>2, FewerEntries
  <2> QED
    BY <1>4, <2>1, <2>2 DEF Complete
<1>5. ASSUME NEW h \in Handler, Timeout(h)
      PROVE  SpecsNameStoredPods'
  BY <1>5, FewerEntries DEF HandlersNameLess, Timeout, providerVars, apiVars, historyVars
<1>6. ASSUME NEW p \in PodName, UpdateStatus(p)
      PROVE  SpecsNameStoredPods'
  <2>1. \A r \in PodName : pods'[r].networksSpec \subseteq pods[r].networksSpec
    BY <1>6 DEF UpdateStatus, Accounting, TypeOK, Pod
  <2> QED
    BY <1>6, <2>1, FewerEntries DEF HandlersNameLess, UpdateStatus, providerVars, handlerVars, historyVars
<1>7. CASE Crash
  BY <1>7, FewerEntries DEF HandlersNameLess, Crash, NoLocal, providerVars, apiVars, historyVars
<1>8. CASE UNCHANGED vars
  BY <1>8, FewerEntries DEF HandlersNameLess, vars
<1> QED
  BY <1>1, <1>2, <1>3, <1>4, <1>5, <1>6, <1>7, <1>8 DEF Next

-----------------------------------------------------------------------------
(* The refinement *)

Leases == {[id |-> q.id, pod |-> q.pod] : q \in ports}

\* Steps that leave the ports and what names stand for alone are not seen.
LEMMA Unseen ==
  ASSUME UNCHANGED <<ports, admitted>>,
         \A p \in PodName : pods'[p].uid = pods[p].uid
  PROVE  UNCHANGED Lease!vars
<1>1. LiveUIDs' = LiveUIDs
  BY DEF LiveUIDs, Exists
<1> QED
  BY <1>1 DEF Lease!vars, AdmittedUIDs

LEMMA LiveAdmitted == Accounting => LiveUIDs \subseteq AdmittedUIDs
<1> SUFFICES ASSUME Accounting, NEW p \in PodName, Exists(p)
             PROVE  pods[p].uid \in AdmittedUIDs
  BY DEF LiveUIDs
<1>1. [uid |-> pods[p].uid, pod |-> p] \in admitted
  BY DEF Accounting, UIDsConsistent
<1> QED
  BY <1>1 DEF AdmittedUIDs

\* A port is reserved for a pod that no name stands for, or ever did.
LEMMA NewPortReserves ==
  ASSUME Accounting, SpecsNameStoredPods, NEW h \in Handler, req[h].op = "CREATE",
         NEW n, NEW name, NEW mac, NewPort(h, n, name, mac), UNCHANGED <<pods, admitted>>
  PROVE  Lease!Next
<1> DEFINE q == [id |-> nextPort, network |-> NetworkByName(n).id,
                 name |-> name, mac |-> mac, pod |-> req[h].uid]
           lease == [id |-> nextPort, pod |-> req[h].uid]
<1>1. ports' = ports \cup {q} /\ q.id = nextPort /\ q.pod = req[h].uid
  BY DEF NewPort
<1>2. LiveUIDs' = LiveUIDs /\ AdmittedUIDs' = AdmittedUIDs
  BY DEF LiveUIDs, Exists, AdmittedUIDs
<1>3. req[h].uid \notin AdmittedUIDs
  BY DEF Accounting, UIDsConsistent
<1>4. LiveUIDs \subseteq AdmittedUIDs
  BY LiveAdmitted
<1>5. \A r \in ports : r.id # nextPort
  BY DEF SpecsNameStoredPods, Accounting, TypeOK, Port
<1> HIDE DEF q
<1>6. Leases' = Leases \cup {lease}
  BY <1>1 DEF Leases
<1>7. \A r \in Leases : r.id # lease.id
  BY <1>5 DEF Leases
<1>8. lease \in Leases' /\ lease.pod = req[h].uid
  BY <1>6
<1> HIDE DEF lease
<1>9. \E r \in Leases' : Lease!Reserve(r)
  BY <1>2, <1>3, <1>4, <1>6, <1>7, <1>8 DEF Lease!Reserve, Leases
<1> QED
  BY <1>9 DEF Lease!Next, Leases

\* A port that a DELETE deletes is one of a pod that is stored.
LEMMA DropReleases ==
  ASSUME Accounting, SpecsNameStoredPods, NEW h \in Handler, req[h].op = "DELETE",
         NEW e \in local[h].networksSpec, Drop(e.portID), UNCHANGED <<pods, admitted>>
  PROVE  [Lease!Next]_(Lease!vars)
<1>1. CASE \A q \in ports : q.id # e.portID
  <2>1. ports' = ports
    BY <1>1 DEF Drop
  <2> QED
    BY <2>1, Unseen
<1>2. CASE \E q \in ports : q.id = e.portID
  <2>1. PICK q \in ports : q.id = e.portID
    BY <1>2
  <2> DEFINE lease == [id |-> q.id, pod |-> q.pod]
  <2>2. ports' = ports \ {q}
    BY <2>1 DEF Drop, SpecsNameStoredPods
  <2>3. q.pod \in AdmittedUIDs
    BY <2>1 DEF SpecsNameStoredPods, PodsServed, NamesPortOf
  <2>4. q.pod \in LiveUIDs
    <3>1. PICK p \in PodName : pods[p].uid = q.pod
      BY <2>3 DEF Accounting, PortsAccountedFor, Listed
    <3>2. q.pod # 0
      BY DEF Accounting, UIDsConsistent
    <3> QED
      BY <3>1, <3>2 DEF LiveUIDs, Exists
  <2>5. LiveUIDs' = LiveUIDs /\ AdmittedUIDs' = AdmittedUIDs
    BY DEF LiveUIDs, Exists, AdmittedUIDs
  <2>6. \A r \in ports : r.id = q.id => r = q
    BY DEF SpecsNameStoredPods
  <2>7. Leases' = Leases \ {lease}
    <3>1. \A r \in ports : [id |-> r.id, pod |-> r.pod] = lease <=> r = q
      BY <2>6
    <3> QED
      BY <2>2, <3>1 DEF Leases
  <2>8. lease \in Leases /\ lease.pod = q.pod
    BY DEF Leases
  <2> HIDE DEF lease
  <2>9. Lease!Release(lease)
    BY <2>4, <2>5, <2>7, <2>8 DEF Lease!Release, Leases
  <2> QED
    BY <2>8, <2>9 DEF Lease!Next, Leases
<1> QED
  BY <1>1, <1>2

LEMMA StorePodAdmits ==
  ASSUME Accounting, NEW h \in Handler, StorePod(h)
  PROVE  Lease!Next
<1> DEFINE p == req[h].pod
           u == req[h].uid
           new == [uid |-> u, pod |-> p]
<1>1. p \in PodName /\ u \notin AdmittedUIDs /\ u # 0 /\ pods[p].uid = 0
  BY DEF StorePod, Waiting, Accounting, TypeOK, NoRequest, Request, UIDsConsistent, Exists
<1>2. /\ pods'[p].uid = u
      /\ \A r \in PodName : r # p => pods'[r] = pods[r]
      /\ admitted' = admitted \cup {new} /\ new.uid = u
      /\ UNCHANGED ports
  BY <1>1 DEF StorePod, Accounting, TypeOK, providerVars
<1> HIDE DEF new
<1>3. AdmittedUIDs' = AdmittedUIDs \cup {u}
  BY <1>2 DEF AdmittedUIDs
<1>4. LiveUIDs \subseteq AdmittedUIDs
  BY LiveAdmitted
<1>5. LiveUIDs' = LiveUIDs \cup {u}
  BY <1>1, <1>2 DEF LiveUIDs, Exists
<1>6. AdmittedUIDs' \ LiveUIDs' = AdmittedUIDs \ LiveUIDs
  BY <1>1, <1>3, <1>4, <1>5
<1>7. Lease!Admit(u)
  BY <1>1, <1>2, <1>4, <1>5, <1>6 DEF Lease!Admit
<1> QED
  BY <1>5, <1>7 DEF Lease!Next

\* The pod that goes has no port, and its UID goes with it.
LEMMA DeletePodRemoves ==
  ASSUME Accounting, SpecsNameStoredPods, NEW h \in Handler, DeletePod(h)
  PROVE  [Lease!Next]_(Lease!vars)
<1> DEFINE p == req[h].pod
           u == pods[p].uid
           pod == [pods[p] EXCEPT !.deleting = TRUE, !.version = @ + 1]
<1>1. /\ req[h].op = "DELETE" /\ pc[h] = "allowed" /\ p \in PodName /\ pods[p] \in Pod
      /\ UNCHANGED <<ports, admitted>> /\ pods \in [PodName -> Pod]
  BY DEF DeletePod, Waiting, Accounting, TypeOK, NoRequest, Request, providerVars, historyVars
<1>2. \/ pods' = pods
      \/ pods' = [pods EXCEPT ![p] = NoPod] /\ u # 0
      \/ pods' = [pods EXCEPT ![p] = pod]
  BY DEF DeletePod, Exists
<1>3. pod.uid = u /\ NoPod.uid = 0
  BY <1>1 DEF Pod, NoPod
<1> HIDE DEF pod
<1>4. CASE pods' = pods \/ pods' = [pods EXCEPT ![p] = pod]
  <2>1. \A r \in PodName : pods'[r].uid = pods[r].uid
    BY <1>1, <1>3, <1>4
  <2> QED
    BY <1>1, <2>1, Unseen
<1>5. CASE pods' = [pods EXCEPT ![p] = NoPod] /\ u # 0
  <2>1. \A q \in ports : q.pod # u
    BY <1>1 DEF Accounting, DeletesNameTheirPorts
  <2>2. pods'[p].uid = 0 /\ \A r \in PodName : r # p => pods'[r] = pods[r]
    BY <1>1, <1>3, <1>5
  <2>3. \A r \in PodName : pods[r].uid = u => r = p
    <3> SUFFICES ASSUME NEW r \in PodName, pods[r].uid = u PROVE r = p
      OBVIOUS
    <3> DEFINE first == [uid |-> pods[r].uid, pod |-> r]
               second == [uid |-> pods[p].uid, pod |-> p]
    <3>1. first \in admitted /\ second \in admitted
      BY <1>1, <1>5 DEF Accounting, UIDsConsistent, Exists
    <3>2. first = second
      BY <3>1 DEF SpecsNameStoredPods
    <3> QED
      BY <3>2
  <2>4. LiveUIDs' = LiveUIDs \ {u}
    BY <1>1, <1>5, <2>2, <2>3 DEF LiveUIDs, Exists
  <2>5. u \in LiveUIDs
    BY <1>1, <1>5 DEF LiveUIDs, Exists
  <2>6. AdmittedUIDs' = AdmittedUIDs /\ u \in AdmittedUIDs
    <3>1. [uid |-> u, pod |-> p] \in admitted
      BY <1>1, <1>5 DEF Accounting, UIDsConsistent, Exists
    <3> QED
      BY <1>1, <3>1 DEF AdmittedUIDs
  <2>7. AdmittedUIDs' \ LiveUIDs' = (AdmittedUIDs \ LiveUIDs) \cup {u}
    BY <2>4, <2>5, <2>6
  <2>8. \A q \in Leases : q.pod # u
    BY <2>1 DEF Leases
  <2>9. Lease!Remove(u)
    BY <1>1, <2>4, <2>5, <2>7, <2>8 DEF Lease!Remove, Leases
  <2> QED
    BY <2>5, <2>9 DEF Lease!Next
<1> QED
  BY <1>2, <1>4, <1>5

LEMMA LeaseInit == Init => Lease!Init
BY DEF Init, Lease!Init, LiveUIDs, AdmittedUIDs, Exists, NoPod

LEMMA LeaseNext ==
  Accounting /\ SpecsNameStoredPods /\ [Next]_vars => [Lease!Next]_(Lease!vars)
<1> SUFFICES ASSUME Accounting, SpecsNameStoredPods, [Next]_vars
             PROVE  [Lease!Next]_(Lease!vars)
  OBVIOUS
<1>1. ASSUME UNCHANGED <<ports, pods, admitted>>
      PROVE  [Lease!Next]_(Lease!vars)
  BY <1>1, Unseen
<1>2. ASSUME NEW h \in Handler, Serve(h)
      PROVE  [Lease!Next]_(Lease!vars)
  <2>1. CASE CreatePort(h) \/ CreatePortFails(h)
    <3>1. req[h].op = "CREATE" /\ UNCHANGED <<pods, admitted>>
      BY <2>1 DEF CreatePort, CreatePortFails, Accounting, HandlersWellFormed,
                  apiVars, historyVars
    <3>2. \/ UNCHANGED providerVars
          \/ \E n, name, mac : NewPort(h, n, name, mac)
      BY <2>1 DEF CreatePort, CreatePortFails
    <3>3. CASE UNCHANGED providerVars
      BY <1>1, <3>1, <3>3 DEF providerVars
    <3>4. CASE \E n, name, mac : NewPort(h, n, name, mac)
      BY <3>1, <3>4, NewPortReserves
    <3> QED
      BY <3>2, <3>3, <3>4
  <2>2. CASE DeletePort(h) \/ DeletePortFails(h)
    <3>1. req[h].op = "DELETE" /\ UNCHANGED <<pods, admitted>>
      BY <2>2 DEF DeletePort, DeletePortFails, Accounting, HandlersWellFormed,
                  apiVars, historyVars
    <3>2. UNCHANGED ports \/ \E e \in local[h].networksSpec : Drop(e.portID)
      BY <2>2 DEF DeletePort, DeletePortFails
    <3> QED
      BY <1>1, <3>1, <3>2, DropReleases
  <2>3. CASE UpdatePod(h) \/ UpdatePodFails(h)
    <3>1. /\ UNCHANGED <<ports, admitted>> /\ req[h].pod \in PodName
          /\ pods' = pods \/ WriteAnnotation(req[h].pod)
      BY <2>3 DEF UpdatePod, UpdatePodFails, Accounting, TypeOK, HandlersWellFormed,
                  NoRequest, Request, providerVars, historyVars
    <3>2. \A p \in PodName : pods'[p].uid = pods[p].uid
      <4> DEFINE p == req[h].pod
                 pod == [pods[p] EXCEPT !.networksSpec = {}, !.version = @ + 1]
      <4>1. pods' = pods \/ pods' = [pods EXCEPT ![p] = pod]
        BY <3>1 DEF WriteAnnotation
      <4>2. pods[p] \in Pod /\ pods \in [PodName -> Pod]
        BY <3>1 DEF Accounting, TypeOK
      <4>3. pod.uid = pods[p].uid
        BY <4>2 DEF Pod
      <4> HIDE DEF pod
      <4> QED
        BY <3>1, <4>1, <4>2, <4>3
    <3> QED
      BY <3>1, <3>2, Unseen
  <2>4. CASE ListNetworks(h) \/ ListNetworksFails(h) \/ GetPod(h)
    BY <1>1, <2>4
       DEF ListNetworks, ListNetworksFails, GetPod, providerVars, apiVars, historyVars
  <2> QED
    BY <1>2, <2>1, <2>2, <2>3, <2>4 DEF Serve
<1>3. ASSUME NEW h \in Handler, Complete(h)
      PROVE  [Lease!Next]_(Lease!vars)
  <2>1. CASE StorePod(h)
    BY <2>1, StorePodAdmits
  <2>2. CASE DeletePod(h)
    BY <2>2, DeletePodRemoves
  <2>3. CASE RefusePod(h) \/ DropResponse(h)
    BY <1>1, <2>3 DEF RefusePod, DropResponse, providerVars, apiVars, historyVars
  <2> QED
    BY <1>3, <2>1, <2>2, <2>3 DEF Complete
<1>4. ASSUME NEW p \in PodName, UpdateStatus(p)
      PROVE  [Lease!Next]_(Lease!vars)
  <2>1. \A r \in PodName : pods'[r].uid = pods[r].uid
    BY <1>4 DEF UpdateStatus, Accounting, TypeOK, Pod
  <2> QED
    BY <1>4, <2>1, Unseen DEF UpdateStatus, providerVars, historyVars
<1>5. ASSUME NEW h \in Handler, NEW p \in PodName, NEW networks \in Annotation,
             ReceiveCreate(h, p, networks)
      PROVE  [Lease!Next]_(Lease!vars)
  BY <1>1, <1>5 DEF ReceiveCreate, providerVars, historyVars
<1>6. ASSUME NEW h \in Handler, NEW p \in PodName, NEW final \in BOOLEAN,
             NEW uid \in {0, pods[p].uid}, ReceiveDelete(h, p, uid, final)
      PROVE  [Lease!Next]_(Lease!vars)
  BY <1>1, <1>6 DEF ReceiveDelete, providerVars, apiVars, historyVars
<1>7. ASSUME NEW h \in Handler, Timeout(h)
      PROVE  [Lease!Next]_(Lease!vars)
  BY <1>1, <1>7 DEF Timeout, providerVars, apiVars, historyVars
<1>8. CASE Crash
  BY <1>1, <1>8 DEF Crash, providerVars, apiVars, historyVars
<1>9. CASE UNCHANGED vars
  BY <1>1, <1>9 DEF vars
<1> QED
  BY <1>2, <1>3, <1>4, <1>5, <1>6, <1>7, <1>8, <1>9 DEF Next

\* The handlers keep the promise of PortLease however many there are, whatever
\* fails and however their requests overlap, if no annotation names a network
\* twice and no name is given to a second pod.
THEOREM LeaseImplemented ==
  ASSUME DistinctNetworks, "nameReuse" \notin Env
  PROVE  Spec => LeaseKept
<1>1. Init => Accounting /\ SpecsNameStoredPods
  BY AccountingInit, SpecsInit
<1>2. Accounting /\ SpecsNameStoredPods /\ [Next]_vars
        => (Accounting /\ SpecsNameStoredPods)'
  BY AccountingNext, SpecsNext
<1>3. Init => Lease!Init
  BY LeaseInit
<1>4. Accounting /\ SpecsNameStoredPods /\ [Next]_vars => [Lease!Next]_(Lease!vars)
  BY LeaseNext
<1> QED
  BY <1>1, <1>2, <1>3, <1>4, PTL DEF Spec, LeaseKept, Lease!Spec

\* A networksSpec, stored, copied or in use by a handler, names no port of a
\* pod that was never stored, but for the CREATE that is making it.
THEOREM EntriesNameStoredPods ==
  ASSUME DistinctNetworks, "nameReuse" \notin Env
  PROVE  Spec => []SpecsNameStoredPods
<1>1. Init => Accounting /\ SpecsNameStoredPods
  BY AccountingInit, SpecsInit
<1>2. Accounting /\ SpecsNameStoredPods /\ [Next]_vars
        => (Accounting /\ SpecsNameStoredPods)'
  BY AccountingNext, SpecsNext
<1> QED
  BY <1>1, <1>2, PTL DEF Spec

\* The promise means that no port outlives its pod.
LEMMA PromiseMeansNoOrphan == LeaseKept => []Lease!NoOrphan
<1>1. Lease!Init => Lease!NoOrphan
  BY DEF Lease!Init, Lease!NoOrphan
<1>2. Lease!NoOrphan /\ [Lease!Next]_(Lease!vars) => Lease!NoOrphan'
  BY DEF Lease!NoOrphan, Lease!Next, Lease!vars, Lease!Reserve, Lease!Admit,
         Lease!Release, Lease!Remove
<1> QED
  BY <1>1, <1>2, PTL DEF LeaseKept, Lease!Spec

=============================================================================
