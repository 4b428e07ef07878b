--------------------------- MODULE DeletionProofs ---------------------------
(***************************************************************************)
(* The annotation of a pod is emptied only when its ports are gone: for    *)
(* any number of handlers, names and networks, under every fault and with  *)
(* names, annotations and manifests used as often as one likes.            *)
(***************************************************************************)
EXTENDS AdmissionProofs

-----------------------------------------------------------------------------
(* The inductive invariant *)

\* Whatever a networksSpec names, Neutron has handed out: a new port is in none.
IDsHandedOut ==
  /\ \A q \in ports : q.id < nextPort
  /\ \A p \in PodName : \A e \in pods[p].networksSpec : e.portID < nextPort
  /\ \A h \in Handler : \A e \in local[h].networksSpec : e.portID < nextPort

\* As long as the pod that a DELETE has read is stored, the DELETE has still to
\* delete all the ports there are of those which that pod's networksSpec names.
DeletesReadTheirPod ==
  \A h \in Handler : pc[h] \in {"unport", "update"} =>
    LET pod == pods[req[h].pod] IN
      /\ local[h].uid \in AdmittedUIDs
      /\ pod.uid = local[h].uid =>
           \A q \in ports : q.id \in PortIDs(pod.networksSpec) =>
             q.id \in PortIDs(local[h].networksSpec)
      /\ pc[h] = "update" => local[h].networksSpec = {}

Deleting == Typed /\ UIDsConsistent /\ IDsHandedOut /\ DeletesReadTheirPod

LEMMA IDTypes ==
  ASSUME TypeOK
  PROVE  /\ nextPort \in Nat /\ creates \in Nat
         /\ \A q \in ports : q.id \in Nat
         /\ \A p \in PodName : \A e \in pods[p].networksSpec : e.portID \in Nat
         /\ \A h \in Handler : \A e \in local[h].networksSpec : e.portID \in Nat
BY DEF TypeOK, Port, Pod, Local, Entry

LEMMA DeletesNamePods ==
  ASSUME Typed, NEW h \in Handler, req[h].op = "DELETE" \/ pc[h] \in {"unport", "update"}
  PROVE  req[h].op = "DELETE" /\ req[h].pod \in PodName
BY DEF Typed, TypeOK, HandlersWellFormed, NoRequest, Request

-----------------------------------------------------------------------------
(* The steps *)

\* Steps after which no handler has more to delete, no pod more entries and
\* Neutron no new port.
LEMMA QuietDeleting ==
  ASSUME Deleting, Typed', ports' \subseteq ports, UNCHANGED <<nextPort, creates, admitted>>,
         \A p \in PodName :
           \/ /\ pods'[p].uid = pods[p].uid
              /\ pods'[p].networksSpec \in {pods[p].networksSpec, {}}
           \/ pods'[p].uid = 0 /\ pods'[p].networksSpec = {},
         \A h \in Handler :
           \/ pc'[h] = pc[h] /\ req'[h] = req[h] /\ local'[h] = local[h]
           \/ pc'[h] = "idle"
           \/ /\ pc'[h] \notin {"unport", "update"}
              /\ local'[h].networksSpec = local[h].networksSpec
              /\ req'[h] = req[h] \/ req'[h].op = "DELETE"
  PROVE  Deleting'
<1> USE DEF Deleting
<1>1. AdmittedUIDs' = AdmittedUIDs
  BY DEF AdmittedUIDs
<1>2. \A h \in Handler : pc'[h] = "idle" =>
        req'[h].op = "none" /\ local'[h].networksSpec = {}
  BY DEF Typed, HandlersWellFormed, NoRequest, NoLocal
<1>3. UIDsConsistent'
  <2>1. \A h \in Handler : req'[h].op = "CREATE" => req'[h] = req[h]
    BY <1>2
  <2>2. \A p \in PodName : Exists(p)' => Exists(p) /\ pods'[p].uid = pods[p].uid
    BY DEF Exists
  <2> QED
    BY <1>1, <2>1, <2>2 DEF UIDsConsistent
<1>4. IDsHandedOut'
  BY <1>2 DEF IDsHandedOut
<1>5. DeletesReadTheirPod'
  <2> SUFFICES ASSUME NEW h \in Handler, pc'[h] \in {"unport", "update"}
               PROVE  LET pod == pods'[req'[h].pod] IN
                        /\ local'[h].uid \in AdmittedUIDs'
                        /\ pod.uid = local'[h].uid =>
                             \A q \in ports' : q.id \in PortIDs(pod.networksSpec) =>
                               q.id \in PortIDs(local'[h].networksSpec)
                        /\ pc'[h] = "update" => local'[h].networksSpec = {}
    BY DEF DeletesReadTheirPod, PortIDs
  <2>1. pc'[h] = pc[h] /\ req'[h] = req[h] /\ local'[h] = local[h]
    OBVIOUS
  <2>2. req[h].pod \in PodName
    BY <2>1, DeletesNamePods
  <2>3. local[h].uid \in AdmittedUIDs /\ local[h].uid # 0
    BY <2>1, IDTypes DEF DeletesReadTheirPod, UIDsConsistent, Typed
  <2> QED
    BY <1>1, <2>1, <2>2, <2>3 DEF DeletesReadTheirPod, PortIDs
<1> QED
  BY <1>3, <1>4, <1>5

\* A new pod is no other's, whatever networksSpec it comes with.
LEMMA ReceiveCreateDeleting ==
  ASSUME Deleting, Typed', NEW h \in Handler, NEW p \in PodName,
         NEW networks \in Annotation, ReceiveCreate(h, p, networks)
  PROVE  Deleting'
<1> USE DEF Deleting
<1>1. /\ req'[h].op = "CREATE" /\ req'[h].uid = creates + 1
      /\ pc'[h] \in {"allowed", "list"}
      /\ \A g \in Handler :
           g # h => req'[g] = req[g] /\ pc'[g] = pc[g] /\ local'[g] = local[g]
      /\ creates' = creates + 1 /\ creates \in Nat
      /\ UNCHANGED <<ports, nextPort, pods, admitted>>
  BY DEF ReceiveCreate, Typed, TypeOK, providerVars, historyVars
<1>2. AdmittedUIDs' = AdmittedUIDs
  BY <1>1 DEF AdmittedUIDs
<1>3. PICK spec \in Carried(networks) : local' = [local EXCEPT ![h].networksSpec = spec]
  BY DEF ReceiveCreate
<1>4. local'[h].networksSpec = spec
  BY <1>3 DEF Typed, TypeOK, Local
<1>5. \A e \in spec : e.portID < nextPort
  BY <1>3 DEF Carried, IDsHandedOut
<1>6. UIDsConsistent'
  BY <1>1, <1>2 DEF UIDsConsistent, Exists
<1>7. IDsHandedOut'
  BY <1>1, <1>4, <1>5 DEF IDsHandedOut
<1>8. DeletesReadTheirPod'
  BY <1>1, <1>2 DEF DeletesReadTheirPod, PortIDs
<1> QED
  BY <1>6, <1>7, <1>8

\* A port that is made has an ID that no networksSpec names.
LEMMA NewPortDeleting ==
  ASSUME Deleting, Typed', NEW h \in Handler, req[h].op = "CREATE",
         NEW n, NEW name, NEW mac, NewPort(h, n, name, mac),
         UNCHANGED <<pods, creates, admitted>>,
         \A g \in Handler \ {h} :
           pc'[g] = pc[g] /\ req'[g] = req[g] /\ local'[g] = local[g],
         \/ pc'[h] = "idle"
         \/ /\ req'[h] = req[h] /\ pc'[h] \in {"ports", "allowed"}
            /\ \A e \in local'[h].networksSpec :
                 e \in local[h].networksSpec \/ e.portID = nextPort
  PROVE  Deleting'
<1> USE DEF Deleting
<1> DEFINE q == [id |-> nextPort, network |-> NetworkByName(n).id,
                 name |-> name, mac |-> mac, pod |-> req[h].uid]
<1>1. /\ ports' = ports \cup {q} /\ q.pod = req[h].uid /\ q.id = nextPort
      /\ nextPort' = nextPort + 1 /\ nextPort \in Nat
  BY DEF NewPort, Typed, TypeOK
<1> HIDE DEF q
<1>2. AdmittedUIDs' = AdmittedUIDs
  BY DEF AdmittedUIDs
<1>3. pc'[h] = "idle" => req'[h].op = "none" /\ local'[h].networksSpec = {}
  BY DEF Typed, HandlersWellFormed, NoRequest, NoLocal
<1>4. UIDsConsistent'
  <2>1. \A g \in Handler : req'[g].op = "CREATE" => req'[g] = req[g]
    BY <1>3
  <2> QED
    BY <1>1, <1>2, <2>1 DEF UIDsConsistent, Exists
<1>5. IDsHandedOut'
  BY <1>1, <1>3, IDTypes DEF IDsHandedOut, Typed
<1>6. DeletesReadTheirPod'
  <2> SUFFICES ASSUME NEW g \in Handler, pc'[g] \in {"unport", "update"}
               PROVE  LET pod == pods'[req'[g].pod] IN
                        /\ local'[g].uid \in AdmittedUIDs'
                        /\ pod.uid = local'[g].uid =>
                             \A r \in ports' : r.id \in PortIDs(pod.networksSpec) =>
                               r.id \in PortIDs(local'[g].networksSpec)
                        /\ pc'[g] = "update" => local'[g].networksSpec = {}
    BY DEF DeletesReadTheirPod, PortIDs
  <2>1. g # h /\ pc'[g] = pc[g] /\ req'[g] = req[g] /\ local'[g] = local[g]
    OBVIOUS
  <2>2. req[g].pod \in PodName
    BY <2>1, DeletesNamePods
  <2>3. nextPort \notin PortIDs(pods[req[g].pod].networksSpec)
    BY <2>2, IDTypes DEF IDsHandedOut, PortIDs, Typed
  <2> QED
    BY <1>1, <1>2, <2>1, <2>2, <2>3 DEF DeletesReadTheirPod, PortIDs
<1> QED
  BY <1>4, <1>5, <1>6

LEMMA CreatePortDeleting ==
  ASSUME Deleting, Typed', NEW h \in Handler, CreatePort(h)
  PROVE  Deleting'
<1> USE DEF Deleting
<1> DEFINE n == Head(local[h].todo)
<1>1. PICK name \in PortNames[n], mac \in Mac :
        /\ NewPort(h, n, name, mac)
        /\ local' = [local EXCEPT
             ![h].todo = Tail(@),
             ![h].networksSpec = Put(@, [network |-> n, portName |-> name,
                                         portID |-> nextPort, macAddress |-> mac]),
             ![h].requested = AddResource(@, NetworkByName(n).physnet),
             ![h].dhclient = AddInterface(@, NetworkByName(n), name)]
  BY DEF CreatePort
<1> DEFINE e == [network |-> n, portName |-> name, portID |-> nextPort,
                 macAddress |-> mac]
<1>2. /\ local'[h].networksSpec = Put(local[h].networksSpec, e)
      /\ \A g \in Handler \ {h} :
           pc'[g] = pc[g] /\ req'[g] = req[g] /\ local'[g] = local[g]
      /\ req' = req /\ pc'[h] \in {"ports", "allowed"} /\ req[h].op = "CREATE"
      /\ UNCHANGED <<pods, creates, admitted>>
  <2>1. local[h] \in Local /\ local \in [Handler -> Local] /\ DOMAIN pc = Handler
    BY DEF Typed, TypeOK
  <2>2. local'[h].networksSpec = Put(local[h].networksSpec, e)
    BY <1>1, <2>1 DEF Local
  <2>3. \A g \in Handler \ {h} : local'[g] = local[g]
    BY <1>1, <2>1
  <2>4. /\ \A g \in Handler \ {h} : pc'[g] = pc[g]
        /\ req' = req /\ pc'[h] \in {"ports", "allowed"}
        /\ UNCHANGED <<pods, creates, admitted>>
    BY <2>1 DEF CreatePort, Goto, apiVars, historyVars
  <2>5. req[h].op = "CREATE"
    BY DEF CreatePort, Typed, HandlersWellFormed
  <2> QED
    BY <2>2, <2>3, <2>4, <2>5
<1>3. \A f \in local'[h].networksSpec : f \in local[h].networksSpec \/ f.portID = nextPort
  BY <1>2 DEF Put
<1> QED
  BY <1>1, <1>2, <1>3, NewPortDeleting

LEMMA CreatePortFailsDeleting ==
  ASSUME Deleting, Typed', NEW h \in Handler, CreatePortFails(h)
  PROVE  Deleting'
<1> USE DEF Deleting
<1>1. /\ pc'[h] = "idle" /\ req[h].op = "CREATE"
      /\ \A g \in Handler \ {h} :
           pc'[g] = pc[g] /\ req'[g] = req[g] /\ local'[g] = local[g]
      /\ UNCHANGED <<pods, creates, admitted>>
  BY DEF CreatePortFails, Finish, Typed, TypeOK, HandlersWellFormed, apiVars, historyVars
<1>2. CASE UNCHANGED providerVars
  BY <1>1, <1>2, QuietDeleting DEF providerVars
<1>3. CASE ~UNCHANGED providerVars
  <2>1. PICK n, name, mac : NewPort(h, n, name, mac)
    BY <1>3 DEF CreatePortFails
  <2> QED
    BY <1>1, <2>1, NewPortDeleting
<1> QED
  BY <1>2, <1>3

\* What a DELETE has to delete is what it has read.
LEMMA GetPodDeleting ==
  ASSUME Deleting, Typed', NEW h \in Handler, GetPod(h)
  PROVE  Deleting'
<1> USE DEF Deleting
<1> DEFINE p == req[h].pod
<1>1. /\ req[h].op = "DELETE" /\ p \in PodName
      /\ UNCHANGED <<ports, nextPort, pods, creates, admitted>>
  BY DeletesNamePods
     DEF GetPod, Typed, HandlersWellFormed, providerVars, apiVars
<1>2. CASE Finish(h)
  BY <1>1, <1>2, QuietDeleting DEF Finish, Typed, TypeOK
<1>3. CASE Goto(h, "allowed") /\ UNCHANGED local
  BY <1>1, <1>3, QuietDeleting DEF Goto, Typed, TypeOK
<1>4. CASE /\ Exists(p) /\ Goto(h, "unport")
           /\ local' = [local EXCEPT ![h].networksSpec = pods[p].networksSpec,
                                     ![h].uid = pods[p].uid,
                                     ![h].version = pods[p].version]
  <2>1. /\ local'[h].networksSpec = pods[p].networksSpec /\ local'[h].uid = pods[p].uid
        /\ pc'[h] = "unport" /\ req' = req
        /\ \A g \in Handler : g # h => local'[g] = local[g] /\ pc'[g] = pc[g]
    BY <1>4 DEF Goto, Typed, TypeOK, Local
  <2>2. AdmittedUIDs' = AdmittedUIDs /\ pods[p].uid \in AdmittedUIDs
    <3>1. [uid |-> pods[p].uid, pod |-> p] \in admitted
      BY <1>1, <1>4 DEF UIDsConsistent
    <3>2. [uid |-> pods[p].uid, pod |-> p].uid = pods[p].uid
      OBVIOUS
    <3> QED
      BY <1>1, <3>1, <3>2 DEF AdmittedUIDs
  <2>3. UIDsConsistent'
    BY <1>1, <2>1, <2>2 DEF UIDsConsistent, Exists
  <2>4. IDsHandedOut'
    BY <1>1, <2>1 DEF IDsHandedOut
  <2>5. DeletesReadTheirPod'
    BY <1>1, <2>1, <2>2 DEF DeletesReadTheirPod, PortIDs
  <2> QED
    BY <2>3, <2>4, <2>5
<1> QED
  BY <1>2, <1>3, <1>4 DEF GetPod

\* An entry leaves what is left only when its port is gone.
LEMMA DeletePortDeleting ==
  ASSUME Deleting, Typed', NEW h \in Handler, DeletePort(h)
  PROVE  Deleting'
<1> USE DEF Deleting
<1>1. PICK e \in local[h].networksSpec :
        /\ Drop(e.portID)
        /\ local' = [local EXCEPT ![h].networksSpec = @ \ {e}]
        /\ Goto(h, IF local[h].networksSpec = {e} THEN "update" ELSE "unport")
  BY DEF DeletePort
<1>2. /\ pc[h] = "unport" /\ req' = req
      /\ local'[h].networksSpec = local[h].networksSpec \ {e}
      /\ local'[h].uid = local[h].uid
      /\ \A g \in Handler : g # h => local'[g] = local[g] /\ pc'[g] = pc[g]
      /\ \/ pc'[h] = "unport"
         \/ pc'[h] = "update" /\ local[h].networksSpec = {e}
      /\ ports' = {q \in ports : q.id # e.portID}
      /\ UNCHANGED <<nextPort, pods, creates, admitted>>
  BY <1>1 DEF DeletePort, Drop, Goto, Typed, TypeOK, Local, apiVars, historyVars
<1>3. AdmittedUIDs' = AdmittedUIDs
  BY <1>2 DEF AdmittedUIDs
<1>4. UIDsConsistent'
  BY <1>2, <1>3 DEF UIDsConsistent, Exists
<1>5. IDsHandedOut'
  BY <1>2 DEF IDsHandedOut
<1>6. DeletesReadTheirPod'
  BY <1>2, <1>3 DEF DeletesReadTheirPod, PortIDs
<1> QED
  BY <1>4, <1>5, <1>6

\* No DELETE that has read a pod has read the one that is stored now.
LEMMA StorePodDeleting ==
  ASSUME Deleting, Typed', NEW h \in Handler, StorePod(h)
  PROVE  Deleting'
<1> USE DEF Deleting
<1> DEFINE p == req[h].pod
           u == req[h].uid
           new == [uid |-> u, pod |-> p]
<1>1. /\ req[h].op = "CREATE" /\ p \in PodName /\ u \in 1..creates /\ u \notin AdmittedUIDs
  BY DEF StorePod, Waiting, Typed, TypeOK, NoRequest, Request, UIDsConsistent
<1>2. /\ pods'[p].uid = u /\ pods'[p].networksSpec = local[h].networksSpec
      /\ \A r \in PodName : r # p => pods'[r] = pods[r]
      /\ admitted' = admitted \cup {new} /\ new.uid = u
      /\ pc'[h] = "idle" /\ req'[h].op = "none" /\ local'[h].networksSpec = {}
      /\ \A g \in Handler : g # h => /\ local'[g] = local[g] /\ pc'[g] = pc[g]
                                     /\ req'[g] = req[g]
      /\ UNCHANGED <<ports, nextPort, creates>>
  BY <1>1 DEF StorePod, Finish, Typed, TypeOK, NoRequest, NoLocal, providerVars
<1>3. new \in admitted' /\ new = [uid |-> u, pod |-> p]
  BY <1>2
<1> HIDE DEF new
<1>4. AdmittedUIDs' = AdmittedUIDs \cup {u}
  BY <1>2 DEF AdmittedUIDs
<1>5. UIDsConsistent'
  <2>1. \A r \in PodName : Exists(r)' => [uid |-> pods'[r].uid, pod |-> r] \in admitted'
    BY <1>2, <1>3 DEF UIDsConsistent, Exists
  <2>2. \A g \in Handler : req'[g].op = "CREATE" => req'[g].uid # u /\ req'[g] = req[g]
    BY <1>1, <1>2 DEF UIDsConsistent
  <2>3. (AdmittedUIDs \subseteq 1..creates)' /\ (\A q \in ports : q.pod \in 1..creates)'
    BY <1>1, <1>2, <1>4 DEF UIDsConsistent
  <2>4. \A g \in Handler : req'[g].op = "CREATE" =>
          req'[g].uid \in 1..creates' /\ req'[g].uid \notin AdmittedUIDs'
    BY <1>2, <1>4, <2>2 DEF UIDsConsistent
  <2>5. \A f, g \in Handler :
          f # g /\ req'[f].op = "CREATE" /\ req'[g].op = "CREATE" => req'[f].uid # req'[g].uid
    BY <2>2 DEF UIDsConsistent
  <2> QED
    BY <2>1, <2>3, <2>4, <2>5 DEF UIDsConsistent
<1>6. IDsHandedOut'
  BY <1>2 DEF IDsHandedOut
<1>7. DeletesReadTheirPod'
  <2> SUFFICES ASSUME NEW g \in Handler, pc'[g] \in {"unport", "update"}
               PROVE  LET pod == pods'[req'[g].pod] IN
                        /\ local'[g].uid \in AdmittedUIDs'
                        /\ pod.uid = local'[g].uid =>
                             \A q \in ports' : q.id \in PortIDs(pod.networksSpec) =>
                               q.id \in PortIDs(local'[g].networksSpec)
                        /\ pc'[g] = "update" => local'[g].networksSpec = {}
    BY DEF DeletesReadTheirPod, PortIDs
  <2>1. g # h /\ pc'[g] = pc[g] /\ req'[g] = req[g] /\ local'[g] = local[g]
    BY <1>2
  <2>2. req[g].pod \in PodName
    BY <2>1, DeletesNamePods
  <2>3. local[g].uid \in AdmittedUIDs /\ local[g].uid # u
    BY <1>1, <2>1 DEF DeletesReadTheirPod
  <2>4. pods'[req[g].pod] = pods[req[g].pod] \/ pods'[req[g].pod].uid = u
    BY <1>2, <2>2
  <2> QED
    BY <1>2, <1>4, <2>1, <2>3, <2>4 DEF DeletesReadTheirPod, PortIDs
<1> QED
  BY <1>5, <1>6, <1>7

\* A pod that is deleted, marked or written goes on with its entries or none.
LEMMA WriterLeavesEntries ==
  ASSUME TypeOK, NEW p \in PodName,
         \/ pods' = pods \/ pods' = [pods EXCEPT ![p] = NoPod] \/ WriteAnnotation(p)
         \/ pods' = [pods EXCEPT ![p] = [pods[p] EXCEPT !.deleting = TRUE, !.version = @ + 1]]
         \/ pods' = [pods EXCEPT ![p].version = @ + 1]
  PROVE  \A r \in PodName :
           \/ /\ pods'[r].uid = pods[r].uid
              /\ pods'[r].networksSpec \in {pods[r].networksSpec, {}}
           \/ pods'[r].uid = 0 /\ pods'[r].networksSpec = {}
<1> DEFINE marked == [pods[p] EXCEPT !.deleting = TRUE, !.version = @ + 1]
           emptied == [pods[p] EXCEPT !.networksSpec = {}, !.version = @ + 1]
           written == [pods[p] EXCEPT !.version = @ + 1]
<1>1. /\ marked.uid = pods[p].uid /\ marked.networksSpec = pods[p].networksSpec
      /\ emptied.uid = pods[p].uid /\ emptied.networksSpec = {}
      /\ written.uid = pods[p].uid /\ written.networksSpec = pods[p].networksSpec
      /\ NoPod.uid = 0 /\ NoPod.networksSpec = {}
  BY DEF TypeOK, Pod, NoPod
<1>2. \/ pods' = pods \/ pods' = [pods EXCEPT ![p] = NoPod]
      \/ pods' = [pods EXCEPT ![p] = emptied] \/ pods' = [pods EXCEPT ![p] = marked]
      \/ pods' = [pods EXCEPT ![p] = written]
  BY DEF WriteAnnotation, TypeOK
<1> HIDE DEF marked, emptied, written
<1> QED
  BY <1>1, <1>2 DEF TypeOK

LEMMA ServeDeleting ==
  ASSUME Deleting, Typed', NEW h \in Handler, Serve(h)
  PROVE  Deleting'
<1> USE DEF Deleting
<1>1. CASE ListNetworks(h) \/ ListNetworksFails(h)
  <2>1. UNCHANGED <<ports, nextPort, pods, creates, admitted>>
    BY <1>1 DEF ListNetworks, ListNetworksFails, providerVars, apiVars, historyVars
  <2>2. CASE Finish(h)
    BY <2>1, <2>2, QuietDeleting DEF Finish, Typed, TypeOK
  <2>3. CASE Goto(h, "ports") /\ local' = [local EXCEPT ![h].todo = req[h].networks]
    <3>1. /\ local'[h].networksSpec = local[h].networksSpec
          /\ pc'[h] = "ports" /\ req' = req
          /\ \A g \in Handler : g # h => local'[g] = local[g] /\ pc'[g] = pc[g]
      BY <2>3 DEF Goto, Typed, TypeOK, Local
    <3> QED
      BY <2>1, <3>1, QuietDeleting
  <2> QED
    BY <1>1, <2>2, <2>3 DEF ListNetworks, ListNetworksFails
<1>2. CASE DeletePortFails(h)
  BY <1>2, QuietDeleting
     DEF DeletePortFails, Drop, Finish, Typed, TypeOK, apiVars, historyVars
<1>3. CASE UpdatePod(h) \/ UpdatePodFails(h)
  <2>1. /\ UNCHANGED <<ports, nextPort, creates, admitted>> /\ req[h].pod \in PodName
        /\ pods' = pods \/ WriteAnnotation(req[h].pod)
    BY <1>3, DeletesNamePods DEF UpdatePod, UpdatePodFails, providerVars, historyVars
  <2>2. \A g \in Handler :
          \/ pc'[g] = pc[g] /\ req'[g] = req[g] /\ local'[g] = local[g]
          \/ pc'[g] = "idle"
          \/ pc'[g] = "allowed" /\ req'[g] = req[g] /\ local'[g] = local[g]
    BY <1>3 DEF UpdatePod, UpdatePodFails, Goto, Finish, Typed, TypeOK
  <2> QED
    BY <2>1, <2>2, WriterLeavesEntries, QuietDeleting DEF Typed
<1> QED
  BY <1>1, <1>2, <1>3, CreatePortDeleting, CreatePortFailsDeleting, GetPodDeleting,
     DeletePortDeleting DEF Serve

LEMMA CompleteDeleting ==
  ASSUME Deleting, Typed', NEW h \in Handler, Complete(h)
  PROVE  Deleting'
<1> USE DEF Deleting
<1>1. CASE RefusePod(h) \/ DropResponse(h)
  BY <1>1, QuietDeleting
     DEF RefusePod, DropResponse, Finish, Typed, TypeOK, providerVars, apiVars, historyVars
<1>2. CASE DeletePod(h)
  <2>1. /\ UNCHANGED <<ports, nextPort, creates, admitted>>
        /\ \A g \in Handler :
             \/ pc'[g] = pc[g] /\ req'[g] = req[g] /\ local'[g] = local[g]
             \/ pc'[g] = "idle"
    BY <1>2 DEF DeletePod, Finish, Typed, TypeOK, providerVars, historyVars
  <2>2. req[h].pod \in PodName
    BY <1>2, DeletesNamePods DEF DeletePod, Waiting
  <2>3. \/ pods' = pods \/ pods' = [pods EXCEPT ![req[h].pod] = NoPod]
        \/ pods' = [pods EXCEPT ![req[h].pod] =
             [pods[req[h].pod] EXCEPT !.deleting = TRUE, !.version = @ + 1]]
    BY <1>2 DEF DeletePod
  <2> QED
    BY <2>1, <2>2, <2>3, WriterLeavesEntries, QuietDeleting DEF Typed
<1> QED
  BY <1>1, <1>2, StorePodDeleting DEF Complete

LEMMA DeletingInit == Init => Deleting
<1>1. Init => Typed
  BY TypedInit
<1>2. Init => UIDsConsistent
  BY DEF Init, UIDsConsistent, AdmittedUIDs, Exists, NoPod, NoRequest
<1>3. Init => IDsHandedOut
  BY DEF Init, IDsHandedOut, NoPod, NoLocal
<1>4. Init => DeletesReadTheirPod
  BY DEF Init, DeletesReadTheirPod
<1> QED
  BY <1>1, <1>2, <1>3, <1>4 DEF Deleting

LEMMA DeletingNext == Deleting /\ [Next]_vars => Deleting'
<1> SUFFICES ASSUME Deleting, [Next]_vars
             PROVE  Deleting'
  OBVIOUS
<1> USE DEF Deleting
<1>1. Typed'
  BY TypedNext
<1>2. ASSUME NEW h \in Handler, NEW p \in PodName, NEW networks \in Annotation,
             ReceiveCreate(h, p, networks)
      PROVE  Deleting'
  BY <1>1, <1>2, ReceiveCreateDeleting
<1>3. ASSUME NEW h \in Handler, NEW p \in PodName, NEW final \in BOOLEAN,
             NEW uid \in {0, pods[p].uid}, ReceiveDelete(h, p, uid, final)
      PROVE  Deleting'
  <2>1. /\ req'[h].op = "DELETE" /\ pc'[h] = "get" /\ local' = local
        /\ \A g \in Handler : g # h => req'[g] = req[g] /\ pc'[g] = pc[g]
        /\ UNCHANGED <<ports, nextPort, pods, creates, admitted>>
    BY <1>3 DEF ReceiveDelete, Typed, TypeOK, providerVars, apiVars, historyVars
  <2> QED
    BY <1>1, <2>1, QuietDeleting
<1>4. ASSUME NEW h \in Handler, Serve(h) PROVE Deleting'
  BY <1>1, <1>4, ServeDeleting
<1>5. ASSUME NEW h \in Handler, Complete(h) PROVE Deleting'
  BY <1>1, <1>5, CompleteDeleting
<1>6. ASSUME NEW h \in Handler, Timeout(h) PROVE Deleting'
  BY <1>1, <1>6, QuietDeleting DEF Timeout, providerVars, apiVars, historyVars
<1>7. ASSUME NEW p \in PodName, UpdateStatus(p) PROVE Deleting'
  <2>1. /\ UNCHANGED <<ports, nextPort, creates, admitted, pc, req, local>>
        /\ pods' = [pods EXCEPT ![p].version = @ + 1]
    BY <1>7 DEF UpdateStatus, providerVars, historyVars, handlerVars
  <2> QED
    BY <1>1, <2>1, WriterLeavesEntries, QuietDeleting DEF Typed
<1>8. CASE Crash
  BY <1>1, <1>8, QuietDeleting DEF Crash, Typed, TypeOK, providerVars, apiVars, historyVars
<1>9. CASE UNCHANGED vars
  BY <1>1, <1>9, QuietDeleting DEF vars
<1> QED
  BY <1>2, <1>3, <1>4, <1>5, <1>6, <1>7, <1>8, <1>9 DEF Next

-----------------------------------------------------------------------------
(* The property *)

\* Pods are written by the API server, by updates and by others.
LEMMA PodsWritten ==
  ASSUME [Next]_vars
  PROVE  \/ pods' = pods
         \/ \E h \in Handler : StorePod(h) \/ DeletePod(h) \/ UpdatePod(h) \/ UpdatePodFails(h)
         \/ \E p \in PodName : UpdateStatus(p)
<1>1. ASSUME NEW h \in Handler, Serve(h)
      PROVE  pods' = pods \/ UpdatePod(h) \/ UpdatePodFails(h)
  BY <1>1 DEF Serve, ListNetworks, ListNetworksFails, CreatePort, CreatePortFails, GetPod,
              DeletePort, DeletePortFails, apiVars
<1>2. ASSUME NEW h \in Handler, Complete(h)
      PROVE  pods' = pods \/ StorePod(h) \/ DeletePod(h)
  BY <1>2 DEF Complete, RefusePod, DropResponse, apiVars
<1>3. ASSUME NEW h \in Handler, NEW p \in PodName, NEW networks \in Annotation,
             ReceiveCreate(h, p, networks)
      PROVE  pods' = pods
  BY <1>3 DEF ReceiveCreate
<1>4. ASSUME NEW h \in Handler, NEW p \in PodName, NEW final \in BOOLEAN,
             NEW uid \in {0, pods[p].uid}, ReceiveDelete(h, p, uid, final)
      PROVE  pods' = pods
  BY <1>4 DEF ReceiveDelete, apiVars
<1>5. ASSUME NEW h \in Handler, Timeout(h) PROVE pods' = pods
  BY <1>5 DEF Timeout, apiVars
<1>6. ASSUME Crash \/ UNCHANGED vars PROVE pods' = pods
  BY <1>6 DEF Crash, vars, apiVars
<1> QED
  BY <1>1, <1>2, <1>3, <1>4, <1>5, <1>6 DEF Next

\* The only writer of an annotation is an update whose DELETE has deleted every
\* port that the pod it has read, and only that pod, names.
LEMMA ClearedStep ==
  ASSUME Deleting, [Next]_vars, NEW p \in PodName, Exists(p), pods'[p].uid = pods[p].uid,
         pods'[p].networksSpec # pods[p].networksSpec
  PROVE  /\ pods'[p].networksSpec = {}
         /\ \A q \in ports : q.id \notin PortIDs(pods[p].networksSpec)
<1> USE DEF Deleting
<1>1. pods' # pods
  OBVIOUS
<1>2. PICK h \in Handler :
        \/ StorePod(h) \/ DeletePod(h)
        \/ (UpdatePod(h) \/ UpdatePodFails(h)) /\ WriteAnnotation(req[h].pod) /\ Unmodified(h)
  <2>1. ASSUME NEW r \in PodName, UpdateStatus(r) PROVE FALSE
    BY <2>1 DEF UpdateStatus, Typed, TypeOK, Pod
  <2> QED
    BY <1>1, <2>1, PodsWritten DEF UpdatePod, UpdatePodFails
<1>3. CASE StorePod(h)
  BY <1>3 DEF StorePod, Typed, TypeOK
<1>4. CASE DeletePod(h)
  <2> DEFINE pod == [pods[req[h].pod] EXCEPT !.deleting = TRUE, !.version = @ + 1]
  <2>1. \/ pods' = [pods EXCEPT ![req[h].pod] = NoPod]
        \/ pods' = [pods EXCEPT ![req[h].pod] = pod]
    BY <1>1, <1>4 DEF DeletePod
  <2>2. p = req[h].pod => pod.networksSpec = pods[p].networksSpec /\ NoPod.uid # pods[p].uid
    BY DEF Typed, TypeOK, Pod, NoPod, Exists
  <2> HIDE DEF pod
  <2> QED
    BY <2>1, <2>2 DEF Typed, TypeOK
<1>5. CASE UpdatePod(h) \/ UpdatePodFails(h)
  <2>1. pc[h] = "update" /\ WriteAnnotation(req[h].pod) /\ Unmodified(h)
    BY <1>2, <1>3, <1>4, <1>5 DEF UpdatePod, UpdatePodFails, StorePod, DeletePod, Waiting
  <2>2. req[h].pod = p /\ pods'[p].networksSpec = {}
    BY <2>1, DeletesNamePods DEF WriteAnnotation, Typed, TypeOK, Pod
  <2>3. pods[p].uid = local[h].uid /\ local[h].networksSpec = {}
    BY <2>1, <2>2 DEF Unmodified, DeletesReadTheirPod
  <2> QED
    BY <2>1, <2>2, <2>3 DEF DeletesReadTheirPod, PortIDs
<1> QED
  BY <1>2, <1>3, <1>4, <1>5

\* An annotation is emptied, and changed otherwise never, when none of the
\* ports it names is left: whatever fails or dies in between, however many
\* handlers work on the pod or on earlier pods of its name, and wherever the
\* annotation was copied from.
THEOREM ClearedWhenGone == Spec => ClearedOnlyWhenPortsGone
<1>1. Init => Deleting
  BY DeletingInit
<1>2. Deleting /\ [Next]_vars => Deleting'
  BY DeletingNext
<1>3. Deleting /\ [Next]_vars =>
        [\A p \in PodName :
           Exists(p) /\ pods'[p].uid = pods[p].uid =>
             \/ pods'[p].networksSpec = pods[p].networksSpec
             \/ /\ pods'[p].networksSpec = {}
                /\ \A q \in ports : q.id \notin PortIDs(pods[p].networksSpec)]_vars
  BY ClearedStep
<1> QED
  BY <1>1, <1>2, <1>3, PTL DEF Spec, ClearedOnlyWhenPortsGone

=============================================================================
