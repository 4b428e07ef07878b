------------------------------ MODULE Admission ------------------------------
(***************************************************************************)
(* The mutating admission webhook of pkg/admission, with the two services  *)
(* it writes to: the Neutron API, which holds the ports, and the           *)
(* Kubernetes API server, which holds the pods and calls the webhook.      *)
(*                                                                         *)
(* Every call of Admit runs in a goroutine of its own (a Handler).  Each   *)
(* remote call a handler makes is one step, so handlers, the API server    *)
(* and other writers of a pod interleave between any two of them.  Env     *)
(* names the environment behaviours a model allows; see EnvKinds.          *)
(***************************************************************************)
EXTENDS Naturals, Sequences, FiniteSets

CONSTANTS
  Handler,      \* goroutines that may serve Admit at the same time
  PodName,      \* namespace/name keys of pods
  NetworkName,  \* the names that may occur in a networks annotation
  NetworkList,  \* Neutron's networks, in the order the API lists them
  PortNames,    \* PortNames[n]: the values generatePortName(n) may return
  Mac,          \* the values generateRandomMac may return
  Annotation,   \* the networks annotations users write, split and trimmed
  NoPhysnet,    \* the empty provider:physical_network of an overlay network
  Main,         \* ReservedMainResourceName
  Overlay,      \* ReservedOverlayResourceName
  Env,          \* the environment behaviours this model allows
  MaxCreates,   \* bound: CREATE requests in a behaviour
  MaxVersion    \* bound: resourceVersion a status update may leave behind

(***************************************************************************)
(* createFails      Neutron answers a list or create call with an error    *)
(* createReplyLost  it creates the port, but the caller sees an error      *)
(* deleteFails, deleteReplyLost    the same for the deletion of a port     *)
(* apiFails, updateReplyLost       the same for calls to the API server    *)
(* rejected         the API server refuses a CREATE the webhook allowed    *)
(* crash            the admission process dies with all its handlers       *)
(* timeout          the API server stops waiting; the handler runs on      *)
(* statusUpdate     somebody else writes the pod between read and update   *)
(* overlap          DELETE requests for one name may overlap               *)
(* nameReuse        the name of a removed pod may be given to a new one    *)
(* copiedSpec       a new pod may come with a stored pod's networksSpec    *)
(***************************************************************************)
EnvKinds == {"createFails", "createReplyLost", "deleteFails", "deleteReplyLost",
             "apiFails", "updateReplyLost", "rejected", "crash", "timeout",
             "statusUpdate", "overlap", "nameReuse", "copiedSpec"}

Physnet == {NetworkList[i].physnet : i \in DOMAIN NetworkList} \cup {NoPhysnet}
NetworkID == {NetworkList[i].id : i \in DOMAIN NetworkList}
ResourceName == Physnet \cup {Main, Overlay}
AnyPortName == UNION {PortNames[n] : n \in NetworkName}

ASSUME NetworkAssumption ==
  /\ NetworkList \in Seq([name : NetworkName, id : NetworkID,
                          physnet : Physnet, subnet : BOOLEAN])
  /\ PortNames \in [NetworkName -> SUBSET AnyPortName]
  /\ Annotation \subseteq Seq(NetworkName)

\* The flags say that the reserved names are not used for physnets.
ASSUME ResourceAssumption ==
  /\ Main # Overlay
  /\ {Main, Overlay} \cap Physnet = {}

ASSUME EnvAssumption == Env \subseteq EnvKinds

ASSUME BoundAssumption == MaxCreates \in Nat /\ MaxVersion \in Nat

VARIABLES
  ports,        \* Neutron: the ports that exist
  nextPort,     \* Neutron: the next port ID
  pods,         \* API server: what is stored under each name
  creates,      \* API server: CREATE requests so far, numbers the UIDs
  pc,           \* handler: where it is
  req,          \* handler: the AdmissionRequest it serves
  local,        \* handler: its local variables
  abandoned,    \* handlers whose caller no longer waits for the response
  admitted,     \* history: [uid, pod] of every pod ever stored
  examined      \* history: UIDs whose networksSpec a DELETE handler has read

providerVars == <<ports, nextPort>>
apiVars == <<pods, creates>>
handlerVars == <<pc, req, local, abandoned>>
historyVars == <<admitted, examined>>
vars == <<ports, nextPort, pods, creates, pc, req, local, abandoned,
          admitted, examined>>

-----------------------------------------------------------------------------
(* Data *)

\* A Neutron port.  The field pod is history: the UID of the pod whose CREATE
\* request the port was made for; Neutron does not know it.
Port == [id : Nat, network : NetworkID, name : AnyPortName, mac : Mac,
         pod : Nat]

\* A NetworksSpec is a map from network name to NetworkSpec; it is written
\* here as a set of entries, at most one per network.
Entry == [network : NetworkName, portName : AnyPortName, portID : Nat,
          macAddress : Mac]

Put(spec, e) == {f \in spec : f.network # e.network} \cup {e}
PortIDs(spec) == {e.portID : e \in spec}

\* An absent networks annotation: splitting one never gives an empty list.
NoNetworks == <<>>

NoResources == [r \in ResourceName |-> 0]

Pod == [uid : Nat, version : Nat, networks : Seq(NetworkName),
        networksSpec : SUBSET Entry, args : Seq(AnyPortName),
        limits : [ResourceName -> Nat], deleting : BOOLEAN]

NoPod == [uid |-> 0, version |-> 0, networks |-> NoNetworks,
          networksSpec |-> {}, args |-> <<>>, limits |-> NoResources,
          deleting |-> FALSE]

Exists(p) == pods[p].uid # 0

\* For a CREATE, uid is the UID of the new pod.  For a DELETE it is the UID
\* precondition, 0 if there is none; final is a grace period of zero.
Request == [op : {"CREATE", "DELETE"}, pod : PodName, uid : Nat,
            networks : Seq(NetworkName), final : BOOLEAN]

NoRequest == [op |-> "none"]

\* The networks still to serve, networksSpec, dhclientInterfaces,
\* requestedResources, and the UID and resourceVersion of the pod read.
Local == [todo : Seq(NetworkName), networksSpec : SUBSET Entry,
          dhclient : Seq(AnyPortName), requested : [ResourceName -> Nat],
          uid : Nat, version : Nat]

NoLocal == [todo |-> <<>>, networksSpec |-> {}, dhclient |-> <<>>,
            requested |-> NoResources, uid |-> 0, version |-> 0]

NetworkNamed(n) == {i \in DOMAIN NetworkList : NetworkList[i].name = n}

\* Several networks may carry one name: the last one listed wins.
NetworkByName(n) ==
  NetworkList[CHOOSE i \in NetworkNamed(n) : \A j \in NetworkNamed(n) : j <= i]

\* Mutant: a second network on a physnet is not counted.
AddResourceOnce(requested, physnet) ==
  [requested EXCEPT ![IF physnet # NoPhysnet THEN physnet ELSE Overlay] = 1]

\* requestedResources is looked up under the physnet in both branches, so for
\* an overlay network under the empty string.
AddResource(requested, physnet) ==
  IF physnet # NoPhysnet
    THEN [requested EXCEPT ![physnet] = @ + 1]
    ELSE [requested EXCEPT ![Overlay] =
            IF requested[physnet] > 0 THEN @ + 1 ELSE 1]

\* Mutants: the name of the network instead of the port's; a physnet without a
\* subnet left out.
AddInterfaceNetwork(dhclient, network, portName) ==
  IF network.physnet # NoPhysnet \/ network.subnet
    THEN Append(dhclient, network.name)
    ELSE dhclient

AddInterfaceSubnet(dhclient, network, portName) ==
  IF network.subnet THEN Append(dhclient, portName) ELSE dhclient

AddInterface(dhclient, network, portName) ==
  IF network.physnet # NoPhysnet \/ network.subnet
    THEN Append(dhclient, portName)
    ELSE dhclient

\* The resource list of the side-container.
Limits(requested) ==
  [requested EXCEPT ![Main] = IF @ > 0 THEN @ ELSE 1]

-----------------------------------------------------------------------------
(* Handlers *)

Init ==
  /\ ports = {}
  /\ nextPort = 1
  /\ pods = [p \in PodName |-> NoPod]
  /\ creates = 0
  /\ pc = [h \in Handler |-> "idle"]
  /\ req = [h \in Handler |-> NoRequest]
  /\ local = [h \in Handler |-> NoLocal]
  /\ abandoned = {}
  /\ admitted = {}
  /\ examined = {}

\* Mutant: networksSpec outlives the request it was made for.
FinishKeepsSpec(h) ==
  /\ pc' = [pc EXCEPT ![h] = "idle"]
  /\ req' = [req EXCEPT ![h] = NoRequest]
  /\ local' = [local EXCEPT ![h] = [NoLocal EXCEPT
                                    !.networksSpec = local[h].networksSpec]]
  /\ abandoned' = abandoned \ {h}

\* The request is over: the response was denied, or has been used.
Finish(h) ==
  /\ pc' = [pc EXCEPT ![h] = "idle"]
  /\ req' = [req EXCEPT ![h] = NoRequest]
  /\ local' = [local EXCEPT ![h] = NoLocal]
  /\ abandoned' = abandoned \ {h}

Goto(h, label) ==
  /\ pc' = [pc EXCEPT ![h] = label]
  /\ UNCHANGED <<req, abandoned>>

\* The networksSpec a manifest without the networks annotation may come with;
\* with that annotation the handler overwrites it.
Carried(networks) ==
  IF networks = NoNetworks /\ "copiedSpec" \in Env
    THEN {pods[p].networksSpec : p \in PodName} \cup {{}}
    ELSE {{}}

\* A pod without the networks annotation is allowed unchanged.
ReceiveCreate(h, p, networks) ==
  /\ pc[h] = "idle"
  /\ creates < MaxCreates
  /\ creates' = creates + 1
  /\ req' = [req EXCEPT ![h] = [op |-> "CREATE", pod |-> p, uid |-> creates + 1,
                                networks |-> networks, final |-> FALSE]]
  /\ \E spec \in Carried(networks) :
       local' = [local EXCEPT ![h].networksSpec = spec]
  /\ pc' = [pc EXCEPT ![h] = IF networks = NoNetworks THEN "allowed" ELSE "list"]
  /\ UNCHANGED <<providerVars, pods, abandoned, historyVars>>

\* ListNetworkByName and the check that every requested network exists.
ListNetworks(h) ==
  /\ pc[h] = "list"
  /\ LET networks == req[h].networks IN
       IF \A i \in DOMAIN networks : NetworkNamed(networks[i]) # {}
         THEN /\ Goto(h, "ports")
              /\ local' = [local EXCEPT ![h].todo = networks]
         ELSE Finish(h)
  /\ UNCHANGED <<providerVars, apiVars, historyVars>>

ListNetworksFails(h) ==
  /\ "createFails" \in Env
  /\ pc[h] = "list"
  /\ Finish(h)
  /\ UNCHANGED <<providerVars, apiVars, historyVars>>

\* Neutron creates a port for network n.
NewPort(h, n, name, mac) ==
  /\ ports' = ports \cup {[id |-> nextPort, network |-> NetworkByName(n).id,
                           name |-> name, mac |-> mac, pod |-> req[h].uid]}
  /\ nextPort' = nextPort + 1

\* One round of the loop over the requested networks; the last round is
\* followed by building the annotation, the side-container and the patch.
CreatePort(h) ==
  /\ pc[h] = "ports"
  /\ LET n == Head(local[h].todo) IN
       \E name \in PortNames[n], mac \in Mac :
         /\ NewPort(h, n, name, mac)
         /\ local' = [local EXCEPT
              ![h].todo = Tail(@),
              ![h].networksSpec = Put(@, [network |-> n, portName |-> name,
                                          portID |-> nextPort, macAddress |-> mac]),
              ![h].requested = AddResource(@, NetworkByName(n).physnet),
              ![h].dhclient = AddInterface(@, NetworkByName(n), name)]
  /\ Goto(h, IF Tail(local[h].todo) = <<>> THEN "allowed" ELSE "ports")
  /\ UNCHANGED <<apiVars, historyVars>>

\* Mutant: the error is logged and the loop goes on.
CreatePortFailsContinue(h) ==
  /\ "createFails" \in Env
  /\ pc[h] = "ports"
  /\ local' = [local EXCEPT ![h].todo = Tail(@)]
  /\ Goto(h, IF Tail(local[h].todo) = <<>> THEN "allowed" ELSE "ports")
  /\ UNCHANGED <<providerVars, apiVars, historyVars>>

\* The ports made in earlier rounds stay.
CreatePortFails(h) ==
  /\ pc[h] = "ports"
  /\ \/ /\ "createFails" \in Env
        /\ UNCHANGED providerVars
     \/ /\ "createReplyLost" \in Env
        /\ LET n == Head(local[h].todo) IN
             \E name \in PortNames[n], mac \in Mac : NewPort(h, n, name, mac)
  /\ Finish(h)
  /\ UNCHANGED <<apiVars, historyVars>>

DeletionUnderway(p) ==
  \E h \in Handler : req[h].op = "DELETE" /\ req[h].pod = p

\* A DELETE for a pod that is stored; others are refused by GetPod.  Users
\* and controllers send no UID; the kubelet finishes a graceful deletion with
\* the UID of the pod it has stopped.
ReceiveDelete(h, p, uid, final) ==
  /\ pc[h] = "idle"
  /\ Exists(p)
  /\ "overlap" \in Env \/ ~DeletionUnderway(p)
  /\ \/ uid = 0
     \/ uid = pods[p].uid /\ pods[p].deleting /\ final
  /\ req' = [req EXCEPT ![h] = [op |-> "DELETE", pod |-> p, uid |-> uid,
                                networks |-> NoNetworks, final |-> final]]
  /\ pc' = [pc EXCEPT ![h] = "get"]
  /\ UNCHANGED <<providerVars, apiVars, local, abandoned, historyVars>>

\* The pod is looked up by name, whatever UID the request is about.
GetPod(h) ==
  /\ pc[h] = "get"
  /\ LET pod == pods[req[h].pod] IN
       \/ /\ ~Exists(req[h].pod) \/ "apiFails" \in Env
          /\ Finish(h)
          /\ UNCHANGED examined
       \/ /\ Exists(req[h].pod) /\ pod.networksSpec = {}
          /\ Goto(h, "allowed")
          /\ UNCHANGED <<local, examined>>
       \/ /\ Exists(req[h].pod) /\ pod.networksSpec # {}
          /\ Goto(h, "unport")
          /\ local' = [local EXCEPT ![h].networksSpec = pod.networksSpec,
                                    ![h].uid = pod.uid,
                                    ![h].version = pod.version]
          /\ examined' = examined \cup {pod.uid}
  /\ UNCHANGED <<providerVars, apiVars, admitted>>

Drop(id) == ports' = {q \in ports : q.id # id}

\* One round of the loop over networksSpec, in any order; the last round is
\* followed by the update of the annotation.
DeletePort(h) ==
  /\ pc[h] = "unport"
  /\ \E e \in local[h].networksSpec :
       /\ \E q \in ports : q.id = e.portID
       /\ Drop(e.portID)
       /\ local' = [local EXCEPT ![h].networksSpec = @ \ {e}]
       /\ Goto(h, IF local[h].networksSpec = {e} THEN "update" ELSE "unport")
  /\ UNCHANGED <<nextPort, apiVars, historyVars>>

\* Mutant: the error is logged and the loop goes on.
DeletePortFailsContinue(h) ==
  /\ pc[h] = "unport"
  /\ \E e \in local[h].networksSpec :
       /\ "deleteFails" \in Env \/ \A q \in ports : q.id # e.portID
       /\ local' = [local EXCEPT ![h].networksSpec = @ \ {e}]
       /\ Goto(h, IF local[h].networksSpec = {e} THEN "update" ELSE "unport")
  /\ UNCHANGED <<providerVars, apiVars, historyVars>>

\* Any error ends the request, also that the port does not exist any more.
DeletePortFails(h) ==
  /\ pc[h] = "unport"
  /\ \E e \in local[h].networksSpec :
       \/ /\ "deleteFails" \in Env \/ \A q \in ports : q.id # e.portID
          /\ UNCHANGED ports
       \/ /\ "deleteReplyLost" \in Env
          /\ Drop(e.portID)
  /\ Finish(h)
  /\ UNCHANGED <<nextPort, apiVars, historyVars>>

\* Mutant: the annotation is patched by name, without a resourceVersion.
UnmodifiedByName(h) == Exists(req[h].pod)

\* Update carries the resourceVersion of the pod that was read.
Unmodified(h) ==
  LET pod == pods[req[h].pod] IN
    Exists(req[h].pod) /\ pod.uid = local[h].uid /\ pod.version = local[h].version

\* Mutant: the emptied networksSpec is not put back into the annotation.
WriteAnnotationKept(p) == pods' = [pods EXCEPT ![p].version = @ + 1]

WriteAnnotation(p) ==
  pods' = [pods EXCEPT ![p] = [pods[p] EXCEPT !.networksSpec = {}, !.version = @ + 1]]

UpdatePod(h) ==
  /\ pc[h] = "update"
  /\ Unmodified(h)
  /\ WriteAnnotation(req[h].pod)
  /\ Goto(h, "allowed")
  /\ UNCHANGED <<providerVars, creates, local, historyVars>>

UpdatePodFails(h) ==
  /\ pc[h] = "update"
  /\ \/ /\ ~Unmodified(h) \/ "apiFails" \in Env
        /\ UNCHANGED pods
     \/ /\ Unmodified(h) /\ "updateReplyLost" \in Env
        /\ WriteAnnotation(req[h].pod)
  /\ Finish(h)
  /\ UNCHANGED <<providerVars, creates, historyVars>>

\* No state survives in the process: AdmissionHook only holds its clients.
Crash ==
  /\ "crash" \in Env
  /\ LET dead == {h \in Handler : pc[h] \notin {"idle", "allowed"}} IN
       /\ dead # {}
       /\ pc' = [h \in Handler |-> IF h \in dead THEN "idle" ELSE pc[h]]
       /\ req' = [h \in Handler |-> IF h \in dead THEN NoRequest ELSE req[h]]
       /\ local' = [h \in Handler |-> IF h \in dead THEN NoLocal ELSE local[h]]
       /\ abandoned' = abandoned \ dead
  /\ UNCHANGED <<providerVars, apiVars, historyVars>>

-----------------------------------------------------------------------------
(* The API server and the other writers of a pod *)

Waiting(h, op) ==
  pc[h] = "allowed" /\ h \notin abandoned /\ req[h].op = op

\* The patched pod is stored.
StorePod(h) ==
  LET p == req[h].pod IN
  /\ Waiting(h, "CREATE")
  /\ ~Exists(p)
  /\ "nameReuse" \in Env \/ \A a \in admitted : a.pod # p
  /\ pods' = [pods EXCEPT ![p] =
       [uid |-> req[h].uid, version |-> 1, networks |-> req[h].networks,
        networksSpec |-> local[h].networksSpec, args |-> local[h].dhclient,
        limits |-> IF req[h].networks = NoNetworks THEN NoResources
                   ELSE Limits(local[h].requested),
        deleting |-> FALSE]]
  /\ admitted' = admitted \cup {[uid |-> req[h].uid, pod |-> p]}
  /\ Finish(h)
  /\ UNCHANGED <<providerVars, creates, examined>>

\* The name is taken, or the pod is refused after the webhook allowed it.
RefusePod(h) ==
  /\ Waiting(h, "CREATE")
  /\ \/ Exists(req[h].pod)
     \/ "nameReuse" \notin Env /\ \E a \in admitted : a.pod = req[h].pod
     \/ "rejected" \in Env
  /\ Finish(h)
  /\ UNCHANGED <<providerVars, apiVars, historyVars>>

\* A deletion with a grace period only marks the pod.  The pod is the one the
\* name stands for by now; a UID precondition is checked here.
DeletePod(h) ==
  LET p == req[h].pod IN
  /\ Waiting(h, "DELETE")
  /\ \/ /\ Exists(p) /\ req[h].uid \in {0, pods[p].uid}
        /\ \/ req[h].final
              /\ pods' = [pods EXCEPT ![p] = NoPod]
           \/ ~req[h].final /\ ~pods[p].deleting
              /\ pods' = [pods EXCEPT
                   ![p] = [pods[p] EXCEPT !.deleting = TRUE, !.version = @ + 1]]
           \/ ~req[h].final /\ pods[p].deleting
              /\ UNCHANGED pods
     \/ /\ ~Exists(p) \/ req[h].uid \notin {0, pods[p].uid}
        /\ UNCHANGED pods
  /\ Finish(h)
  /\ UNCHANGED <<providerVars, creates, historyVars>>

\* The webhook call times out at the API server; the handler is not told.
Timeout(h) ==
  /\ "timeout" \in Env
  /\ pc[h] # "idle" /\ h \notin abandoned
  /\ abandoned' = abandoned \cup {h}
  /\ UNCHANGED <<providerVars, apiVars, pc, req, local, historyVars>>

\* The response of such a handler reaches nobody.
DropResponse(h) ==
  /\ pc[h] = "allowed" /\ h \in abandoned
  /\ Finish(h)
  /\ UNCHANGED <<providerVars, apiVars, historyVars>>

\* The kubelet, the scheduler or a user writes the pod.
UpdateStatus(p) ==
  /\ "statusUpdate" \in Env
  /\ Exists(p) /\ pods[p].version < MaxVersion
  /\ pods' = [pods EXCEPT ![p].version = @ + 1]
  /\ UNCHANGED <<providerVars, creates, handlerVars, historyVars>>

-----------------------------------------------------------------------------

Serve(h) ==
  \/ ListNetworks(h) \/ ListNetworksFails(h)
  \/ CreatePort(h) \/ CreatePortFails(h)
  \/ GetPod(h)
  \/ DeletePort(h) \/ DeletePortFails(h)
  \/ UpdatePod(h) \/ UpdatePodFails(h)

Complete(h) == StorePod(h) \/ RefusePod(h) \/ DeletePod(h) \/ DropResponse(h)

UserDelete(p) == \E h \in Handler : ReceiveDelete(h, p, 0, FALSE)

KubeletDelete(p) == \E h \in Handler : ReceiveDelete(h, p, pods[p].uid, TRUE)

Next ==
  \/ \E h \in Handler :
       \/ \E p \in PodName, networks \in Annotation : ReceiveCreate(h, p, networks)
       \/ \E p \in PodName, final \in BOOLEAN :
            \E uid \in {0, pods[p].uid} : ReceiveDelete(h, p, uid, final)
       \/ Serve(h)
       \/ Complete(h)
       \/ Timeout(h)
  \/ \E p \in PodName : UpdateStatus(p)
  \/ Crash

Spec == Init /\ [][Next]_vars

\* The goroutines and the API server make progress; port deletions do not
\* fail for ever; whoever wants a pod gone repeats the DELETE while the pod is
\* there, and so does the kubelet.
FairSpec ==
  /\ Spec
  /\ \A h \in Handler :
       /\ WF_vars(Serve(h))
       /\ WF_vars(Complete(h))
       /\ SF_vars(DeletePort(h))
  /\ \A p \in PodName : SF_vars(UserDelete(p)) /\ SF_vars(KubeletDelete(p))

-----------------------------------------------------------------------------
(* Properties *)

\* Every variable has its type.
TypeOK ==
  /\ ports \subseteq Port
  /\ nextPort \in Nat
  /\ pods \in [PodName -> Pod]
  /\ creates \in Nat
  /\ pc \in [Handler -> {"idle", "list", "ports", "get", "unport", "update",
                         "allowed"}]
  /\ req \in [Handler -> Request \cup {NoRequest}]
  /\ local \in [Handler -> Local]
  /\ abandoned \subseteq Handler
  /\ admitted \subseteq [uid : Nat, pod : PodName]
  /\ examined \subseteq Nat

AdmittedUIDs == {a.uid : a \in admitted}

\* The port q is named by the networksSpec of the pod it was made for.
Listed(q) ==
  \E p \in PodName : pods[p].uid = q.pod /\ q.id \in PortIDs(pods[p].networksSpec)

\* No pod that was ever stored leaves a port behind: as long as a port made
\* for it exists, the pod is stored and its networksSpec names the port, so a
\* later DELETE can find it.  This is what handleAdmissionRequestToDelete is
\* for, however its calls fail, overlap or are repeated.
PortsAccountedFor ==
  \A q \in ports : q.pod \in AdmittedUIDs => Listed(q)

Elements(s) == {s[i] : i \in DOMAIN s}

\* The networksSpec of a pod no DELETE handler has read yet describes its
\* attachments as Neutron has them: one port for each requested network, of
\* that network, with the name and the MAC that the device plugin will use.
\* Handlers that serve other pods, or an earlier pod of that name, leave the
\* ports and the annotation alone.
FreshPodFullyWired ==
  \A p \in PodName : Exists(p) /\ pods[p].uid \notin examined =>
    LET pod == pods[p] IN
      /\ {e.network : e \in pod.networksSpec} = Elements(pod.networks)
      /\ \A e \in pod.networksSpec : \E q \in ports :
           /\ q.id = e.portID /\ q.pod = pod.uid
           /\ q.network = NetworkByName(e.network).id
           /\ q.name = e.portName /\ q.mac = e.macAddress

NeedsDHCP(n) == NetworkByName(n).physnet # NoPhysnet \/ NetworkByName(n).subnet

\* The side-container waits for exactly the interfaces that will be made for
\* networks with a subnet or a physnet: each of its arguments is the port name
\* of such an entry and each such entry is among its arguments.
SidecarArgsMatchSpec ==
  \A p \in PodName : Exists(p) /\ pods[p].uid \notin examined =>
    Elements(pods[p].args) =
      {e.portName : e \in {f \in pods[p].networksSpec : NeedsDHCP(f.network)}}

\* The places in the annotation of the networks on a physnet.
OnPhysnet(networks, r) ==
  {i \in DOMAIN networks : NetworkByName(networks[i]).physnet = r}

\* The side-container asks for one main device, the only quantity Allocate of
\* the main plugin accepts, for one device of a physnet per network on it, and
\* for one overlay attachment if any network is an overlay (a pod takes one
\* however many it requests).
ResourcesMatchNetworks ==
  \A p \in PodName : Exists(p) /\ pods[p].networks # NoNetworks =>
    LET pod == pods[p] IN
      /\ pod.limits[Main] = 1
      /\ pod.limits[Overlay] = IF OnPhysnet(pod.networks, NoPhysnet) # {} THEN 1 ELSE 0
      /\ \A r \in Physnet \ {NoPhysnet} :
           pod.limits[r] = Cardinality(OnPhysnet(pod.networks, r))

\* What the annotation of a stored pod says changes once only: from all its
\* entries to none, and that when none of their ports exists any more.  A
\* networksSpec that was cleared earlier would lose the ports left.
ClearedOnlyWhenPortsGone ==
  [][\A p \in PodName :
       Exists(p) /\ pods'[p].uid = pods[p].uid =>
         \/ pods'[p].networksSpec = pods[p].networksSpec
         \/ /\ pods'[p].networksSpec = {}
            /\ \A q \in ports : q.id \notin PortIDs(pods[p].networksSpec)]_vars

\* A pod somebody keeps asking to delete goes, with all its ports.
DeletionCompletes ==
  \A p \in PodName, u \in 1..MaxCreates :
    pods[p].uid = u ~> (pods[p].uid # u /\ \A q \in ports : q.pod # u)

-----------------------------------------------------------------------------
(* Why PortsAccountedFor holds: its inductive strengthening.  It needs that no
   annotation names a network twice and that no name is given to a second pod. *)

DistinctNetworks ==
  \A s \in Annotation : \A i, j \in DOMAIN s : s[i] = s[j] => i = j

\* What a handler's place says about its request and local variables.
HandlersWellFormed ==
  \A h \in Handler :
    /\ pc[h] = "idle" => req[h] = NoRequest /\ local[h] = NoLocal
    /\ pc[h] \in {"list", "ports"} => req[h].op = "CREATE"
    /\ pc[h] \in {"get", "unport", "update"} => req[h].op = "DELETE"
    /\ pc[h] = "allowed" => req[h].op \in {"CREATE", "DELETE"}
    /\ pc[h] = "list" =>
         local[h] = NoLocal /\ req[h].networks \in Annotation \ {NoNetworks}
    /\ pc[h] = "ports" =>
         /\ local[h].todo # <<>>
         /\ \A i \in DOMAIN local[h].todo : NetworkNamed(local[h].todo[i]) # {}

\* The networks left to serve are distinct and have no entry yet.
TodoDistinct ==
  \A h \in Handler : pc[h] = "ports" =>
    LET todo == local[h].todo IN
      /\ \A i, j \in DOMAIN todo : todo[i] = todo[j] => i = j
      /\ \A i \in DOMAIN todo, e \in local[h].networksSpec : e.network # todo[i]

\* A port, a stored pod and a CREATE in progress each have a UID handed out
\* before; only stored pods have one that was admitted.
UIDsConsistent ==
  /\ \A q \in ports : q.pod \in 1..creates
  /\ AdmittedUIDs \subseteq 1..creates
  /\ \A p \in PodName : Exists(p) => [uid |-> pods[p].uid, pod |-> p] \in admitted
  /\ \A h \in Handler : req[h].op = "CREATE" =>
       req[h].uid \in 1..creates /\ req[h].uid \notin AdmittedUIDs
  /\ \A g, h \in Handler : g # h /\ req[g].op = "CREATE" /\ req[h].op = "CREATE" =>
       req[g].uid # req[h].uid

\* The networksSpec of a stored pod, of a CREATE and of a DELETE in progress
\* names all the ports there are of its pod.
PodsNameTheirPorts ==
  \A p \in PodName, q \in ports :
    q.pod = pods[p].uid => q.id \in PortIDs(pods[p].networksSpec)

CreatesNameTheirPorts ==
  \A h \in Handler, q \in ports :
    req[h].op = "CREATE" /\ q.pod = req[h].uid =>
      q.id \in PortIDs(local[h].networksSpec)

DeletesNameTheirPorts ==
  \A h \in Handler : req[h].op = "DELETE" =>
    /\ \E r \in admitted : r.pod = req[h].pod
    /\ pc[h] \in {"unport", "update"} =>
         /\ local[h].uid \in AdmittedUIDs
         /\ \A q \in ports : q.pod = local[h].uid =>
              q.id \in PortIDs(local[h].networksSpec)
    /\ pc[h] = "update" => local[h].networksSpec = {}
    /\ pc[h] = "allowed" => \A q \in ports : q.pod # pods[req[h].pod].uid

\* The inductive invariant: an allowed DELETE finds no port of its pod left, so
\* removing the pod loses none, and the annotation is emptied only then.
Accounting ==
  /\ TypeOK
  /\ HandlersWellFormed
  /\ TodoDistinct
  /\ UIDsConsistent
  /\ PodsNameTheirPorts
  /\ CreatesNameTheirPorts
  /\ DeletesNameTheirPorts
  /\ PortsAccountedFor

-----------------------------------------------------------------------------
(* The promise behind these properties, and what its refinement needs beside
   Accounting *)

LiveUIDs == {pods[p].uid : p \in {q \in PodName : Exists(q)}}

Lease == INSTANCE PortLease WITH
  ports <- {[id |-> q.id, pod |-> q.pod] : q \in ports},
  live <- LiveUIDs,
  gone <- AdmittedUIDs \ LiveUIDs

\* Handlers that fail, overlap, time out and are retried amount to this: ports
\* are reserved for pods to come, released while their pod is stored, and a
\* pod is removed when it has none left.  No handler reserves a port for a pod
\* that was stored already or deletes one of a pod that is not.
LeaseKept == Lease!Spec

\* The pods a handler may name ports of.
PodsServed(h) ==
  AdmittedUIDs \cup (IF req[h].op = "CREATE" THEN {req[h].uid} ELSE {})

\* An entry names an ID that Neutron has handed out, for a port of these pods.
NamesPortOf(e, uids) ==
  e.portID < nextPort /\ \A q \in ports : q.id = e.portID => q.pod \in uids

\* IDs and UIDs are given once, and a networksSpec, wherever it is kept or
\* copied, names no port of a pod that was refused or is still to be stored by
\* another handler: a DELETE cannot hit the ports of a CREATE in progress.
SpecsNameStoredPods ==
  /\ \A q \in ports : q.id < nextPort
  /\ \A q, r \in ports : q.id = r.id => q = r
  /\ \A r, s \in admitted : r.uid = s.uid => r = s
  /\ \A p \in PodName : \A e \in pods[p].networksSpec : NamesPortOf(e, AdmittedUIDs)
  /\ \A h \in Handler : \A e \in local[h].networksSpec : NamesPortOf(e, PodsServed(h))

=============================================================================
