---------------------------- MODULE DevicePlugin ----------------------------
(***************************************************************************)
(* The device plugins of pkg/deviceplugin and the attach-pod script on one *)
(* node, with what they share: the kubelet and its checkpoint file, the    *)
(* API server, Docker, Open vSwitch and the network namespaces.            *)
(*                                                                         *)
(* Allocate starts a goroutine for each allocation of the main resource;   *)
(* it is named here after the pod the kubelet allocated for, which the     *)
(* code has to find out.  A step is one read or change of shared state.    *)
(* Env names the environment behaviours a model allows.                    *)
(***************************************************************************)
EXTENDS Naturals, FiniteSets

CONSTANTS
  Pod,           \* the pods (UIDs) scheduled to the node
  Name,          \* container names without their suffix, k8s_POD_<pod>_<namespace>
  NameOf,        \* NameOf[p]: the one of pod p
  Prefix,        \* <<m, n>>: a container name that starts with n contains m
  Entry,         \* the NetworkSpecs the webhook may store
  NetworksSpec,  \* NetworksSpec[p]: what it stored for pod p, {} if nothing
  Limit,         \* Limit[p]: the count of main devices in the pod's limits
  MainPool,      \* 1000 in the code
  OverlayPool,   \* 100 in the code
  Tries,         \* 11 in the code
  Env            \* the environment behaviours this model allows

(***************************************************************************)
(* slowCheckpoint    the kubelet takes over ten seconds to write the file  *)
(* slowStart         the sandbox takes longer than all the tries           *)
(* podEnds           pods finish, or are stopped to be deleted             *)
(* shortLived        they do so within ten seconds of their allocation     *)
(* podDeleted        they are deleted, and their annotations emptied       *)
(* containerRemoved  a container that ended may be removed at once         *)
(* callFails         calls to the API server or Docker fail, or the file   *)
(*                   cannot be read or parsed                              *)
(* scriptFails       a command of attach-pod fails                         *)
(* crash             the device plugin's process dies                      *)
(***************************************************************************)
EnvKinds == {"slowCheckpoint", "slowStart", "podEnds", "shortLived",
             "podDeleted", "containerRemoved", "callFails", "scriptFails", "crash"}

None == "none"      \* no pod, no MAC, no port ID, no link
Host == "host"      \* the network namespace of the node
Lost == "lost"      \* destroyed with the namespace it was in
Dead == "dead"      \* the PID 0 of a container that does not run

PortName == {e.portName : e \in Entry}
PortID == {e.portID : e \in Entry}
MacAddress == {e.macAddress : e \in Entry}

ASSUME PodAssumption ==
  /\ {None, Host, Lost, Dead} \cap Pod = {}
  /\ None \notin PortID \cup MacAddress
  /\ Entry \subseteq [portName : PortName, portID : PortID, macAddress : MacAddress]
  /\ NameOf \in [Pod -> Name]
  /\ NetworksSpec \in [Pod -> SUBSET Entry]
  /\ Limit \in [Pod -> Nat \ {0}]

ASSUME PrefixAssumption ==
  /\ Prefix \subseteq Name \X Name
  /\ \A n \in Name : <<n, n>> \in Prefix

ASSUME BoundAssumption ==
  /\ MainPool \in Nat
  /\ OverlayPool \in Nat
  /\ Tries \in Nat \ {0}
  /\ Env \subseteq EnvKinds

VARIABLES
  alloc,       \* kubelet: the allocations in its memory
  checkpoint,  \* kubelet: the allocations in its checkpoint file
  stored,      \* API server: the pods it knows
  emptied,     \* API server: the pods whose networksSpec was emptied
  sandbox,     \* Docker: the state of each pod's sandbox container
  iface,       \* Open vSwitch and the kernel: the interface of each name
  links,       \* /var/run/netns: the container each name leads to
  pc,          \* goroutine: where it is
  local        \* goroutine: its local variables and attach-pod's arguments

kubeletVars == <<alloc, checkpoint>>
apiVars == <<stored, emptied>>
nodeVars == <<iface, links>>
goroutineVars == <<pc, local>>
vars == <<alloc, checkpoint, stored, emptied, sandbox, iface, links, pc, local>>

-----------------------------------------------------------------------------
(* Data *)

\* ListAndWatch of the two plugins: the IDs of one are IDs of the other, too.
MainDevices == 1..MainPool
OverlayDevices == 1..OverlayPool
Devices(resource) == IF resource = "main" THEN MainDevices ELSE OverlayDevices

Allocation == [resource : {"main", "overlay"},
               device : MainDevices \cup OverlayDevices, pod : Pod]

Requesting == {p \in Pod : NetworksSpec[p] # {}}

\* place is Host, a pod or Lost, and None if the bridge has no such port.
Interface == [place : Pod \cup {None, Host, Lost}, mac : MacAddress \cup {None},
              up : BOOLEAN, id : PortID \cup {None}]

NoInterface == [place |-> None, mac |-> None, up |-> FALSE, id |-> None]
NewInterface == [place |-> Host, mac |-> None, up |-> FALSE, id |-> None]

NoEntry == [portName |-> None, portID |-> None, macAddress |-> None]

\* allocatedDeviceID, podUID, the entries of networksSpec not yet served, the
\* failed tries, the listed containers not yet inspected, containerPid (named
\* after the pod it is of), and the entry attach-pod works on.
Local == [device : MainDevices \cup {0}, uid : Pod \cup {None},
          todo : SUBSET Entry, tries : Nat, listed : SUBSET Pod,
          pid : Pod \cup {None, Dead}, entry : Entry \cup {NoEntry}]

NoLocal == [device |-> 0, uid |-> None, todo |-> {}, tries |-> 0,
            listed |-> {}, pid |-> None, entry |-> NoEntry]

Script == {"unlink", "link", "move", "address", "up", "mark"}
Label == {"idle", "sleep", "pod", "list", "inspect", "next", "done"} \cup Script

Annotation(p) == IF p \in emptied THEN {} ELSE NetworksSpec[p]

\* strings.Contains(config.Name, containerName), for the sandbox of pod c.
Contains(c, name) == <<name, NameOf[c]>> \in Prefix

Active(p) == sandbox[p] \in {None, "running"}
AllocationsOf(p) == {e \in alloc : e.pod = p}

\* The pod has been admitted and the file says so.
Written(p) == AllocationsOf(p) \subseteq checkpoint

-----------------------------------------------------------------------------
Init ==
  /\ alloc = {}
  /\ checkpoint = {}
  /\ stored = {}
  /\ emptied = {}
  /\ sandbox = [p \in Pod |-> None]
  /\ iface = [n \in PortName |-> NoInterface]
  /\ links = [n \in Name |-> None]
  /\ pc = [p \in Pod |-> "idle"]
  /\ local = [p \in Pod |-> NoLocal]

(***************************************************************************)
(* The kubelet, the API server and Docker                                  *)
(***************************************************************************)

\* Two stored pods never share a name.
Fresh(p) ==
  /\ p \notin stored
  /\ sandbox[p] = None
  /\ \A q \in stored : NameOf[q] # NameOf[p]

SchedulePlain(p) ==
  /\ Fresh(p)
  /\ p \notin Requesting
  /\ stored' = stored \cup {p}
  /\ UNCHANGED <<kubeletVars, emptied, sandbox, nodeVars, goroutineVars>>

\* Before it allocates, the kubelet takes back the devices of ended pods.
Held == {e \in alloc : Active(e.pod)}
Free(resource) ==
  {d \in Devices(resource) : \A e \in Held : e.resource # resource \/ e.device # d}

\* The kubelet admits one pod after the other and writes its file after each.
\* The overlay plugin answers at once, the main plugin starts a goroutine.
Allocate(p) ==
  /\ Fresh(p)
  /\ p \in Requesting
  /\ Limit[p] = 1
  /\ checkpoint = alloc
  /\ \E d \in Free("main"), o \in Free("overlay") :
       /\ alloc' = Held \cup {[resource |-> "main", device |-> d, pod |-> p],
                              [resource |-> "overlay", device |-> o, pod |-> p]}
       /\ local' = [local EXCEPT ![p] = [NoLocal EXCEPT !.device = d]]
  /\ pc' = [pc EXCEPT ![p] = "sleep"]
  /\ stored' = stored \cup {p}
  /\ UNCHANGED <<checkpoint, emptied, sandbox, nodeVars>>

\* Allocate serves exactly one device; the kubelet then fails the pod.
RefuseAllocate(p) ==
  /\ Fresh(p)
  /\ p \in Requesting
  /\ Limit[p] # 1
  /\ checkpoint = alloc
  /\ Cardinality(Free("main")) >= Limit[p]
  /\ alloc' = Held
  /\ stored' = stored \cup {p}
  /\ sandbox' = [sandbox EXCEPT ![p] = "removed"]
  /\ UNCHANGED <<checkpoint, emptied, nodeVars, goroutineVars>>

WriteCheckpoint ==
  /\ checkpoint # alloc
  /\ checkpoint' = alloc
  /\ UNCHANGED <<alloc, apiVars, sandbox, nodeVars, goroutineVars>>

StartSandbox(p) ==
  /\ p \in stored
  /\ sandbox[p] = None
  /\ Written(p)
  /\ sandbox' = [sandbox EXCEPT ![p] = "running"]
  /\ UNCHANGED <<kubeletVars, apiVars, nodeVars, goroutineVars>>

\* An internal port does not survive the namespace it was moved to.
EndPod(p) ==
  /\ "podEnds" \in Env
  /\ p \in stored
  /\ Active(p)
  /\ "shortLived" \in Env \/ pc[p] # "sleep"
  /\ sandbox' = [sandbox EXCEPT ![p] = IF @ = None THEN "removed" ELSE "exited"]
  /\ iface' = [n \in PortName |-> IF iface[n].place = p
                 THEN [iface[n] EXCEPT !.place = Lost] ELSE iface[n]]
  /\ UNCHANGED <<kubeletVars, apiVars, links, goroutineVars>>

RemoveSandbox(p) ==
  /\ sandbox[p] = "exited"
  /\ "containerRemoved" \in Env \/ \A g \in Pod : p \notin local[g].listed
  /\ sandbox' = [sandbox EXCEPT ![p] = "removed"]
  /\ UNCHANGED <<kubeletVars, apiVars, nodeVars, goroutineVars>>

\* The webhook empties the annotation at the first DELETE request, before the
\* pod has stopped.
EmptyAnnotation(p) ==
  /\ "podDeleted" \in Env
  /\ p \in (stored \cap Requesting) \ emptied
  /\ emptied' = emptied \cup {p}
  /\ UNCHANGED <<kubeletVars, stored, sandbox, nodeVars, goroutineVars>>

DeletePod(p) ==
  /\ "podDeleted" \in Env
  /\ p \in stored
  /\ ~Active(p)
  /\ stored' = stored \ {p}
  /\ UNCHANGED <<kubeletVars, emptied, sandbox, nodeVars, goroutineVars>>

(***************************************************************************)
(* The goroutine: which pod, which ports, which namespace                  *)
(***************************************************************************)

Goto(g, label) == pc' = [pc EXCEPT ![g] = label]

Finish(g) ==
  /\ Goto(g, "done")
  /\ local' = [local EXCEPT ![g] = NoLocal]

\* The process ends and is started again, without its goroutines.
Die ==
  /\ pc' = [g \in Pod |-> IF pc[g] = "idle" THEN "idle" ELSE "done"]
  /\ local' = [g \in Pod |-> NoLocal]

\* Mutant: an entry of any resource will do.
LookupAnyResource(g) ==
  /\ \E e \in checkpoint :
       /\ e.device = local[g].device
       /\ local' = [local EXCEPT ![g].uid = e.pod]
  /\ Goto(g, "pod")

\* The pod that holds the device, among the entries of the main resource.
Lookup(g) ==
  /\ \E e \in checkpoint :
       /\ e.resource = "main"
       /\ e.device = local[g].device
       /\ local' = [local EXCEPT ![g].uid = e.pod]
  /\ Goto(g, "pod")

\* A file without any entry has null for a list, and the type assertion on it
\* panics.
FindPodUID(g) ==
  /\ pc[g] = "sleep"
  /\ "slowCheckpoint" \in Env \/ Written(g)
  /\ \/ checkpoint = {} /\ Die
     \/ Lookup(g)
     \/ /\ checkpoint # {}
        /\ \A e \in checkpoint : e.resource # "main" \/ e.device # local[g].device
        /\ Finish(g)
     \/ "callFails" \in Env /\ Finish(g)
  /\ UNCHANGED <<kubeletVars, apiVars, sandbox, nodeVars>>

\* findPod and buildNetworksSpec.
FindPod(g) ==
  /\ pc[g] = "pod"
  /\ \/ /\ local[g].uid \in stored
        /\ local' = [local EXCEPT ![g].todo = Annotation(local[g].uid)]
        /\ Goto(g, "list")
     \/ /\ local[g].uid \notin stored \/ "callFails" \in Env
        /\ Finish(g)
  /\ UNCHANGED <<kubeletVars, apiVars, sandbox, nodeVars>>

\* One try of findContainerPid; Docker lists the running containers.  The last
\* try is slower than any sandbox's start, unless slowStart.
ListContainers(g) ==
  /\ pc[g] = "list"
  /\ \/ "slowStart" \in Env
     \/ local[g].tries + 1 < Tries
     \/ sandbox[local[g].uid] # None
  /\ \/ /\ local' = [local EXCEPT ![g].listed = {p \in Pod : sandbox[p] = "running"}]
        /\ Goto(g, "inspect")
     \/ "callFails" \in Env /\ Finish(g)
  /\ UNCHANGED <<kubeletVars, apiVars, sandbox, nodeVars>>

\* Mutant: the first container that can be inspected is taken.
InspectAny(g) ==
  /\ pc[g] = "inspect"
  /\ \E c \in local[g].listed :
       /\ sandbox[c] # "removed"
       /\ local' = [local EXCEPT ![g].pid = IF sandbox[c] = "running" THEN c ELSE Dead,
                                 ![g].listed = {}]
       /\ Goto(g, "next")
  /\ UNCHANGED <<kubeletVars, apiVars, sandbox, nodeVars>>

\* Containers are inspected one by one, in any order, until one has the name.
\* Its PID is 0 if it has ended since; it is an error if it was removed.
Inspect(g) ==
  /\ pc[g] = "inspect"
  /\ \E c \in local[g].listed :
       \/ /\ sandbox[c] = "removed" \/ "callFails" \in Env
          /\ Finish(g)
       \/ /\ sandbox[c] # "removed"
          /\ Contains(c, NameOf[local[g].uid])
          /\ local' = [local EXCEPT ![g].pid = IF sandbox[c] = "running" THEN c ELSE Dead,
                                    ![g].listed = {}]
          /\ Goto(g, "next")
       \/ /\ sandbox[c] # "removed"
          /\ ~Contains(c, NameOf[local[g].uid])
          /\ local' = [local EXCEPT ![g].listed = @ \ {c}]
          /\ UNCHANGED pc
  /\ UNCHANGED <<kubeletVars, apiVars, sandbox, nodeVars>>

\* Mutant: the tries are not counted.
RetryUncounted(g) ==
  /\ pc[g] = "inspect"
  /\ local[g].listed = {}
  /\ Goto(g, "list")
  /\ UNCHANGED <<kubeletVars, apiVars, sandbox, nodeVars, local>>

\* Mutant: the loop has no end.
RetryForever(g) ==
  /\ pc[g] = "inspect"
  /\ local[g].listed = {}
  /\ local' = [local EXCEPT ![g].tries = @ + 1]
  /\ Goto(g, "list")
  /\ UNCHANGED <<kubeletVars, apiVars, sandbox, nodeVars>>

\* No container has the name: again in ten seconds, until the tries are used up.
Retry(g) ==
  /\ pc[g] = "inspect"
  /\ local[g].listed = {}
  /\ IF local[g].tries + 1 < Tries
       THEN /\ local' = [local EXCEPT ![g].tries = @ + 1]
            /\ Goto(g, "list")
       ELSE Finish(g)
  /\ UNCHANGED <<kubeletVars, apiVars, sandbox, nodeVars>>

(***************************************************************************)
(* attach-pod, once for each entry of networksSpec                         *)
(***************************************************************************)

\* The name of the namespace and of the interface the script works on.
Netns(g) == NameOf[local[g].uid]
PortNameOf(g) == local[g].entry.portName

\* Mutant: the link is expected to be there or not as needed.
AddPortNoUnlink(g) ==
  /\ pc[g] = "next"
  /\ \E e \in local[g].todo :
       /\ iface[e.portName].place = None
       /\ iface' = [iface EXCEPT ![e.portName] = NewInterface]
       /\ local' = [local EXCEPT ![g].todo = @ \ {e}, ![g].entry = e]
  /\ Goto(g, "link")
  /\ UNCHANGED <<kubeletVars, apiVars, sandbox, links>>

\* The loop takes the next entry, in any order, and the script adds its port
\* to the bridge.
AddPort(g) ==
  /\ pc[g] = "next"
  /\ \E e \in local[g].todo :
       /\ iface[e.portName].place = None
       /\ iface' = [iface EXCEPT ![e.portName] = NewInterface]
       /\ local' = [local EXCEPT ![g].todo = @ \ {e}, ![g].entry = e]
  /\ Goto(g, "unlink")
  /\ UNCHANGED <<kubeletVars, apiVars, sandbox, links>>

\* The bridge has a port of that name already, or the command fails.
AddPortFails(g) ==
  /\ pc[g] = "next"
  /\ \E e \in local[g].todo :
       /\ iface[e.portName].place # None \/ "scriptFails" \in Env
       /\ local' = [local EXCEPT ![g].todo = @ \ {e}]
  /\ UNCHANGED <<kubeletVars, apiVars, sandbox, nodeVars, pc>>

AttachEnds(g) ==
  /\ pc[g] = "next"
  /\ local[g].todo = {}
  /\ Finish(g)
  /\ UNCHANGED <<kubeletVars, apiVars, sandbox, nodeVars>>

Unlink(g) ==
  /\ pc[g] = "unlink"
  /\ links' = [links EXCEPT ![Netns(g)] = None]
  /\ Goto(g, "link")
  /\ UNCHANGED <<kubeletVars, apiVars, sandbox, iface, local>>

Link(g) ==
  /\ pc[g] = "link"
  /\ links[Netns(g)] = None
  /\ links' = [links EXCEPT ![Netns(g)] = local[g].pid]
  /\ Goto(g, "move")
  /\ UNCHANGED <<kubeletVars, apiVars, sandbox, iface, local>>

\* The link leads to the namespace of a container that runs.
Reachable(g) == \E p \in Pod : links[Netns(g)] = p /\ sandbox[p] = "running"

\* The interface is in the namespace that the link leads to.
Inside(g) == Reachable(g) /\ iface[PortNameOf(g)].place = links[Netns(g)]

Move(g) ==
  /\ pc[g] = "move"
  /\ Reachable(g)
  /\ iface' = [iface EXCEPT ![PortNameOf(g)].place = links[Netns(g)]]
  /\ Goto(g, "address")
  /\ UNCHANGED <<kubeletVars, apiVars, sandbox, links, local>>

SetAddress(g) ==
  /\ pc[g] = "address"
  /\ Inside(g)
  /\ iface' = [iface EXCEPT ![PortNameOf(g)].mac = local[g].entry.macAddress]
  /\ Goto(g, "up")
  /\ UNCHANGED <<kubeletVars, apiVars, sandbox, links, local>>

SetUp(g) ==
  /\ pc[g] = "up"
  /\ Inside(g)
  /\ iface' = [iface EXCEPT ![PortNameOf(g)].up = TRUE]
  /\ Goto(g, "mark")
  /\ UNCHANGED <<kubeletVars, apiVars, sandbox, links, local>>

\* The interface is told the ID of its port, which is what OVN acts on.
Mark(g) ==
  /\ pc[g] = "mark"
  /\ iface' = [iface EXCEPT ![PortNameOf(g)].id = local[g].entry.portID]
  /\ Goto(g, "next")
  /\ local' = [local EXCEPT ![g].entry = NoEntry]
  /\ UNCHANGED <<kubeletVars, apiVars, sandbox, links>>

\* The command at which the script is cannot succeed.
Stuck(g) ==
  \/ pc[g] = "link" /\ links[Netns(g)] # None
  \/ pc[g] = "move" /\ ~Reachable(g)
  \/ pc[g] \in {"address", "up"} /\ ~Inside(g)

\* Mutant: without bash -e, the script goes on to its last command.
ScriptGoesOn(g) ==
  /\ pc[g] \in Script
  /\ "scriptFails" \in Env \/ Stuck(g)
  /\ Goto(g, "mark")
  /\ UNCHANGED <<kubeletVars, apiVars, sandbox, nodeVars, local>>

\* bash -e ends the script; the goroutine logs that and takes the next entry.
ScriptFails(g) ==
  /\ pc[g] \in Script
  /\ "scriptFails" \in Env \/ Stuck(g)
  /\ Goto(g, "next")
  /\ local' = [local EXCEPT ![g].entry = NoEntry]
  /\ UNCHANGED <<kubeletVars, apiVars, sandbox, nodeVars>>

Crash ==
  /\ "crash" \in Env
  /\ \E g \in Pod : pc[g] \notin {"idle", "done"}
  /\ Die
  /\ UNCHANGED <<kubeletVars, apiVars, sandbox, nodeVars>>

-----------------------------------------------------------------------------
Find(g) == FindPodUID(g) \/ FindPod(g) \/ ListContainers(g) \/ Inspect(g) \/ Retry(g)

Attach(g) ==
  \/ AddPort(g) \/ AddPortFails(g) \/ AttachEnds(g)
  \/ Unlink(g) \/ Link(g) \/ Move(g) \/ SetAddress(g) \/ SetUp(g) \/ Mark(g)
  \/ ScriptFails(g)

Node(p) ==
  \/ SchedulePlain(p) \/ Allocate(p) \/ RefuseAllocate(p) \/ StartSandbox(p)
  \/ EndPod(p) \/ RemoveSandbox(p) \/ EmptyAnnotation(p) \/ DeletePod(p)

Next ==
  \/ \E p \in Pod : Node(p) \/ Find(p) \/ Attach(p)
  \/ WriteCheckpoint
  \/ Crash

Spec == Init /\ [][Next]_vars

\* Goroutines go on, and the kubelet writes its file and starts the pod.
Fairness ==
  /\ WF_vars(WriteCheckpoint)
  /\ \A p \in Requesting : WF_vars(Find(p)) /\ WF_vars(Attach(p)) /\ WF_vars(StartSandbox(p))

FairSpec == Spec /\ Fairness

-----------------------------------------------------------------------------
(* Properties *)

TypeOK ==
  /\ alloc \subseteq Allocation
  /\ checkpoint \subseteq Allocation
  /\ stored \subseteq Pod
  /\ emptied \subseteq Pod
  /\ sandbox \in [Pod -> {None, "running", "exited", "removed"}]
  /\ iface \in [PortName -> Interface]
  /\ links \in [Name -> Pod \cup {None, Dead}]
  /\ pc \in [Pod -> Label]
  /\ local \in [Pod -> Local]
  /\ \A g \in Pod : local[g].tries < Tries

\* An interface is only ever passed to the namespace of a pod whose
\* networksSpec names it: to the right sandbox, whatever happens to the link
\* of its name, the checkpoint or the process meanwhile.
InterfaceInOwnNamespace ==
  \A n \in PortName : iface[n].place \in Pod =>
    \E e \in NetworksSpec[iface[n].place] : e.portName = n

\* i is the interface of the port with the name n, in the namespace of the
\* port's pod or destroyed with it, with the port's MAC and ID, and up.
Ready(n, i) ==
  \E p \in Pod : \E e \in NetworksSpec[p] :
    /\ e.portName = n
    /\ i \in [place : {p, Lost}, mac : {e.macAddress}, up : {TRUE}, id : {e.portID}]

\* OVN learns of an interface (external_ids:iface-id) only when it is ready,
\* wherever the script stops.
MarkedWhenReady ==
  \A n \in PortName : iface[n].id # None => Ready(n, iface[n])

\* A goroutine works for the pod its device was allocated to, although it
\* knows the device only and devices are reused.
GoroutineServesItsPod ==
  \A g \in Pod : local[g].uid \in {g, None}

Attached(p) ==
  \A e \in NetworksSpec[p] :
    iface[e.portName] = [place |-> p, mac |-> e.macAddress, up |-> TRUE,
                         id |-> e.portID]

\* Whatever goes wrong, no goroutine stays for ever: the search for a sandbox
\* that never comes ends too.
AttachmentEnds ==
  \A g \in Pod : pc[g] = "sleep" ~> pc[g] = "done"

-----------------------------------------------------------------------------
(* The inductive invariant behind InterfaceInOwnNamespace and              *)
(* MarkedWhenReady.  It needs names that tell pods apart.                  *)

ExactNames == \A p, q \in Pod : Contains(q, NameOf[p]) => p = q

\* A goroutine has the entries and the sandbox of one pod.
WorkOf(g) ==
  /\ pc[g] = "sleep" => local[g].todo = {}
  /\ \A e \in local[g].todo : local[g].uid \in Pod /\ e \in NetworksSpec[local[g].uid]
  /\ pc[g] \notin {"idle", "sleep", "done"} => local[g].uid \in Pod
  /\ pc[g] \in Script \cup {"next"} => local[g].pid \in {local[g].uid, Dead}
  /\ pc[g] \in Script => local[g].entry \in NetworksSpec[local[g].uid]

WorkOfOnePod == \A g \in Pod : WorkOf(g)

\* A link leads to the pod whose name it has.
LinksLeadHome == \A n \in Name : links[n] \in Pod => NameOf[links[n]] = n

\* No two scripts work on one interface: the second could not add it.
ScriptsApart ==
  \A g, h \in Pod :
    pc[g] \in Script /\ pc[h] \in Script /\ g # h => PortNameOf(g) # PortNameOf(h)

\* How far the interface of a script has come.
Progress(g, i) ==
  /\ i.id = None
  /\ pc[g] \in {"unlink", "link", "move"} => i.place = Host
  /\ pc[g] \in {"address", "up", "mark"} => i.place \in {local[g].uid, Lost}
  /\ pc[g] \in {"up", "mark"} => i.mac = local[g].entry.macAddress
  /\ pc[g] = "mark" => i.up

ScriptProgress ==
  \A g \in Pod : pc[g] \in Script => Progress(g, iface[PortNameOf(g)])

\* What holds at every step of the attachments.
Wiring ==
  /\ WorkOfOnePod
  /\ LinksLeadHome
  /\ ScriptsApart
  /\ ScriptProgress
  /\ InterfaceInOwnNamespace
  /\ MarkedWhenReady

=============================================================================
