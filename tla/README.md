# Kubetron in TLA+

Kubetron connects Kubernetes pods to Neutron/OVN networks. A pod asks for networks with the
annotation `kubetron.network.kubevirt.io/networks`; a mutating webhook creates a Neutron port for
each, records them in a second annotation, `networksSpec`, and adds a side-container that requests
device-plugin resources; a device plugin on the node creates the interfaces and moves them into the
pod; the side-container waits for them and runs `dhclient`. When the pod is deleted the webhook
deletes the ports.

This directory models that system in TLA+, checks it with TLC and proves what matters most with
TLAPS. The code is small but almost all of it is steps on state that others share (Neutron, the API
server, the kubelet's checkpoint file, OVS, a network namespace), without a lock, a retry or a
clean-up, and it has no tests.

## The system

| Component | Source | State | Operations | Hard behaviours |
| --- | --- | --- | --- | --- |
| Admission webhook | `pkg/admission/admission.go`, `pkg/spec` | none of its own between requests; locals of each request | `Admit`: CREATE, DELETE | handlers run concurrently; each makes several remote calls; the process may die and the caller may give up between any two |
| Neutron client | `pkg/admission/provider.go` | Neutron's networks and ports | list networks, create port, delete port | calls fail, or work and report failure; deleting what is gone is an error |
| Kubernetes API server | external | pods with UID, resourceVersion, annotations | calls the webhook, stores, refuses, marks, removes pods | names are reused; updates conflict; webhook calls time out |
| Main device plugin | `pkg/deviceplugin/deviceplugin.go` | none persisted; one goroutine per allocation | `Allocate`, `ListAndWatch`, attachment goroutine | fixed sleeps against the kubelet's checkpoint and Docker; lost with the process; never retried |
| `attach-pod` | `cmd/deviceplugin/attach-pod` | OVS interface, network namespace links | add port, move, set MAC, set up, mark with the port ID | stops at the first failure, not repeatable |
| Allocation device plugin | `pkg/deviceplugin/allocationdeviceplugin.go` | fixed pool of 100 devices per network | `ListAndWatch`, `Allocate` | pool exhausted |
| Lister | `pkg/deviceplugin/lister.go`, `localnet.go` | the resources announced | `Discover` every ten seconds | a failing `ovs-vsctl` withdraws every physnet; mappings are parsed by cutting off two characters |
| Side-container | `cmd/sidecar/assign-addresses` | none | waits for the interfaces, runs `dhclient` once | waits for ever; sees interfaces before they are complete |
| Inventory builder | `hack/kubespray/contrib/inventory_builder/inventory.py` (vendored) | the inventory file: hosts, roles | add and delete hosts, load files | a file that carries the results of all earlier calls; thresholds |
| Manifests, cluster scripts, the rest of kubespray | `deploy`, `hack` | | | deployment data and third-party code |

How they interact: the API server *calls* the webhook before it stores or removes a pod; the webhook
*calls* Neutron and, on DELETE, reads and writes the pod through the API server; the scheduler and
the kubelet act on the resource limits the webhook put into the pod and *call* `Allocate`; the
device plugin learns which pod it serves from the *file* the kubelet writes and which ports from
the `networksSpec` *annotation*; the side-container learns its interfaces from its arguments and
sees them appear in the *network namespace* it shares with the pod.

What makes each correct:

- webhook: no port of a pod is lost; what it stores about a pod agrees with Neutron until the pod is
  deleted; the annotation is emptied only when the ports are gone; deletion ends; the resources and
  arguments it asks for agree with the networks.
- device plugin: every interface ends in the namespace of the pod that owns the port, with its name,
  MAC and port ID, once; a started pod gets all its interfaces, if it lives.
- side-container: `dhclient` runs when all its interfaces are there and complete, and on no other.
- lister: the resources that attach are never withdrawn; the node comes to offer exactly its physnets.
- inventory builder: a call changes only the hosts it was told to, and what it leaves can be deployed.

## Modules

| Module | Models | Composed with |
| --- | --- | --- |
| `Admission` | the webhook, Neutron and the API server | |
| `PortLease` | what the webhook promises about ports, abstractly | instantiated by `Admission` (`Lease`), which implements it |
| `DevicePlugin` | `Allocate`, the attachment goroutine, `attach-pod`, the kubelet's file, Docker, the namespaces | |
| `PodNetwork` | the side-container of each pod | extends `DevicePlugin`: both act on the interfaces of a pod |
| `Lister` | `Discover` and the device-plugin-manager | |
| `Inventory` | the inventory builder of the test cluster | |
| `MC...` | TLC instances of the module they are named after | |
| `AdmissionProofs`, `DeletionProofs`, `CreationProofs`, `PortLeaseProofs` | theorems about `Admission`; each extends the one before, but `PortLeaseProofs`, which extends `AdmissionProofs` | |
| `DevicePluginProofs`, `PodNetworkProofs`, `ListerProofs`, `InventoryProofs` | theorems about the module they are named after | |

`Admission` and `PodNetwork` are not composed into one state space. What `PodNetwork` assumes of the
webhook (each pod's `NetworksSpec`, distinct port names, `Args` that are names of its ports) is what
`FreshPodFullyWired` and `SidecarArgsMatchSpec` check of it, and `ResourcesMatchNetworks` that it asks
for the one main device `Allocate` accepts.

## Plan

Done: the webhook, the device plugin, the side-container beside it, the lister, the refinement of the
webhook's promise, pods with a copied `networksSpec`, and the inventory builder. Every invariant and every
action property of a passing run is a theorem; what has no proof is liveness (`DeletionCompletes`,
`AttachmentEnds`, `FullyServed`, `Converges`), which rests on fairness and `ENABLED` and is beyond TLAPS.

Left:

1. `DevicePlugin` with sandboxes that are restarted and PIDs that are reused.
2. The safety part of the liveness properties as theorems: what a handler, a goroutine or a script has
   left to do decreases with each of its steps.

## Admission

One handler is one goroutine that serves one request of `Admit`. A step of a handler is one remote
call with everything the code does up to the next one, so every interleaving of two handlers, the
API server and other writers of a pod between two calls is a behaviour of the model.

| Action | Code |
| --- | --- |
| `ReceiveCreate`, `ListNetworks`, `ListNetworksFails` | reading the annotation, `ListNetworkByName`, the check that every network exists (`admission.go:110-148`) |
| `CreatePort`, `CreatePortFails` | one round of the loop; the last round also builds annotation, limits, side-container and patch (`admission.go:150-258`) |
| `ReceiveDelete`, `GetPod` | the DELETE handler up to the loop (`admission.go:262-293`) |
| `DeletePort`, `DeletePortFails` | one round of the loop over `networksSpec`, in the arbitrary order of a Go map (`admission.go:294-303`) |
| `UpdatePod`, `UpdatePodFails` | writing the emptied annotation (`admission.go:305-321`) |
| `Carried` (in `ReceiveCreate`) | a manifest without the networks annotation may bring a `networksSpec`, copied from a stored pod (`kubectl get -o yaml`); the handler allows it unchanged (`admission.go:119-126`) |
| `Crash` | the process dies; a response already sent survives |
| `StorePod`, `RefusePod`, `DeletePod`, `Timeout`, `DropResponse`, `UpdateStatus` | the API server and other writers, external |

Variables: `ports` and `nextPort` are Neutron's; `pods` and `creates` the API server's; `pc`, `req`,
`local` and `abandoned` the handlers'. A port's field `pod`, `admitted` and `examined` are history:
no guard of the code's own steps reads them (`admitted` also tells the environment which names were
used). `networksSpec` is a map by network name, written as a set of entries. The error that ends a
request is `Finish`; messages, the JSON patch and the text of names and MACs are left out. A port
name and a MAC are any member of a set, so they may repeat, as unseeded `math/rand` may make them.

`Env` lists the environment behaviours of an instance (failed calls, calls whose reply is lost, a
pod refused after the webhook allowed it, crashes, timeouts, concurrent writes, overlapping DELETE
requests, reuse of names, copied `networksSpec`s), so that a run says which ones a property survives.

### Properties

- `PortsAccountedFor`: a port made for a pod that was ever stored exists only while the pod is
  stored and its `networksSpec` names the port.
- `FreshPodFullyWired`: until a DELETE handler has read it, a pod's `networksSpec` has one entry for
  each requested network and each agrees with a port.
- `ClearedOnlyWhenPortsGone`: `networksSpec` changes only from all entries to none, when no port of
  it is left.
- `SidecarArgsMatchSpec`, `ResourcesMatchNetworks`: arguments and limits agree with the networks.
  The overlay count is one for any number of overlays, which is what
  `allocationdeviceplugin.go:12` says of attachments, although the increment in `admission.go:185`
  suggests otherwise and is never reached.
- `SpecsNameStoredPods`: IDs are given once, and no `networksSpec`, original or copied, names a port of
  a pod that was never stored, except the one a CREATE is building. Deleting a copy does delete the
  ports of the pod it was copied from (`admission.go:272` trusts the annotation), and that pod loses
  its network; this property bounds the damage: no creation in progress and no later port is hit.
- `DeletionCompletes`: a pod that someone keeps deleting goes, and its ports with it.
- `LeaseKept`: the webhook implements `PortLease`.

### The promise

`PortLease` says what a user may rely on, without handlers, calls or faults: a port is reserved for a
pod that is not stored yet (`Reserve`), the pod is admitted (`Admit`), a port is released only while its
pod is stored (`Release`), and a pod is removed only when none of its ports is left (`Remove`). A pod
that is never admitted may keep its ports for ever: the code does not clean up after a failed
creation (the TODO in `admission.go:163`). `Admission` maps `ports` to the ports with the pod each was
made for, `live` to the UIDs stored and `gone` to those that were; `CreatePort` and its half-reported
failure are `Reserve`, `StorePod` is `Admit`, `DeletePort` and its half-reported failure are `Release`,
`DeletePod` is `Remove`, all others stutter. `NoOrphan`, that no port outlives its pod, follows from
the promise alone (`PromiseMeansNoOrphan`).

### Runs

Passing (`MCAdmission_<run>.cfg`):

| Run | Instance | Shows |
| --- | --- | --- |
| `faults` | 2 handlers, 2 names, 2 creations, annotations with two networks or none, every `Env` but `nameReuse` | `TypeOK`, `PortsAccountedFor`, `SpecsNameStoredPods`, `ClearedOnlyWhenPortsGone`, the refinement `LeaseKept` and the inductive invariant `Accounting` |
| `reuse` | 2 handlers, 1 name, 3 creations, 1 network with two possible port names, reuse, overlap, crash, timeout, concurrent writes, lost update replies | handlers of earlier pods disturb neither `FreshPodFullyWired` nor `ClearedOnlyWhenPortsGone` |
| `networks` | 1 handler, every list of at most 4 distinct names out of 5 | `FreshPodFullyWired`, `SidecarArgsMatchSpec`, `ResourcesMatchNetworks` over the data |
| `live` | 2 handlers, pods with 1 network or none, creation faults, refused deletions of ports, reuse | `DeletionCompletes`, through retries and over two pods of one name |

One run shows a defect of the code:

| Run | What happens |
| --- | --- |
| `conflict` | a write of the pod between `Get` and `Update` (`admission.go:313`): ports gone, annotation not, no DELETE can pass |

Two more defects have no run of their own; a change of the cfg of `faults` shows each as a violation
of `PortsAccountedFor`:

- `Annotation <- Duplicate`: `red,red` makes two ports and one entry (`admission.go:196`); the first
  port is never deleted.
- `"nameReuse"` in `Env`, one name: a DELETE examined against one pod is executed on the next pod of the name
  (`admission.go:264` ignores the request's UID), whose port stays.

The same end as in `conflict` is reached when two overlapping DELETE requests delete one port each
and fail at the other (`admission.go:296`), by a refused deletion of the second port, a lost reply or
a crash before the update; they have the same cause, that a port already gone is an error, and no
runs of their own. For that reason `live` has pods with one network: with two, a single refused
deletion may end the retries for good.

Bounds. Two handlers are the least that overlap; every property relates at most two requests.
Two names let a pod carry
the `networksSpec` of another. `MaxCreates` of 3 lets one name pass through three pods, so that a handler can be two incarnations
behind; two networks are the least for a half-done loop; `MaxVersion` bounds only writes by others,
and one such write between read and update is what a conflict needs. The instances stop when all
creations are used up and no pod is left, so deadlock is not checked. `Symmetry` permutes handlers
in runs without liveness.

Fairness (`FairSpec`). Goroutines go on and the API server acts on a response (weak fairness of
`Serve` and `Complete`): neither has anything to wait for. Whoever deletes a pod sends DELETE again
while it exists, and the kubelet does so for a pod it has stopped (strong fairness, since a request
needs a free handler): the code itself retries nothing and relies on that. Deletions of ports do not
fail for ever (strong fairness of `DeletePort`), used in `live` only. Where the webhook times
out for ever, or in the situations of the violations, deletion does not complete.

### Proofs

`AdmissionProofs` proves, for every number of handlers, names, networks, ports and requests and every
`Env`:

- `TypeCorrect`: `Spec => []TypeOK`. It needs to know what a handler's place says about its locals
  (`HandlersWellFormed`): inside the loop there is a network left and every one left is known. That
  `NetworkByName` is a listed network rests on `LastIndex`, a non-empty set of indexes has a greatest
  one, from the well-foundedness of the naturals.
- `NoPortLost`: `Spec => []PortsAccountedFor`, if no annotation names a network twice
  (`DistinctNetworks`) and names are not reused. Both assumptions are needed: these
  are the two defects without a run above.

`PortsAccountedFor` is not inductive: removing a pod is safe only because the DELETE that was
allowed left no port, which is so because the `networksSpec` it read named them all, which is so
because the CREATE collected them all. `Accounting` says this for each stage: the `networksSpec` of a
CREATE in progress (`CreatesNameTheirPorts`), of a stored pod (`PodsNameTheirPorts`) and of a DELETE
in progress (`DeletesNameTheirPorts`) names every port there is of its pod; an allowed DELETE finds
none. New ports disturb none of the others' because UIDs are not shared (`UIDsConsistent`), and a new
entry replaces none because the networks left are distinct and have no entry (`TodoDistinct`). There
is one lemma for each kind of step, under it one step for each conjunct; `AccountingNext` puts them
together.

`PortLeaseProofs` proves, under the same two assumptions:

- `EntriesNameStoredPods`: `Spec => []SpecsNameStoredPods`. It is inductive together with `Accounting`:
  the IDs of new ports are in no entry because every entry's ID is below `nextPort`, and a stored
  pod's UID has just been admitted.
- `LeaseImplemented`: `Spec => LeaseKept`. `LeaseNext` maps each action to one of `PortLease` or a stutter.
  A deletion releases a port of a stored pod only because the entry names no port of any other
  (`SpecsNameStoredPods`) and no pod that has gone has ports (`PortsAccountedFor`); a removal is `Remove`
  because an allowed DELETE found no port (`DeletesNameTheirPorts`).

`DeletionProofs` proves `ClearedWhenGone`: `Spec => ClearedOnlyWhenPortsGone`, without any assumption on
annotations or names, so also where `PortsAccountedFor` fails. `Accounting` is of no use there. `Deleting`
is inductive instead: whatever an entry names has an ID that Neutron has handed out (`IDsHandedOut`),
so no new port joins one that is being deleted; and as long as the pod that a DELETE has read is
stored, every port left of those its `networksSpec` names is one the DELETE has still to delete
(`DeletesReadTheirPod`). With none left to delete, the update finds either that pod and no such port,
or another UID and fails.

`CreationProofs` proves what a CREATE makes of an annotation, of any length:

- `FreshPodsWired`: `Spec => []FreshPodFullyWired`, if no manifest comes with another pod's `networksSpec`
  (`"copiedSpec" \notin Env`); names may be reused and networks repeated. A copied `networksSpec`
  names ports that go when the other pod is deleted, so the assumption is needed.
- `ArgsMatch`: `Spec => []SidecarArgsMatchSpec`, if moreover no annotation repeats a network
  (`DistinctNetworks`): of a repeated one the map keeps the last entry and the list of arguments both.
- `LimitsMatch`: `Spec => []ResourcesMatchNetworks`, without assumptions: one main device in all, one
  of a physnet for each place of the annotation with a network on it, and one overlay attachment if
  there is an overlay at all.

The loop over the networks is the same in all three: at each round what it has collected agrees with
the networks it has behind it. For the limits these are counts (`CreatesCount`), of the places in the
annotation before those left; `Counting` adds that the networks left are the end of the annotation
(`CreatesInOrder`). For the ports, one of its own for each network behind it (`CreatesAttach`). A pod that
is stored keeps what its CREATE collected until a DELETE reads it, because another handler deletes only
ports its own pod's entries name, and these are of pods that a DELETE has read (`DeletesExamined`,
`OwnPorts`), and Neutron does not hand out an ID again (`Deleting`): together `Attaching`. `Asking` adds the
arguments collected so far (`CreatesAskForDHCP`).

`PortsNamed` in `AdmissionProofs` states `Accounting` itself, which the run `faults` checks too. Model-checked
only: liveness.

The assumptions on the constants are what the code's environment gives: Neutron's list has the
fields the client reads, port names come from a set for each network, the reserved resource names
are not physnets (the flags' help says so).

## DevicePlugin

One node. `Allocate` returns at once and leaves the work to a goroutine that nobody waits for: ten
seconds later it looks the pod up by its device ID in the kubelet's file, then reads the pod's
`networksSpec`, then searches Docker for the pod's sandbox, then runs `attach-pod` for each entry. A
step is one read or one change of what it shares with the kubelet, the API server, Docker, Open
vSwitch, the namespaces and the other goroutines.

| Action | Code |
| --- | --- |
| `Allocate`, `RefuseAllocate` | the kubelet picks devices, the plugin starts the goroutine or rejects the request (`deviceplugin.go:66-89`) |
| `FindPodUID` | reading the checkpoint; nothing found, or a file that cannot be read or parsed, ends the goroutine, an empty file the process (`deviceplugin.go:91-96`, `136-164`) |
| `FindPod` | the list of pods and the annotation (`deviceplugin.go:98-110`, `167-205`) |
| `ListContainers`, `Inspect`, `Retry` | one try of `findContainerPid`: the list, one container, no match (`deviceplugin.go:207-241`) |
| `AddPort`, `AddPortFails`, `AttachEnds` | the loop over the entries in any order and the script's first command (`deviceplugin.go:122-130`, `attach-pod:12-17`) |
| `Unlink`, `Link`, `Move`, `SetAddress`, `SetUp`, `Mark`, `ScriptFails` | the other commands (`attach-pod:22-32`), with `bash -e` |
| `Crash` | the plugin's process dies with its goroutines |
| `SchedulePlain`, `WriteCheckpoint`, `StartSandbox`, `EndPod`, `RemoveSandbox`, `EmptyAnnotation`, `DeletePod` | the scheduler, the kubelet, Docker, the API server and the webhook, external |

Variables: `alloc` and `checkpoint` are the kubelet's memory and file; `stored` and `emptied` the API
server's pods and those whose annotation the webhook emptied; `sandbox` Docker's; `iface` what there
is of each interface in Open vSwitch and the kernel; `links` is `/var/run/netns`; `pc` and `local` the
goroutines'. A goroutine is named after the pod the kubelet allocated for, which its code does not
know: `local[g].uid` is what it found out. The PID of a sandbox is named after its pod; the PID of a
container that has ended is 0 (`Dead`). `Contains` is `strings.Contains` on container names, given as
the relation `Prefix`. An interface moved into a namespace goes with it (`Lost`); Open vSwitch keeps
its record, which nothing ever deletes (`TODO: cleanup if fails`, `deviceplugin.go:67`).

Time is left out, except for the two races the code runs on purpose: that the kubelet writes its file
within the first ten seconds, and that the sandbox runs before the tries are used up. `slowCheckpoint`
and `slowStart` in `Env` let the environment lose each; without them the guards of `FindPodUID` and
of the last `ListContainers` wait. The other members of `Env` are listed in the module.

### Properties

- `InterfaceInOwnNamespace`: an interface is only ever in the namespace of a pod whose `networksSpec`
  names it.
- `MarkedWhenReady`: an interface has a port ID, which is what OVN acts on, only when it is complete:
  in its pod's namespace, with that port's MAC, up.
- `GoroutineServesItsPod`: the goroutine finds the pod its device was allocated to.
- `AttachmentEnds`: no goroutine stays for ever.
- `Wiring`: the inductive invariant of the proofs.

### Runs

Passing (`MCDevicePlugin_<run>.cfg`, named `node_<run>` in `PROJECT.json`):

| Run | Instance | Shows |
| --- | --- | --- |
| `faults` | 2 pods, 2 networks and 1, of which two ports have one name; 1 main device for both pods; 1 try; every `Env` but `callFails` | `TypeOK`, `InterfaceInOwnNamespace`, `MarkedWhenReady`, `Wiring` (3.5 million states) |
| `ends` | a pod with 2 networks, one without, one that is refused for asking for 2 devices; late and failing everything, 2 tries | `AttachmentEnds` |

One run shows a defect of the code:

| Run | What happens |
| --- | --- |
| `reused_name` | a pod is deleted while its goroutine waits for the sandbox and created again under its name: the old pod's interface is passed to the new pod (`deviceplugin.go:113` leaves out the UID the goroutine has) |

Four more situations break a property and have no run of their own: pods of one name in namespaces
of which one is a prefix of the other (`strings.Contains`, line 230) break `InterfaceInOwnNamespace` as
`reused_name` does; an unrelated container that is removed between `ContainerList` and
`ContainerInspect` (line 225) makes the goroutine give up for good, a device that goes to another pod
within the ten seconds makes two goroutines attach one pod and replace each other's link, and of two
pods on a node whose ports have one name the second fails at `add-port`: these three break
`FullyServed` (below), as `Env` with `containerRemoved` and `podEnds`, or with `shortLived`, and equal names in
`NetworksSpec` show. The first is excluded by `ExactNames`; `faults` contains the other three, where
they must do no worse.

Bounds. Two pods are the least that share a device, a name or the bridge; a third adds an allocation
that is refused. Two networks are the least for a loop that fails half-way. `MainPool` is 1 where a
device must be reused, 2 where both pods must hold one, `OverlayPool` 2 so that device IDs of one
resource occur in the other (1000 and 100 in the code). `Tries` is 11 in the code; a try changes
nothing but its count, so 1 (the first is the last) and 2 (a retry) are the two cases. The kubelet
admits one pod at a time and writes its file after each, so `Allocate` waits for the file. The
instances stop when every pod is served or has ended, so deadlock is not checked.

Fairness (`Fairness`). For each pod that asked for networks, weak fairness of its goroutine (`Find`, `Attach`): nothing it does waits for
others but through its sleeps; of `WriteCheckpoint` and `StartSandbox`, which the kubelet does for
every admitted pod. No pod has to end and no call has to succeed.

### Proofs

`DevicePluginProofs` proves, for any pods, names, ports, pools, tries and `Env`:

- `NodeTypeCorrect`: `Spec => []TypeOK`, which is inductive as it stands.
- `OwnNamespaces`: `Spec => []InterfaceInOwnNamespace`, assuming `ExactNames`, and `ReadyWhenMarked`: the same
  for `MarkedWhenReady`. `ExactNames` says that a container name contains no other pod's; both it and
  the absence of a second pod of the same name are needed, see `reused_name`.

Neither is inductive. What is moved is whatever interface has the port's name, to wherever the link
of the pod's name leads at that time, and several scripts may run for one pod, each replacing the
link. `Wiring` adds what makes that safe: a goroutine has the entries and the sandbox of one and the
same pod, found by three separate reads (`WorkOfOnePod`); a link with a pod's name leads to that
pod's namespace, whoever made it (`LinksLeadHome`); no two scripts work on one interface, because the
second `add-port` of a name fails (`ScriptsApart`); and the interface of a script is as far as the
script is (`ScriptProgress`). There is one lemma for each kind of step, with the conjuncts that the
step can disturb under it.

The assumptions on the constants: the null values are no pods, MACs or IDs; a `networksSpec` has the
entries the webhook writes; a name contains itself; pools and tries are numbers.

- `WiringHolds`: `Spec => []Wiring`, under the same assumption.
- `GoroutinesFindTheirPods`: `Spec => []GoroutineServesItsPod`, assuming `SleepsSuffice`: the kubelet writes
  its file within the first sleep, and no pod that was just admitted ends within it. With either
  `slowCheckpoint` or `shortLived` alone TLC finds a goroutine that serves another pod, so both are
  needed, and nothing else is. The invariant, `Service`: a device is with one pod, in the kubelet's memory and
  in its file (`OneHolder`), and that of a goroutine which sleeps is still its pod's
  (`SleepersHoldDevices`).

Model-checked only: `AttachmentEnds`, which is liveness.

## PodNetwork

The side-container shares nothing with the device plugin but the pod's namespace. `PodNetwork`
extends `DevicePlugin` with one variable, `sidecar`: where each pod's script is, which arguments it has
still to see, and on which interfaces it started `dhclient`, with the MAC each had at that time.

| Action | Code |
| --- | --- |
| `NodeStep` | a step of `DevicePlugin`; the container goes with its sandbox |
| `StartSidecar` | the kubelet starts it with the arguments of `admission.go:219-231` |
| `SeeInterface` | `until ip link show $interface` succeeds for the next argument (`assign-addresses:3-5`) |
| `RunDhclient`, `RunDhclientFails` | `dhclient` takes the arguments, or every interface but `lo` without any (`assign-addresses:14`); if it fails, `bash -e` ends the script and the kubelet restarts it |

Properties:

- `FullyServed`: a pod that got its device gets all its interfaces, and a `dhclient` for each that needs
  an address. The script waits for its arguments in their order, the goroutine attaches in any.
- `ClientsStayInPod`: `dhclient` runs only on interfaces that the `networksSpec` of the script's own pod
  names and that are, and stay, in that pod, and on `eth0` only without arguments.
- `GoroutineServesItsPod` (of `DevicePlugin`).
- `AddressesObtained`: each `dhclient` asks with the MAC of its port. It is violated.

| Run | Instance | Shows |
| --- | --- | --- |
| `pod_live` (`MCPodNetwork_live.cfg`) | 2 pods with 2 networks and 1, attached at the same time; 2 devices of each resource, 2 tries; the pod with 2 has both as arguments, in an order that is not the one they are attached in, the other none; `dhclient` may fail | `PodTypeOK`, `GoroutineServesItsPod`, `ClientsStayInPod`, `FullyServed` |
| `pod_addresses` (`MCPodNetwork_addresses.cfg`) | the same with one argument, one try, pods that end | `AddressesObtained` violated: `dhclient` starts between the command that moves the interface into the pod (`attach-pod:27`) and the one that sets its MAC (line 28), and asks with the wrong address |

Fairness (`PodSpec`): the kubelet starts the container and the script goes on (weak), `dhclient`
does not fail for ever (strong fairness of `RunDhclient`, as the kubelet starts the container
again). `pod_live` has no `Env`: pods that end while others are attached multiply its states beyond
what a check of liveness takes in some minutes; they are in `node_faults` and `node_ends`. In
`pod_live` no device is passed on and no interface goes with its pod, so of `GoroutineServesItsPod`
and `ClientsStayInPod` it shows what two attachments at a time can do to each other; that they hold
where pods end, devices are passed on and the plugin crashes is proved.

Without arguments `eth0` gets a second `dhclient` although the cluster's network plugin configures it;
the pod of an overlay without a subnet is such a pod. `ClientsStayInPod` allows it.

`PodNetworkProofs` proves, for any pods, arguments, names and `Env`:

- `SidecarsOnlyLook`: `PodSpec => FairSpec`. Side-containers change nothing the device plugin sees, so all
  that is proved of `DevicePlugin` holds beside them; `PodsServedBySidecars` is `GoroutinesFindTheirPods` so.
- `SidecarTypeCorrect`: `PodSpec => []PodTypeOK`.
- `ClientsKeepInside`: `PodSpec => []ClientsInside`, without `ExactNames`: an interface that has a
  `dhclient` is and stays in the script's pod, also where names do not tell pods apart. `Clients` is
  inductive: an interface stays on the node until one script moves it (`ScriptsHoldInterfaces`), and
  what the side-container no longer waits for is in its pod (`SeenInPod`). Whose interface it is this
  does not say: in the situation of `node_reused_name` it is another pod's.
- `ClientsInTheirPods`: `PodSpec => []ClientsStayInPod`, assuming `ExactNames`: it is the pod's own. Without
  arguments `dhclient` takes what it finds, so this needs `OwnNamespaces` of the attachments, carried over
  by `SidecarsOnlyLook`.

Model-checked only: `FullyServed`, which is liveness.

## Lister

`Discover` sends a list of resource names to the device-plugin-manager (`dpm`) through a channel without
a buffer, first the two reserved names, then every ten seconds these and the physnets of
`ovn-bridge-mappings`. `dpm` starts a plugin for each new name and stops those of names that are gone.

| Action | Code |
| --- | --- |
| `SendReserved`, `Send` | `lister.go:24`, `28-29`, enabled when `dpm` takes a list |
| `ListNetworks`, `ListFails` | `listLocalNetworks` (`localnet.go:10-29`), without the key or with a failing call |
| `StartPlugin`, `StopPlugin`, `Done` | `dpm`, external, in any order |
| `SetMappings`, `Restart` | the administrator, the end of the process |

The text matters here, so a setting is a sequence of tokens and the output of `ovs-vsctl` is what it
prints: the value in quotes and a newline. `Parse` does what the code does: it cuts off the first and
the last character, that is a quote and the newline. The second quote therefore stays, in the last
bridge, which nobody reads; of an empty mapping, or after a comma at the end, a resource named `"`
is left, which the kubelet refuses (`Offered`). An empty output, on which the slice expression would
panic, is none that `ovs-vsctl` gives when it succeeds.

- `AttachmentsStay`: the plugin that attaches, once started, is never stopped but by a restart, the
  overlay resource stays beside it, and no other plugin attaches. Proved for any settings and bounds
  (`ListerProofs`, `AttachmentsNeverStop`): every order given to `dpm` contains the reserved names.
- `Converges`: once the mappings are left alone and calls succeed, the node offers the reserved
  resources and exactly the physnets it is mapped to, and goes on doing so.

Run `lister` (`MCLister_discover.cfg`): five settings (none, one, two, one on two bridges, a comma at the
end) or no key, three changes, failures or restarts in any order. Three is the least for a change, a
failure and a restart in one behaviour; `changes` bounds all of them, which is also why the calls
succeed in the end. Fairness: weak, of `Discover`, a loop that waits only for `dpm`, and of `dpm`.

`ListerProofs` also proves `ListerTypeCorrect` (`Spec => []ListerTypeOK`) and `NamesSeparated`: for any settings,
no name that is found has a comma or a colon in it. Both follow from what `Split` makes of any
sequence (`SplitParts`): at least one part, and the separator in none. `Split` is a recursive function, and
the least number of tokens for which this failed would be one more than a number for which it holds.
Model-checked only: `Converges`, which is liveness.

## Inventory

kubespray's inventory builder, which is vendored with the scripts of the test cluster. Each call reads
the file, applies its arguments and writes it, so one action is one call, and what is hard is the
sequence of calls: roles are given, and taken only from deleted hosts.

| Definition | Code (`inventory.py`) |
| --- | --- |
| `BuildHostnames` with `Built`, `Apply`, `Add`, `NextHost`, `DeleteByName`, `DeleteByIP` | `build_hostnames` (140-196), argument by argument |
| `PurgeInvalidHosts` | 198-204 |
| `SetRoles` with `Masters`, `KubeNodes`, `RouteReflectors` | 83-95, 210-253 |
| `Build`, `Load` | a call with hosts; `load` (255-291) |

- `OthersKept`: a call loses no host it was not told to delete. The FIXME of line 152 (an id may be used
  again after a deletion) must not give a new host the place of one that is there.
- `OneNamePerAddress`: no address gets a second name, though arguments repeat and delete it.
- `MembersAreHosts`: every name in a role has an address.
- `Deployable`: etcd is the first three hosts, there is a master, every host has a role, also when
  the number of hosts has crossed the threshold in either direction.

Run `inventory` (`MCInventory_calls.cfg`): four addresses, which are interchangeable, calls with one or
two arguments of any kind or with all addresses, and loads of a host of another name and group.
The thresholds are 4, so that calls cross them; both are one number because line 60 reads the second from
`SCALE_THRESHOLD` too. It must exceed 3: at 3 or less the masters, hosts 4 and 5, would be none.
`MaxHostID` bounds the ids. The tool never takes a role from a host that stays, so after a threshold is
crossed the masters and nodes of before remain; and the test for conflicts in `set_calico_rr` (224)
compares a name with pairs and is never true (`RouteReflectors`). `Deployable` lets hosts share roles.

### Proofs

`InventoryProofs` proves all five properties for any number of hosts, arguments and files, any
thresholds above 3 and any `MaxHostID`:

- `InventoryTypeCorrect`, `RolesHaveHosts` (`MembersAreHosts`) and `NamesStandOnce` (no name stands twice
  among the hosts), which with the bound of the ids make up the invariant `Consistent`;
- `OthersStay` (`OthersKept`) and `AddressesNamedOnce` (`OneNamePerAddress`);
- `CallsDeploy` (`Deployable`), assuming `FilesLeaveEtcd`: no file puts a host in the group `etcd`. A host
  that is loaded comes last, and no call takes it out of `etcd` again. The invariant adds that the hosts
  in `etcd` are among the first three (`EtcdFirst`), which deletions keep, as they move hosts forward only.

What a call does with its arguments is the recursive function `Built`. `BuiltStepwise` shows that it is
defined for every number of arguments, and `BuildSane` that `Sane` holds after each: the hosts dropped so
far are ones to delete, new hosts have new names and addresses nobody else has, etcd's are first. Both go by
the least number for which the claim fails (`LeastNumber`), since induction itself is out of the
provers' reach. `NextIsNew` is the heart of it: an id above the greatest (`GreatestNumber`) is
nobody's, neither a host's nor one left in a role, though ids of deleted hosts are given again.

## Not modelled

In `Admission`: malformed JSON, DELETECOLLECTION requests (empty name), the authentication of the Neutron
client, a network list that changes between requests (a request reads it once, so no property can tell).
In `DevicePlugin`: a sandbox that is restarted under a running pod (no `Allocate` follows, so the pod
stays without interfaces and no property could hold), a PID that is reused between `Inspect` and `Link`,
pods that ask for the main resource without having passed the webhook, the logging and the creation
of `/var/run/netns`. In `PodNetwork`: the leases `dhclient` gets
and renews, and the answer of the DHCP server. In `Lister`: the registration with the kubelet and its
restarts, which the device-plugin-manager handles. In `Inventory`: `help` and the print commands,
arguments and files the tool refuses, hosts whose name has no number (the next call refuses the file),
loading into the group `all`; and that `ConfigParser` puts the names it reads into
lower case: the names are taken to be in lower case, as those with the default prefix `node` are.

The rest of `hack` is not part of the program and has nothing a state machine would add: one-shot
scripts for a test cluster; `get-pip.py` (19017 lines, nearly all of them an encoded archive);
`terraform.py` and the AWS inventory, which print what they read once; `kube.py` and the nmstate modules,
which pass one command each to `kubectl` or nmstate. By lines these are most of the repository, so the
models cover a small share of its lines although they cover the program, which is the Go code of `pkg`
and the two scripts of `cmd`.
