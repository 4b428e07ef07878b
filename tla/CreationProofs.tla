---------------------------- MODULE CreationProofs ----------------------------
(***************************************************************************)
(* What handleAdmissionRequestToCreate makes of a pod: the resources of    *)
(* its side-container, its attachments and the interfaces it waits for,    *)
(* for any number of handlers, names and networks, under every fault and   *)
(* with names used again.                                                  *)
(***************************************************************************)
EXTENDS DeletionProofs, FiniteSetTheorems

-----------------------------------------------------------------------------
(* What a step can do to a handler, a pod and a port *)

\* A CREATE that has its networks listed.
Creating(h) == req[h].op = "CREATE" /\ pc[h] \in {"ports", "allowed"}

\* The networks it starts with are those of the annotation.
StartsCreating(h) ==
  /\ pc[h] = "list" /\ pc'[h] = "ports" /\ req' = req
  /\ local' = [local EXCEPT ![h].todo = req[h].networks]

LEMMA CreateSteps ==
  ASSUME Typed, [Next]_vars, NEW h \in Handler, Creating(h)'
  PROVE  \/ pc'[h] = pc[h] /\ req'[h] = req[h] /\ local'[h] = local[h]
         \/ NoNetworks \in Annotation /\ \E p \in PodName : ReceiveCreate(h, p, NoNetworks)
         \/ StartsCreating(h)
         \/ CreatePort(h)
<1> USE DEF Typed, TypeOK, HandlersWellFormed
<1>1. pc'[h] # "idle" /\ req'[h].op = "CREATE" /\ pc'[h] \in {"ports", "allowed"}
  BY DEF Creating
<1>2. ASSUME NEW g \in Handler, Finish(g)
      PROVE  pc'[h] = pc[h] /\ req'[h] = req[h] /\ local'[h] = local[h]
  BY <1>1, <1>2 DEF Finish
<1>3. ASSUME NEW g \in Handler, NEW p \in PodName, NEW networks \in Annotation,
             ReceiveCreate(g, p, networks)
      PROVE  \/ pc'[h] = pc[h] /\ req'[h] = req[h] /\ local'[h] = local[h]
             \/ NoNetworks \in Annotation /\ ReceiveCreate(h, p, NoNetworks)
  <2>1. CASE g # h
    BY <1>3, <2>1 DEF ReceiveCreate
  <2>2. CASE g = h
    <3>1. networks = NoNetworks
      <4>1. /\ req'[h] = [op |-> "CREATE", pod |-> p, uid |-> creates + 1,
                          networks |-> networks, final |-> FALSE]
            /\ pc'[h] = IF networks = NoNetworks THEN "allowed" ELSE "list"
        BY <1>3, <2>2 DEF ReceiveCreate
      <4> QED
        BY <1>1, <4>1
    <3> QED
      BY <1>3, <2>2, <3>1
  <2> QED
    BY <2>1, <2>2
<1>4. ASSUME NEW g \in Handler, NEW p \in PodName, NEW final \in BOOLEAN,
             NEW uid \in {0, pods[p].uid}, ReceiveDelete(g, p, uid, final)
      PROVE  pc'[h] = pc[h] /\ req'[h] = req[h] /\ local'[h] = local[h]
  BY <1>1, <1>4 DEF ReceiveDelete
<1>5. ASSUME NEW g \in Handler, ListNetworks(g)
      PROVE  \/ pc'[h] = pc[h] /\ req'[h] = req[h] /\ local'[h] = local[h]
             \/ StartsCreating(h)
  <2>1. CASE Finish(g)
    BY <1>2, <2>1
  <2>2. CASE Goto(g, "ports") /\ local' = [local EXCEPT ![g].todo = req[g].networks]
    BY <1>5, <2>2 DEF Goto, StartsCreating, ListNetworks
  <2> QED
    BY <1>5, <2>1, <2>2 DEF ListNetworks
<1>6. ASSUME NEW g \in Handler, CreatePort(g)
      PROVE  \/ pc'[h] = pc[h] /\ req'[h] = req[h] /\ local'[h] = local[h]
             \/ CreatePort(h)
  <2>1. CASE g = h
    BY <1>6, <2>1
  <2>2. CASE g # h
    BY <1>6, <2>2 DEF CreatePort, Goto
  <2> QED
    BY <2>1, <2>2
<1>7. ASSUME NEW g \in Handler, GetPod(g) \/ DeletePort(g) \/ UpdatePod(g)
      PROVE  pc'[h] = pc[h] /\ req'[h] = req[h] /\ local'[h] = local[h]
  <2>1. req[g].op = "DELETE"
    BY <1>7 DEF GetPod, DeletePort, UpdatePod
  <2>2. CASE g = h
    <3>1. ~Finish(h)
      BY <1>1 DEF Finish
    <3> QED
      BY <1>1, <1>7, <2>1, <2>2, <3>1 DEF GetPod, DeletePort, UpdatePod, Goto
  <2>3. CASE g # h
    BY <1>7, <2>3 DEF GetPod, DeletePort, UpdatePod, Goto, Finish
  <2> QED
    BY <2>2, <2>3
<1>8. ASSUME NEW g \in Handler, Serve(g)
      PROVE  \/ pc'[h] = pc[h] /\ req'[h] = req[h] /\ local'[h] = local[h]
             \/ StartsCreating(h) \/ CreatePort(h)
  BY <1>2, <1>5, <1>6, <1>7, <1>8
     DEF Serve, ListNetworksFails, CreatePortFails, DeletePortFails, UpdatePodFails
<1>9. ASSUME NEW g \in Handler, Complete(g)
      PROVE  pc'[h] = pc[h] /\ req'[h] = req[h] /\ local'[h] = local[h]
  BY <1>2, <1>9 DEF Complete, StorePod, RefusePod, DeletePod, DropResponse
<1>10. CASE Crash
  BY <1>1, <1>10 DEF Crash
<1> QED
  BY <1>3, <1>4, <1>8, <1>9, <1>10
     DEF Next, Timeout, UpdateStatus, vars, handlerVars

\* An update that has read the pod it writes empties its networksSpec.
Empties(h, p) ==
  /\ pc[h] = "update" /\ req[h].pod = p /\ local[h].uid = pods[p].uid
  /\ pods'[p].networksSpec = {}

LEMMA PodSteps ==
  ASSUME Typed, [Next]_vars, NEW p \in PodName, Exists(p)'
  PROVE  \/ \E h \in Handler : StorePod(h) /\ req[h].pod = p
         \/ /\ pods'[p].uid = pods[p].uid /\ pods'[p].networks = pods[p].networks
            /\ pods'[p].args = pods[p].args /\ pods'[p].limits = pods[p].limits
            /\ \/ pods'[p].networksSpec = pods[p].networksSpec
               \/ \E h \in Handler : Empties(h, p)
<1> USE DEF Typed, TypeOK
<1>1. pods[p] \in Pod /\ pods'[p].uid # 0
  BY DEF Exists
<1> DEFINE marked == [pods[p] EXCEPT !.deleting = TRUE, !.version = @ + 1]
           emptied == [pods[p] EXCEPT !.networksSpec = {}, !.version = @ + 1]
           written == [pods[p] EXCEPT !.version = @ + 1]
           Same(new) == /\ new.uid = pods[p].uid /\ new.networks = pods[p].networks
                        /\ new.args = pods[p].args /\ new.limits = pods[p].limits
<1>2. /\ Same(marked) /\ marked.networksSpec = pods[p].networksSpec
      /\ Same(emptied) /\ emptied.networksSpec = {}
      /\ Same(written) /\ written.networksSpec = pods[p].networksSpec
      /\ NoPod.uid = 0
  BY <1>1 DEF Pod, NoPod
<1>3. \/ pods'[p] = pods[p]
      \/ \E h \in Handler : StorePod(h) /\ req[h].pod = p
      \/ pods'[p] = marked \/ pods'[p] = written
      \/ \E h \in Handler : (UpdatePod(h) \/ UpdatePodFails(h)) /\ Unmodified(h)
                            /\ pods'[p] = emptied /\ req[h].pod = p
  <2> HIDE DEF marked, emptied, written
  <2>1. ASSUME NEW h \in Handler, StorePod(h)
        PROVE  pods'[p] = pods[p] \/ req[h].pod = p
    BY <2>1 DEF StorePod
  <2>2. ASSUME NEW h \in Handler, DeletePod(h)
        PROVE  pods'[p] = pods[p] \/ pods'[p] = marked
    <3>1. \/ pods' = pods
          \/ pods' = [pods EXCEPT ![req[h].pod] = NoPod]
          \/ pods' = [pods EXCEPT ![req[h].pod] =
               [pods[req[h].pod] EXCEPT !.deleting = TRUE, !.version = @ + 1]]
      BY <2>2 DEF DeletePod
    <3> QED
      BY <1>1, <1>2, <3>1 DEF marked
  <2>3. ASSUME NEW h \in Handler, UpdatePod(h) \/ UpdatePodFails(h)
        PROVE  \/ pods'[p] = pods[p]
               \/ Unmodified(h) /\ pods'[p] = emptied /\ req[h].pod = p
    <3> DEFINE new == [pods[req[h].pod] EXCEPT !.networksSpec = {}, !.version = @ + 1]
    <3>1. \/ pods' = pods
          \/ pods' = [pods EXCEPT ![req[h].pod] = new] /\ Unmodified(h)
      BY <2>3 DEF UpdatePod, UpdatePodFails, WriteAnnotation
    <3>2. req[h].pod = p => new = emptied
      BY DEF emptied
    <3> HIDE DEF new
    <3> QED
      BY <1>1, <3>1, <3>2
  <2>4. ASSUME NEW r \in PodName, UpdateStatus(r)
        PROVE  pods'[p] = pods[p] \/ pods'[p] = written
    BY <2>4 DEF UpdateStatus, written
  <2> QED
    BY <2>1, <2>2, <2>3, <2>4, PodsWritten
<1>4. ASSUME NEW h \in Handler, UpdatePod(h) \/ UpdatePodFails(h), Unmodified(h),
             pods'[p] = emptied, req[h].pod = p
      PROVE  Empties(h, p)
  BY <1>2, <1>4 DEF Empties, UpdatePod, UpdatePodFails, Unmodified
<1> HIDE DEF marked, emptied, written
<1> QED
  BY <1>2, <1>3, <1>4

\* A port goes only when a DELETE deletes one that it has read; a port that
\* comes has a new ID and belongs to a CREATE.
LEMMA PortSteps ==
  ASSUME Typed, [Next]_vars
  PROVE  /\ \A q \in ports : \/ q \in ports'
                             \/ \E h \in Handler :
                                  /\ pc[h] = "unport"
                                  /\ \E e \in local[h].networksSpec : q.id = e.portID
         /\ \A q \in ports' : \/ q \in ports
                              \/ /\ q.id = nextPort
                                 /\ \E h \in Handler : /\ pc[h] = "ports"
                                                       /\ q.pod = req[h].uid
<1>1. ASSUME NEW h \in Handler, NEW e \in local[h].networksSpec, Drop(e.portID)
      PROVE  ports' = {q \in ports : q.id # e.portID}
  BY <1>1 DEF Drop
<1>2. ASSUME NEW h \in Handler, NEW n, NEW name, NEW mac, NewPort(h, n, name, mac)
      PROVE  /\ ports \subseteq ports'
             /\ \A q \in ports' : q \in ports \/ (q.id = nextPort /\ q.pod = req[h].uid)
  BY <1>2 DEF NewPort
<1>3. \/ ports' = ports
      \/ \E h \in Handler : pc[h] = "unport" /\ \E e \in local[h].networksSpec : Drop(e.portID)
      \/ \E h \in Handler : pc[h] = "ports" /\ \E n, name, mac : NewPort(h, n, name, mac)
  <2>1. ASSUME NEW h \in Handler, CreatePort(h) \/ CreatePortFails(h)
        PROVE  \/ ports' = ports
               \/ pc[h] = "ports" /\ \E n, name, mac : NewPort(h, n, name, mac)
    BY <2>1 DEF CreatePort, CreatePortFails, providerVars
  <2>2. ASSUME NEW h \in Handler, DeletePort(h) \/ DeletePortFails(h)
        PROVE  \/ ports' = ports
               \/ pc[h] = "unport" /\ \E e \in local[h].networksSpec : Drop(e.portID)
    BY <2>2 DEF DeletePort, DeletePortFails
  <2> QED
    <3>1. ASSUME NEW h \in Handler, Serve(h)
          PROVE  \/ ports' = ports \/ CreatePort(h) \/ CreatePortFails(h)
                 \/ DeletePort(h) \/ DeletePortFails(h)
      BY <3>1 DEF Serve, ListNetworks, ListNetworksFails, GetPod, UpdatePod, UpdatePodFails,
                  providerVars
    <3>2. ASSUME NEW h \in Handler, Complete(h) \/ Timeout(h) PROVE ports' = ports
      BY <3>2 DEF Complete, StorePod, RefusePod, DeletePod, DropResponse, Timeout, providerVars
    <3>3. ASSUME NEW h \in Handler, NEW p \in PodName, NEW networks \in Annotation,
                 ReceiveCreate(h, p, networks)
          PROVE  ports' = ports
      BY <3>3 DEF ReceiveCreate, providerVars
    <3>4. ASSUME NEW h \in Handler, NEW p \in PodName, NEW final \in BOOLEAN,
                 NEW uid \in {0, pods[p].uid}, ReceiveDelete(h, p, uid, final)
          PROVE  ports' = ports
      BY <3>4 DEF ReceiveDelete, providerVars
    <3>5. ASSUME NEW p \in PodName, UpdateStatus(p) PROVE ports' = ports
      BY <3>5 DEF UpdateStatus, providerVars
    <3>6. ASSUME Crash \/ UNCHANGED vars PROVE ports' = ports
      BY <3>6 DEF Crash, vars, providerVars
    <3>7. \/ ports' = ports
          \/ \E h \in Handler : \/ CreatePort(h) \/ CreatePortFails(h)
                                \/ DeletePort(h) \/ DeletePortFails(h)
      BY <3>1, <3>2, <3>3, <3>4, <3>5, <3>6 DEF Next
    <3> QED
      BY <2>1, <2>2, <3>7
<1> QED
  BY <1>1, <1>2, <1>3

\* A DELETE deletes what it has read of the pod that is stored.
DeleteStep(h) ==
  \/ pc'[h] = pc[h] /\ local'[h] = local[h]
  \/ /\ local'[h].uid \in examined'
     /\ \E p \in PodName : /\ Exists(p) /\ local'[h].uid = pods[p].uid
                           /\ local'[h].networksSpec = pods[p].networksSpec
  \/ /\ pc[h] = "unport" /\ local'[h].uid = local[h].uid
     /\ local'[h].networksSpec \subseteq local[h].networksSpec

LEMMA DeleteSteps ==
  ASSUME Typed, [Next]_vars, NEW h \in Handler, pc'[h] \in {"unport", "update"}
  PROVE  DeleteStep(h)
<1> USE DEF Typed, TypeOK, HandlersWellFormed, DeleteStep
<1>1. ASSUME NEW g \in Handler, Finish(g) PROVE DeleteStep(h)
  BY <1>1 DEF Finish
<1>2. ASSUME NEW g \in Handler, NEW label, Goto(g, label), label \notin {"unport", "update"},
             \A f \in Handler \ {g} : local'[f] = local[f]
      PROVE  DeleteStep(h)
  <2>1. h # g
    BY <1>2 DEF Goto
  <2> QED
    BY <1>2, <2>1 DEF Goto
<1>3. ASSUME NEW g \in Handler, GetPod(g) PROVE DeleteStep(h)
  <2> DEFINE p == req[g].pod
  <2>1. CASE Finish(g)
    BY <1>1, <2>1
  <2>2. CASE Goto(g, "allowed") /\ UNCHANGED local
    BY <1>2, <2>2
  <2>3. CASE /\ Exists(p) /\ Goto(g, "unport")
             /\ local' = [local EXCEPT ![g].networksSpec = pods[p].networksSpec,
                                       ![g].uid = pods[p].uid,
                                       ![g].version = pods[p].version]
             /\ examined' = examined \cup {pods[p].uid}
    <3>1. p \in PodName
      BY <1>3, DeletesNamePods DEF GetPod
    <3>2. CASE g = h
      <4>1. /\ local'[h].uid = pods[p].uid
            /\ local'[h].networksSpec = pods[p].networksSpec
        BY <2>3, <3>2 DEF Local
      <4>2. pods[p].uid \in examined'
        BY <2>3
      <4> QED
        BY <2>3, <3>1, <4>1, <4>2
    <3>3. CASE g # h
      BY <2>3, <3>3 DEF Goto
    <3> QED
      BY <3>2, <3>3
  <2> QED
    BY <1>3, <2>1, <2>2, <2>3 DEF GetPod
<1>4. ASSUME NEW g \in Handler, DeletePort(g) PROVE DeleteStep(h)
  <2>1. PICK e \in local[g].networksSpec :
          local' = [local EXCEPT ![g].networksSpec = @ \ {e}]
    BY <1>4 DEF DeletePort
  <2>2. CASE g = h
    <3>1. /\ local'[h].networksSpec = local[h].networksSpec \ {e}
          /\ local'[h].uid = local[h].uid
      BY <2>1, <2>2 DEF Local
    <3> QED
      BY <1>4, <2>2, <3>1 DEF DeletePort
  <2>3. CASE g # h
    BY <1>4, <2>1, <2>3 DEF DeletePort, Goto
  <2> QED
    BY <2>2, <2>3
<1>5. ASSUME NEW g \in Handler, CreatePort(g) \/ ListNetworks(g) PROVE DeleteStep(h)
  <2>1. \A f \in Handler \ {g} : local'[f] = local[f] /\ pc'[f] = pc[f]
    BY <1>5 DEF CreatePort, ListNetworks, Goto, Finish
  <2>2. pc'[g] \notin {"unport", "update"}
    BY <1>5 DEF CreatePort, ListNetworks, Goto, Finish
  <2> QED
    BY <2>1, <2>2
<1>6. ASSUME NEW g \in Handler, NEW p \in PodName, NEW networks \in Annotation,
             ReceiveCreate(g, p, networks)
      PROVE  DeleteStep(h)
  <2>1. \A f \in Handler \ {g} : local'[f] = local[f] /\ pc'[f] = pc[f]
    BY <1>6 DEF ReceiveCreate
  <2>2. pc'[g] \notin {"unport", "update"}
    BY <1>6 DEF ReceiveCreate
  <2> QED
    BY <2>1, <2>2
<1>7. ASSUME NEW g \in Handler, UpdatePod(g) PROVE DeleteStep(h)
  BY <1>2, <1>7 DEF UpdatePod
<1>8. ASSUME NEW g \in Handler, Serve(g) PROVE DeleteStep(h)
  BY <1>1, <1>3, <1>4, <1>5, <1>7, <1>8
     DEF Serve, ListNetworksFails, CreatePortFails, DeletePortFails, UpdatePodFails
<1>9. ASSUME NEW g \in Handler, Complete(g) PROVE DeleteStep(h)
  BY <1>1, <1>9 DEF Complete, StorePod, RefusePod, DeletePod, DropResponse
<1>10. ASSUME NEW g \in Handler, NEW p \in PodName, NEW final \in BOOLEAN,
              NEW uid \in {0, pods[p].uid}, ReceiveDelete(g, p, uid, final)
       PROVE  DeleteStep(h)
  BY <1>10 DEF ReceiveDelete
<1>11. CASE Crash
  BY <1>11 DEF Crash
<1>12. CASE UNCHANGED <<pc, local>>
  BY <1>12
<1>13. ASSUME NEW g \in Handler, Timeout(g) PROVE DeleteStep(h)
  BY <1>12, <1>13 DEF Timeout
<1>14. ASSUME NEW p \in PodName, UpdateStatus(p) PROVE DeleteStep(h)
  BY <1>12, <1>14 DEF UpdateStatus, handlerVars
<1>15. CASE UNCHANGED vars
  BY <1>12, <1>15 DEF vars
<1> HIDE DEF Typed, TypeOK, HandlersWellFormed, DeleteStep
<1> QED
  BY <1>6, <1>8, <1>9, <1>10, <1>11, <1>13, <1>14, <1>15 DEF Next

\* History only grows, and what is examined is stored.
LEMMA HistorySteps ==
  ASSUME Typed, [Next]_vars
  PROVE  /\ admitted \subseteq admitted' /\ examined \subseteq examined'
         /\ \A u \in examined' :
              u \in examined \/ \E p \in PodName : Exists(p) /\ u = pods[p].uid
<1>a. ASSUME NEW h \in Handler, Serve(h) PROVE UNCHANGED historyVars \/ GetPod(h)
  BY <1>a DEF Serve, ListNetworks, ListNetworksFails, CreatePort, CreatePortFails, DeletePort,
              DeletePortFails, UpdatePod, UpdatePodFails
<1>b. ASSUME NEW h \in Handler, Complete(h) PROVE UNCHANGED historyVars \/ StorePod(h)
  BY <1>b DEF Complete, RefusePod, DeletePod, DropResponse
<1>c. ASSUME NEW h \in Handler, NEW p \in PodName, NEW networks \in Annotation,
             ReceiveCreate(h, p, networks)
      PROVE  UNCHANGED historyVars
  BY <1>c DEF ReceiveCreate
<1>d. ASSUME NEW h \in Handler, NEW p \in PodName, NEW final \in BOOLEAN,
             NEW uid \in {0, pods[p].uid}, ReceiveDelete(h, p, uid, final)
      PROVE  UNCHANGED historyVars
  BY <1>d DEF ReceiveDelete
<1>e. ASSUME NEW h \in Handler, Timeout(h) PROVE UNCHANGED historyVars
  BY <1>e DEF Timeout
<1>f. ASSUME NEW p \in PodName, UpdateStatus(p) PROVE UNCHANGED historyVars
  BY <1>f DEF UpdateStatus
<1>g. ASSUME Crash \/ UNCHANGED vars PROVE UNCHANGED historyVars
  BY <1>g DEF Crash, vars, historyVars
<1>h. UNCHANGED historyVars \/ \E h \in Handler : GetPod(h) \/ StorePod(h)
  <2> HIDE DEF Typed, TypeOK, HandlersWellFormed
  <2>1. CASE Crash \/ UNCHANGED vars
    BY <1>g, <2>1
  <2>2. ASSUME NEW h \in Handler, Serve(h) \/ Complete(h)
        PROVE  UNCHANGED historyVars \/ \E g \in Handler : GetPod(g) \/ StorePod(g)
    BY <1>a, <1>b, <2>2
  <2> QED
    BY <1>c, <1>d, <1>e, <1>f, <2>1, <2>2 DEF Next
<1>1. admitted' = admitted \/ \E h \in Handler : StorePod(h)
  BY <1>h DEF GetPod, historyVars
<1>2. examined' = examined \/ \E h \in Handler : GetPod(h) /\ examined' # examined
  BY <1>h DEF StorePod, historyVars
<1>3. ASSUME NEW h \in Handler, GetPod(h), examined' # examined
      PROVE  /\ Exists(req[h].pod) /\ examined' = examined \cup {pods[req[h].pod].uid}
             /\ req[h].pod \in PodName
  BY <1>3, DeletesNamePods DEF GetPod, Typed, HandlersWellFormed
<1> QED
  BY <1>1, <1>2, <1>3 DEF StorePod

-----------------------------------------------------------------------------
(* The loop over the requested networks *)

\* The places in the annotation of the networks that have been served.
Served(networks, todo) == {i \in DOMAIN networks : i + Len(todo) <= Len(networks)}

\* The networks to serve are the last ones of the annotation.
InOrder(networks, todo) ==
  /\ Len(todo) <= Len(networks)
  /\ \A j \in DOMAIN todo : todo[j] = networks[Len(networks) - Len(todo) + j]

\* A round serves the next network of the annotation.
LEMMA NextServed ==
  ASSUME NEW networks \in Seq(NetworkName), NEW todo \in Seq(NetworkName),
         todo # <<>>, InOrder(networks, todo)
  PROVE  LET i == Len(networks) - Len(todo) + 1 IN
           /\ i \in DOMAIN networks /\ i \notin Served(networks, todo)
           /\ networks[i] = Head(todo)
           /\ Served(networks, Tail(todo)) = Served(networks, todo) \cup {i}
           /\ InOrder(networks, Tail(todo))
<1> DEFINE i == Len(networks) - Len(todo) + 1
<1>1. /\ Len(todo) \in Nat /\ Len(networks) \in Nat /\ Len(todo) >= 1
      /\ DOMAIN todo = 1..Len(todo) /\ DOMAIN networks = 1..Len(networks)
      /\ Len(todo) <= Len(networks)
  BY DEF InOrder
<1>2. /\ Tail(todo) \in Seq(NetworkName) /\ Len(Tail(todo)) = Len(todo) - 1
      /\ DOMAIN Tail(todo) = 1..(Len(todo) - 1)
      /\ \A j \in 1..(Len(todo) - 1) : Tail(todo)[j] = todo[j + 1]
  BY <1>1
<1>3. i \in DOMAIN networks /\ i \notin Served(networks, todo)
  BY <1>1 DEF Served
<1>4. networks[i] = Head(todo)
  BY <1>1 DEF InOrder
<1>5. Served(networks, Tail(todo)) = Served(networks, todo) \cup {i}
  BY <1>1, <1>2 DEF Served
<1>6. InOrder(networks, Tail(todo))
  <2>1. Len(Tail(todo)) <= Len(networks)
    BY <1>1, <1>2
  <2>2. ASSUME NEW j \in DOMAIN Tail(todo)
        PROVE  Tail(todo)[j] = networks[Len(networks) - Len(Tail(todo)) + j]
    <3>1. j \in Nat /\ j + 1 \in DOMAIN todo /\ Tail(todo)[j] = todo[j + 1]
      BY <1>1, <1>2
    <3>2. Len(networks) - Len(todo) + (j + 1) = Len(networks) - Len(Tail(todo)) + j
      BY <1>1, <1>2, <3>1
    <3> QED
      BY <3>1, <3>2 DEF InOrder
  <2> QED
    BY <2>1, <2>2 DEF InOrder
<1> QED
  BY <1>3, <1>4, <1>5, <1>6

LEMMA NoneOrAllServed ==
  ASSUME NEW networks \in Seq(NetworkName)
  PROVE  /\ Served(networks, networks) = {} /\ InOrder(networks, networks)
         /\ Served(networks, <<>>) = DOMAIN networks /\ InOrder(networks, <<>>)
<1>1. Len(networks) \in Nat /\ DOMAIN networks = 1..Len(networks)
  OBVIOUS
<1>2. Len(<<>>) = 0 /\ DOMAIN <<>> = {}
  OBVIOUS
<1> QED
  BY <1>1, <1>2 DEF Served, InOrder

\* What a round does.
LEMMA Round ==
  ASSUME Typed, NEW h \in Handler, CreatePort(h)
  PROVE  LET todo == local[h].todo
             n == Head(todo)
         IN
           /\ todo \in Seq(NetworkName) /\ todo # <<>> /\ NetworkByName(n) \in Network
           /\ req[h].op = "CREATE" /\ pc[h] = "ports" /\ req' = req
           /\ pc'[h] = IF Tail(todo) = <<>> THEN "allowed" ELSE "ports"
           /\ local'[h].todo = Tail(todo)
           /\ local'[h].requested = AddResource(local[h].requested, NetworkByName(n).physnet)
           /\ \E name, mac :
                /\ ports' = ports \cup {[id |-> nextPort, network |-> NetworkByName(n).id,
                                         name |-> name, mac |-> mac, pod |-> req[h].uid]}
                /\ local'[h].networksSpec =
                     Put(local[h].networksSpec, [network |-> n, portName |-> name,
                                                 portID |-> nextPort, macAddress |-> mac])
                /\ local'[h].dhclient =
                     AddInterface(local[h].dhclient, NetworkByName(n), name)
<1> DEFINE todo == local[h].todo
           n == Head(todo)
<1>1. /\ todo \in Seq(NetworkName) /\ todo # <<>> /\ local[h] \in Local
      /\ \A i \in DOMAIN todo : NetworkNamed(todo[i]) # {}
  BY DEF Typed, TypeOK, HandlersWellFormed, CreatePort, Local
<1>2. NetworkByName(n) \in Network
  BY <1>1, NetworkByNameType
<1>3. PICK name \in PortNames[n], mac \in Mac :
        /\ NewPort(h, n, name, mac)
        /\ local' = [local EXCEPT
             ![h].todo = Tail(@),
             ![h].networksSpec = Put(@, [network |-> n, portName |-> name,
                                         portID |-> nextPort, macAddress |-> mac]),
             ![h].requested = AddResource(@, NetworkByName(n).physnet),
             ![h].dhclient = AddInterface(@, NetworkByName(n), name)]
  BY DEF CreatePort
<1>4. ports' = ports \cup {[id |-> nextPort, network |-> NetworkByName(n).id,
                            name |-> name, mac |-> mac, pod |-> req[h].uid]}
  BY <1>3 DEF NewPort
<1>5. /\ local'[h].todo = Tail(todo)
      /\ local'[h].networksSpec =
           Put(local[h].networksSpec, [network |-> n, portName |-> name,
                                       portID |-> nextPort, macAddress |-> mac])
      /\ local'[h].requested = AddResource(local[h].requested, NetworkByName(n).physnet)
      /\ local'[h].dhclient = AddInterface(local[h].dhclient, NetworkByName(n), name)
  BY <1>1, <1>3 DEF Typed, TypeOK, Local
<1>6. /\ req[h].op = "CREATE" /\ pc[h] = "ports" /\ req' = req
      /\ pc'[h] = IF Tail(todo) = <<>> THEN "allowed" ELSE "ports"
  BY DEF Typed, TypeOK, HandlersWellFormed, CreatePort, Goto
<1> QED
  BY <1>1, <1>2, <1>4, <1>5, <1>6

\* A CREATE serves the networks of a pod's annotation, each once, in its order.
CreatesInOrder ==
  \A h \in Handler : Creating(h) =>
    /\ req[h].networks \in Annotation
    /\ InOrder(req[h].networks, local[h].todo)
    /\ pc[h] = "allowed" => local[h].todo = <<>>

\* A pod that asks for nothing is done with all its networks.
LEMMA ReceivedDone ==
  ASSUME Typed, NEW h \in Handler, NEW p, ReceiveCreate(h, p, NoNetworks)
  PROVE  /\ req'[h].networks = <<>> /\ local'[h].todo = <<>>
         /\ local'[h].requested = NoResources /\ local'[h].dhclient = <<>>
         /\ local'[h].networksSpec \in Carried(NoNetworks) /\ req'[h].uid = creates + 1
<1>1. local[h] = NoLocal
  BY DEF ReceiveCreate, Typed, HandlersWellFormed
<1>2. req'[h].networks = <<>> /\ req'[h].uid = creates + 1
  BY DEF ReceiveCreate, Typed, TypeOK, NoNetworks
<1>3. PICK spec \in Carried(NoNetworks) : local' = [local EXCEPT ![h].networksSpec = spec]
  BY DEF ReceiveCreate
<1>4. local'[h] = [NoLocal EXCEPT !.networksSpec = spec]
  BY <1>1, <1>3 DEF Typed, TypeOK
<1> QED
  BY <1>2, <1>3, <1>4 DEF NoLocal

LEMMA InOrderNext ==
  ASSUME Typed, CreatesInOrder, [Next]_vars
  PROVE  CreatesInOrder'
<1> SUFFICES ASSUME NEW h \in Handler, Creating(h)'
             PROVE  /\ req'[h].networks \in Annotation
                    /\ InOrder(req'[h].networks, local'[h].todo)
                    /\ pc'[h] = "allowed" => local'[h].todo = <<>>
  BY DEF CreatesInOrder
<1>1. CASE pc'[h] = pc[h] /\ req'[h] = req[h] /\ local'[h] = local[h]
  BY <1>1 DEF CreatesInOrder, Creating
<1>2. ASSUME NoNetworks \in Annotation, NEW p \in PodName, ReceiveCreate(h, p, NoNetworks)
      PROVE  /\ req'[h].networks \in Annotation
             /\ InOrder(req'[h].networks, local'[h].todo)
             /\ pc'[h] = "allowed" => local'[h].todo = <<>>
  <2>1. req'[h].networks = <<>> /\ local'[h].todo = <<>>
    BY <1>2, ReceivedDone
  <2>2. InOrder(<<>>, <<>>)
    BY DEF InOrder
  <2> QED
    BY <1>2, <2>1, <2>2 DEF NoNetworks
<1>3. CASE StartsCreating(h)
  <2>1. req[h].networks \in Annotation /\ req'[h].networks = req[h].networks
    BY <1>3 DEF StartsCreating, Typed, HandlersWellFormed
  <2>2. local'[h].todo = req[h].networks /\ pc'[h] = "ports"
    BY <1>3 DEF StartsCreating, Typed, TypeOK, Local
  <2> QED
    BY <2>1, <2>2, NoneOrAllServed, NetworkAssumption
<1>4. CASE CreatePort(h)
  <2>1. /\ req[h].networks \in Annotation
        /\ InOrder(req[h].networks, local[h].todo)
    BY <1>4, Round DEF CreatesInOrder, Creating
  <2>2. InOrder(req[h].networks, Tail(local[h].todo))
    BY <1>4, <2>1, Round, NextServed, NetworkAssumption
  <2> QED
    BY <1>4, <2>1, <2>2, Round
<1> QED
  BY <1>1, <1>2, <1>3, <1>4, CreateSteps

-----------------------------------------------------------------------------
(* The resources *)

ServedOn(networks, todo, r) == Served(networks, todo) \cap OnPhysnet(networks, r)

\* requestedResources counts the networks served so far.
Counts(requested, networks, todo) ==
  /\ requested \in [ResourceName -> Nat]
  /\ requested[Main] = 0 /\ requested[NoPhysnet] = 0
  /\ requested[Overlay] = IF ServedOn(networks, todo, NoPhysnet) # {} THEN 1 ELSE 0
  /\ \A r \in Physnet \ {NoPhysnet} :
       requested[r] = Cardinality(ServedOn(networks, todo, r))

CreatesCount ==
  \A h \in Handler : Creating(h) =>
    Counts(local[h].requested, req[h].networks, local[h].todo)

Counting == Typed /\ CreatesInOrder /\ CreatesCount /\ ResourcesMatchNetworks

LEMMA NothingCounted ==
  ASSUME NEW networks, NEW todo, Served(networks, todo) = {}
  PROVE  Counts(NoResources, networks, todo)
<1>1. {Main, Overlay, NoPhysnet} \subseteq ResourceName /\ Physnet \subseteq ResourceName
  BY DEF ResourceName, Physnet
<1>2. \A r : ServedOn(networks, todo, r) = {}
  BY DEF ServedOn
<1> QED
  BY <1>1, <1>2, FS_EmptySet DEF Counts, NoResources

\* A round counts the network it serves, whether or not it is the first one of
\* its physnet.
LEMMA CountsNext ==
  ASSUME NEW networks \in Seq(NetworkName), NEW todo \in Seq(NetworkName),
         todo # <<>>, InOrder(networks, todo), NEW requested,
         Counts(requested, networks, todo), NetworkByName(Head(todo)) \in Network
  PROVE  Counts(AddResource(requested, NetworkByName(Head(todo)).physnet),
                networks, Tail(todo))
<1> DEFINE i == Len(networks) - Len(todo) + 1
           physnet == NetworkByName(Head(todo)).physnet
           added == AddResource(requested, physnet)
           On(r) == ServedOn(networks, todo, r)
<1>1. physnet \in Physnet /\ NoPhysnet \in Physnet
  BY DEF Network, Physnet
<1>2. Main # Overlay /\ Main \notin Physnet /\ Overlay \notin Physnet
  BY ResourceAssumption
<1>3. ResourceName = Physnet \cup {Main, Overlay}
  BY DEF ResourceName
<1>4. \A r : ServedOn(networks, Tail(todo), r) = IF r = physnet THEN On(r) \cup {i} ELSE On(r)
  BY NextServed DEF ServedOn, OnPhysnet
<1>5. \A r : IsFiniteSet(On(r)) /\ i \notin On(r)
  <2> TAKE r
  <2>1. IsFiniteSet(1..Len(networks))
    BY FS_Interval
  <2>2. On(r) \in SUBSET (1..Len(networks))
    BY DEF ServedOn, Served
  <2> QED
    BY <2>1, <2>2, FS_Subset, NextServed DEF ServedOn
<1>6. \A r : Cardinality(On(r) \cup {i}) = Cardinality(On(r)) + 1
  BY <1>5, FS_AddElement
<1>7. /\ requested \in [ResourceName -> Nat]
      /\ requested[Main] = 0 /\ requested[NoPhysnet] = 0
      /\ requested[Overlay] = IF On(NoPhysnet) # {} THEN 1 ELSE 0
      /\ \A r \in Physnet \ {NoPhysnet} : requested[r] = Cardinality(On(r))
  BY DEF Counts
<1>8. added \in [ResourceName -> Nat]
  BY <1>1, <1>7, ResourceTypes
<1> HIDE DEF i, physnet, On
<1>9. CASE physnet # NoPhysnet
  <2>1. added = [requested EXCEPT ![physnet] = @ + 1]
    BY <1>9 DEF AddResource
  <2>2. added[Main] = 0 /\ added[NoPhysnet] = 0 /\ added[Overlay] = requested[Overlay]
    BY <1>1, <1>2, <1>3, <1>7, <1>9, <2>1
  <2>3. \A r \in Physnet \ {NoPhysnet} :
          added[r] = Cardinality(ServedOn(networks, Tail(todo), r))
    BY <1>1, <1>3, <1>4, <1>6, <1>7, <1>9, <2>1
  <2>4. ServedOn(networks, Tail(todo), NoPhysnet) = On(NoPhysnet)
    BY <1>4, <1>9
  <2> HIDE DEF added
  <2> QED
    BY <1>7, <1>8, <2>2, <2>3, <2>4 DEF Counts, added, physnet
<1>10. CASE physnet = NoPhysnet
  <2>1. added = [requested EXCEPT ![Overlay] = 1]
    <3>1. ~(requested[physnet] > 0)
      BY <1>7, <1>10
    <3> QED
      BY <1>10, <3>1 DEF AddResource
  <2>2. added[Main] = 0 /\ added[NoPhysnet] = 0 /\ added[Overlay] = 1
    BY <1>1, <1>2, <1>3, <1>7, <2>1
  <2>3. \A r \in Physnet \ {NoPhysnet} :
          added[r] = Cardinality(ServedOn(networks, Tail(todo), r))
    BY <1>2, <1>3, <1>4, <1>7, <1>10, <2>1
  <2>4. ServedOn(networks, Tail(todo), NoPhysnet) # {}
    BY <1>4, <1>10
  <2> HIDE DEF added
  <2> QED
    BY <1>8, <2>2, <2>3, <2>4 DEF Counts, added, physnet
<1> QED
  BY <1>9, <1>10

LEMMA CountNext ==
  ASSUME Counting, [Next]_vars
  PROVE  CreatesCount'
<1> SUFFICES ASSUME NEW h \in Handler, Creating(h)'
             PROVE  Counts(local'[h].requested, req'[h].networks, local'[h].todo)
  BY DEF CreatesCount, Counts
<1> USE DEF Counting
<1>1. CASE pc'[h] = pc[h] /\ req'[h] = req[h] /\ local'[h] = local[h]
  BY <1>1 DEF CreatesCount, Creating
<1>2. ASSUME NEW p \in PodName, ReceiveCreate(h, p, NoNetworks)
      PROVE  Counts(local'[h].requested, req'[h].networks, local'[h].todo)
  <2>1. Served(<<>>, <<>>) = {}
    BY DEF Served
  <2> QED
    BY <1>2, <2>1, ReceivedDone, NothingCounted
<1>3. CASE StartsCreating(h)
  <2>1. local[h] = NoLocal /\ req[h].networks \in Seq(NetworkName)
    BY <1>3, NetworkAssumption DEF StartsCreating, Typed, HandlersWellFormed
  <2>2. /\ local'[h].todo = req[h].networks /\ req'[h].networks = req[h].networks
        /\ local'[h].requested = NoResources
    BY <1>3, <2>1 DEF StartsCreating, Typed, TypeOK, NoLocal
  <2> QED
    BY <2>1, <2>2, NoneOrAllServed, NothingCounted
<1>4. CASE CreatePort(h)
  <2>1. /\ req[h].networks \in Seq(NetworkName)
        /\ InOrder(req[h].networks, local[h].todo)
        /\ Counts(local[h].requested, req[h].networks, local[h].todo)
    BY <1>4, Round, NetworkAssumption DEF CreatesInOrder, CreatesCount, Creating
  <2> QED
    BY <1>4, <2>1, Round, CountsNext
<1> QED
  BY <1>1, <1>2, <1>3, <1>4, CreateSteps

\* A pod is stored when all its networks have been counted.
LEMMA ResourcesNext ==
  ASSUME Counting, [Next]_vars
  PROVE  ResourcesMatchNetworks'
<1> SUFFICES ASSUME NEW p \in PodName, Exists(p)', pods'[p].networks # NoNetworks
             PROVE  LET pod == pods'[p] IN
                      /\ pod.limits[Main] = 1
                      /\ pod.limits[Overlay] =
                           IF OnPhysnet(pod.networks, NoPhysnet) # {} THEN 1 ELSE 0
                      /\ \A r \in Physnet \ {NoPhysnet} :
                           pod.limits[r] = Cardinality(OnPhysnet(pod.networks, r))
  BY DEF ResourcesMatchNetworks, OnPhysnet
<1> USE DEF Counting
<1>1. CASE /\ pods'[p].uid = pods[p].uid /\ pods'[p].networks = pods[p].networks
           /\ pods'[p].limits = pods[p].limits
  BY <1>1 DEF ResourcesMatchNetworks, Exists
<1>2. ASSUME NEW h \in Handler, StorePod(h), req[h].pod = p
      PROVE  LET pod == pods'[p] IN
               /\ pod.limits[Main] = 1
               /\ pod.limits[Overlay] =
                    IF OnPhysnet(pod.networks, NoPhysnet) # {} THEN 1 ELSE 0
               /\ \A r \in Physnet \ {NoPhysnet} :
                    pod.limits[r] = Cardinality(OnPhysnet(pod.networks, r))
  <2> DEFINE networks == req[h].networks
             requested == local[h].requested
  <2>1. Creating(h)
    BY <1>2 DEF StorePod, Waiting, Creating
  <2>2. /\ networks \in Seq(NetworkName) /\ local[h].todo = <<>>
        /\ Counts(requested, networks, <<>>)
    BY <1>2, <2>1, NetworkAssumption DEF StorePod, Waiting, CreatesInOrder, CreatesCount
  <2>3. pods'[p].networks = networks /\ pods'[p].limits = Limits(requested)
    BY <1>2 DEF StorePod, Typed, TypeOK
  <2>4. \A r : ServedOn(networks, <<>>, r) = OnPhysnet(networks, r)
    BY <2>2, NoneOrAllServed DEF ServedOn, OnPhysnet
  <2>5. /\ Main # Overlay /\ Main \notin Physnet
        /\ Main \in ResourceName /\ Overlay \in ResourceName /\ Physnet \subseteq ResourceName
    BY ResourceAssumption DEF ResourceName
  <2> QED
    BY <2>2, <2>3, <2>4, <2>5 DEF Counts, Limits
<1> QED
  BY <1>1, <1>2, PodSteps

\* The side-container of a stored pod asks for one main device in all, one of a
\* physnet for each place in the annotation with a network on it, and for one
\* overlay attachment if any place has an overlay: repeated networks included,
\* and whatever happens to the pod.
THEOREM LimitsMatch == Spec => []ResourcesMatchNetworks
<1>1. Init => Counting
  BY TypedInit
     DEF Init, Counting, CreatesInOrder, CreatesCount, Creating, ResourcesMatchNetworks,
         Exists, NoPod, NoRequest
<1>2. Counting /\ [Next]_vars => Counting'
  BY TypedNext, InOrderNext, CountNext, ResourcesNext DEF Counting
<1>3. Counting => ResourcesMatchNetworks
  BY DEF Counting
<1> QED
  BY <1>1, <1>2, <1>3, PTL DEF Spec

-----------------------------------------------------------------------------
(* The attachments *)

\* The entry e describes the port q, made for the pod with this UID.
Attaches(e, q, uid) ==
  /\ q.id = e.portID /\ q.pod = uid
  /\ q.network = NetworkByName(e.network).id
  /\ q.name = e.portName /\ q.mac = e.macAddress

\* A CREATE has made one port for each network it has served.
CreatesAttach ==
  \A h \in Handler : Creating(h) =>
    LET spec == local[h].networksSpec
        networks == req[h].networks
    IN
      /\ {e.network : e \in spec} = {networks[i] : i \in Served(networks, local[h].todo)}
      /\ \A e \in spec : \E q \in ports : Attaches(e, q, req[h].uid)

\* If there is a port with the ID that e names, it is one of these pods'.
Names(e, qs, uids) == \A q \in qs : q.id = e.portID => q.pod \in uids

\* The ports that the entries of a pod or of a CREATE name are that pod's own.
OwnPorts ==
  /\ \A p \in PodName : Exists(p) =>
       \A e \in pods[p].networksSpec : Names(e, ports, {pods[p].uid})
  /\ \A h \in Handler : Creating(h) =>
       \A e \in local[h].networksSpec : Names(e, ports, {req[h].uid})

\* What a DELETE has still to delete are ports of pods that have been examined.
DeletesExamined ==
  /\ examined \subseteq AdmittedUIDs
  /\ \A h \in Handler : pc[h] \in {"unport", "update"} =>
       /\ local[h].uid \in examined
       /\ \A e \in local[h].networksSpec : Names(e, ports, examined)

Attaching ==
  /\ Deleting
  /\ CreatesInOrder
  /\ CreatesAttach
  /\ OwnPorts
  /\ DeletesExamined
  /\ FreshPodFullyWired

\* An entry goes on naming ports of the same pods.
LEMMA NamesKept ==
  ASSUME Attaching, [Next]_vars,
         NEW e, e.portID < nextPort, e.portID \in Nat, NEW uids, Names(e, ports, uids)
  PROVE  Names(e, ports', uids)
<1>1. \A q \in ports' : q \in ports \/ q.id = nextPort
  BY PortSteps DEF Attaching, Deleting
<1>2. nextPort \in Nat
  BY IDTypes DEF Attaching, Deleting, Typed
<1> QED
  BY <1>1, <1>2 DEF Names

\* No handler deletes a port of a pod that has not been examined.
LEMMA FreshPortsKept ==
  ASSUME Attaching, [Next]_vars, NEW q \in ports, q.pod \notin examined
  PROVE  q \in ports'
<1>1. \A h \in Handler : pc[h] = "unport" =>
        \A e \in local[h].networksSpec : q.id # e.portID
  BY DEF Attaching, DeletesExamined, Names
<1> QED
  BY <1>1, PortSteps DEF Attaching, Deleting

LEMMA CreatesAttachNext ==
  ASSUME Attaching, "copiedSpec" \notin Env, [Next]_vars
  PROVE  CreatesAttach'
<1> SUFFICES ASSUME NEW h \in Handler, Creating(h)'
             PROVE  LET spec == local'[h].networksSpec
                        networks == req'[h].networks
                    IN
                      /\ {e.network : e \in spec} =
                           {networks[i] : i \in Served(networks, local'[h].todo)}
                      /\ \A e \in spec : \E q \in ports' : Attaches(e, q, req'[h].uid)
  BY DEF CreatesAttach, Served, Attaches
<1> USE DEF Attaching, Deleting
<1>1. Creating(h) => \A e \in local[h].networksSpec :
                       \E q \in ports' : Attaches(e, q, req[h].uid)
  <2> SUFFICES ASSUME Creating(h), NEW e \in local[h].networksSpec
               PROVE  \E q \in ports' : Attaches(e, q, req[h].uid)
    OBVIOUS
  <2>1. PICK q \in ports : Attaches(e, q, req[h].uid)
    BY DEF CreatesAttach
  <2>2. q.pod \notin examined
    BY <2>1 DEF Attaches, DeletesExamined, UIDsConsistent, Creating
  <2> QED
    BY <2>1, <2>2, FreshPortsKept
<1>2. CASE pc'[h] = pc[h] /\ req'[h] = req[h] /\ local'[h] = local[h]
  <2>1. Creating(h)
    BY <1>2 DEF Creating
  <2>2. {e.network : e \in local'[h].networksSpec} =
          {req'[h].networks[i] : i \in Served(req'[h].networks, local'[h].todo)}
    <3> DEFINE NetworksOf(spec) == {e.network : e \in spec}
               ServedOf(r, l) == {r.networks[i] : i \in Served(r.networks, l.todo)}
    <3>1. NetworksOf(local[h].networksSpec) = ServedOf(req[h], local[h])
      BY <2>1 DEF CreatesAttach
    <3> HIDE DEF NetworksOf, ServedOf
    <3>2. NetworksOf(local'[h].networksSpec) = ServedOf(req'[h], local'[h])
      BY <1>2, <3>1
    <3> QED
      BY <3>2 DEF NetworksOf, ServedOf
  <2>3. \A e \in local'[h].networksSpec : \E q \in ports' : Attaches(e, q, req'[h].uid)
    BY <1>1, <1>2, <2>1
  <2> QED
    BY <2>2, <2>3
<1>3. ASSUME NEW p \in PodName, ReceiveCreate(h, p, NoNetworks)
      PROVE  /\ local'[h].networksSpec = {}
             /\ Served(req'[h].networks, local'[h].todo) = {}
  BY <1>3, ReceivedDone DEF Carried, Served
<1>4. CASE StartsCreating(h)
  <2>1. local[h] = NoLocal /\ req[h].networks \in Seq(NetworkName)
    BY <1>4, NetworkAssumption DEF StartsCreating, Typed, HandlersWellFormed
  <2>2. /\ local'[h].todo = req[h].networks /\ req'[h].networks = req[h].networks
        /\ local'[h].networksSpec = {}
    BY <1>4, <2>1 DEF StartsCreating, Typed, TypeOK, NoLocal
  <2> QED
    BY <2>1, <2>2, NoneOrAllServed
<1>5. CASE CreatePort(h)
  <2> DEFINE networks == req[h].networks
             todo == local[h].todo
             n == Head(todo)
             i == Len(networks) - Len(todo) + 1
  <2>1. Creating(h) /\ req' = req /\ local'[h].todo = Tail(todo)
    BY <1>5, Round DEF Creating
  <2>2. networks \in Seq(NetworkName) /\ InOrder(networks, todo)
    BY <2>1, NetworkAssumption DEF CreatesInOrder
  <2>3. /\ networks[i] = n
        /\ Served(networks, Tail(todo)) = Served(networks, todo) \cup {i}
    BY <1>5, <2>2, Round, NextServed
  <2>4. PICK name, mac :
          /\ ports' = ports \cup {[id |-> nextPort, network |-> NetworkByName(n).id,
                                   name |-> name, mac |-> mac, pod |-> req[h].uid]}
          /\ local'[h].networksSpec =
               Put(local[h].networksSpec, [network |-> n, portName |-> name,
                                           portID |-> nextPort, macAddress |-> mac])
    BY <1>5, Round
  <2> DEFINE e == [network |-> n, portName |-> name, portID |-> nextPort,
                   macAddress |-> mac]
             q == [id |-> nextPort, network |-> NetworkByName(n).id,
                   name |-> name, mac |-> mac, pod |-> req[h].uid]
  <2>5. Attaches(e, q, req[h].uid) /\ q \in ports' /\ e.network = n
    BY <2>4 DEF Attaches
  <2>6. local'[h].networksSpec = Put(local[h].networksSpec, e)
    BY <2>4
  <2> HIDE DEF e, q, i
  <2>7. {f.network : f \in Put(local[h].networksSpec, e)} =
          {f.network : f \in local[h].networksSpec} \cup {n}
    BY <2>5 DEF Put
  <2>8. {f.network : f \in local[h].networksSpec} = {networks[j] : j \in Served(networks, todo)}
    BY <2>1 DEF CreatesAttach
  <2>9. {networks[j] : j \in Served(networks, Tail(todo))} =
          {networks[j] : j \in Served(networks, todo)} \cup {n}
    BY <2>3
  <2>10. \A f \in Put(local[h].networksSpec, e) : f \in local[h].networksSpec \/ f = e
    BY DEF Put
  <2>11. {f.network : f \in local'[h].networksSpec} =
           {req'[h].networks[j] : j \in Served(req'[h].networks, local'[h].todo)}
    <3> HIDE DEF n
    <3> QED
      BY <2>1, <2>6, <2>7, <2>8, <2>9
  <2>12. \A f \in local'[h].networksSpec : \E r \in ports' : Attaches(f, r, req'[h].uid)
    BY <1>1, <2>1, <2>5, <2>6, <2>10
  <2> QED
    BY <2>11, <2>12
<1> QED
  BY <1>2, <1>3, <1>4, <1>5, CreateSteps

LEMMA OwnPortsNext ==
  ASSUME Attaching, "copiedSpec" \notin Env, [Next]_vars
  PROVE  OwnPorts'
<1> USE DEF Attaching, Deleting
<1>1. ASSUME NEW h \in Handler, Creating(h)
      PROVE  \A e \in local[h].networksSpec : Names(e, ports', {req[h].uid})
  BY <1>1, NamesKept, IDTypes DEF OwnPorts, IDsHandedOut, Typed
<1>2. ASSUME NEW h \in Handler, Creating(h)'
      PROVE  \A e \in local'[h].networksSpec : Names(e, ports', {req'[h].uid})
  <2>1. CASE pc'[h] = pc[h] /\ req'[h] = req[h] /\ local'[h] = local[h]
    BY <1>1, <1>2, <2>1 DEF Creating
  <2>2. ASSUME NEW p \in PodName, ReceiveCreate(h, p, NoNetworks)
        PROVE  local'[h].networksSpec = {}
    BY <2>2, ReceivedDone DEF Carried
  <2>3. CASE StartsCreating(h)
    <3>1. local[h] = NoLocal
      BY <2>3 DEF StartsCreating, Typed, HandlersWellFormed
    <3>2. local'[h].networksSpec = {}
      BY <2>3, <3>1 DEF StartsCreating, Typed, TypeOK, NoLocal
    <3> QED
      BY <3>2
  <2>4. CASE CreatePort(h)
    <3> DEFINE n == Head(local[h].todo)
    <3>1. Creating(h) /\ req' = req
      BY <2>4, Round DEF Creating
    <3>2. PICK name, mac :
            /\ ports' = ports \cup {[id |-> nextPort, network |-> NetworkByName(n).id,
                                     name |-> name, mac |-> mac, pod |-> req[h].uid]}
            /\ local'[h].networksSpec =
                 Put(local[h].networksSpec, [network |-> n, portName |-> name,
                                             portID |-> nextPort, macAddress |-> mac])
      BY <2>4, Round
    <3>3. ASSUME NEW e \in local'[h].networksSpec, e \notin local[h].networksSpec
          PROVE  Names(e, ports', {req[h].uid})
      <4>1. e.portID = nextPort
        BY <3>2, <3>3 DEF Put
      <4>2. \A q \in ports' : q \in ports \/ q.pod = req[h].uid
        BY <3>2
      <4> QED
        BY <4>1, <4>2, IDTypes DEF Names, IDsHandedOut, Typed
    <3> QED
      BY <1>1, <3>1, <3>3
  <2> QED
    BY <1>2, <2>1, <2>2, <2>3, <2>4, CreateSteps
<1>3. ASSUME NEW p \in PodName, Exists(p)'
      PROVE  \A e \in pods'[p].networksSpec : Names(e, ports', {pods'[p].uid})
  <2>1. ASSUME NEW h \in Handler, StorePod(h), req[h].pod = p
        PROVE  \A e \in pods'[p].networksSpec : Names(e, ports', {pods'[p].uid})
    <3>1. Creating(h)
      BY <2>1 DEF StorePod, Waiting, Creating
    <3>2. pods'[p].uid = req[h].uid /\ pods'[p].networksSpec = local[h].networksSpec
      BY <2>1 DEF StorePod, Typed, TypeOK
    <3> QED
      BY <1>1, <3>1, <3>2
  <2>2. CASE pods'[p].uid = pods[p].uid /\ pods'[p].networksSpec = pods[p].networksSpec
    <3>1. Exists(p)
      BY <1>3, <2>2 DEF Exists
    <3>2. \A e \in pods[p].networksSpec : Names(e, ports', {pods[p].uid})
      BY <3>1, NamesKept, IDTypes DEF OwnPorts, IDsHandedOut, Typed
    <3> QED
      BY <2>2, <3>2
  <2>3. ASSUME NEW h \in Handler, Empties(h, p)
        PROVE  pods'[p].networksSpec = {}
    BY <2>3 DEF Empties
  <2> QED
    BY <1>3, <2>1, <2>2, <2>3, PodSteps
<1> QED
  BY <1>2, <1>3 DEF OwnPorts, Names

LEMMA DeletesExaminedNext ==
  ASSUME Attaching, [Next]_vars
  PROVE  DeletesExamined'
<1> USE DEF Attaching, Deleting
<1>1. /\ admitted \subseteq admitted' /\ examined \subseteq examined'
      /\ \A u \in examined' :
           u \in examined \/ \E p \in PodName : Exists(p) /\ u = pods[p].uid
  BY HistorySteps
<1>2. examined' \subseteq AdmittedUIDs'
  <2>1. AdmittedUIDs \subseteq AdmittedUIDs'
    BY <1>1 DEF AdmittedUIDs
  <2>2. ASSUME NEW p \in PodName, Exists(p) PROVE pods[p].uid \in AdmittedUIDs
    <3>1. [uid |-> pods[p].uid, pod |-> p] \in admitted
      BY <2>2 DEF UIDsConsistent
    <3>2. [uid |-> pods[p].uid, pod |-> p].uid = pods[p].uid
      OBVIOUS
    <3> QED
      BY <3>1, <3>2 DEF AdmittedUIDs
  <2> QED
    BY <1>1, <2>1, <2>2 DEF DeletesExamined
<1>3. ASSUME NEW h \in Handler, pc'[h] \in {"unport", "update"}
      PROVE  /\ local'[h].uid \in examined'
             /\ \A e \in local'[h].networksSpec : Names(e, ports', examined')
  <2>1. CASE /\ pc[h] \in {"unport", "update"} /\ local'[h].uid = local[h].uid
             /\ local'[h].networksSpec \subseteq local[h].networksSpec
    <3>1. local[h].uid \in examined
      BY <2>1 DEF DeletesExamined
    <3>2. \A e \in local[h].networksSpec : Names(e, ports', examined)
      BY <2>1, NamesKept, IDTypes DEF DeletesExamined, IDsHandedOut, Typed
    <3> QED
      BY <1>1, <2>1, <3>1, <3>2 DEF Names
  <2>2. ASSUME NEW p \in PodName, Exists(p), local'[h].uid = pods[p].uid,
               local'[h].networksSpec = pods[p].networksSpec, local'[h].uid \in examined'
        PROVE  \A e \in local'[h].networksSpec : Names(e, ports', examined')
    <3>1. \A e \in pods[p].networksSpec : Names(e, ports', {pods[p].uid})
      BY <2>2, NamesKept, IDTypes DEF OwnPorts, IDsHandedOut, Typed
    <3> QED
      BY <2>2, <3>1 DEF Names
  <2> QED
    BY <1>3, <2>1, <2>2, DeleteSteps DEF DeleteStep
<1> QED
  BY <1>2, <1>3 DEF DeletesExamined, Names

LEMMA FreshNext ==
  ASSUME Attaching, [Next]_vars
  PROVE  FreshPodFullyWired'
<1> USE DEF Attaching, Deleting
<1> DEFINE Wires(pod, qs) ==
             /\ {e.network : e \in pod.networksSpec} = Elements(pod.networks)
             /\ \A e \in pod.networksSpec : \E q \in qs : Attaches(e, q, pod.uid)
<1> SUFFICES ASSUME NEW p \in PodName, Exists(p)', pods'[p].uid \notin examined'
             PROVE  Wires(pods'[p], ports')
  BY DEF FreshPodFullyWired, Attaches, Elements
<1>1. pods'[p].uid \notin examined
  BY HistorySteps
<1>2. ASSUME NEW h \in Handler, StorePod(h), req[h].pod = p
      PROVE  Wires(pods'[p], ports')
  <2>1. Creating(h) /\ ports' = ports
    BY <1>2 DEF StorePod, Waiting, Creating, providerVars
  <2>2. /\ pods'[p].uid = req[h].uid /\ pods'[p].networks = req[h].networks
        /\ pods'[p].networksSpec = local[h].networksSpec
    BY <1>2 DEF StorePod, Typed, TypeOK
  <2>3. req[h].networks \in Seq(NetworkName) /\ local[h].todo = <<>>
    BY <1>2, <2>1, NetworkAssumption DEF StorePod, Waiting, CreatesInOrder
  <2>4. Elements(req[h].networks) =
          {req[h].networks[i] : i \in Served(req[h].networks, <<>>)}
    BY <2>3, NoneOrAllServed DEF Elements
  <2> QED
    BY <2>1, <2>2, <2>3, <2>4 DEF CreatesAttach
<1>3. CASE /\ pods'[p].uid = pods[p].uid /\ pods'[p].networks = pods[p].networks
           /\ pods'[p].networksSpec = pods[p].networksSpec
  <2>1. Exists(p) /\ pods[p].uid \notin examined
    BY <1>1, <1>3 DEF Exists
  <2>2. Wires(pods[p], ports)
    BY <2>1 DEF FreshPodFullyWired, Attaches
  <2>3. ASSUME NEW e \in pods[p].networksSpec
        PROVE  \E q \in ports' : Attaches(e, q, pods[p].uid)
    <3>1. PICK q \in ports : Attaches(e, q, pods[p].uid)
      BY <2>2
    <3> QED
      BY <2>1, <3>1, FreshPortsKept DEF Attaches
  <2> QED
    BY <1>3, <2>2, <2>3
<1>4. ASSUME NEW h \in Handler, Empties(h, p)
      PROVE  pods[p].uid \in examined
  BY <1>4 DEF Empties, DeletesExamined
<1> QED
  BY <1>1, <1>2, <1>3, <1>4, PodSteps

LEMMA AttachingInit == Init => Attaching
<1> SUFFICES ASSUME Init PROVE Attaching
  OBVIOUS
<1>1. Deleting
  BY DeletingInit
<1>2. /\ \A h \in Handler : ~Creating(h) /\ pc[h] = "idle"
      /\ \A p \in PodName : ~Exists(p)
      /\ examined = {}
  BY DEF Init, Creating, NoRequest, Exists, NoPod
<1> QED
  BY <1>1, <1>2
     DEF Attaching, CreatesInOrder, CreatesAttach, OwnPorts, DeletesExamined,
         FreshPodFullyWired

LEMMA AttachingNext ==
  ASSUME "copiedSpec" \notin Env
  PROVE  Attaching /\ [Next]_vars => Attaching'
BY DeletingNext, InOrderNext, CreatesAttachNext, OwnPortsNext, DeletesExaminedNext, FreshNext
   DEF Attaching, Deleting

\* If no manifest comes with another pod's networksSpec, a pod that no DELETE
\* has read is wired as its annotation asks, whatever goes on around it: other
\* CREATEs, DELETEs of earlier pods of its name, responses nobody waits for.
THEOREM FreshPodsWired ==
  ASSUME "copiedSpec" \notin Env
  PROVE  Spec => []FreshPodFullyWired
<1>1. Init => Attaching
  BY AttachingInit
<1>2. Attaching /\ [Next]_vars => Attaching'
  BY AttachingNext
<1>3. Attaching => FreshPodFullyWired
  BY DEF Attaching
<1> QED
  BY <1>1, <1>2, <1>3, PTL DEF Spec

-----------------------------------------------------------------------------
(* The interfaces the side-container waits for *)

DHCPPorts(spec) == {e.portName : e \in {f \in spec : NeedsDHCP(f.network)}}

\* dhclientInterfaces lists the ports of the entries made so far.
CreatesAskForDHCP ==
  \A h \in Handler : Creating(h) =>
    Elements(local[h].dhclient) = DHCPPorts(local[h].networksSpec)

Asking == Attaching /\ CreatesAskForDHCP /\ SidecarArgsMatchSpec

LEMMA AppendedElements ==
  ASSUME NEW S, NEW s \in Seq(S), NEW x \in S
  PROVE  Elements(Append(s, x)) = Elements(s) \cup {x}
<1>1. /\ DOMAIN s = 1..Len(s) /\ Len(s) \in Nat
      /\ DOMAIN Append(s, x) = 1..(Len(s) + 1)
      /\ Append(s, x)[Len(s) + 1] = x
      /\ \A i \in 1..Len(s) : Append(s, x)[i] = s[i]
  OBVIOUS
<1>2. 1..(Len(s) + 1) = (1..Len(s)) \cup {Len(s) + 1}
  BY <1>1
<1> QED
  BY <1>1, <1>2 DEF Elements

\* The list gets the new port just when the set of entries gets one for it.
LEMMA InterfaceAdded ==
  ASSUME NEW dhclient \in Seq(AnyPortName), NEW spec, NEW e, e.portName \in AnyPortName,
         \A f \in spec : f.network # e.network,
         Elements(dhclient) = DHCPPorts(spec)
  PROVE  Elements(AddInterface(dhclient, NetworkByName(e.network), e.portName)) =
           DHCPPorts(Put(spec, e))
<1>1. Put(spec, e) = spec \cup {e}
  BY PutNew
<1>2. CASE NeedsDHCP(e.network)
  <2>1. DHCPPorts(spec \cup {e}) = DHCPPorts(spec) \cup {e.portName}
    BY <1>2 DEF DHCPPorts
  <2>2. AddInterface(dhclient, NetworkByName(e.network), e.portName) =
          Append(dhclient, e.portName)
    BY <1>2 DEF AddInterface, NeedsDHCP
  <2>3. Elements(Append(dhclient, e.portName)) = Elements(dhclient) \cup {e.portName}
    BY AppendedElements
  <2> QED
    BY <1>1, <2>1, <2>2, <2>3
<1>3. CASE ~NeedsDHCP(e.network)
  <2>1. DHCPPorts(spec \cup {e}) = DHCPPorts(spec)
    BY <1>3 DEF DHCPPorts
  <2>2. AddInterface(dhclient, NetworkByName(e.network), e.portName) = dhclient
    BY <1>3 DEF AddInterface, NeedsDHCP
  <2> QED
    BY <1>1, <2>1, <2>2
<1> QED
  BY <1>2, <1>3

LEMMA AskNext ==
  ASSUME Asking, DistinctNetworks, "copiedSpec" \notin Env, [Next]_vars
  PROVE  CreatesAskForDHCP'
<1> SUFFICES ASSUME NEW h \in Handler, Creating(h)'
             PROVE  Elements(local'[h].dhclient) = DHCPPorts(local'[h].networksSpec)
  BY DEF CreatesAskForDHCP, Elements, DHCPPorts
<1> USE DEF Asking, Attaching, Deleting
<1>1. CASE pc'[h] = pc[h] /\ req'[h] = req[h] /\ local'[h] = local[h]
  BY <1>1 DEF CreatesAskForDHCP, Creating
<1>2. Elements(<<>>) = {} /\ DHCPPorts({}) = {}
  BY DEF Elements, DHCPPorts
<1>3. ASSUME NEW p \in PodName, ReceiveCreate(h, p, NoNetworks)
      PROVE  local'[h].dhclient = <<>> /\ local'[h].networksSpec = {}
  BY <1>3, ReceivedDone DEF Carried
<1>4. CASE StartsCreating(h)
  <2>1. local[h] = NoLocal
    BY <1>4 DEF StartsCreating, Typed, HandlersWellFormed
  <2>2. local'[h].dhclient = <<>> /\ local'[h].networksSpec = {}
    BY <1>4, <2>1 DEF StartsCreating, Typed, TypeOK, NoLocal
  <2> QED
    BY <1>2, <2>2
<1>5. CASE CreatePort(h)
  <2> DEFINE networks == req[h].networks
             todo == local[h].todo
             spec == local[h].networksSpec
             n == Head(todo)
             i == Len(networks) - Len(todo) + 1
  <2>1. Creating(h)
    BY <1>5, Round DEF Creating
  <2>2. networks \in Seq(NetworkName) /\ InOrder(networks, todo)
    BY <2>1, NetworkAssumption DEF CreatesInOrder
  <2>3. /\ i \in DOMAIN networks /\ networks[i] = n /\ i \notin Served(networks, todo)
    BY <1>5, <2>2, Round, NextServed
  <2>4. \A f \in spec : f.network # n
    <3> SUFFICES ASSUME NEW f \in spec, f.network = n PROVE FALSE
      OBVIOUS
    <3>1. f.network \in {networks[j] : j \in Served(networks, todo)}
      BY <2>1 DEF CreatesAttach
    <3>2. PICK j \in Served(networks, todo) : networks[j] = n
      BY <3>1
    <3>3. j = i
      BY <2>1, <2>3, <3>2 DEF Served, CreatesInOrder, DistinctNetworks
    <3> QED
      BY <2>3, <3>2, <3>3
  <2>5. PICK name, mac :
          /\ local'[h].networksSpec =
               Put(spec, [network |-> n, portName |-> name,
                          portID |-> nextPort, macAddress |-> mac])
          /\ local'[h].dhclient = AddInterface(local[h].dhclient, NetworkByName(n), name)
    BY <1>5, Round
  <2> DEFINE e == [network |-> n, portName |-> name, portID |-> nextPort,
                   macAddress |-> mac]
  <2>6. e.network = n /\ e.portName = name
    OBVIOUS
  <2>7. e \in local'[h].networksSpec /\ local'[h].networksSpec \subseteq Entry
    BY <2>5, TypedNext DEF Put, Typed, TypeOK, Local
  <2>8. e.portName \in AnyPortName /\ local[h].dhclient \in Seq(AnyPortName)
    BY <2>7 DEF Entry, Typed, TypeOK, Local
  <2>9. local'[h].networksSpec = Put(spec, e)
    BY <2>5
  <2>10. Elements(local[h].dhclient) = DHCPPorts(spec)
    BY <2>1 DEF CreatesAskForDHCP
  <2> HIDE DEF e, n, spec
  <2> QED
    BY <2>4, <2>5, <2>6, <2>8, <2>9, <2>10, InterfaceAdded
<1> QED
  BY <1>1, <1>2, <1>3, <1>4, <1>5, CreateSteps

LEMMA ArgsNext ==
  ASSUME Asking, [Next]_vars
  PROVE  SidecarArgsMatchSpec'
<1> SUFFICES ASSUME NEW p \in PodName, Exists(p)', pods'[p].uid \notin examined'
             PROVE  Elements(pods'[p].args) = DHCPPorts(pods'[p].networksSpec)
  BY DEF SidecarArgsMatchSpec, DHCPPorts, Elements
<1> USE DEF Asking, Attaching, Deleting
<1>1. pods'[p].uid \notin examined
  BY HistorySteps
<1>2. ASSUME NEW h \in Handler, StorePod(h), req[h].pod = p
      PROVE  Elements(pods'[p].args) = DHCPPorts(pods'[p].networksSpec)
  <2>1. Creating(h)
    BY <1>2 DEF StorePod, Waiting, Creating
  <2>2. /\ pods'[p].args = local[h].dhclient
        /\ pods'[p].networksSpec = local[h].networksSpec
    BY <1>2 DEF StorePod, Typed, TypeOK
  <2> QED
    BY <2>1, <2>2 DEF CreatesAskForDHCP
<1>3. CASE /\ pods'[p].uid = pods[p].uid /\ pods'[p].args = pods[p].args
           /\ pods'[p].networksSpec = pods[p].networksSpec
  <2>1. Exists(p) /\ pods[p].uid \notin examined
    BY <1>1, <1>3 DEF Exists
  <2>2. Elements(pods[p].args) = DHCPPorts(pods[p].networksSpec)
    BY <2>1 DEF SidecarArgsMatchSpec, DHCPPorts
  <2> QED
    BY <1>3, <2>2
<1>4. ASSUME NEW h \in Handler, Empties(h, p)
      PROVE  pods[p].uid \in examined
  BY <1>4 DEF Empties, DeletesExamined
<1> QED
  BY <1>1, <1>2, <1>3, <1>4, PodSteps

\* If moreover no annotation names a network twice, the side-container waits
\* for exactly the interfaces that will get an address.  A second port of a
\* network would replace the first one's entry, not its argument.
THEOREM ArgsMatch ==
  ASSUME DistinctNetworks, "copiedSpec" \notin Env
  PROVE  Spec => []SidecarArgsMatchSpec
<1>1. Init => Asking
  BY AttachingInit
     DEF Init, Asking, CreatesAskForDHCP, Creating, NoRequest, SidecarArgsMatchSpec,
         Exists, NoPod
<1>2. Asking /\ [Next]_vars => Asking'
  BY AttachingNext, AskNext, ArgsNext DEF Asking
<1>3. Asking => SidecarArgsMatchSpec
  BY DEF Asking
<1> QED
  BY <1>1, <1>2, <1>3, PTL DEF Spec

=============================================================================
