------------------------------ MODULE PortLease ------------------------------
(***************************************************************************)
(* What the admission webhook promises about the ports it creates, without *)
(* its handlers, their calls and their failures: a pod's ports are         *)
(* reserved before it exists, released while it exists, and none is left   *)
(* when it goes.  A pod that is never admitted may leave ports behind.     *)
(* Admission implements this (Lease there).                                *)
(***************************************************************************)
VARIABLES
  ports,  \* [id, pod]: the ports there are and the pod each was made for
  live,   \* the pods (UIDs) that are stored
  gone    \* the pods that were stored and are no more

vars == <<ports, live, gone>>

Init ==
  /\ ports = {}
  /\ live = {}
  /\ gone = {}

\* A port is made for a pod that is not admitted yet.  Its ID is new.
Reserve(q) ==
  /\ q.pod \notin live \cup gone
  /\ \A r \in ports : r.id # q.id
  /\ ports' = ports \cup {q}
  /\ UNCHANGED <<live, gone>>

Admit(u) ==
  /\ u \notin live \cup gone
  /\ live' = live \cup {u}
  /\ UNCHANGED <<ports, gone>>

\* Only the port of a pod that is there is deleted.
Release(q) ==
  /\ q.pod \in live
  /\ ports' = ports \ {q}
  /\ UNCHANGED <<live, gone>>

\* A pod goes when it holds no port.
Remove(u) ==
  /\ u \in live
  /\ \A q \in ports : q.pod # u
  /\ live' = live \ {u}
  /\ gone' = gone \cup {u}
  /\ UNCHANGED ports

Next ==
  \/ \E q \in ports' : Reserve(q)
  \/ \E u \in live' : Admit(u)
  \/ \E q \in ports : Release(q)
  \/ \E u \in live : Remove(u)

Spec == Init /\ [][Next]_vars

\* No port outlives its pod.
NoOrphan == \A q \in ports : q.pod \notin gone

=============================================================================
