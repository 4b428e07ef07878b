------------------------------ MODULE Inventory ------------------------------
(***************************************************************************)
(* The inventory builder of the development cluster (kubespray's           *)
(* contrib/inventory_builder/inventory.py).  Each call reads the inventory *)
(* file, applies its arguments and writes the file: one action per call.   *)
(***************************************************************************)
EXTENDS Naturals, SequencesExt

CONSTANTS
  IP,              \* addresses of hosts
  Arguments,       \* the argument lists the tool is called with
  Files,           \* the files it is told to load
  Prefix,          \* HOST_PREFIX
  ScaleThreshold,
  MassiveScaleThreshold,
  MaxHostID        \* bound: ids of hosts

Role == {"kube-master", "kube-node", "etcd", "calico-rr", "vault"}
Group == Role \cup {f.group : f \in Files}
Name == [prefix : {Prefix} \cup {f.name.prefix : f \in Files}, id : Nat]
Host == [name : Name, ip : IP]
Argument == [op : {"ip", "-ip"}, ip : IP] \cup [op : {"-name"}, name : Name]

ASSUME InventoryAssumption ==
  /\ Arguments \subseteq Seq(Argument)
  /\ \A f \in Files : /\ f.group # "all" /\ f.ip \in IP
                      /\ f.name \in Name /\ f.name.id <= MaxHostID
  /\ ScaleThreshold \in Nat /\ ScaleThreshold > 3  \* hosts[3:5] is not empty
  /\ MassiveScaleThreshold \in Nat /\ MaxHostID \in Nat

VARIABLES
  all,    \* the section all, in its order
  member  \* the names in each of the other sections

vars == <<all, member>>

Names(hosts) == {h.name : h \in ToSet(hosts)}
ExistsIP(hosts, ip) == \E h \in ToSet(hosts) : h.ip = ip

\* An assignment to an option of a section: a new name comes last.
Put(hosts, host) ==
  IF host.name \in Names(hosts)
  THEN [i \in DOMAIN hosts |-> IF hosts[i].name = host.name THEN host ELSE hosts[i]]
  ELSE Append(hosts, host)

Init == all = <<>> /\ member = [g \in Group |-> {}]

-----------------------------------------------------------------------------
(* build_hostnames: the hosts after the arguments, one after the other *)

\* Mutant: ids are counted, not compared.
NextHostIDByCount == Len(all) + 1

NextHostID == Max({h.name.id : h \in ToSet(all)} \cup {0}) + 1

PlaceOfName(hosts, name) == CHOOSE i \in DOMAIN hosts : hosts[i].name = name

DeleteByName(built, name) ==
  IF name \in Names(built.hosts)
  THEN [built EXCEPT !.hosts = RemoveAt(@, PlaceOfName(@, name))]
  ELSE built

\* The first host that has the address.
FirstPlaceOfIP(hosts, ip) ==
  CHOOSE i \in DOMAIN hosts : hosts[i].ip = ip /\ \A j \in 1..(i - 1) : hosts[j].ip # ip

DeleteByIP(built, ip) ==
  IF ExistsIP(built.hosts, ip)
  THEN [built EXCEPT !.hosts = RemoveAt(@, FirstPlaceOfIP(@, ip))]
  ELSE built

NextHost(built, ip) ==
  [hosts |-> Put(built.hosts, [name |-> [prefix |-> Prefix, id |-> built.next], ip |-> ip]),
   next  |-> built.next + 1]

\* Mutant: an address is looked up among the hosts of the file only.
AddUnlessInFile(built, ip) == IF ExistsIP(all, ip) THEN built ELSE NextHost(built, ip)

Add(built, ip) == IF ExistsIP(built.hosts, ip) THEN built ELSE NextHost(built, ip)

Apply(built, arg) ==
  CASE arg.op = "-name" -> DeleteByName(built, arg.name)
    [] arg.op = "-ip"   -> DeleteByIP(built, arg.ip)
    [] arg.op = "ip"    -> Add(built, arg.ip)

\* Built(args)[i] is what the first i arguments make of the hosts.
Built(args) ==
  LET built[i \in 0..Len(args)] ==
        IF i = 0 THEN [hosts |-> all, next |-> NextHostID]
        ELSE Apply(built[i - 1], args[i])
  IN built

BuildHostnames(args) == Built(args)[Len(args)].hosts

-----------------------------------------------------------------------------
(* The roles *)

\* Mutant: the end of a slice belongs to it.
SliceInclusive(hosts, from, to) ==
  {hosts[i].name : i \in {j \in DOMAIN hosts : from < j /\ j <= to + 1}}

\* Mutant: a slice is taken of the hosts with their options.
SliceItems(hosts, from, to) ==
  {hosts[i] : i \in {j \in DOMAIN hosts : from < j /\ j <= to}}

\* hosts[from:to] of Python.
Slice(hosts, from, to) ==
  {hosts[i].name : i \in {j \in DOMAIN hosts : from < j /\ j <= to}}

\* Mutant: the roles of deleted hosts stay.
PurgeNothing(hosts) == member

PurgeInvalidHosts(hosts) == [g \in Group |-> member[g] \cap Names(hosts)]

Masters(hosts) ==
  IF Len(hosts) >= ScaleThreshold THEN Slice(hosts, 3, 5) ELSE Slice(hosts, 0, 2)

KubeNodes(hosts, etcd, masters) ==
  {n \in Names(hosts) :
     /\ Len(hosts) >= ScaleThreshold => n \notin etcd
     /\ Len(hosts) >= MassiveScaleThreshold => n \notin masters}

\* set_calico_rr looks for conflicts with the other roles, but compares names
\* with pairs of a name and its options and so finds none.
RouteReflectors(hosts) ==
  IF Len(hosts) >= ScaleThreshold THEN Slice(hosts, 0, 3) ELSE {}

\* Hosts are added to their roles and never taken out of the others.
SetRoles(hosts, kept) ==
  LET etcd == kept["etcd"] \cup Slice(hosts, 0, 3)
      masters == kept["kube-master"] \cup Masters(hosts)
  IN [kept EXCEPT !["etcd"] = etcd,
                  !["vault"] = @ \cup Slice(hosts, 0, 3),
                  !["kube-master"] = masters,
                  !["kube-node"] = @ \cup KubeNodes(hosts, etcd, masters),
                  !["calico-rr"] = @ \cup RouteReflectors(hosts)]

-----------------------------------------------------------------------------
(* The calls *)

Build(args) ==
  LET hosts == BuildHostnames(args)
  IN /\ \A n \in Names(hosts) : n.id <= MaxHostID
     /\ all' = hosts
     /\ member' = SetRoles(hosts, PurgeInvalidHosts(hosts))

Load(file) ==
  /\ all' = Put(all, [name |-> file.name, ip |-> file.ip])
  /\ member' = [member EXCEPT ![file.group] = @ \cup {file.name}]

Next ==
  \/ \E args \in Arguments : Build(args)
  \/ \E file \in Files : Load(file)

Spec == Init /\ [][Next]_vars

-----------------------------------------------------------------------------
(* Properties *)

InventoryTypeOK == all \in Seq(Host) /\ member \in [Group -> SUBSET Name]

\* Every name in a role is that of a host: a playbook that takes a role's
\* hosts finds the address of each, also of a name given anew.
MembersAreHosts == \A g \in Group : member[g] \subseteq Names(all)

Deleted(args, h) ==
  \E i \in DOMAIN args : \/ args[i].op = "-name" /\ args[i].name = h.name
                         \/ args[i].op = "-ip" /\ args[i].ip = h.ip

Loaded == \E f \in Files : Load(f)

\* A call leaves alone the hosts it was not told to delete: no new host takes
\* the name, and with it the place and the roles, of one that is there.
OthersKept ==
  [][ LET lost == ToSet(all) \ ToSet(all')
      IN \/ lost = {} \/ Loaded
         \/ \E args \in Arguments : (\A h \in lost : Deleted(args, h)) /\ Build(args) ]_vars

\* The tool gives no address a second name, though it may be named twice in a
\* call and be deleted in between.
OneNamePerAddress ==
  [][ \/ Loaded
      \/ \A h \in ToSet(all') \ ToSet(all) : \A k \in ToSet(all') : k.ip = h.ip => k = h ]_vars

\* What a call leaves can be deployed, however the cluster came to it, above
\* and below the thresholds: etcd runs on the first three hosts and on no
\* other, there is a master, and each host outside etcd is a master or a node.
Deployable ==
  [][ \/ Loaded \/ all' = <<>>
      \/ /\ member'["etcd"] = {all'[i].name : i \in DOMAIN all' \cap 1..3}
         /\ member'["kube-master"] # {}
         /\ Names(all') \subseteq member'["etcd"] \cup member'["kube-master"] \cup member'["kube-node"] ]_vars

=============================================================================
