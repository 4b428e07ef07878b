---------------------------- MODULE InventoryProofs ----------------------------
(***************************************************************************)
(* What a call of the inventory builder leaves, for any number of hosts,   *)
(* arguments and files and any thresholds.                                 *)
(***************************************************************************)
EXTENDS Inventory, SequenceTheorems, WellFoundedInduction, TLAPS

(* Numbers and lists *)

LEMMA LeastNumber ==
  ASSUME NEW S \in SUBSET Nat, S # {}
  PROVE  \E n \in S : \A m \in S : n <= m
<1>1. \E n \in S : \A m \in S : ~(<<m, n>> \in OpToRel(<, Nat))
  BY NatLessThanWellFounded, WFMin
<1>2. PICK n \in S : \A m \in S : ~(<<m, n>> \in OpToRel(<, Nat))
  BY <1>1
<1>3. \A m \in S : ~(m < n)
  BY <1>2 DEF OpToRel
<1> QED
  BY <1>3

LEMMA GreatestNumber ==
  ASSUME NEW b \in Nat, NEW S \in SUBSET (0..b), S # {}
  PROVE  Max(S) \in S /\ \A m \in S : m <= Max(S)
<1> DEFINE T == {b - n : n \in S}
<1>1. T \in SUBSET Nat /\ T # {}
  <2>1. \A n \in S : b - n \in Nat
    OBVIOUS
  <2> QED
    BY <2>1
<1>2. PICK k \in T : \A m \in T : k <= m
  BY <1>1, LeastNumber
<1>3. PICK n \in S : k = b - n
  BY <1>2
<1>4. \A m \in S : m <= n
  <2> TAKE m \in S
  <2>1. b - n <= b - m
    BY <1>2, <1>3
  <2> QED
    BY <2>1
<1>5. \E x \in S : \A y \in S : x >= y
  BY <1>4
<1> QED
  BY <1>5 DEF Max

LEMMA Removed ==
  ASSUME NEW S, NEW s \in Seq(S), NEW i \in DOMAIN s
  PROVE  /\ RemoveAt(s, i) \in Seq(S) /\ DOMAIN RemoveAt(s, i) = 1..(Len(s) - 1)
         /\ \A j \in 1..(Len(s) - 1) :
              RemoveAt(s, i)[j] = IF j < i THEN s[j] ELSE s[j + 1]
<1> DEFINE front == SubSeq(s, 1, i - 1)
           back == SubSeq(s, i + 1, Len(s))
<1>1. i \in 1..Len(s) /\ Len(s) \in Nat
  OBVIOUS
<1>2. /\ front \in Seq(S) /\ Len(front) = i - 1
      /\ \A j \in 1..(i - 1) : front[j] = s[j]
  BY <1>1
<1>3. /\ back \in Seq(S) /\ Len(back) = Len(s) - i
      /\ \A j \in 1..(Len(s) - i) : back[j] = s[i + j]
  BY <1>1
<1>4. RemoveAt(s, i) = front \o back
  BY DEF RemoveAt
<1> HIDE DEF front, back
<1>5. /\ front \o back \in Seq(S) /\ Len(front \o back) = Len(s) - 1
      /\ \A j \in 1..(Len(s) - 1) :
           (front \o back)[j] = IF j <= i - 1 THEN front[j] ELSE back[j - (i - 1)]
  <2>1. front \o back \in Seq(S)
    BY <1>2, <1>3
  <2>2. Len(front) + Len(back) = Len(s) - 1
    BY <1>1, <1>2, <1>3
  <2>3. Len(front \o back) = Len(front) + Len(back)
    BY <1>2, <1>3, ConcatProperties
  <2>4. \A j \in 1..(Len(front) + Len(back)) :
          (front \o back)[j] = IF j <= Len(front) THEN front[j] ELSE back[j - Len(front)]
    BY <1>2, <1>3, ConcatProperties
  <2> QED
    BY <1>2, <2>1, <2>2, <2>3, <2>4
<1>6. ASSUME NEW j \in 1..(Len(s) - 1)
      PROVE  (front \o back)[j] = IF j < i THEN s[j] ELSE s[j + 1]
  <2>1. CASE j < i
    BY <1>1, <1>2, <1>5, <2>1
  <2>2. CASE ~(j < i)
    <3>1. j - (i - 1) \in 1..(Len(s) - i) /\ i + (j - (i - 1)) = j + 1
      BY <1>1, <2>2
    <3>2. back[j - (i - 1)] = s[j + 1]
      BY <1>3, <3>1
    <3>3. (front \o back)[j] = back[j - (i - 1)]
      <4>1. ~(j <= i - 1)
        BY <1>1, <2>2
      <4> QED
        BY <1>5, <4>1
    <3> QED
      BY <2>2, <3>2, <3>3
  <2> QED
    BY <2>1, <2>2
<1> QED
  BY <1>4, <1>5, <1>6

LEMMA RemovedElements ==
  ASSUME NEW S, NEW s \in Seq(S), NEW i \in DOMAIN s
  PROVE  /\ ToSet(RemoveAt(s, i)) \subseteq ToSet(s)
         /\ \A x \in ToSet(s) \ ToSet(RemoveAt(s, i)) : x = s[i]
<1> DEFINE r == RemoveAt(s, i)
<1>1. /\ i \in 1..Len(s) /\ Len(s) \in Nat /\ DOMAIN s = 1..Len(s)
      /\ DOMAIN r = 1..(Len(s) - 1)
      /\ \A j \in 1..(Len(s) - 1) : r[j] = IF j < i THEN s[j] ELSE s[j + 1]
  BY Removed
<1> HIDE DEF r
<1>2. \A j \in DOMAIN r : \E k \in DOMAIN s : r[j] = s[k]
  <2> TAKE j \in DOMAIN r
  <2>1. j \in DOMAIN s /\ j + 1 \in DOMAIN s
    BY <1>1
  <2> QED
    BY <1>1, <2>1
<1>3. \A k \in DOMAIN s \ {i} : \E j \in DOMAIN r : r[j] = s[k]
  <2> TAKE k \in DOMAIN s \ {i}
  <2>1. CASE k < i
    <3>1. k \in DOMAIN r /\ r[k] = s[k]
      BY <1>1, <2>1
    <3> QED
      BY <3>1
  <2>2. CASE ~(k < i)
    <3>1. k - 1 \in DOMAIN r /\ ~(k - 1 < i) /\ (k - 1) + 1 = k
      BY <1>1, <2>2
    <3>2. r[k - 1] = s[k]
      BY <1>1, <3>1
    <3> QED
      BY <3>1, <3>2
  <2> QED
    BY <2>1, <2>2
<1> QED
  BY <1>2, <1>3 DEF ToSet, r

LEMMA Appended ==
  ASSUME NEW S, NEW s \in Seq(S), NEW x \in S
  PROVE  /\ Append(s, x) \in Seq(S) /\ DOMAIN Append(s, x) = 1..(Len(s) + 1)
         /\ \A j \in 1..Len(s) : Append(s, x)[j] = s[j]
         /\ Append(s, x)[Len(s) + 1] = x
         /\ ToSet(Append(s, x)) = ToSet(s) \cup {x}
<1>1. /\ Append(s, x) \in Seq(S) /\ DOMAIN Append(s, x) = 1..(Len(s) + 1)
      /\ \A j \in 1..Len(s) : Append(s, x)[j] = s[j]
      /\ Append(s, x)[Len(s) + 1] = x
      /\ DOMAIN s = 1..Len(s) /\ Len(s) \in Nat
  OBVIOUS
<1>2. 1..(Len(s) + 1) = (1..Len(s)) \cup {Len(s) + 1}
  BY <1>1
<1> QED
  BY <1>1, <1>2 DEF ToSet

-----------------------------------------------------------------------------
(* The arguments, one after the other *)

Start == [hosts |-> all, next |-> NextHostID]

\* What the first i arguments make of the hosts is defined for every i: the
\* least i for which it were not could be reached from the one before.
LEMMA BuiltStepwise ==
  ASSUME NEW args, Len(args) \in Nat
  PROVE  /\ Built(args)[0] = Start
         /\ \A i \in 1..Len(args) : Built(args)[i] = Apply(Built(args)[i - 1], args[i])
<1> DEFINE Is(f, n) == f = [i \in 0..n |-> IF i = 0 THEN Start ELSE Apply(f[i - 1], args[i])]
           None == {n \in Nat : ~ \E f : Is(f, n)}
<1>1. 0 \notin None
  <2> DEFINE f == [i \in 0..0 |-> Start]
  <2>1. \A i \in 0..0 : i = 0
    OBVIOUS
  <2>2. f = [i \in 0..0 |-> IF i = 0 THEN Start ELSE Apply(f[i - 1], args[i])]
    BY <2>1
  <2> QED
    BY <2>2
<1>2. ASSUME NEW n \in Nat, n \notin None PROVE n + 1 \notin None
  <2>1. PICK f : Is(f, n)
    BY <1>2
  <2> DEFINE g == [i \in 0..(n + 1) |-> IF i = 0 THEN Start ELSE Apply(f[i - 1], args[i])]
  <2>2. \A i \in 0..n : g[i] = f[i]
    BY <2>1
  <2>3. \A i \in 0..(n + 1) : i # 0 => i - 1 \in 0..n
    OBVIOUS
  <2>4. g = [i \in 0..(n + 1) |-> IF i = 0 THEN Start ELSE Apply(g[i - 1], args[i])]
    BY <2>2, <2>3
  <2> QED
    BY <2>4
<1>3. None = {}
  <2> SUFFICES ASSUME None # {} PROVE FALSE
    OBVIOUS
  <2>1. PICK n \in None : \A m \in None : n <= m
    BY LeastNumber
  <2>2. n # 0 /\ n - 1 \in Nat /\ n = (n - 1) + 1
    <3>1. n \in Nat /\ n # 0
      BY <1>1
    <3> QED
      BY <3>1
  <2>3. n - 1 \notin None
    BY <2>1, <2>2
  <2> QED
    BY <1>2, <2>1, <2>2, <2>3
<1>4. \E f : Is(f, Len(args))
  BY <1>3
<1>5. Built(args) = CHOOSE f : Is(f, Len(args))
  BY DEF Built, Start
<1>6. Is(Built(args), Len(args))
  BY <1>4, <1>5
<1> QED
  BY <1>6

-----------------------------------------------------------------------------
(* What the arguments make of the hosts *)

\* The bound of the model, which gives the hosts a highest id.
IDsBounded == \A h \in ToSet(all) : h.name.id <= MaxHostID

NamesDiffer(hosts) ==
  \A i, j \in DOMAIN hosts : hosts[i].name = hosts[j].name => i = j

Consistent ==
  InventoryTypeOK /\ MembersAreHosts /\ IDsBounded /\ NamesDiffer(all)

\* The hosts that run etcd are the first ones.
EtcdFirst(hosts, etcd) == \A i \in DOMAIN hosts : hosts[i].name \in etcd => i <= 3

\* After any of its arguments, a call has dropped only hosts that it is told to
\* delete, given new hosts new names and addresses nobody else has, and kept
\* the order of the hosts.
Sane(args, built) ==
  /\ built \in [hosts : Seq(Host), next : Nat]
  /\ built.next >= NextHostID
  /\ \A h \in ToSet(built.hosts) : h.name.id < built.next
  /\ \A h \in ToSet(all) \ ToSet(built.hosts) : Deleted(args, h)
  /\ \A h \in ToSet(built.hosts) \ ToSet(all) :
       \A k \in ToSet(built.hosts) : k.ip = h.ip => k = h
  /\ NamesDiffer(built.hosts)
  /\ EtcdFirst(all, member["etcd"]) => EtcdFirst(built.hosts, member["etcd"])

LEMMA InSequence ==
  ASSUME NEW S, NEW s \in Seq(S)
  PROVE  /\ \A x \in ToSet(s) : x \in S
         /\ \A i \in DOMAIN s : s[i] \in ToSet(s)
         /\ DOMAIN s = 1..Len(s) /\ Len(s) \in Nat
BY DEF ToSet

LEMMA InHosts ==
  ASSUME NEW hosts \in Seq(Host)
  PROVE  \A h \in ToSet(hosts) :
           h \in Host /\ h.name \in Name /\ h.name.id \in Nat /\ h.ip \in IP
<1> TAKE h \in ToSet(hosts)
<1>1. h \in Host
  BY InSequence
<1>2. h.name \in Name /\ h.ip \in IP
  BY <1>1 DEF Host
<1>3. h.name.id \in Nat
  BY <1>2 DEF Name
<1> QED
  BY <1>1, <1>2, <1>3

\* The id of a new host is higher than any there is.
LEMMA NextIsNew ==
  ASSUME Consistent
  PROVE  /\ NextHostID \in Nat
         /\ \A h \in ToSet(all) : h.name.id < NextHostID
<1> DEFINE S == {h.name.id : h \in ToSet(all)} \cup {0}
<1>1. \A h \in ToSet(all) : h.name.id \in 0..MaxHostID
  <2>1. \A h \in ToSet(all) : h.name.id \in Nat /\ h.name.id <= MaxHostID
    BY InHosts DEF Consistent, InventoryTypeOK, IDsBounded
  <2> QED
    BY <2>1, InventoryAssumption
<1>2. S \in SUBSET (0..MaxHostID) /\ S # {} /\ MaxHostID \in Nat
  BY <1>1, InventoryAssumption
<1>3. Max(S) \in S /\ \A m \in S : m <= Max(S)
  BY <1>2, GreatestNumber
<1>4. Max(S) \in Nat
  BY <1>2, <1>3
<1>5. \A h \in ToSet(all) : h.name.id \in S
  OBVIOUS
<1>6. NextHostID = Max(S) + 1
  BY DEF NextHostID
<1> HIDE DEF S
<1>7. \A h \in ToSet(all) : h.name.id <= Max(S) /\ h.name.id \in Nat
  BY <1>1, <1>3, <1>5
<1> QED
  BY <1>4, <1>6, <1>7

LEMMA StartSane ==
  ASSUME Consistent, NEW args
  PROVE  Sane(args, Start)
BY NextIsNew DEF Sane, Start, Consistent, InventoryTypeOK

\* A host that is deleted leaves the others in their order.
LEMMA RemovalSane ==
  ASSUME NEW args, NEW built, Sane(args, built), NEW k \in DOMAIN built.hosts,
         Deleted(args, built.hosts[k])
  PROVE  Sane(args, [built EXCEPT !.hosts = RemoveAt(@, k)])
<1> DEFINE hosts == built.hosts
           kept == RemoveAt(hosts, k)
           new == [built EXCEPT !.hosts = kept]
<1>1. hosts \in Seq(Host) /\ built.next \in Nat
  BY DEF Sane
<1>2. /\ kept \in Seq(Host)
      /\ ToSet(kept) \subseteq ToSet(hosts)
      /\ \A h \in ToSet(hosts) \ ToSet(kept) : h = hosts[k]
  BY <1>1, Removed, RemovedElements
<1>3. new \in [hosts : Seq(Host), next : Nat] /\ new.hosts = kept /\ new.next = built.next
  BY <1>2 DEF Sane
<1>4. EtcdFirst(hosts, member["etcd"]) => EtcdFirst(kept, member["etcd"])
  <2> SUFFICES ASSUME EtcdFirst(hosts, member["etcd"]), NEW i \in DOMAIN kept,
                      kept[i].name \in member["etcd"]
               PROVE  i <= 3
    BY DEF EtcdFirst
  <2>1. /\ k \in 1..Len(hosts) /\ Len(hosts) \in Nat /\ DOMAIN hosts = 1..Len(hosts)
        /\ i \in 1..(Len(hosts) - 1)
        /\ kept[i] = IF i < k THEN hosts[i] ELSE hosts[i + 1]
    <3>1. /\ DOMAIN kept = 1..(Len(hosts) - 1)
          /\ \A j \in 1..(Len(hosts) - 1) :
               kept[j] = IF j < k THEN hosts[j] ELSE hosts[j + 1]
      BY <1>1, Removed
    <3>2. k \in 1..Len(hosts) /\ Len(hosts) \in Nat /\ DOMAIN hosts = 1..Len(hosts)
      BY <1>1, InSequence
    <3> HIDE DEF kept
    <3> QED
      BY <3>1, <3>2
  <2>2. CASE i < k
    BY <2>1, <2>2 DEF EtcdFirst
  <2>3. CASE ~(i < k)
    <3>1. i + 1 \in DOMAIN hosts /\ kept[i] = hosts[i + 1]
      BY <2>1, <2>3
    <3>2. i + 1 <= 3
      BY <3>1 DEF EtcdFirst
    <3> QED
      BY <2>1, <3>2
  <2> QED
    BY <2>2, <2>3
<1> HIDE DEF hosts, kept, new
<1>5. \A h \in ToSet(all) \ ToSet(kept) : Deleted(args, h)
  BY <1>2 DEF Sane, hosts
<1>6. \A h \in ToSet(kept) \ ToSet(all) : \A g \in ToSet(kept) : g.ip = h.ip => g = h
  BY <1>2 DEF Sane, hosts
<1>7. \A h \in ToSet(kept) : h.name.id < built.next
  BY <1>2 DEF Sane, hosts
<1>8. NamesDiffer(kept)
  <2>1. /\ DOMAIN kept = 1..(Len(hosts) - 1)
        /\ \A j \in 1..(Len(hosts) - 1) :
             kept[j] = IF j < k THEN hosts[j] ELSE hosts[j + 1]
    BY <1>1, Removed DEF kept, hosts
  <2>2. k \in 1..Len(hosts) /\ Len(hosts) \in Nat /\ DOMAIN hosts = 1..Len(hosts)
    BY <1>1, InSequence DEF hosts
  <2>3. \A i, j \in DOMAIN hosts : hosts[i].name = hosts[j].name => i = j
    BY DEF Sane, NamesDiffer, hosts
  <2> SUFFICES ASSUME NEW i \in DOMAIN kept, NEW j \in DOMAIN kept, kept[i].name = kept[j].name
               PROVE  i = j
    BY DEF NamesDiffer
  <2> DEFINE Old(n) == IF n < k THEN n ELSE n + 1
  <2>4. \A n \in DOMAIN kept : Old(n) \in DOMAIN hosts /\ kept[n] = hosts[Old(n)]
    BY <2>1, <2>2
  <2>5. Old(i) = Old(j)
    <3> HIDE DEF Old
    <3> QED
      BY <2>3, <2>4
  <2> QED
    BY <2>1, <2>2, <2>5
<1>9. Sane(args, new)
  BY <1>3, <1>4, <1>5, <1>6, <1>7, <1>8 DEF Sane, hosts
<1> QED
  BY <1>9 DEF new, kept, hosts

LEMMA NextHostSane ==
  ASSUME Consistent, NEW args, NEW built, Sane(args, built), NEW ip \in IP,
         ~ExistsIP(built.hosts, ip)
  PROVE  Sane(args, NextHost(built, ip))
<1> DEFINE hosts == built.hosts
           name == [prefix |-> Prefix, id |-> built.next]
           host == [name |-> name, ip |-> ip]
           new == [hosts |-> Append(hosts, host), next |-> built.next + 1]
<1>1. hosts \in Seq(Host) /\ built.next \in Nat /\ host \in Host
  BY DEF Sane, Host, Name
<1>2. host.name = name /\ name.id = built.next /\ host.ip = ip
  OBVIOUS
<1>3. \A h \in ToSet(hosts) : h.name.id < built.next /\ h.name.id \in Nat
  BY <1>1, InHosts DEF Sane
<1>4. name \notin Names(hosts)
  BY <1>1, <1>2, <1>3 DEF Names
<1>5. NextHost(built, ip) = new
  BY <1>2, <1>4 DEF NextHost, Put
<1>6. /\ Append(hosts, host) \in Seq(Host)
      /\ ToSet(Append(hosts, host)) = ToSet(hosts) \cup {host}
      /\ DOMAIN Append(hosts, host) = 1..(Len(hosts) + 1)
      /\ \A j \in 1..Len(hosts) : Append(hosts, host)[j] = hosts[j]
      /\ Append(hosts, host)[Len(hosts) + 1] = host
  BY <1>1, Appended
<1> HIDE DEF host
<1>7. new \in [hosts : Seq(Host), next : Nat] /\ new.hosts = Append(hosts, host)
      /\ new.next = built.next + 1
  BY <1>1, <1>6
<1>8. name \notin member["etcd"]
  <2>1. \A n \in member["etcd"] : \E h \in ToSet(all) : n = h.name
    BY DEF Consistent, MembersAreHosts, Names, Group, Role
  <2>2. \A h \in ToSet(all) : h.name.id < built.next /\ h.name.id \in Nat
    <3>1. \A h \in ToSet(all) : h.name.id \in Nat /\ h.name.id < NextHostID
      BY NextIsNew, InHosts DEF Consistent, InventoryTypeOK
    <3>2. NextHostID \in Nat /\ built.next >= NextHostID
      BY NextIsNew DEF Sane
    <3> QED
      BY <1>1, <3>1, <3>2
  <2> QED
    BY <1>1, <1>2, <2>1, <2>2
<1>9. EtcdFirst(hosts, member["etcd"]) => EtcdFirst(Append(hosts, host), member["etcd"])
  <2>1. \A j \in 1..(Len(hosts) + 1) : j \in 1..Len(hosts) \/ j = Len(hosts) + 1
    BY <1>1
  <2>2. DOMAIN hosts = 1..Len(hosts)
    BY <1>1
  <2> QED
    BY <1>2, <1>6, <1>8, <2>1, <2>2 DEF EtcdFirst
<1>10. \A h \in ToSet(hosts) : h.ip # ip
  BY DEF ExistsIP
<1> HIDE DEF new, name, hosts
<1>11. \A h \in ToSet(hosts) \cup {host} : h.name.id < built.next + 1
  BY <1>1, <1>2, <1>3
<1>12. \A h \in (ToSet(hosts) \cup {host}) \ ToSet(all) :
         \A k \in ToSet(hosts) \cup {host} : k.ip = h.ip => k = h
  BY <1>2, <1>10 DEF Sane, hosts
<1>13. built.next + 1 >= NextHostID
  BY <1>1, NextIsNew DEF Sane
<1>14. NamesDiffer(Append(hosts, host))
  <2>1. DOMAIN hosts = 1..Len(hosts) /\ Len(hosts) \in Nat
    BY <1>1
  <2>2. \A j \in 1..Len(hosts) : hosts[j].name # name
    BY <1>4, <2>1 DEF Names, ToSet
  <2>3. \A i, j \in 1..Len(hosts) : hosts[i].name = hosts[j].name => i = j
    BY <2>1 DEF Sane, NamesDiffer, hosts
  <2>4. \A j \in 1..(Len(hosts) + 1) : j \in 1..Len(hosts) \/ j = Len(hosts) + 1
    BY <2>1
  <2> QED
    BY <1>2, <1>6, <2>2, <2>3, <2>4 DEF NamesDiffer
<1>15. Sane(args, new)
  BY <1>6, <1>7, <1>9, <1>11, <1>12, <1>13, <1>14 DEF Sane, hosts
<1> QED
  BY <1>5, <1>15

LEMMA ApplySane ==
  ASSUME Consistent, NEW args \in Arguments, NEW i \in DOMAIN args,
         NEW built, Sane(args, built)
  PROVE  Sane(args, Apply(built, args[i]))
<1> DEFINE hosts == built.hosts
           arg == args[i]
<1>1. arg \in Argument
  BY InventoryAssumption
<1>2. hosts \in Seq(Host) /\ built \in [hosts : Seq(Host), next : Nat]
  BY DEF Sane
<1>3. CASE arg.op = "-name"
  <2>1. Apply(built, arg) = DeleteByName(built, arg.name)
    BY <1>3 DEF Apply
  <2>2. CASE arg.name \in Names(hosts)
    <3> DEFINE k == PlaceOfName(hosts, arg.name)
    <3>1. \E j \in DOMAIN hosts : hosts[j].name = arg.name
      BY <2>2 DEF Names, ToSet
    <3>2. k \in DOMAIN hosts /\ hosts[k].name = arg.name
      BY <3>1 DEF PlaceOfName
    <3>3. Deleted(args, hosts[k])
      BY <1>3, <3>2 DEF Deleted
    <3>4. DeleteByName(built, arg.name) = [built EXCEPT !.hosts = RemoveAt(@, k)]
      BY <2>2 DEF DeleteByName
    <3> HIDE DEF k
    <3> QED
      BY <2>1, <3>2, <3>3, <3>4, RemovalSane
  <2>3. CASE arg.name \notin Names(hosts)
    BY <2>1, <2>3 DEF DeleteByName
  <2> QED
    BY <2>2, <2>3
<1>4. CASE arg.op = "-ip"
  <2>1. Apply(built, arg) = DeleteByIP(built, arg.ip)
    BY <1>4 DEF Apply
  <2>2. CASE ExistsIP(hosts, arg.ip)
    <3> DEFINE k == FirstPlaceOfIP(hosts, arg.ip)
               S == {j \in DOMAIN hosts : hosts[j].ip = arg.ip}
    <3>1. S \in SUBSET Nat /\ S # {} /\ DOMAIN hosts = 1..Len(hosts) /\ Len(hosts) \in Nat
      BY <1>2, <2>2 DEF ExistsIP, ToSet
    <3>2. PICK n \in S : \A m \in S : n <= m
      BY <3>1, LeastNumber
    <3>3. \A j \in 1..(n - 1) : j \in DOMAIN hosts /\ ~(n <= j)
      BY <3>1
    <3>4. \A j \in 1..(n - 1) : hosts[j].ip # arg.ip
      BY <3>2, <3>3
    <3>5. k \in DOMAIN hosts /\ hosts[k].ip = arg.ip
      BY <3>4 DEF FirstPlaceOfIP
    <3>6. Deleted(args, hosts[k])
      BY <1>4, <3>5 DEF Deleted
    <3>7. DeleteByIP(built, arg.ip) = [built EXCEPT !.hosts = RemoveAt(@, k)]
      BY <2>2 DEF DeleteByIP
    <3> HIDE DEF k
    <3> QED
      BY <2>1, <3>5, <3>6, <3>7, RemovalSane
  <2>3. CASE ~ExistsIP(hosts, arg.ip)
    BY <2>1, <2>3 DEF DeleteByIP
  <2> QED
    BY <2>2, <2>3
<1>5. CASE arg.op = "ip"
  <2>1. Apply(built, arg) = Add(built, arg.ip) /\ arg.ip \in IP
    BY <1>1, <1>5 DEF Apply, Argument
  <2> QED
    BY <2>1, NextHostSane DEF Add
<1> QED
  BY <1>1, <1>3, <1>4, <1>5 DEF Argument

\* Every call ends with such hosts.
LEMMA BuildSane ==
  ASSUME Consistent, NEW args \in Arguments
  PROVE  /\ Len(args) \in Nat
         /\ Sane(args, Built(args)[Len(args)])
<1> DEFINE Bad == {i \in 0..Len(args) : ~Sane(args, Built(args)[i])}
<1>1. Len(args) \in Nat /\ DOMAIN args = 1..Len(args)
  BY InventoryAssumption
<1>2. Bad = {}
  <2> SUFFICES ASSUME Bad # {} PROVE FALSE
    OBVIOUS
  <2>1. Bad \in SUBSET Nat
    BY <1>1
  <2>2. PICK i \in Bad : \A j \in Bad : i <= j
    BY <2>1, LeastNumber
  <2>3. i # 0
    BY <1>1, <2>2, BuiltStepwise, StartSane
  <2>4. i \in DOMAIN args /\ i - 1 \in 0..Len(args) /\ ~(i <= i - 1)
    BY <1>1, <2>1, <2>3
  <2>5. Sane(args, Built(args)[i - 1])
    BY <2>2, <2>4
  <2>6. Built(args)[i] = Apply(Built(args)[i - 1], args[i])
    BY <1>1, <2>4, BuiltStepwise
  <2>7. Sane(args, Built(args)[i])
    BY <2>4, <2>5, <2>6, ApplySane
  <2> QED
    BY <2>2, <2>7
<1>3. Len(args) \in 0..Len(args)
  BY <1>1
<1> QED
  BY <1>1, <1>2, <1>3
LEMMA HostsBuilt ==
  ASSUME Consistent, NEW args \in Arguments
  PROVE  /\ BuildHostnames(args) \in Seq(Host)
         /\ \A h \in ToSet(all) \ ToSet(BuildHostnames(args)) : Deleted(args, h)
         /\ \A h \in ToSet(BuildHostnames(args)) \ ToSet(all) :
              \A k \in ToSet(BuildHostnames(args)) : k.ip = h.ip => k = h
         /\ NamesDiffer(BuildHostnames(args))
         /\ EtcdFirst(all, member["etcd"]) => EtcdFirst(BuildHostnames(args), member["etcd"])
<1>1. Sane(args, Built(args)[Len(args)])
  BY BuildSane
<1> QED
  BY <1>1 DEF Sane, BuildHostnames

-----------------------------------------------------------------------------
(* The roles *)

LEMMA SliceNames ==
  ASSUME NEW hosts \in Seq(Host), NEW from, NEW to
  PROVE  Slice(hosts, from, to) \subseteq Names(hosts)
BY DEF Slice, Names, ToSet

\* A call leaves the hosts that are there in the roles they have, takes those
\* that are gone out of them, and adds each role's own.
LEMMA RolesSet ==
  ASSUME Consistent, NEW hosts \in Seq(Host),
         NEW roles, roles = SetRoles(hosts, PurgeInvalidHosts(hosts))
  PROVE  /\ roles \in [Group -> SUBSET Names(hosts)]
         /\ roles["etcd"] = (member["etcd"] \cap Names(hosts)) \cup Slice(hosts, 0, 3)
         /\ Masters(hosts) \subseteq roles["kube-master"]
         /\ KubeNodes(hosts, roles["etcd"], roles["kube-master"]) \subseteq roles["kube-node"]
<1> DEFINE kept == PurgeInvalidHosts(hosts)
           etcd == kept["etcd"] \cup Slice(hosts, 0, 3)
           masters == kept["kube-master"] \cup Masters(hosts)
           nodes == kept["kube-node"] \cup KubeNodes(hosts, etcd, masters)
           vaults == kept["vault"] \cup Slice(hosts, 0, 3)
           reflectors == kept["calico-rr"] \cup RouteReflectors(hosts)
<1>1. {"kube-master", "kube-node", "etcd", "calico-rr", "vault"} \subseteq Group
  BY DEF Group, Role
<1>2. kept \in [Group -> SUBSET Names(hosts)] /\ kept["etcd"] = member["etcd"] \cap Names(hosts)
  BY <1>1 DEF PurgeInvalidHosts
<1>3. roles = [kept EXCEPT !["etcd"] = etcd, !["vault"] = vaults,
                           !["kube-master"] = masters, !["kube-node"] = nodes,
                           !["calico-rr"] = reflectors]
  <2>1. SetRoles(hosts, kept)
          = [kept EXCEPT !["etcd"] = etcd, !["vault"] = @ \cup Slice(hosts, 0, 3),
                         !["kube-master"] = masters,
                         !["kube-node"] = @ \cup KubeNodes(hosts, etcd, masters),
                         !["calico-rr"] = @ \cup RouteReflectors(hosts)]
    BY DEF SetRoles
  <2> HIDE DEF kept, etcd, masters
  <2> QED
    BY <1>1, <1>2, <2>1 DEF kept
<1>4. /\ Slice(hosts, 0, 3) \subseteq Names(hosts)
      /\ Masters(hosts) \subseteq Names(hosts)
      /\ KubeNodes(hosts, etcd, masters) \subseteq Names(hosts)
      /\ RouteReflectors(hosts) \subseteq Names(hosts)
  BY SliceNames DEF Masters, KubeNodes, RouteReflectors
<1> HIDE DEF kept
<1>5. /\ etcd \in SUBSET Names(hosts) /\ vaults \in SUBSET Names(hosts)
      /\ masters \in SUBSET Names(hosts) /\ nodes \in SUBSET Names(hosts)
      /\ reflectors \in SUBSET Names(hosts)
  BY <1>1, <1>2, <1>4
<1>6. etcd = (member["etcd"] \cap Names(hosts)) \cup Slice(hosts, 0, 3)
      /\ Masters(hosts) \subseteq masters /\ KubeNodes(hosts, etcd, masters) \subseteq nodes
  BY <1>2
<1> HIDE DEF etcd, vaults, masters, nodes, reflectors
<1>7. roles \in [Group -> SUBSET Names(hosts)]
  BY <1>1, <1>2, <1>3, <1>5
<1>8. roles["etcd"] = etcd /\ roles["kube-master"] = masters /\ roles["kube-node"] = nodes
  BY <1>1, <1>2, <1>3
<1> QED
  BY <1>6, <1>7, <1>8

-----------------------------------------------------------------------------
(* A file that is loaded *)

LEMMA HostPut ==
  ASSUME NEW hosts \in Seq(Host), NEW host \in Host, NamesDiffer(hosts)
  PROVE  /\ Put(hosts, host) \in Seq(Host)
         /\ Names(Put(hosts, host)) = Names(hosts) \cup {host.name}
         /\ NamesDiffer(Put(hosts, host))
         /\ \A h \in ToSet(Put(hosts, host)) : h = host \/ h \in ToSet(hosts)
         /\ \A i \in DOMAIN Put(hosts, host) :
              \/ i \in DOMAIN hosts /\ Put(hosts, host)[i].name = hosts[i].name
              \/ Put(hosts, host)[i].name = host.name /\ host.name \notin Names(hosts)
<1>1. DOMAIN hosts = 1..Len(hosts) /\ Len(hosts) \in Nat
  BY InSequence
<1>2. CASE host.name \in Names(hosts)
  <2> DEFINE new == [i \in DOMAIN hosts |-> IF hosts[i].name = host.name THEN host ELSE hosts[i]]
  <2>1. Put(hosts, host) = new
    BY <1>2 DEF Put
  <2>2. \A i \in DOMAIN hosts : hosts[i] \in Host
    BY InSequence
  <2>3. new \in [1..Len(hosts) -> Host]
    BY <1>1, <2>2
  <2>4. new \in Seq(Host) /\ DOMAIN new = DOMAIN hosts
    BY <1>1, <2>3
  <2>5. \A i \in DOMAIN hosts :
          /\ new[i].name = hosts[i].name
          /\ new[i] = host \/ new[i] = hosts[i]
    OBVIOUS
  <2> HIDE DEF new
  <2>6. Names(new) = Names(hosts)
    <3>1. \A s : Names(s) = {s[i].name : i \in DOMAIN s}
      BY DEF Names, ToSet
    <3>2. {new[i].name : i \in DOMAIN new} = {hosts[i].name : i \in DOMAIN hosts}
      BY <2>4, <2>5
    <3> QED
      BY <3>1, <3>2
  <2>7. NamesDiffer(new)
    BY <2>4, <2>5 DEF NamesDiffer
  <2>8. \A h \in ToSet(new) : h = host \/ h \in ToSet(hosts)
    BY <2>4, <2>5 DEF ToSet
  <2> QED
    BY <1>2, <2>1, <2>4, <2>5, <2>6, <2>7, <2>8
<1>3. CASE host.name \notin Names(hosts)
  <2> DEFINE new == Append(hosts, host)
  <2>1. Put(hosts, host) = new
    BY <1>3 DEF Put
  <2>2. /\ new \in Seq(Host) /\ DOMAIN new = 1..(Len(hosts) + 1)
        /\ \A j \in 1..Len(hosts) : new[j] = hosts[j]
        /\ new[Len(hosts) + 1] = host
        /\ ToSet(new) = ToSet(hosts) \cup {host}
    BY Appended
  <2> HIDE DEF new
  <2>3. \A j \in DOMAIN new : j \in DOMAIN hosts \/ j = Len(hosts) + 1
    BY <1>1, <2>2
  <2>4. Names(new) = Names(hosts) \cup {host.name}
    BY <2>2 DEF Names
  <2>5. \A j \in DOMAIN hosts : hosts[j].name # host.name
    BY <1>3 DEF Names, ToSet
  <2>6. NamesDiffer(new)
    BY <1>1, <2>2, <2>3, <2>5 DEF NamesDiffer
  <2>7. \A i \in DOMAIN new :
          \/ i \in DOMAIN hosts /\ new[i].name = hosts[i].name
          \/ new[i].name = host.name /\ host.name \notin Names(hosts)
    BY <1>1, <1>3, <2>2, <2>3
  <2> QED
    BY <2>1, <2>2, <2>4, <2>6, <2>7
<1> QED
  BY <1>2, <1>3

-----------------------------------------------------------------------------
(* The invariant *)

\* The hosts that run etcd stay the first ones, so that the next call takes
\* no other.
EtcdStaysFirst ==
  EtcdFirst(all, member["etcd"]) => EtcdFirst(all', member'["etcd"])

LEMMA NamesOfHosts ==
  ASSUME NEW hosts \in Seq(Host)
  PROVE  /\ Names(hosts) \subseteq Name
         /\ \A i \in DOMAIN hosts : hosts[i].name \in Names(hosts)
         /\ \A n \in Names(hosts) : \E i \in DOMAIN hosts : n = hosts[i].name
<1>1. \A h \in ToSet(hosts) : h.name \in Name
  BY InHosts
<1> QED
  BY <1>1 DEF Names, ToSet

LEMMA BuildConsistent ==
  ASSUME Consistent, NEW args \in Arguments, Build(args)
  PROVE  Consistent' /\ EtcdStaysFirst
<1> DEFINE hosts == BuildHostnames(args)
           roles == SetRoles(hosts, PurgeInvalidHosts(hosts))
<1>1. /\ hosts \in Seq(Host) /\ NamesDiffer(hosts)
      /\ EtcdFirst(all, member["etcd"]) => EtcdFirst(hosts, member["etcd"])
  BY HostsBuilt
<1>2. all' = hosts /\ member' = roles /\ \A n \in Names(hosts) : n.id <= MaxHostID
  BY DEF Build
<1> HIDE DEF hosts
<1>3. /\ roles \in [Group -> SUBSET Names(hosts)]
      /\ roles["etcd"] = (member["etcd"] \cap Names(hosts)) \cup Slice(hosts, 0, 3)
  BY <1>1, RolesSet
<1> HIDE DEF roles
<1>4. InventoryTypeOK'
  <2>1. Names(hosts) \subseteq Name
    BY <1>1, NamesOfHosts
  <2>2. roles \in [Group -> SUBSET Name]
    BY <1>3, <2>1
  <2> QED
    BY <1>1, <1>2, <2>2 DEF InventoryTypeOK
<1>5. MembersAreHosts'
  <2>1. \A g \in Group : roles[g] \subseteq Names(hosts)
    BY <1>3
  <2> QED
    BY <1>2, <2>1 DEF MembersAreHosts
<1>6. IDsBounded'
  <2>1. \A h \in ToSet(hosts) : h.name.id <= MaxHostID
    BY <1>2 DEF Names
  <2> QED
    BY <1>2, <2>1 DEF IDsBounded
<1>7. NamesDiffer(all)'
  BY <1>1, <1>2 DEF NamesDiffer
<1>8. EtcdStaysFirst
  <2> SUFFICES ASSUME EtcdFirst(hosts, member["etcd"]) PROVE EtcdFirst(hosts, roles["etcd"])
    BY <1>1, <1>2 DEF EtcdStaysFirst
  <2> SUFFICES ASSUME NEW i \in DOMAIN hosts, hosts[i].name \in roles["etcd"] PROVE i <= 3
    BY DEF EtcdFirst
  <2>1. CASE hosts[i].name \in member["etcd"]
    BY <2>1 DEF EtcdFirst
  <2>2. CASE hosts[i].name \in Slice(hosts, 0, 3)
    <3>1. PICK j \in DOMAIN hosts : j <= 3 /\ hosts[i].name = hosts[j].name
      <4>1. DOMAIN hosts \subseteq Nat
        BY <1>1, InSequence
      <4>2. PICK j \in DOMAIN hosts : j <= 0 + 3 /\ hosts[i].name = hosts[j].name
        BY <2>2, <4>1 DEF Slice
      <4> QED
        BY <4>1, <4>2
    <3> QED
      BY <1>1, <3>1 DEF NamesDiffer
  <2> QED
    BY <1>3, <2>1, <2>2
<1> QED
  BY <1>4, <1>5, <1>6, <1>7, <1>8 DEF Consistent

LEMMA LoadConsistent ==
  ASSUME Consistent, NEW file \in Files, Load(file)
  PROVE  Consistent' /\ (file.group # "etcd" => EtcdStaysFirst)
<1> DEFINE host == [name |-> file.name, ip |-> file.ip]
           hosts == Put(all, host)
           members == member[file.group] \cup {file.name}
<1>1. /\ file.name \in Name /\ file.name.id <= MaxHostID /\ file.ip \in IP
      /\ file.group \in Group /\ "etcd" \in Group
  BY InventoryAssumption DEF Group, Role
<1>2. host \in Host /\ host.name = file.name
  BY <1>1 DEF Host
<1>3. all \in Seq(Host) /\ member \in [Group -> SUBSET Name] /\ NamesDiffer(all)
  BY DEF Consistent, InventoryTypeOK
<1>4. all' = hosts /\ member' = [member EXCEPT ![file.group] = members]
  BY DEF Load
<1> HIDE DEF host, members
<1>5. /\ hosts \in Seq(Host)
      /\ Names(hosts) = Names(all) \cup {host.name}
      /\ NamesDiffer(hosts)
      /\ \A h \in ToSet(hosts) : h = host \/ h \in ToSet(all)
      /\ \A i \in DOMAIN hosts :
           \/ i \in DOMAIN all /\ hosts[i].name = all[i].name
           \/ hosts[i].name = host.name /\ host.name \notin Names(all)
  BY <1>2, <1>3, HostPut
<1> HIDE DEF hosts
<1>6. \A g \in Group : member[g] \subseteq Names(all)
  BY DEF Consistent, MembersAreHosts
<1>7. members \in SUBSET Name /\ members \subseteq Names(hosts)
  BY <1>1, <1>2, <1>3, <1>5, <1>6 DEF members
<1>8. InventoryTypeOK'
  BY <1>3, <1>4, <1>5, <1>7 DEF InventoryTypeOK
<1>9. MembersAreHosts'
  <2>1. \A g \in Group : member'[g] \subseteq Names(hosts)
    BY <1>3, <1>4, <1>5, <1>6, <1>7
  <2> QED
    BY <1>4, <2>1 DEF MembersAreHosts
<1>10. IDsBounded'
  <2>1. \A h \in ToSet(hosts) : h.name.id <= MaxHostID
    BY <1>1, <1>2, <1>5 DEF Consistent, IDsBounded
  <2> QED
    BY <1>4, <2>1 DEF IDsBounded
<1>11. NamesDiffer(all)'
  BY <1>4, <1>5 DEF NamesDiffer
<1>12. ASSUME file.group # "etcd" PROVE EtcdStaysFirst
  <2>1. member'["etcd"] = member["etcd"]
    BY <1>1, <1>3, <1>4, <1>12
  <2> SUFFICES ASSUME EtcdFirst(all, member["etcd"]) PROVE EtcdFirst(hosts, member["etcd"])
    BY <1>4, <2>1 DEF EtcdStaysFirst
  <2>2. member["etcd"] \subseteq Names(all)
    BY <1>1, <1>6
  <2> QED
    BY <1>5, <2>2 DEF EtcdFirst
<1> QED
  BY <1>8, <1>9, <1>10, <1>11, <1>12 DEF Consistent

LEMMA StartConsistent == Init => Consistent /\ EtcdFirst(all, member["etcd"])
<1> SUFFICES ASSUME Init PROVE Consistent /\ EtcdFirst(all, member["etcd"])
  OBVIOUS
<1>1. all = <<>> /\ member = [g \in Group |-> {}] /\ DOMAIN all = {} /\ ToSet(all) = {}
  BY DEF Init, ToSet
<1>2. InventoryTypeOK
  BY <1>1 DEF InventoryTypeOK
<1>3. MembersAreHosts /\ IDsBounded /\ NamesDiffer(all)
  BY <1>1 DEF MembersAreHosts, IDsBounded, NamesDiffer
<1> QED
  BY <1>1, <1>2, <1>3 DEF Consistent, EtcdFirst

LEMMA StaysConsistent == Consistent /\ [Next]_vars => Consistent'
<1> SUFFICES ASSUME Consistent, [Next]_vars PROVE Consistent'
  OBVIOUS
<1>1. CASE UNCHANGED vars
  BY <1>1 DEF vars, Consistent, InventoryTypeOK, MembersAreHosts, IDsBounded, NamesDiffer
<1>2. ASSUME NEW args \in Arguments, Build(args) PROVE Consistent'
  BY <1>2, BuildConsistent
<1>3. ASSUME NEW file \in Files, Load(file) PROVE Consistent'
  BY <1>3, LoadConsistent
<1> HIDE DEF Consistent
<1> QED
  BY <1>1, <1>2, <1>3 DEF Next

LEMMA AlwaysConsistent == Spec => []Consistent
BY StartConsistent, StaysConsistent, PTL DEF Spec

-----------------------------------------------------------------------------
(* The theorems *)

\* The section all is a list of hosts and the other sections sets of names,
\* after any calls.
THEOREM InventoryTypeCorrect == Spec => []InventoryTypeOK
<1>1. Consistent => InventoryTypeOK
  BY DEF Consistent
<1> QED
  BY <1>1, AlwaysConsistent, PTL

\* Every name in a role is that of a host, after any calls: the roles of a
\* host that is deleted do not wait for the next host of its name.
THEOREM RolesHaveHosts == Spec => []MembersAreHosts
<1>1. Consistent => MembersAreHosts
  BY DEF Consistent
<1> QED
  BY <1>1, AlwaysConsistent, PTL

\* No name stands twice among the hosts, whatever ids the files bring.
THEOREM NamesStandOnce == Spec => [](NamesDiffer(all))
<1>1. Consistent => NamesDiffer(all)
  BY DEF Consistent
<1> QED
  BY <1>1, AlwaysConsistent, PTL

\* However many arguments a call has and in whatever order it adds and deletes
\* them, the hosts it was not told to delete are there after it as before.
THEOREM OthersStay == Spec => OthersKept
<1> DEFINE lost == ToSet(all) \ ToSet(all')
           Keeps ==
             \/ lost = {} \/ Loaded
             \/ \E args \in Arguments : (\A h \in lost : Deleted(args, h)) /\ Build(args)
<1>1. ASSUME Consistent, Next PROVE Keeps
  <2>1. ASSUME NEW args \in Arguments, Build(args) PROVE Keeps
    <3>1. \A h \in ToSet(all) \ ToSet(all') : Deleted(args, h)
      BY <1>1, <2>1, HostsBuilt DEF Build
    <3> QED
      BY <2>1, <3>1
  <2>2. ASSUME NEW file \in Files, Load(file) PROVE Keeps
    BY <2>2 DEF Loaded
  <2> HIDE DEF Keeps
  <2> QED
    BY <1>1, <2>1, <2>2 DEF Next
<1>2. Consistent /\ [Next]_vars => [Keeps]_vars
  BY <1>1
<1> QED
  BY <1>2, AlwaysConsistent, PTL DEF Spec, OthersKept

\* A call gives no address a second name, also when it names the address more
\* than once and deletes the host in between.
THEOREM AddressesNamedOnce == Spec => OneNamePerAddress
<1> DEFINE Single ==
      \/ Loaded
      \/ \A h \in ToSet(all') \ ToSet(all) : \A k \in ToSet(all') : k.ip = h.ip => k = h
<1>1. ASSUME Consistent, Next PROVE Single
  <2>1. ASSUME NEW args \in Arguments, Build(args) PROVE Single
    <3>1. \A h \in ToSet(all') \ ToSet(all) : \A k \in ToSet(all') : k.ip = h.ip => k = h
      BY <1>1, <2>1, HostsBuilt DEF Build
    <3> QED
      BY <3>1
  <2>2. ASSUME NEW file \in Files, Load(file) PROVE Single
    BY <2>2 DEF Loaded
  <2> HIDE DEF Single
  <2> QED
    BY <1>1, <2>1, <2>2 DEF Next
<1>2. Consistent /\ [Next]_vars => [Single]_vars
  BY <1>1
<1> QED
  BY <1>2, AlwaysConsistent, PTL DEF Spec, OneNamePerAddress

-----------------------------------------------------------------------------
(* What a call leaves can be deployed *)

\* A file may put a host, which comes last, in any group but this one: a call
\* never takes a host out of etcd.
FilesLeaveEtcd == \A file \in Files : file.group # "etcd"

Deploys(hosts, roles) ==
  /\ roles["etcd"] = {hosts[i].name : i \in DOMAIN hosts \cap 1..3}
  /\ roles["kube-master"] # {}
  /\ Names(hosts) \subseteq roles["etcd"] \cup roles["kube-master"] \cup roles["kube-node"]

LEMMA FirstThree ==
  ASSUME NEW hosts \in Seq(Host)
  PROVE  Slice(hosts, 0, 3) = {hosts[i].name : i \in DOMAIN hosts \cap 1..3}
<1>1. DOMAIN hosts = 1..Len(hosts) /\ Len(hosts) \in Nat
  BY InSequence
<1>2. {i \in DOMAIN hosts : 0 < i /\ i <= 3} = DOMAIN hosts \cap 1..3
  BY <1>1
<1> QED
  BY <1>2 DEF Slice

\* Below the threshold the first host is a master, above it the fourth.
LEMMA HasMaster ==
  ASSUME NEW hosts \in Seq(Host), hosts # <<>>
  PROVE  Masters(hosts) # {}
<1>1. DOMAIN hosts = 1..Len(hosts) /\ Len(hosts) \in Nat /\ Len(hosts) > 0
  BY InSequence
<1>2. CASE Len(hosts) >= ScaleThreshold
  <2>1. 4 \in DOMAIN hosts
    BY <1>1, <1>2, InventoryAssumption
  <2>2. hosts[4].name \in Slice(hosts, 3, 5)
    BY <2>1 DEF Slice
  <2> QED
    BY <1>2, <2>2 DEF Masters
<1>3. CASE ~(Len(hosts) >= ScaleThreshold)
  <2>1. 1 \in DOMAIN hosts
    BY <1>1
  <2>2. hosts[1].name \in Slice(hosts, 0, 2)
    BY <2>1 DEF Slice
  <2> QED
    BY <1>3, <2>2 DEF Masters
<1> QED
  BY <1>2, <1>3

LEMMA BuildDeploys ==
  ASSUME Consistent, EtcdFirst(all, member["etcd"]), NEW args \in Arguments, Build(args),
         all' # <<>>
  PROVE  Deploys(all', member')
<1> DEFINE hosts == BuildHostnames(args)
           roles == SetRoles(hosts, PurgeInvalidHosts(hosts))
<1>1. hosts \in Seq(Host) /\ EtcdFirst(hosts, member["etcd"])
  BY HostsBuilt
<1>2. all' = hosts /\ member' = roles
  BY DEF Build
<1> HIDE DEF hosts
<1>3. /\ roles["etcd"] = (member["etcd"] \cap Names(hosts)) \cup Slice(hosts, 0, 3)
      /\ Masters(hosts) \subseteq roles["kube-master"]
      /\ KubeNodes(hosts, roles["etcd"], roles["kube-master"]) \subseteq roles["kube-node"]
  BY <1>1, RolesSet
<1> HIDE DEF roles
<1>4. member["etcd"] \cap Names(hosts) \subseteq Slice(hosts, 0, 3)
  <2> SUFFICES ASSUME NEW n \in member["etcd"] \cap Names(hosts)
               PROVE  n \in Slice(hosts, 0, 3)
    OBVIOUS
  <2>1. PICK i \in DOMAIN hosts : n = hosts[i].name
    BY <1>1, NamesOfHosts
  <2>2. i <= 3
    BY <1>1, <2>1 DEF EtcdFirst
  <2>3. i \in 1..3
    BY <1>1, <2>1, <2>2, InSequence
  <2> QED
    BY <1>1, <2>1, <2>3, FirstThree
<1>5. roles["etcd"] = {hosts[i].name : i \in DOMAIN hosts \cap 1..3}
  <2>1. roles["etcd"] = Slice(hosts, 0, 3)
    BY <1>3, <1>4
  <2> QED
    BY <1>1, <2>1, FirstThree
<1>6. roles["kube-master"] # {}
  BY <1>1, <1>2, <1>3, HasMaster
<1>7. Names(hosts) \subseteq roles["etcd"] \cup roles["kube-master"] \cup roles["kube-node"]
  BY <1>3 DEF KubeNodes
<1> QED
  BY <1>2, <1>5, <1>6, <1>7 DEF Deploys

\* A call leaves etcd on the first three hosts alone, a master, and a role for
\* each other host, for every number of hosts and all thresholds above three.
THEOREM CallsDeploy == ASSUME FilesLeaveEtcd PROVE Spec => Deployable
<1> DEFINE IInv == Consistent /\ EtcdFirst(all, member["etcd"])
           Step ==
             \/ Loaded \/ all' = <<>>
             \/ /\ member'["etcd"] = {all'[i].name : i \in DOMAIN all' \cap 1..3}
                /\ member'["kube-master"] # {}
                /\ Names(all') \subseteq member'["etcd"] \cup member'["kube-master"] \cup member'["kube-node"]
<1>1. Init => IInv
  BY StartConsistent
<1>2. IInv /\ [Next]_vars => IInv'
  <2> SUFFICES ASSUME IInv, [Next]_vars PROVE IInv'
    OBVIOUS
  <2>1. Consistent'
    BY StaysConsistent
  <2>2. EtcdStaysFirst
    <3>1. CASE UNCHANGED vars
      BY <3>1 DEF vars, EtcdStaysFirst, EtcdFirst
    <3>2. ASSUME NEW args \in Arguments, Build(args) PROVE EtcdStaysFirst
      BY <3>2, BuildConsistent
    <3>3. ASSUME NEW file \in Files, Load(file) PROVE EtcdStaysFirst
      BY <3>3, LoadConsistent, FilesLeaveEtcd DEF FilesLeaveEtcd
    <3> QED
      BY <3>1, <3>2, <3>3 DEF Next
  <2>3. EtcdFirst(all, member["etcd"])'
    BY <2>2 DEF EtcdStaysFirst, EtcdFirst
  <2> QED
    BY <2>1, <2>3
<1>3. IInv /\ [Next]_vars => [Step]_vars
  <2> SUFFICES ASSUME IInv, Next PROVE Step
    OBVIOUS
  <2>1. ASSUME NEW args \in Arguments, Build(args) PROVE Step
    BY <2>1, BuildDeploys DEF Deploys
  <2>2. ASSUME NEW file \in Files, Load(file) PROVE Step
    BY <2>2 DEF Loaded
  <2> HIDE DEF Step
  <2> QED
    BY <2>1, <2>2 DEF Next
<1> QED
  BY <1>1, <1>2, <1>3, PTL DEF Spec, Deployable

===============================================================================
