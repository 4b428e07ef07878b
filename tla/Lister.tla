------------------------------- MODULE Lister -------------------------------
(***************************************************************************)
(* The lister of the device plugin: Discover reads the bridge mappings of  *)
(* OVS every ten seconds and hands the names of the resources to the       *)
(* device-plugin-manager (dpm), which starts and stops a plugin for each.  *)
(* dpm, ovs-vsctl and the kubelet are external.                            *)
(***************************************************************************)
EXTENDS Naturals, SequencesExt

CONSTANTS
  Setting,    \* values of external-ids:ovn-bridge-mappings, as their tokens
  Main,       \* the two reserved resource names, sequences of tokens as all
  Overlay,    \* names are
  MaxChanges  \* bound: changes of the setting, failing calls, restarts

Unset == <<"unset">>   \* the key is not there
Quote == "\""
EndOfLine == "\n"
Delimiter == {Quote, EndOfLine, ",", ":"}
Token == Delimiter \cup UNION {ToSet(s) : s \in Setting}

ASSUME ListerAssumption ==
  /\ Setting \subseteq Seq(Token)
  /\ \A s \in Setting : s # Unset /\ ToSet(s) \cap {Quote, EndOfLine} = {}
  /\ Main # Overlay /\ \A n \in {Main, Overlay} : ToSet(n) \cap Delimiter = {}
  /\ MaxChanges \in Nat

Reserved == {Main, Overlay}

VARIABLES
  setting,  \* the bridge mappings in OVS
  pc,       \* where Discover is
  list,     \* the names it has found
  plugins,  \* the plugins dpm runs, by the name of their resource
  order,    \* the names dpm is to run, Idle when it runs just those
  changes   \* how often the environment has interfered

vars == <<setting, pc, list, plugins, order, changes>>

Idle == [names |-> {}, busy |-> FALSE]
Order(names) == [names |-> names, busy |-> TRUE]

-----------------------------------------------------------------------------
(* listLocalNetworks *)

\* ovs-vsctl quotes a value with a colon or a comma, and the empty one.
Output(s) == <<Quote>> \o s \o <<Quote, EndOfLine>>

Split(s, separator) ==
  LET parts[i \in 0..Len(s)] ==
        IF i = 0 THEN << <<>> >>
        ELSE LET before == parts[i - 1]
             IN IF s[i] = separator THEN Append(before, <<>>)
                ELSE [before EXCEPT ![Len(before)] = Append(@, s[i])]
  IN parts[Len(s)]

\* Mutant: the output is taken with its quotes.
ParseQuoted(output) ==
  LET mappings == Split(output, ",")
  IN [i \in DOMAIN mappings |-> Split(mappings[i], ":")[1]]

\* The first and the last character are cut off, which are the quote and the
\* end of the line: the second quote stays, in the last bridge.
Parse(output) ==
  LET mappings == Split(SubSeq(output, 2, Len(output) - 1), ",")
  IN [i \in DOMAIN mappings |-> Split(mappings[i], ":")[1]]

-----------------------------------------------------------------------------
(* Discover *)

Init ==
  /\ setting \in Setting \cup {Unset}
  /\ pc = "start" /\ list = <<>>
  /\ plugins = [n \in {} |-> "main"] /\ order = Idle
  /\ changes = 0

\* The channel has no buffer: a list is sent when dpm takes it.
Handover(names) == ~order.busy /\ order' = Order(names)

SendReserved ==
  /\ pc = "start"
  /\ Handover(Reserved)
  /\ pc' = "list"
  /\ UNCHANGED <<setting, list, plugins, changes>>

ListNetworks ==
  /\ pc = "list"
  /\ setting # Unset
  /\ list' = Parse(Output(setting))
  /\ pc' = "send"
  /\ UNCHANGED <<setting, plugins, order, changes>>

\* Mutant: an error ends Discover.
ListFailsForGood ==
  /\ pc = "list"
  /\ setting = Unset \/ changes < MaxChanges
  /\ changes' = IF setting = Unset THEN changes ELSE changes + 1
  /\ list' = <<>>
  /\ pc' = "returned"
  /\ UNCHANGED <<setting, plugins, order>>

\* ovs-vsctl fails without the key, and now and then with it.
ListFails ==
  /\ pc = "list"
  /\ setting = Unset \/ changes < MaxChanges
  /\ changes' = IF setting = Unset THEN changes ELSE changes + 1
  /\ list' = <<>>
  /\ pc' = "send"
  /\ UNCHANGED <<setting, plugins, order>>

\* Mutant: without physnets nothing is sent but the physnets.
SendPhysnets ==
  /\ pc = "send"
  /\ Handover(IF list = <<>> THEN {} ELSE ToSet(list) \cup Reserved)
  /\ pc' = "list"
  /\ UNCHANGED <<setting, list, plugins, changes>>

Send ==
  /\ pc = "send"
  /\ Handover(ToSet(list) \cup Reserved)
  /\ pc' = "list"
  /\ UNCHANGED <<setting, list, plugins, changes>>

NewPlugin(name) == IF name = Main THEN "main" ELSE "allocation"

-----------------------------------------------------------------------------
(* dpm starts what is new and stops what has gone, in any order *)

StartPlugin(n) ==
  /\ order.busy /\ n \in order.names \ DOMAIN plugins
  /\ plugins' = [m \in DOMAIN plugins \cup {n} |-> IF m = n THEN NewPlugin(n) ELSE plugins[m]]
  /\ UNCHANGED <<setting, pc, list, order, changes>>

StopPlugin(n) ==
  /\ order.busy /\ n \in DOMAIN plugins \ order.names
  /\ plugins' = [m \in DOMAIN plugins \ {n} |-> plugins[m]]
  /\ UNCHANGED <<setting, pc, list, order, changes>>

Done ==
  /\ order.busy /\ order.names = DOMAIN plugins
  /\ order' = Idle
  /\ UNCHANGED <<setting, pc, list, plugins, changes>>

Dpm == Done \/ \E n \in order.names \cup DOMAIN plugins : StartPlugin(n) \/ StopPlugin(n)

-----------------------------------------------------------------------------
(* The administrator, and the end of the process *)

SetMappings ==
  /\ changes < MaxChanges
  /\ setting' \in (Setting \cup {Unset}) \ {setting}
  /\ changes' = changes + 1
  /\ UNCHANGED <<pc, list, plugins, order>>

Restart ==
  /\ changes < MaxChanges
  /\ changes' = changes + 1
  /\ pc' = "start" /\ list' = <<>>
  /\ plugins' = [n \in {} |-> "main"] /\ order' = Idle
  /\ UNCHANGED setting

Discover == SendReserved \/ ListNetworks \/ ListFails \/ Send

Next == Discover \/ Dpm \/ SetMappings \/ Restart

Spec == Init /\ [][Next]_vars /\ WF_vars(Discover) /\ WF_vars(Dpm)

-----------------------------------------------------------------------------
(* Properties *)

\* The kubelet registers no resource whose name has anything but letters,
\* digits and a few marks.
Offered == {n \in DOMAIN plugins : n # <<>> /\ ToSet(n) \cap Delimiter = {}}

\* The physnets of a setting: what stands between a comma and a colon.
Physnets(s) ==
  {<<s[i]>> : i \in {j \in DOMAIN s :
       /\ s[j] \notin Delimiter
       /\ j = 1 \/ s[j - 1] = ","
       /\ j < Len(s) /\ s[j + 1] = ":"}}

ListerTypeOK ==
  /\ setting \in Setting \cup {Unset}
  /\ pc \in {"start", "list", "send"}
  /\ \A i \in DOMAIN list : list[i] \in Seq(Token)
  /\ \A n \in DOMAIN plugins : plugins[n] \in {"main", "allocation"}
  /\ order.busy \in BOOLEAN
  /\ changes \in 0..MaxChanges

Attaching == {n \in DOMAIN plugins : plugins[n] = "main"}

\* Attachments never stop on account of the physnets: whatever is set and
\* whatever fails, the plugin of the main resource, which attaches, runs on
\* once it has started, the overlay resource stays beside it, and no other
\* plugin attaches.
AttachmentsStay ==
  [][ /\ Attaching' \subseteq {Main}
      /\ pc' # "start" => /\ Attaching \subseteq Attaching'
                          /\ Reserved \cap DOMAIN plugins \subseteq DOMAIN plugins' ]_vars

\* A physnet is withdrawn by one failing call, and stays when the mappings
\* have changed: but once they are left alone and ovs-vsctl answers again, the
\* node offers the reserved resources and exactly the physnets it is mapped to.
Converges == <>[](Offered = Reserved \cup IF setting = Unset THEN {} ELSE Physnets(setting))

=============================================================================
