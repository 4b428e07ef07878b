---------------------------- MODULE ListerProofs ----------------------------
(***************************************************************************)
(* The attachments of a node do not depend on its physnets, and what the   *)
(* lister takes for the name of a physnet, for any settings.               *)
(***************************************************************************)
EXTENDS Lister, WellFoundedInduction, TLAPS

\* What makes AttachmentsStay inductive: dpm runs the plugin the lister gave
\* it for a name, and is never ordered to stop a reserved one.
PluginsOfLister ==
  /\ \A n \in DOMAIN plugins : plugins[n] = NewPlugin(n)
  /\ order.busy => Reserved \subseteq order.names

\* No order is given when nothing runs and none is under way.
LEMMA PluginsInit == Init => PluginsOfLister
BY DEF Init, PluginsOfLister, Idle

\* Every list that Discover hands over has the reserved names in it.
LEMMA HandoverKeeps ==
  ASSUME PluginsOfLister, NEW names, Reserved \subseteq names,
         Handover(names), UNCHANGED plugins
  PROVE  PluginsOfLister'
BY DEF PluginsOfLister, Handover, Order, NewPlugin, Reserved

LEMMA PluginsStep == PluginsOfLister /\ [Next]_vars => PluginsOfLister'
<1> SUFFICES ASSUME PluginsOfLister, [Next]_vars PROVE PluginsOfLister'
  OBVIOUS
<1>1. CASE SendReserved
  BY <1>1, HandoverKeeps DEF SendReserved
<1>2. CASE ListNetworks
  BY <1>2 DEF ListNetworks, PluginsOfLister, NewPlugin, Reserved
<1>3. CASE ListFails
  BY <1>3 DEF ListFails, PluginsOfLister, NewPlugin, Reserved
<1>4. CASE Send
  <2>1. Reserved \subseteq ToSet(list) \cup Reserved
    OBVIOUS
  <2> QED BY <1>4, <2>1, HandoverKeeps DEF Send
<1>5. ASSUME NEW n, StartPlugin(n) PROVE PluginsOfLister'
  BY <1>5 DEF StartPlugin, PluginsOfLister, NewPlugin, Reserved
<1>6. ASSUME NEW n, StopPlugin(n) PROVE PluginsOfLister'
  BY <1>6 DEF StopPlugin, PluginsOfLister, NewPlugin, Reserved
<1>7. CASE Done
  BY <1>7 DEF Done, Idle, PluginsOfLister, NewPlugin, Reserved
<1>8. CASE SetMappings
  BY <1>8 DEF SetMappings, PluginsOfLister, NewPlugin, Reserved
<1>9. CASE Restart
  BY <1>9 DEF Restart, Idle, PluginsOfLister, NewPlugin, Reserved
<1>10. CASE UNCHANGED vars
  BY <1>10 DEF vars, PluginsOfLister, NewPlugin, Reserved
<1> QED
  BY <1>1, <1>2, <1>3, <1>4, <1>5, <1>6, <1>7, <1>8, <1>9, <1>10 DEF Next, Discover, Dpm

\* Of a lister's plugins only that of the main resource attaches.
LEMMA OnlyMainAttaches ==
  ASSUME PluginsOfLister
  PROVE  /\ Attaching \subseteq {Main}
         /\ Main \in DOMAIN plugins => Main \in Attaching
BY DEF PluginsOfLister, Attaching, NewPlugin

\* Whatever is taken out of service, while the process runs, is not reserved.
LEMMA ReservedRunsOn ==
  ASSUME PluginsOfLister, [Next]_vars, pc' # "start"
  PROVE  Reserved \cap DOMAIN plugins \subseteq DOMAIN plugins'
<1>1. ASSUME NEW n, StartPlugin(n) PROVE DOMAIN plugins \subseteq DOMAIN plugins'
  BY <1>1 DEF StartPlugin
<1>2. ASSUME NEW n, StopPlugin(n)
      PROVE  Reserved \cap DOMAIN plugins \subseteq DOMAIN plugins'
  BY <1>2 DEF StopPlugin, PluginsOfLister
<1>3. CASE Discover \/ Done \/ SetMappings \/ UNCHANGED vars
  BY <1>3 DEF Discover, SendReserved, ListNetworks, ListFails, Send, Done, SetMappings, vars
<1>4. CASE Restart
  BY <1>4 DEF Restart
<1> QED
  BY <1>1, <1>2, <1>3, <1>4 DEF Next, Dpm

\* For any settings of the bridge mappings, and whatever is parsed from them:
\* a node that attaches interfaces does so until its device plugin ends.
THEOREM AttachmentsNeverStop == Spec => AttachmentsStay
<1>1. PluginsOfLister /\ [Next]_vars =>
        [ /\ Attaching' \subseteq {Main}
          /\ pc' # "start" => /\ Attaching \subseteq Attaching'
                              /\ Reserved \cap DOMAIN plugins \subseteq DOMAIN plugins' ]_vars
  <2> SUFFICES ASSUME PluginsOfLister, [Next]_vars
               PROVE  /\ Attaching' \subseteq {Main}
                      /\ pc' # "start" => /\ Attaching \subseteq Attaching'
                                          /\ Reserved \cap DOMAIN plugins \subseteq DOMAIN plugins'
    OBVIOUS
  <2>1. PluginsOfLister'
    BY PluginsStep
  <2>2. Attaching' \subseteq {Main} /\ (Main \in DOMAIN plugins' => Main \in Attaching')
    BY <2>1 DEF PluginsOfLister, Attaching, NewPlugin
  <2>3. ASSUME pc' # "start"
        PROVE  /\ Attaching \subseteq Attaching'
               /\ Reserved \cap DOMAIN plugins \subseteq DOMAIN plugins'
    <3>1. Reserved \cap DOMAIN plugins \subseteq DOMAIN plugins'
      BY <2>3, ReservedRunsOn
    <3>2. \A n \in Attaching : n = Main /\ Main \in DOMAIN plugins
      BY OnlyMainAttaches DEF Attaching
    <3> QED BY <2>2, <3>1, <3>2 DEF Reserved
  <2> QED BY <2>2, <2>3
<1> QED
  BY <1>1, PluginsInit, PluginsStep, PTL DEF Spec, AttachmentsStay

-----------------------------------------------------------------------------
(* What is parsed of the mappings *)

LEMMA LeastNumber ==
  ASSUME NEW S \in SUBSET Nat, S # {}
  PROVE  \E n \in S : \A m \in S : n <= m
<1>1. \E n \in S : \A m \in S : ~(<<m, n>> \in OpToRel(<, Nat))
  BY NatLessThanWellFounded, WFMin
<1>2. PICK n \in S : \A m \in S : ~(<<m, n>> \in OpToRel(<, Nat))
  BY <1>1
<1>3. \A m \in S : ~(m < n)
  BY <1>2 DEF OpToRel
<1> QED
  BY <1>3

\* One more token ends the last part or is added to it.
Grown(before, token, separator) ==
  IF token = separator THEN Append(before, <<>>)
  ELSE [before EXCEPT ![Len(before)] = Append(@, token)]

\* At least one part, and the separator in none.
Parts(T, separator) == {p \in Seq(Seq(T \ {separator})) : Len(p) > 0}

LEMMA GrownParts ==
  ASSUME NEW T, NEW separator, NEW before \in Parts(T, separator), NEW token \in T
  PROVE  Grown(before, token, separator) \in Parts(T, separator)
<1> DEFINE U == Seq(T \ {separator})
<1>1. before \in Seq(U) /\ Len(before) \in Nat /\ Len(before) > 0
  BY DEF Parts
<1>2. CASE token = separator
  <2>1. <<>> \in U
    OBVIOUS
  <2> HIDE DEF U
  <2>2. Append(before, <<>>) \in Seq(U) /\ Len(Append(before, <<>>)) = Len(before) + 1
    BY <1>1, <2>1
  <2>3. Len(Append(before, <<>>)) > 0
    BY <1>1, <2>2
  <2> QED
    BY <1>2, <2>2, <2>3 DEF Grown, Parts, U
<1>3. CASE token # separator
  <2> DEFINE n == Len(before)
             part == Append(before[n], token)
             new == [before EXCEPT ![n] = part]
  <2>1. n \in DOMAIN before /\ before[n] \in U
    <3> HIDE DEF U
    <3> QED
      BY <1>1
  <2>2. part \in U
    BY <1>3, <2>1
  <2> HIDE DEF U, part
  <2>3. new \in Seq(U) /\ Len(new) = n
    BY <1>1, <2>1, <2>2
  <2>4. Grown(before, token, separator) = new
    BY <1>3 DEF Grown, part
  <2> QED
    BY <1>1, <2>3, <2>4 DEF Parts, U
<1> QED
  BY <1>2, <1>3

\* The parts after each token are those after the one before, grown by it: the
\* least number of tokens of which this were not so would be one more than a
\* number of which it is.
LEMMA SplitParts ==
  ASSUME NEW T, NEW s \in Seq(T), NEW separator
  PROVE  Split(s, separator) \in Parts(T, separator)
<1> DEFINE Is(f, n) ==
             f = [i \in 0..n |-> IF i = 0 THEN << <<>> >> ELSE Grown(f[i - 1], s[i], separator)]
           None == {n \in Nat : ~ \E f : Is(f, n)}
<1>1. 0 \notin None
  <2> DEFINE f == [i \in 0..0 |-> << <<>> >>]
  <2>1. \A i \in 0..0 : i = 0
    OBVIOUS
  <2>2. Is(f, 0)
    BY <2>1
  <2> QED
    BY <2>2
<1>2. ASSUME NEW n \in Nat, n \notin None PROVE n + 1 \notin None
  <2>1. PICK f : Is(f, n)
    BY <1>2
  <2> DEFINE g == [i \in 0..(n + 1) |->
                     IF i = 0 THEN << <<>> >> ELSE Grown(f[i - 1], s[i], separator)]
  <2>2. \A i \in 0..n : g[i] = f[i]
    BY <2>1
  <2>3. \A i \in 0..(n + 1) : i # 0 => i - 1 \in 0..n
    OBVIOUS
  <2>4. Is(g, n + 1)
    BY <2>2, <2>3
  <2> QED
    BY <2>4
<1>3. None = {}
  <2> SUFFICES ASSUME None # {} PROVE FALSE
    OBVIOUS
  <2>1. PICK n \in None : \A m \in None : n <= m
    BY LeastNumber
  <2>2. n # 0 /\ n - 1 \in Nat /\ n = (n - 1) + 1
    <3>1. n \in Nat /\ n # 0
      BY <1>1
    <3> QED
      BY <3>1
  <2>3. n - 1 \notin None
    <3>1. n \in Nat /\ ~(n <= n - 1)
      BY <2>1, <2>2
    <3> HIDE DEF None
    <3> QED
      BY <2>1, <3>1
  <2> QED
    BY <1>2, <2>1, <2>2, <2>3
<1> DEFINE parts == CHOOSE f : Is(f, Len(s))
<1>4. Len(s) \in Nat /\ \A i \in 1..Len(s) : s[i] \in T
  OBVIOUS
<1>5. Is(parts, Len(s))
  BY <1>3, <1>4
<1>6. Split(s, separator) = parts[Len(s)]
  BY DEF Split, Grown
<1> HIDE DEF parts, None
<1>7. /\ parts[0] = << <<>> >>
      /\ \A i \in 1..Len(s) : parts[i] = Grown(parts[i - 1], s[i], separator)
  BY <1>4, <1>5
<1> DEFINE Bad == {i \in 0..Len(s) : parts[i] \notin Parts(T, separator)}
<1>8. 0 \notin Bad
  <2> DEFINE U == Seq(T \ {separator})
  <2>1. <<>> \in U
    OBVIOUS
  <2> HIDE DEF U
  <2>2. << <<>> >> \in Seq(U) /\ Len(<< <<>> >>) = 1
    BY <2>1
  <2>3. << <<>> >> \in Parts(T, separator)
    BY <2>2 DEF Parts, U
  <2> QED
    BY <1>7, <2>3
<1>9. Bad = {}
  <2> SUFFICES ASSUME Bad # {} PROVE FALSE
    OBVIOUS
  <2>1. Bad \in SUBSET Nat
    BY <1>4
  <2>2. PICK i \in Bad : \A j \in Bad : i <= j
    BY <2>1, LeastNumber
  <2>3. i # 0 /\ i \in 0..Len(s)
    BY <1>8, <2>2
  <2>4. i \in 1..Len(s) /\ i - 1 \in 0..Len(s) /\ ~(i <= i - 1)
    BY <1>4, <2>3
  <2>5. parts[i - 1] \in Parts(T, separator)
    BY <2>2, <2>4
  <2>6. parts[i] \in Parts(T, separator)
    BY <1>4, <1>7, <2>4, <2>5, GrownParts
  <2> QED
    BY <2>2, <2>6
<1> QED
  BY <1>4, <1>6, <1>9

-----------------------------------------------------------------------------
(* The names that are offered *)

\* A token that may stand in the name of a physnet.
NameToken == (Token \ {","}) \ {":"}

LEMMA ParsedNames ==
  ASSUME NEW s \in Setting
  PROVE  Parse(Output(s)) \in Seq(Seq(NameToken))
<1> DEFINE output == Output(s)
           inner == SubSeq(output, 2, Len(output) - 1)
           mappings == Split(inner, ",")
           names == [i \in DOMAIN mappings |-> Split(mappings[i], ":")[1]]
           Mapping == Seq(Token \ {","})
<1>1. output \in Seq(Token) /\ Len(output) \in Nat
  <2>1. s \in Seq(Token)
    BY ListerAssumption
  <2>2. <<Quote>> \in Seq(Token) /\ <<Quote, EndOfLine>> \in Seq(Token)
    <3>1. Quote \in Token /\ EndOfLine \in Token
      BY DEF Token, Delimiter
    <3> QED
      BY <3>1
  <2> QED
    BY <2>1, <2>2 DEF Output
<1> HIDE DEF output
<1>2. inner \in Seq(Token)
  BY <1>1
<1> HIDE DEF inner
<1>3. mappings \in Seq(Mapping)
  BY <1>2, SplitParts DEF Parts
<1> HIDE DEF mappings, Mapping
<1>4. \A i \in DOMAIN mappings : Split(mappings[i], ":")[1] \in Seq(NameToken)
  <2> TAKE i \in DOMAIN mappings
  <2>1. mappings[i] \in Mapping
    BY <1>3
  <2>2. Split(mappings[i], ":") \in Parts(Token \ {","}, ":")
    BY <2>1, SplitParts DEF Mapping
  <2> DEFINE parts == Split(mappings[i], ":")
             U == Seq(NameToken)
  <2>3. parts \in Seq(U) /\ Len(parts) > 0
    BY <2>2 DEF Parts, NameToken
  <2> HIDE DEF parts, U
  <2>4. parts[1] \in U
    BY <2>3
  <2> QED
    BY <2>4 DEF parts, U
<1>5. DOMAIN mappings = 1..Len(mappings) /\ Len(mappings) \in Nat
  BY <1>3
<1>6. names \in Seq(Seq(NameToken))
  BY <1>4, <1>5
<1>7. Parse(Output(s)) = names
  BY DEF Parse, names, mappings, inner, output
<1> QED
  BY <1>6, <1>7

Parsed == ListerTypeOK /\ list \in Seq(Seq(NameToken))

LEMMA ParsedInit == Init => Parsed
<1> SUFFICES ASSUME Init PROVE Parsed
  OBVIOUS
<1>1. list = <<>> /\ list \in Seq(Seq(NameToken)) /\ DOMAIN list = {}
  BY DEF Init
<1> QED
  BY <1>1, ListerAssumption DEF Init, Parsed, ListerTypeOK, Idle

\* What has been parsed last is kept but for a failing call and a restart.
LEMMA ListStep ==
  ASSUME Parsed, Next
  PROVE  list' \in Seq(Seq(NameToken)) /\ \A i \in DOMAIN list' : list'[i] \in Seq(Token)
<1>1. list' \in Seq(Seq(NameToken))
  <2>1. CASE ListNetworks
    <3>1. setting \in Setting /\ list' = Parse(Output(setting))
      BY <2>1 DEF ListNetworks, Parsed, ListerTypeOK
    <3> QED
      BY <3>1, ParsedNames
  <2>2. CASE ListFails \/ Restart
    <3>1. list' = <<>>
      BY <2>2 DEF ListFails, Restart
    <3> QED
      BY <3>1
  <2>3. ASSUME SendReserved \/ Send \/ Dpm \/ SetMappings PROVE list' = list
    BY <2>3 DEF SendReserved, Send, Dpm, Done, StartPlugin, StopPlugin, SetMappings
  <2> QED
    BY <2>1, <2>2, <2>3 DEF Next, Discover, Parsed
<1>2. ASSUME NEW n \in Seq(NameToken) PROVE n \in Seq(Token)
  <2>1. NameToken \subseteq Token
    BY DEF NameToken
  <2>2. n \in [1..Len(n) -> NameToken] /\ Len(n) \in Nat
    OBVIOUS
  <2>3. n \in [1..Len(n) -> Token]
    BY <2>1, <2>2
  <2> QED
    BY <2>2, <2>3
<1> QED
  BY <1>1, <1>2

LEMMA ParsedStep == Parsed /\ [Next]_vars => Parsed'
<1> SUFFICES ASSUME Parsed, [Next]_vars PROVE Parsed'
  OBVIOUS
<1>1. CASE UNCHANGED vars
  BY <1>1 DEF vars, Parsed, ListerTypeOK
<1>2. ASSUME Next PROVE Parsed'
  <2>1. list' \in Seq(Seq(NameToken)) /\ \A i \in DOMAIN list' : list'[i] \in Seq(Token)
    BY <1>2, ListStep
  <2>2. CASE SendReserved
    BY <2>1, <2>2 DEF SendReserved, Handover, Order, Parsed, ListerTypeOK
  <2>3. CASE ListNetworks
    BY <2>1, <2>3 DEF ListNetworks, Parsed, ListerTypeOK
  <2>4. CASE ListFails
    BY <2>1, <2>4, ListerAssumption DEF ListFails, Parsed, ListerTypeOK
  <2>5. CASE Send
    BY <2>1, <2>5 DEF Send, Handover, Order, Parsed, ListerTypeOK
  <2>6. ASSUME NEW n, StartPlugin(n) PROVE Parsed'
    BY <2>1, <2>6 DEF StartPlugin, NewPlugin, Parsed, ListerTypeOK
  <2>7. ASSUME NEW n, StopPlugin(n) PROVE Parsed'
    BY <2>1, <2>7 DEF StopPlugin, Parsed, ListerTypeOK
  <2>8. CASE Done
    BY <2>1, <2>8 DEF Done, Idle, Parsed, ListerTypeOK
  <2>9. CASE SetMappings
    BY <2>1, <2>9, ListerAssumption DEF SetMappings, Parsed, ListerTypeOK
  <2>10. CASE Restart
    BY <2>1, <2>10, ListerAssumption DEF Restart, Idle, Parsed, ListerTypeOK
  <2> HIDE DEF Parsed
  <2> QED
    BY <1>2, <2>2, <2>3, <2>4, <2>5, <2>6, <2>7, <2>8, <2>9, <2>10 DEF Next, Discover, Dpm
<1> QED
  BY <1>1, <1>2

\* What the lister finds are names, for any settings, and every plugin is of
\* one of its two kinds.
THEOREM ListerTypeCorrect == Spec => []ListerTypeOK
<1>1. Parsed => ListerTypeOK
  BY DEF Parsed
<1> QED
  BY <1>1, ParsedInit, ParsedStep, PTL DEF Spec

\* However the mappings are set, no name that is found runs into the bridge
\* of its mapping or into the next mapping.
THEOREM NamesSeparated ==
  Spec => [](\A i \in DOMAIN list : ToSet(list[i]) \cap {",", ":"} = {})
<1>1. Parsed => \A i \in DOMAIN list : ToSet(list[i]) \cap {",", ":"} = {}
  <2> SUFFICES ASSUME list \in Seq(Seq(NameToken)), NEW i \in DOMAIN list
               PROVE  ToSet(list[i]) \cap {",", ":"} = {}
    BY DEF Parsed
  <2>1. list[i] \in Seq(NameToken)
    OBVIOUS
  <2>2. \A j \in DOMAIN list[i] : list[i][j] \in NameToken
    BY <2>1
  <2> QED
    BY <2>2 DEF ToSet, NameToken
<1> QED
  BY <1>1, ParsedInit, ParsedStep, PTL DEF Spec

=============================================================================
