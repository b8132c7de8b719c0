---------------------------- MODULE ProgramsProofs ----------------------------
(***************************************************************************)
(* Proofs about the programs, for any inputs: the start of the server, the *)
(* promises of the client library, what the generated code of the          *)
(* calculator, of the command line and of the header parser asserts when   *)
(* it indexes its tables, its stacks and its buffers, the types of every   *)
(* program, and that texts are read as they are meant.                     *)
(*                                                                         *)
(* Each program has its inductive invariant, here or in TextProofs,        *)
(* ExampleProofs and ResponseReaderProofs; ProgramsInv puts them together. *)
(***************************************************************************)
EXTENDS TextProofs, ExampleProofs, FiniteSetTheorems

-----------------------------------------------------------------------------
(***************************************************************************)
(* The start of the server.  The invariant follows the configuration from  *)
(* the constructor through the file to the check of the shared folder      *)
(* (ConfigInv), and the singletons and the routes from there to the server *)
(* that runs (SetupInv).                                                   *)
(***************************************************************************)
AfterCheck == {"webhook", "auth", "create", "handlers", "start", "running"}
AfterHook == AfterCheck \ {"webhook"}
AfterAuth == AfterHook \ {"auth"}

Enabled == su_config[Conf("auth", "enabled")]

\* The configuration is that of the file, in which every node that is needed was.
Loaded ==
    /\ RequiredNodes(su_tree) \subseteq DOMAIN su_tree
    /\ su_config = decode_config(su_tree)

\* Only the check of the folder separates a configuration that nobody has filled
\* from a loaded one.
ConfigInv ==
    /\ su_pc \in {"main", "options", "load"} => su_config = Uninitialised
    /\ su_pc = "check" => su_config = Uninitialised \/ Loaded
    /\ su_pc \in AfterCheck => Loaded

\* The headers hold the ones of the configuration and its key.
HeadersInv ==
    /\ \A i \in DOMAIN su_config[Headers] : Contains(su_headers, su_config[Headers][i])
    /\ Contains(su_headers, <<"X-API-Key", su_config[Conf("webhook", "api_key")]>>)

\* What the steps have built when the next one begins.
SetupInv ==
    /\ su_pc \in {"options", "load", "check"} \cup AfterCheck => "Logger" \in su_singletons
    /\ su_pc \in AfterHook => "WebHook" \in su_singletons /\ HeadersInv
    /\ su_pc \in AfterAuth /\ Enabled =>
          "AuthHandler" \in su_singletons /\ su_key = su_config[Conf("auth", "token")]
    /\ su_pc \in {"start", "running"} => su_routes = AllRoutes /\ su_authorizes = Enabled
    /\ su_pc # "crashed"

StartupInv == StartupTypeOK /\ ConfigInv /\ SetupInv

-----------------------------------------------------------------------------
(***************************************************************************)
(* Lemmas about the data.                                                  *)
(***************************************************************************)
\* What is in the middle or at the end of three parts is in the whole.
LEMMA ContainsParts ==
    ASSUME NEW S, NEW a \in Seq(S), NEW b \in Seq(S), NEW c \in Seq(S)
    PROVE  /\ \A i \in 1 .. Len(b) : Contains(a \o b \o c, b[i])
           /\ \A i \in 1 .. Len(c) : Contains(a \o b \o c, c[i])
<1>1. /\ a \o b \in Seq(S) /\ a \o b \o c \in Seq(S)
      /\ Len(a \o b) = Len(a) + Len(b)
      /\ Len(a \o b \o c) = Len(a) + Len(b) + Len(c)
      /\ Len(a) \in Nat /\ Len(b) \in Nat /\ Len(c) \in Nat
  OBVIOUS
<1>2. ASSUME NEW i \in 1 .. Len(b) PROVE Contains(a \o b \o c, b[i])
  <2>1. Len(a) + i \in 1 .. Len(a \o b \o c) /\ (a \o b \o c)[Len(a) + i] = b[i]
    BY <1>1
  <2>2. QED
    BY <2>1 DEF Contains
<1>3. ASSUME NEW i \in 1 .. Len(c) PROVE Contains(a \o b \o c, c[i])
  <2>1. /\ Len(a) + Len(b) + i \in 1 .. Len(a \o b \o c)
        /\ (a \o b \o c)[Len(a) + Len(b) + i] = c[i]
    BY <1>1
  <2>2. QED
    BY <2>1 DEF Contains
<1>4. QED
  BY <1>2, <1>3

\* A loaded configuration has no uninitialised member, and gives what the file
\* says of the key, of the headers and of the webhook's key.
LEMMA LoadedIsFilled ==
    ASSUME StartupTypeOK, Loaded
    PROVE  /\ \A k \in ConfigFields : su_config[k] # Garbage
           /\ \A k \in DOMAIN su_tree : su_config[k] = su_tree[k]
           /\ Enabled \in BOOLEAN
           /\ Enabled = su_tree[Conf("auth", "enabled")]
           /\ su_config[Conf("auth", "token")] = su_tree[Conf("auth", "token")]
           /\ su_config[Headers] \in Seq(STRING \X STRING)
<1> USE TreesAssumption DEF StartupTypeOK, Loaded
<1>1. \A k \in ConfigFields : su_config[k] =
         IF k \in DOMAIN su_tree THEN su_tree[k]
         ELSE IF k \in {Conf("server", "delete_after_download"), Conf("server", "debug")} THEN FALSE
         ELSE Uninitialised[k]
  BY DEF decode_config
<1>2. DOMAIN su_tree \subseteq ConfigFields
  OBVIOUS
<1>3. /\ Conf("auth", "enabled") \in DOMAIN su_tree
      /\ Conf("auth", "token") \in DOMAIN su_tree
      /\ Conf("server", "port") \in DOMAIN su_tree
  BY DEF RequiredNodes
<1>4. /\ Headers \in ConfigFields
      /\ Uninitialised[Headers] = <<>>
      /\ Headers \notin {Conf("server", "delete_after_download"), Conf("server", "debug")}
  BY DEF Uninitialised, ConfigFields, ServerKeys, SectionKeys, Headers, Conf
<1>5. \A k \in ConfigFields :
         k \notin DOMAIN su_tree
         /\ k \notin {Conf("server", "delete_after_download"), Conf("server", "debug")}
         => Uninitialised[k] # Garbage
  BY <1>3 DEF Uninitialised
<1>6. \A k \in ConfigFields : su_config[k] # Garbage
  BY <1>1, <1>5
<1>7. su_config[Headers] \in Seq(STRING \X STRING)
  <2>1. CASE Headers \in DOMAIN su_tree
    <3>1. su_config[Headers] = su_tree[Headers]
      BY <1>1, <1>4, <2>1
    <3>2. su_tree[Headers] \in Seq(STRING \X STRING)
      BY <2>1
    <3>3. QED
      BY <3>1, <3>2
  <2>2. CASE Headers \notin DOMAIN su_tree
    <3>1. su_config[Headers] = <<>>
      BY <1>1, <1>4, <2>2
    <3>2. <<>> \in Seq(STRING \X STRING)
      BY ONLY SMT
    <3>3. QED
      BY ONLY <3>1, <3>2
  <2>3. QED
    BY <2>1, <2>2
<1>8. QED
  BY <1>1, <1>2, <1>3, <1>6, <1>7 DEF Enabled

-----------------------------------------------------------------------------
(***************************************************************************)
(* The steps.                                                              *)
(***************************************************************************)
\* The start satisfies the invariant.
LEMMA StartupInitInv == StartupInit => StartupInv
  BY DEF StartupInit, StartupInv, StartupTypeOK, ConfigInv, SetupInv, Uninitialised,
     AfterCheck, AfterHook, AfterAuth

\* Every step keeps it.
LEMMA StartupStepInv == StartupInv /\ [StartupNext]_startupVars => StartupInv'
<1> SUFFICES ASSUME StartupInv, [StartupNext]_startupVars PROVE StartupInv'
  OBVIOUS
<1> USE DEF StartupInv, StartupTypeOK, ConfigInv, SetupInv, HeadersInv, Loaded, Enabled,
        AfterCheck, AfterHook, AfterAuth, Continue, Given, startedVars
<1>1. CASE setup_logger
  BY <1>1 DEF setup_logger
<1>2. CASE parseOptions
  BY <1>2 DEF parseOptions
<1>3. CASE LoadConfig
  BY <1>3 DEF LoadConfig, decode_config
<1>4. CASE FileVanishes
  BY <1>4 DEF FileVanishes
<1>5. CASE CheckFolder
  <2>1. Uninitialised[Conf("server", "shared_folder")] = ""
    BY DEF Uninitialised, ConfigFields, ServerKeys, SectionKeys, Headers, Conf
  <2>2. CASE su_config = Uninitialised
    <3>1. su_pc' = "exited"
      BY <1>5, <2>1, <2>2 DEF CheckFolder
    <3>2. QED
      BY <1>5, <3>1 DEF CheckFolder
  <2>3. CASE Loaded
    <3>1. Loaded'
      BY <1>5, <2>3 DEF CheckFolder
    <3>2. su_pc' \in {"exited", "webhook"}
      BY <1>5 DEF CheckFolder
    <3>3. QED
      BY <1>5, <3>1, <3>2 DEF CheckFolder
  <2>4. QED
    BY <1>5, <2>2, <2>3 DEF CheckFolder
<1>6. CASE setup_webhook
  <2>1. CASE su_config[Conf("webhook", "url")] # "url"
    BY <1>6, <2>1 DEF setup_webhook
  <2>2. CASE su_config[Conf("webhook", "url")] = "url"
    <3> DEFINE key == <<"X-API-Key", su_config[Conf("webhook", "api_key")]>>
               tail == <<key, <<"User-Agent", "agent">>>>
               first == <<<<"Content-Type", "json">>>>
               S == (STRING \X STRING)
                    \cup {key, <<"User-Agent", "agent">>, <<"Content-Type", "json">>}
    <3>1. Loaded
      BY <1>6 DEF setup_webhook
    <3>2. su_config[Headers] \in Seq(STRING \X STRING)
      BY <3>1, LoadedIsFilled
    <3>3. first \in Seq(S) /\ tail \in Seq(S) /\ Len(tail) = 2 /\ tail[1] = key
      OBVIOUS
    <3>4. su_headers' = first \o su_config[Headers] \o tail
      BY <1>6, <2>2 DEF setup_webhook
    <3>5. /\ \A i \in 1 .. Len(su_config[Headers]) : Contains(su_headers', su_config[Headers][i])
          /\ Contains(su_headers', key)
      <4> DEFINE own == su_config[Headers]
      <4> HIDE DEF tail, first, key, own, S
      <4>1. own \in Seq(S) /\ su_headers' = first \o own \o tail
        <5>1. STRING \X STRING \subseteq S
          BY DEF S
        <5>2. QED
          BY <3>2, <3>4, <5>1 DEF own
      <4>2. /\ \A i \in 1 .. Len(own) : Contains(first \o own \o tail, own[i])
            /\ \A i \in 1 .. Len(tail) : Contains(first \o own \o tail, tail[i])
        BY ONLY <3>3, <4>1, ContainsParts
      <4>3. 1 \in 1 .. Len(tail)
        BY ONLY <3>3
      <4>4. Contains(su_headers', key)
        BY ONLY <3>3, <4>1, <4>2, <4>3
      <4>5. QED
        BY <4>1, <4>2, <4>4 DEF own
    <3>6. DOMAIN su_config[Headers] = 1 .. Len(su_config[Headers])
      BY <3>2
    <3>7. UNCHANGED <<su_config, su_tree>>
      BY <1>6 DEF setup_webhook
    <3>8. HeadersInv'
      BY <3>5, <3>6, <3>7
    <3>9. QED
      BY <1>6, <2>2, <3>8 DEF setup_webhook
  <2>3. QED
    BY <2>1, <2>2
<1>7. CASE setup_auth
  <2>1. Loaded
    BY <1>7 DEF setup_auth
  <2>2. ReadAs(Enabled) = {Enabled} /\ Enabled \in BOOLEAN
    BY <2>1, LoadedIsFilled DEF ReadAs, ConfigFields, SectionKeys
  <2>3. QED
    BY <1>7, <2>2 DEF setup_auth
<1>8. CASE createServer
  BY <1>8 DEF createServer
<1>9. CASE config_handle
  <2>1. Loaded
    BY <1>9 DEF config_handle
  <2>2. ReadAs(Enabled) = {Enabled} /\ Enabled \in BOOLEAN
    BY <2>1, LoadedIsFilled DEF ReadAs, ConfigFields, SectionKeys
  <2>3. QED
    BY <1>9, <2>2 DEF config_handle
<1>10. CASE StartServer
  BY <1>10 DEF StartServer
<1>11. CASE StopAndEnd
  BY <1>11 DEF StopAndEnd
<1>12. CASE UNCHANGED startupVars
  BY <1>12 DEF startupVars
<1>13. QED
  BY <1>1, <1>2, <1>3, <1>4, <1>5, <1>6, <1>7, <1>8, <1>9, <1>10, <1>11, <1>12 DEF StartupNext

\* The invariant holds in every behaviour.
LEMMA StartupInvariant == StartupSpec => []StartupInv
  BY StartupInitInv, StartupStepInv, PTL DEF StartupSpec

\* main() keeps its variables in their types, whatever the file holds.
THEOREM StartupTypesHold == StartupSpec => []StartupTypeOK
<1>1. StartupInv => StartupTypeOK
  BY DEF StartupInv
<1>2. QED
  BY <1>1, StartupInvariant, PTL

\* Whatever the command line and the file: the server that runs is the one its
\* file describes, and nothing that is not initialised is used on the way.
THEOREM RunsAsConfigured == StartupSpec => []ServerIsAsConfigured
<1>1. StartupInv => ServerIsAsConfigured
  <2> SUFFICES ASSUME StartupInv PROVE ServerIsAsConfigured
    OBVIOUS
  <2> USE DEF StartupInv, ConfigInv, SetupInv, AfterCheck, AfterHook, AfterAuth
  <2>1. su_pc \in AfterCheck =>
           su_config = decode_config(su_tree) /\ \A k \in ConfigFields : su_config[k] # Garbage
    BY LoadedIsFilled DEF Loaded
  <2>2. su_pc # "crashed"
    OBVIOUS
  <2>3. ASSUME su_pc = "running"
        PROVE  /\ su_routes = AllRoutes /\ {"Logger", "WebHook"} \subseteq su_singletons
               /\ su_authorizes = su_tree[Conf("auth", "enabled")]
               /\ su_authorizes => /\ "AuthHandler" \in su_singletons
                                   /\ su_key = su_tree[Conf("auth", "token")]
    BY <2>3, LoadedIsFilled
  <2>4. ASSUME su_pc = "running", Headers \in DOMAIN su_tree
        PROVE  \A i \in DOMAIN su_tree[Headers] : Contains(su_headers, su_tree[Headers][i])
    BY <2>4, LoadedIsFilled DEF HeadersInv
  <2>5. ASSUME su_pc = "running", Conf("webhook", "api_key") \in DOMAIN su_tree
        PROVE  Contains(su_headers, <<"X-API-Key", su_tree[Conf("webhook", "api_key")]>>)
    BY <2>5, LoadedIsFilled DEF HeadersInv
  <2>6. QED
    BY <2>1, <2>2, <2>3, <2>4, <2>5 DEF ServerIsAsConfigured
<1>2. QED
  BY <1>1, StartupInvariant, PTL

-----------------------------------------------------------------------------
(***************************************************************************)
(* The calculator: its stack is a path of the automaton of parser.y.       *)
(***************************************************************************)
\* The transitions of the automaton of parser.y, by the numbers of its states; an
\* entry above YY_MAX_SHIFT stands for a rule that is complete, or the end.
Follows(s, t) ==
    \/ s \in 0 .. 5 /\ t \in {4, 30}
    \/ s = 0 /\ t \in {7, 22}
    \/ s = 1 /\ t = 9
    \/ s = 2 /\ t = 28
    \/ s = 3 /\ t = 27
    \/ s = 4 /\ t = 6
    \/ s = 5 /\ t = 8
    \/ s \in {6, 7} /\ t \in {1, 2, 3, 5}
    \/ s = 6 /\ t = 25
    \/ s \in {8, 9} /\ t \in {2, 3}

\* A stack is a path of the automaton from its first state.
IsPath(entries) ==
    /\ \E S : entries \in Seq(S)
    /\ Len(entries) \in 1 .. YYSTACKDEPTH
    /\ entries[1].stateno = 0
    /\ \A i \in 1 .. Len(entries) - 1 : Follows(entries[i].stateno, entries[i + 1].stateno)
    /\ \A i \in 1 .. Len(entries) : entries[i].major \in 0 .. 9

\* The parser between two of its steps.
StackPath ==
    /\ IsPath(yystack)
    /\ yytos.stateno = 22 => InParse
    /\ yylook.major \in 0 .. NoToken

\* What the automaton may do with its next token when state t is on top.
ActsOf(t) ==
    CASE t \in 0 .. 5 -> {4, 20, 21}
      [] t = 6 -> {21, 5, 1, 3, 2, 15}
      [] t = 7 -> {21, 5, 1, 3, 2, 24}
      [] t = 8 -> {26, 3, 2}
      [] t = 9 -> {29, 3, 2}
      [] OTHER -> {t}

\* The generated tables of the calculator: where the row of each state begins,
\* and what it does by default.
LEMMA CalcTables ==
    /\ yy_shift_ofst = [i \in 0 .. 9 |-> IF i <= 5 THEN 8 ELSE IF i = 6 THEN 0 ELSE IF i = 7 THEN 7 ELSE 16]
    /\ yy_default = [i \in 0 .. 9 |-> IF i = 8 THEN 26 ELSE IF i = 9 THEN 29 ELSE 21]
  BY DEF Array, yy_shift_ofst, yy_default

\* The symbols the entries are for.
LEMMA CalcLookahead ==
    /\ yy_lookahead[0] = 9 /\ yy_lookahead[1] = 1 /\ yy_lookahead[2] = 2 /\ yy_lookahead[3] = 3
    /\ yy_lookahead[4] = 4 /\ yy_lookahead[5] = 9 /\ yy_lookahead[6] = 6 /\ yy_lookahead[7] = 0
    /\ yy_lookahead[8] = 1 /\ yy_lookahead[9] = 2 /\ yy_lookahead[10] = 3 /\ yy_lookahead[11] = 4
    /\ yy_lookahead[12] = 9 /\ yy_lookahead[13] = 5 /\ yy_lookahead[14] = 9 /\ yy_lookahead[15] = 7
    /\ yy_lookahead[16] = 10 /\ yy_lookahead[17] = 8 /\ yy_lookahead[18] = 9 /\ yy_lookahead[19] = 3
    /\ yy_lookahead[20] = 4 /\ yy_lookahead[21] = 9 /\ yy_lookahead[22] = 10 /\ yy_lookahead[23] = 10
  BY DEF Array, yy_lookahead

\* The entries.
LEMMA CalcActions ==
    /\ DOMAIN yy_action = 0 .. 21
    /\ yy_action[0] = 9 /\ yy_action[1] = 5 /\ yy_action[2] = 1 /\ yy_action[3] = 3 /\ yy_action[4] = 2
    /\ yy_action[5] = 28 /\ yy_action[6] = 15 /\ yy_action[7] = 24 /\ yy_action[8] = 5 /\ yy_action[9] = 1
    /\ yy_action[10] = 3 /\ yy_action[11] = 2 /\ yy_action[12] = 27 /\ yy_action[13] = 4
    /\ yy_action[14] = 6 /\ yy_action[15] = 20 /\ yy_action[17] = 22 /\ yy_action[18] = 7
    /\ yy_action[19] = 3 /\ yy_action[20] = 2 /\ yy_action[21] = 8
  BY DEF Array, yy_action

\* The left side of each rule and the length of its right side.
LEMMA CalcRules ==
    /\ yyRuleInfoLhs[0] = 8 /\ \A r \in 1 .. 6 : yyRuleInfoLhs[r] = 9
    /\ yyRuleInfoNRhs[0] = 1 /\ yyRuleInfoNRhs[6] = 1 /\ \A r \in 1 .. 5 : yyRuleInfoNRhs[r] = 3
  BY DEF Array, yyRuleInfoLhs, yyRuleInfoNRhs

\* Where the row of each state for what follows a reduction begins.
LEMMA CalcGotos ==
    /\ DOMAIN yy_reduce_ofst = 0 .. 5
    /\ yy_reduce_ofst[0] = 9 /\ yy_reduce_ofst[1] = -9 /\ yy_reduce_ofst[2] = -4
    /\ yy_reduce_ofst[3] = 3 /\ yy_reduce_ofst[4] = 5 /\ yy_reduce_ofst[5] = 12
  BY DEF Array, yy_reduce_ofst

\* The state in which an expression has been read leads on when it was awaited.
LEMMA CalcGotoEntries ==
  ASSUME NEW s \in 0 .. 5, NEW g, g = yy_reduce_ofst[s] + 9
  PROVE  /\ g \in 0 .. 21 /\ yy_lookahead[g] = 9
         /\ Follows(s, yy_action[g]) /\ yy_action[g] \in {6, 7, 8, 9, 27, 28}
<1>1. \/ s = 0 /\ g = 18
      \/ s = 1 /\ g = 0
      \/ s = 2 /\ g = 5
      \/ s = 3 /\ g = 12
      \/ s = 4 /\ g = 14
      \/ s = 5 /\ g = 21
  BY CalcGotos
<1>2. /\ g \in 0 .. 21 /\ yy_lookahead[g] = 9
      /\ \/ s = 0 /\ yy_action[g] = 7
         \/ s = 1 /\ yy_action[g] = 9
         \/ s = 2 /\ yy_action[g] = 28
         \/ s = 3 /\ yy_action[g] = 27
         \/ s = 4 /\ yy_action[g] = 6
         \/ s = 5 /\ yy_action[g] = 8
  BY <1>1, CalcLookahead, CalcActions
<1> QED
  BY <1>2 DEF Follows

\* What yy_find_shift_action finds for a token in a state that shifts.
LEMMA ShiftActs ==
  ASSUME NEW a \in 0 .. 7, NEW s \in 0 .. 9
  PROVE  yy_find_shift_action(a, s) \in ActsOf(s)
<1> DEFINE i == yy_shift_ofst[s] + a
<1>1. yy_find_shift_action(a, s) = IF yy_lookahead[i] = a THEN yy_action[i] ELSE yy_default[s]
  BY DEF yy_find_shift_action, YY_MAX_SHIFT
<1>2. CASE s \in 0 .. 5
  <2>1. i = 8 + a /\ yy_default[s] = 21
    BY <1>2, CalcTables
  <2>2. yy_lookahead[i] = a => yy_action[i] \in {4, 20}
    BY <2>1, CalcLookahead, CalcActions
  <2> QED
    BY <1>1, <1>2, <2>1, <2>2 DEF ActsOf
<1>3. CASE s = 6
  <2>1. i = a /\ yy_default[s] = 21
    BY <1>3, CalcTables
  <2>2. yy_lookahead[i] = a => yy_action[i] \in {5, 1, 3, 2, 15}
    BY <2>1, CalcLookahead, CalcActions
  <2> QED
    BY <1>1, <1>3, <2>1, <2>2 DEF ActsOf
<1>4. CASE s = 7
  <2>1. i = 7 + a /\ yy_default[s] = 21
    BY <1>4, CalcTables
  <2>2. yy_lookahead[i] = a => yy_action[i] \in {5, 1, 3, 2, 24}
    BY <2>1, CalcLookahead, CalcActions
  <2> QED
    BY <1>1, <1>4, <2>1, <2>2 DEF ActsOf
<1>5. CASE s \in {8, 9}
  <2>1. i = 16 + a /\ yy_default[s] = (IF s = 8 THEN 26 ELSE 29)
    BY <1>5, CalcTables
  <2>2. yy_lookahead[i] = a => yy_action[i] \in {3, 2}
    BY <2>1, CalcLookahead, CalcActions
  <2> QED
    BY <1>1, <1>5, <2>1, <2>2 DEF ActsOf
<1> QED
  BY <1>2, <1>3, <1>4, <1>5

\* The top of the stack was reached from the state below it.
LEMMA TopState ==
  ASSUME StackPath
  PROVE  /\ yytos = yystack[Len(yystack)]
         /\ yytos.stateno \in 0 .. 9 \cup {22, 25, 27, 28, 30}
         /\ Len(yystack) = 1 => yytos.stateno = 0
         /\ Len(yystack) > 1 => Follows(yystack[Len(yystack) - 1].stateno, yytos.stateno)
<1> DEFINE n == Len(yystack)
<1>1. n \in Nat \ {0} /\ yytos = yystack[n]
  BY StackAssumption DEF StackPath, IsPath, yytos
<1>2. yystack[1].stateno = 0
  BY DEF StackPath, IsPath
<1>3. \A i \in 1 .. n - 1 : Follows(yystack[i].stateno, yystack[i + 1].stateno)
  BY DEF StackPath, IsPath
<1> HIDE DEF n
<1>4. ASSUME n > 1
      PROVE  Follows(yystack[n - 1].stateno, yytos.stateno)
  <2>1. n - 1 \in 1 .. n - 1 /\ n - 1 + 1 = n
    BY <1>1, <1>4
  <2> QED
    BY <1>1, <1>3, <2>1
<1>5. yytos.stateno \in 0 .. 9 \cup {22, 25, 27, 28, 30}
  <2>1. CASE n = 1
    BY <1>1, <1>2, <2>1
  <2>2. CASE n > 1
    BY <1>4, <2>2 DEF Follows
  <2> QED
    BY <1>1, <2>1, <2>2
<1>6. n = 1 => yytos.stateno = 0
  BY <1>1, <1>2
<1> QED
  BY <1>1, <1>4, <1>5, <1>6 DEF n

\* What yy_find_shift_action finds for the top of the stack, when it has rules to
\* reduce too.
LEMMA ActOfTop ==
  ASSUME StackPath, InParse
  PROVE  yyact \in ActsOf(yytos.stateno)
<1>1. yylook.major \in 0 .. 7
  BY DEF StackPath, IsPath, InParse, NoToken
<1>2. yytos.stateno \in 0 .. 9 \cup {22, 25, 27, 28, 30}
  BY TopState
<1>3. CASE yytos.stateno \in 0 .. 9
  BY <1>1, <1>3, ShiftActs DEF yyact
<1>4. CASE yytos.stateno \in {22, 25, 27, 28, 30}
  <2>1. yyact = yytos.stateno
    BY <1>4 DEF yyact, yy_find_shift_action, YY_MAX_SHIFT
  <2> QED
    BY <1>4, <2>1 DEF ActsOf
<1> QED
  BY <1>2, <1>3, <1>4

\* The rule that is reduced, the entry below its right side, and where the table
\* is read for what follows.
Rule == yyact - YY_MIN_REDUCE
Below == Len(yystack) - yyRuleInfoNRhs[Rule]
GotoIndex == yy_reduce_ofst[yystack[Below].stateno] + yyRuleInfoLhs[Rule]

\* When yy_reduce is called, the right side of its rule is on the stack, with a
\* state below it from which the table has an entry for the left side.
LEMMA ReduceFits ==
  ASSUME StackPath, InParse, yyact >= YY_MIN_REDUCE
  PROVE  /\ yyact \in 24 .. 30 /\ Rule \in 0 .. 6
         /\ Below \in 1 .. Len(yystack) - 1
         /\ yystack[Below].stateno \in 0 .. 5
         /\ GotoIndex \in 0 .. 21
         /\ yy_lookahead[GotoIndex] = yyRuleInfoLhs[Rule]
         /\ Follows(yystack[Below].stateno, yy_action[GotoIndex])
         /\ yy_action[GotoIndex] = 22 => yyact = 24
         /\ yy_action[GotoIndex] \notin 10 .. 21
<1> DEFINE n == Len(yystack)
           st(i) == yystack[i].stateno
<1>1. n \in Nat \ {0}
  BY StackAssumption DEF StackPath, IsPath
<1>2. yyact \in ActsOf(yytos.stateno) /\ yytos.stateno \in 0 .. 9 \cup {22, 25, 27, 28, 30} /\ yytos.stateno = st(n)
  BY ActOfTop, TopState
<1>3. \/ st(n) = 7 /\ yyact = 24
      \/ st(n) = 25 /\ yyact = 25
      \/ st(n) = 8 /\ yyact = 26
      \/ st(n) = 27 /\ yyact = 27
      \/ st(n) = 28 /\ yyact = 28
      \/ st(n) = 9 /\ yyact = 29
      \/ st(n) = 30 /\ yyact = 30
  BY <1>2 DEF ActsOf, YY_MIN_REDUCE
<1>4. st(1) = 0
  BY DEF StackPath, IsPath
<1>5. ASSUME NEW k \in 2 .. n
      PROVE  Follows(st(k - 1), st(k))
  <2>1. k - 1 \in 1 .. n - 1 /\ k - 1 + 1 = k
    BY <1>1
  <2> QED
    BY <2>1 DEF StackPath, IsPath
<1>6. n >= 2
  BY <1>1, <1>3, <1>4
<1>7. Follows(st(n - 1), st(n))
  BY <1>1, <1>5, <1>6
<1> HIDE DEF n
<1>8. CASE yyact \in {24, 30}
  <2>1. Rule \in {0, 6} /\ Below = n - 1
    BY <1>8, CalcRules DEF Rule, Below, YY_MIN_REDUCE, n
  <2>2. st(n - 1) \in 0 .. 5 /\ (yyact = 24 => st(n - 1) = 0)
    BY <1>3, <1>7, <1>8 DEF Follows
  <2> QED
    <3>1. GotoIndex = yy_reduce_ofst[st(n - 1)] + yyRuleInfoLhs[Rule]
      BY <2>1 DEF GotoIndex
    <3>2. CASE yyact = 24
      <4>1. Rule = 0 /\ st(n - 1) = 0 /\ GotoIndex = 17
        BY <3>1, <3>2, <2>2, CalcRules, CalcGotos DEF Rule, YY_MIN_REDUCE
      <4> QED
        BY <1>1, <1>6, <2>1, <3>2, <4>1, CalcActions, CalcLookahead, CalcRules DEF Follows, n
    <3>3. CASE yyact = 30
      <4>1. Rule = 6 /\ yyRuleInfoLhs[Rule] = 9
        BY <3>3, CalcRules DEF Rule, YY_MIN_REDUCE
      <4>2. /\ GotoIndex \in 0 .. 21 /\ yy_lookahead[GotoIndex] = 9
            /\ Follows(st(n - 1), yy_action[GotoIndex]) /\ yy_action[GotoIndex] \in {6, 7, 8, 9, 27, 28}
        BY <2>2, <3>1, <4>1, CalcGotoEntries
      <4>3. yystack[Below].stateno = st(n - 1) /\ Below \in 1 .. n - 1 /\ yyact \in 24 .. 30 /\ Rule \in 0 .. 6
        BY <1>1, <1>6, <2>1, <3>3
      <4>4. Below \in 1 .. Len(yystack) - 1
        BY <4>3 DEF n
      <4>5. yy_action[GotoIndex] # 22 /\ yy_action[GotoIndex] \notin 10 .. 21
        BY <4>2
      <4> QED
        BY <2>2, <4>1, <4>2, <4>3, <4>4, <4>5, Zenon
    <3> QED
      BY <1>8, <3>2, <3>3
<1>9. CASE yyact \in {25, 26, 27, 28, 29}
  <2>1. Rule \in 1 .. 5 /\ Below = n - 3
    BY <1>9, CalcRules DEF Rule, Below, YY_MIN_REDUCE, n
  <2>2. st(n - 1) \in 1 .. 6
    BY <1>3, <1>7, <1>9 DEF Follows
  <2>3. n >= 3
    BY <1>1, <1>4, <1>6, <2>2
  <2>4. Follows(st(n - 2), st(n - 1))
    BY <1>1, <1>5, <2>3
  <2>5. st(n - 2) \in {4, 6, 7, 8, 9}
    BY <1>3, <1>7, <1>9, <2>4 DEF Follows
  <2>6. n >= 4
    BY <1>1, <1>4, <2>3, <2>5
  <2>7. Follows(st(n - 3), st(n - 2))
    BY <1>1, <1>5, <2>6
  <2>8. st(n - 3) \in 0 .. 5
    BY <2>5, <2>7 DEF Follows
  <2>9. GotoIndex = yy_reduce_ofst[st(n - 3)] + 9 /\ yyRuleInfoLhs[Rule] = 9
    BY <2>1, CalcRules DEF GotoIndex
  <2>10. /\ GotoIndex \in 0 .. 21 /\ yy_lookahead[GotoIndex] = 9
         /\ Follows(st(n - 3), yy_action[GotoIndex]) /\ yy_action[GotoIndex] \in {6, 7, 8, 9, 27, 28}
    BY <2>8, <2>9, CalcGotoEntries
  <2>11. yystack[Below].stateno = st(n - 3) /\ Below \in 1 .. n - 1 /\ yyact \in 24 .. 30 /\ Rule \in 0 .. 6
    BY <1>1, <1>9, <2>1, <2>6
  <2>12. Below \in 1 .. Len(yystack) - 1
    BY <2>11 DEF n
  <2>13. yy_action[GotoIndex] # 22 /\ yy_action[GotoIndex] \notin 10 .. 21
    BY <2>10
  <2> QED
    BY <2>8, <2>9, <2>10, <2>11, <2>12, <2>13, Zenon
<1> QED
  BY <1>3, <1>8, <1>9

\* A stack cut down to k entries, with one more on it.
LEMMA StackPut ==
  ASSUME NEW S, NEW s \in Seq(S), NEW k \in 1 .. Len(s), NEW e
  PROVE  LET t == Append(SubSeq(s, 1, k), e) IN
         /\ t \in Seq(S \cup {e}) /\ Len(t) = k + 1
         /\ \A i \in 1 .. k : t[i] = s[i]
         /\ t[k + 1] = e
<1> DEFINE u == SubSeq(s, 1, k)
<1>1. k \in Nat /\ k <= Len(s) /\ Len(s) \in Nat
  OBVIOUS
<1>2. u \in Seq(S) /\ Len(u) = k /\ \A i \in 1 .. k : u[i] = s[i]
  BY <1>1, SubSeqProperties
<1> HIDE DEF u
<1>3. u \in Seq(S \cup {e})
  BY <1>2
<1>4. Append(u, e) \in Seq(S \cup {e}) /\ Len(Append(u, e)) = k + 1 /\ Append(u, e)[k + 1] = e
      /\ \A i \in 1 .. k : Append(u, e)[i] = u[i]
  BY <1>1, <1>2, <1>3, AppendProperties
<1> QED
  BY <1>2, <1>4 DEF u

\* The program is accepted when it is all there is on the stack.
LEMMA AcceptsAtTwo ==
  ASSUME StackPath, yytos.stateno = 22
  PROVE  Len(yystack) = 2
<1> DEFINE n == Len(yystack)
<1>1. n \in Nat \ {0}
  BY StackAssumption DEF StackPath, IsPath
<1>2. n # 1 /\ (n > 1 => Follows(yystack[n - 1].stateno, 22))
  BY TopState
<1>3. \A i \in 1 .. n - 1 : Follows(yystack[i].stateno, yystack[i + 1].stateno)
  BY DEF StackPath, IsPath
<1> HIDE DEF n
<1>4. n > 1 /\ yystack[n - 1].stateno = 0
  BY <1>1, <1>2 DEF Follows
<1>5. ASSUME n > 2 PROVE FALSE
  <2>1. n - 2 \in 1 .. n - 1 /\ n - 2 + 1 = n - 1
    BY <1>1, <1>5
  <2>2. Follows(yystack[n - 2].stateno, yystack[n - 1].stateno)
    BY <1>3, <2>1
  <2> QED
    BY <1>4, <2>2 DEF Follows
<1>6. n = 2
  BY <1>1, <1>4, <1>5
<1> QED
  BY <1>6 DEF n

\* A stack that is a path of the automaton never meets an index outside a table, an
\* empty stack or an error that the grammar does not foresee.
LEMMA ParserNeverFails == StackPath => ParserAsserts
<1> SUFFICES ASSUME StackPath PROVE ParserAsserts
  OBVIOUS
<1>1. Len(yystack) \in 1 .. YYSTACKDEPTH
  BY DEF StackPath, IsPath
<1>2. ASSUME InParse PROVE yyact \in 0 .. 9 \cup 14 .. 22 \cup 24 .. 30
  <2>1. yyact \in ActsOf(yytos.stateno) /\ yytos.stateno \in 0 .. 9 \cup {22, 25, 27, 28, 30}
    BY <1>2, ActOfTop, TopState
  <2> QED
    BY <2>1 DEF ActsOf
<1>3. ASSUME InParse, yyact = YY_ACCEPT_ACTION PROVE Len(yystack) = 2
  <2>1. yytos.stateno = 22
    <3>1. yyact \in ActsOf(yytos.stateno) /\ yytos.stateno \in 0 .. 9 \cup {22, 25, 27, 28, 30}
      BY <1>3, ActOfTop, TopState
    <3> QED
      BY <1>3, <3>1 DEF ActsOf, YY_ACCEPT_ACTION
  <2> QED
    BY <2>1, AcceptsAtTwo
<1>4. ASSUME InParse, yyact >= YY_MIN_REDUCE
      PROVE  /\ Below >= 1 /\ yystack[Below].stateno \in DOMAIN yy_reduce_ofst
             /\ GotoIndex \in DOMAIN yy_action /\ yy_lookahead[GotoIndex] = yyRuleInfoLhs[Rule]
             /\ yy_action[GotoIndex] \notin YY_MAX_SHIFT + 1 .. YY_ERROR_ACTION
  BY <1>1, <1>4, ReduceFits, CalcActions, CalcGotos, StackAssumption DEF YY_MAX_SHIFT, YY_ERROR_ACTION
<1> QED
  BY <1>1, <1>2, <1>3, <1>4 DEF ParserAsserts, Rule, Below, GotoIndex, YY_MAX_SHIFT,
     YY_MIN_SHIFTREDUCE, YY_ACCEPT_ACTION, YY_MIN_REDUCE, YY_MAX_REDUCE

\* All of a sequence is the sequence.
LEMMA SubSeqOfWhole ==
  ASSUME NEW S, NEW s \in Seq(S)
  PROVE  SubSeq(s, 1, Len(s)) = s
<1> DEFINE n == Len(s)
           u == SubSeq(s, 1, n)
<1>1. n \in Nat /\ u \in Seq(S) /\ Len(u) = (IF 1 <= n THEN n - 1 + 1 ELSE 0)
      /\ \A i \in 1 .. n - 1 + 1 : u[i] = s[1 + i - 1]
  BY SubSeqProperties
<1> HIDE DEF n, u
<1>2. Len(u) = n /\ \A i \in 1 .. n : u[i] = s[i]
  BY <1>1
<1>3. u = s
  BY <1>1, <1>2, SeqEqual DEF n
<1> QED
  BY <1>3 DEF u, n

\* A path, cut and continued with a state that may follow, is a path.
LEMMA PathGrows ==
  ASSUME NEW s, IsPath(s), NEW k \in 1 .. Len(s), k < YYSTACKDEPTH, NEW e,
         Follows(s[k].stateno, e.stateno), e.major \in 0 .. 9
  PROVE  /\ IsPath(Append(SubSeq(s, 1, k), e))
         /\ LET t == Append(SubSeq(s, 1, k), e) IN t[Len(t)] = e
<1> DEFINE t == Append(SubSeq(s, 1, k), e)
           n == Len(t)
           m == Len(s)
<1>1. PICK S : s \in Seq(S)
  BY DEF IsPath
<1>2. t \in Seq(S \cup {e}) /\ n = k + 1 /\ (\A i \in 1 .. k : t[i] = s[i]) /\ t[k + 1] = e
  BY <1>1, StackPut
<1>3. /\ s[1].stateno = 0
      /\ \A i \in 1 .. m - 1 : Follows(s[i].stateno, s[i + 1].stateno)
      /\ \A i \in 1 .. m : s[i].major \in 0 .. 9
  BY DEF IsPath
<1>4. m \in Nat /\ k \in 1 .. m /\ YYSTACKDEPTH \in Nat
  BY <1>1, StackAssumption
<1> HIDE DEF t, n, m
<1>5. n \in 1 .. YYSTACKDEPTH
  BY <1>2, <1>4
<1>6. t[1].stateno = 0
  BY <1>2, <1>3, <1>4
<1>7. ASSUME NEW i \in 1 .. n - 1 PROVE Follows(t[i].stateno, t[i + 1].stateno)
  <2>1. CASE i < k
    <3>1. i \in 1 .. k /\ i + 1 \in 1 .. k /\ i \in 1 .. m - 1
      BY <1>2, <1>4, <2>1
    <3> QED
      BY <1>2, <1>3, <3>1
  <2>2. CASE i = k
    BY <1>2, <1>4, <2>2
  <2> QED
    BY <1>2, <1>4, <2>1, <2>2
<1>8. ASSUME NEW i \in 1 .. n PROVE t[i].major \in 0 .. 9
  <2>1. CASE i <= k
    <3>1. i \in 1 .. k /\ i \in 1 .. m
      BY <1>2, <1>4, <2>1
    <3> QED
      BY <1>2, <1>3, <3>1
  <2>2. CASE i = k + 1
    BY <1>2, <2>2
  <2> QED
    BY <1>2, <1>4, <2>1, <2>2
<1>9. IsPath(t)
  BY <1>2, <1>5, <1>6, <1>7, <1>8 DEF IsPath, n
<1>10. t[n] = e
  BY <1>2
<1> QED
  BY <1>9, <1>10 DEF t, n

\* The stack of ParseInit is a path of one state.
LEMMA BottomIsPath == IsPath(BottomOfStack)
<1> DEFINE e == [stateno |-> 0, major |-> 0, minor |-> <<>>]
<1>1. BottomOfStack = <<e>>
  BY DEF BottomOfStack
<1>2. e.stateno = 0 /\ e.major = 0
  OBVIOUS
<1> HIDE DEF e
<1> DEFINE b == <<e>>
<1>3. b \in Seq({e}) /\ Len(b) = 1 /\ b[1] = e
  OBVIOUS
<1> HIDE DEF b
<1>4. 1 \in 1 .. YYSTACKDEPTH /\ 1 .. 1 - 1 = {} /\ 0 \in 0 .. 9
  BY StackAssumption
<1>5. \A i \in 1 .. 1 : i = 1
  OBVIOUS
<1>6. IsPath(b)
  BY <1>2, <1>3, <1>4, <1>5 DEF IsPath
<1> QED
  BY <1>1, <1>6 DEF b

\* Its state is the first.
LEMMA BottomTop == yystack = BottomOfStack => yytos.stateno = 0
<1>1. Len(<<[stateno |-> 0, major |-> 0, minor |-> <<>>]>>) = 1
  OBVIOUS
<1> QED
  BY <1>1 DEF BottomOfStack, yytos

\* The parser begins with it.
LEMMA InitStackPath == ParseInit => StackPath
  BY BottomIsPath, BottomTop DEF ParseInit, StackPath, Idle, NoToken

\* A step of Parse() shifts, reduces or stops, and keeps the stack a path.
LEMMA StepStackPath ==
  ASSUME StackPath, ParseStep
  PROVE  StackPath'
<1> DEFINE n == Len(yystack)
<1>1. IsPath(yystack) /\ yylook.major \in 0 .. 8
  BY DEF StackPath, NoToken
<1>2. n \in Nat \ {0} /\ n \in 1 .. n /\ n <= YYSTACKDEPTH /\ YYSTACKDEPTH \in Nat
  BY StackAssumption DEF StackPath, IsPath
<1>3. Idle.major = 8
  BY DEF Idle, NoToken
<1>4. CASE Reduce
  <2>1. InParse /\ yyact >= YY_MIN_REDUCE
    BY <1>4 DEF Reduce
  <2> DEFINE rhs == SubSeq(yystack, Below + 1, Len(yystack))
             e == [stateno |-> yy_find_reduce_action(yystack[Below].stateno, yyRuleInfoLhs[Rule]),
                   major |-> yyRuleInfoLhs[Rule], minor |-> RuleValue(Rule, rhs)]
  <2>2. yystack' = Append(SubSeq(yystack, 1, Below), e) /\ yylook' = yylook
    BY <1>4 DEF Reduce, Rule, Below
  <2>3. e.stateno = yy_action[GotoIndex] /\ e.major = yyRuleInfoLhs[Rule]
    BY DEF yy_find_reduce_action, GotoIndex
  <2> HIDE DEF e, rhs
  <2>4. /\ Rule \in 0 .. 6
        /\ Below \in 1 .. Len(yystack) - 1
        /\ Follows(yystack[Below].stateno, e.stateno)
    BY <2>1, <2>3, ReduceFits
  <2>5. e.major \in 0 .. 9
    BY <2>3, <2>4, CalcRules
  <2>6. Below \in 1 .. Len(yystack) /\ Below < YYSTACKDEPTH
    <3>1. Below \in 1 .. n - 1
      BY <2>4
    <3> HIDE DEF n
    <3>2. Below \in 1 .. n /\ Below < YYSTACKDEPTH
      BY <1>2, <3>1
    <3> QED
      BY <3>2 DEF n
  <2>7. IsPath(yystack')
    BY <1>1, <2>2, <2>4, <2>5, <2>6, PathGrows
  <2>8. InParse'
    BY <2>1, <2>2 DEF InParse
  <2> QED
    BY <1>1, <2>2, <2>7, <2>8 DEF StackPath, NoToken
<1>5. CASE Shift
  <2>1. InParse /\ yyact <= YY_MAX_SHIFTREDUCE /\ yylook' = Idle
    BY <1>5 DEF Shift
  <2>2. yylook.major \in 0 .. 7
    BY <1>1, <2>1 DEF InParse, NoToken
  <2>3. CASE yyStackOverflow
    <3>1. yystack' = BottomOfStack
      BY <2>3 DEF yyStackOverflow
    <3>2. IsPath(yystack')
      BY <3>1, BottomIsPath
    <3>3. yytos'.stateno = 0
      <4>1. Len(<<[stateno |-> 0, major |-> 0, minor |-> <<>>]>>) = 1
        OBVIOUS
      <4> QED
        BY <3>1, <4>1 DEF BottomOfStack, yytos
    <3> QED
      BY <1>3, <2>1, <3>2, <3>3 DEF StackPath, NoToken
  <2>4. CASE yy_shift
    <3> DEFINE e == [stateno |-> IF yyact > YY_MAX_SHIFT
                       THEN yyact + YY_MIN_REDUCE - YY_MIN_SHIFTREDUCE ELSE yyact,
                     major |-> yylook.major, minor |-> yylook.minor]
    <3>1. Len(yystack) < YYSTACKDEPTH /\ yystack' = Append(yystack, e)
      BY <2>4 DEF yy_shift
    <3>2. e.major = yylook.major
          /\ e.stateno = IF yyact > 9 THEN yyact + 24 - 14 ELSE yyact
      BY DEF YY_MAX_SHIFT, YY_MIN_REDUCE, YY_MIN_SHIFTREDUCE
    <3> HIDE DEF e
    <3>3. yyact \in ActsOf(yytos.stateno) /\ yytos.stateno \in 0 .. 9 \cup {22, 25, 27, 28, 30}
      BY <2>1, ActOfTop, TopState
    <3>4. Follows(yytos.stateno, e.stateno) /\ e.stateno # 22
      <4>1. \/ yytos.stateno \in 0 .. 5 /\ yyact \in {4, 20}
            \/ yytos.stateno = 6 /\ yyact \in {1, 2, 3, 5, 15}
            \/ yytos.stateno = 7 /\ yyact \in {1, 2, 3, 5}
            \/ yytos.stateno \in {8, 9} /\ yyact \in {2, 3}
        BY <2>1, <3>3 DEF ActsOf, YY_MAX_SHIFTREDUCE
      <4> QED
        BY <3>2, <4>1 DEF Follows
    <3>5. SubSeq(yystack, 1, n) = yystack
      <4>1. PICK S : yystack \in Seq(S)
        BY <1>1 DEF IsPath
      <4> QED
        BY <4>1, SubSeqOfWhole
    <3>6. yytos = yystack[n] /\ n < YYSTACKDEPTH
      BY <3>1 DEF yytos
    <3>7. IsPath(Append(yystack, e)) /\ Append(yystack, e)[Len(Append(yystack, e))] = e
      <4>1. e.major \in 0 .. 9
        BY <2>2, <3>2
      <4>2. Follows(yystack[n].stateno, e.stateno)
        BY <3>4, <3>6
      <4>3. n \in 1 .. Len(yystack) /\ n < YYSTACKDEPTH
        BY <1>2, <3>6
      <4> HIDE DEF n
      <4>4. IsPath(Append(SubSeq(yystack, 1, n), e))
            /\ LET t == Append(SubSeq(yystack, 1, n), e) IN t[Len(t)] = e
        BY <1>1, <4>1, <4>2, <4>3, PathGrows
      <4> QED
        BY <3>5, <4>4
    <3>8. IsPath(yystack') /\ yytos' = e
      BY <3>1, <3>7 DEF yytos
    <3> QED
      BY <1>3, <2>1, <3>4, <3>8 DEF StackPath, NoToken
  <2> QED
    BY <1>5, <2>3, <2>4 DEF Shift
<1>6. CASE Accept
  <2>1. InParse /\ yyact = YY_ACCEPT_ACTION /\ yylook' = Idle
        /\ yystack' = SubSeq(yystack, 1, Len(yystack) - 1)
    BY <1>6 DEF Accept, yy_pop_parser_stack
  <2>2. Len(yystack) = 2
    BY <2>1, ParserNeverFails DEF ParserAsserts
  <2>3. PICK S : yystack \in Seq(S)
    BY <1>1 DEF IsPath
  <2>4. yystack' = SubSeq(yystack, 1, 1)
    BY <2>1, <2>2
  <2>5. yystack' \in Seq(S) /\ Len(yystack') = 1 /\ yystack'[1] = yystack[1]
    BY <2>2, <2>3, <2>4, SubSeqProperties
  <2>6. yystack[1].stateno = 0 /\ yystack[1].major \in 0 .. 9
    BY <1>1, <2>2 DEF IsPath
  <2>7. 1 \in 1 .. YYSTACKDEPTH /\ 1 .. 1 - 1 = {}
    BY <1>2
  <2>8. IsPath(yystack') /\ yytos'.stateno = 0
    BY <2>5, <2>6, <2>7 DEF IsPath, yytos
  <2> QED
    BY <1>3, <2>1, <2>8 DEF StackPath, NoToken
<1>7. CASE SyntaxError
  <2>1. InParse /\ yyact = YY_ERROR_ACTION /\ yylook' = Idle
        /\ (yystack' = BottomOfStack \/ yystack' = yystack)
    BY <1>7 DEF SyntaxError
  <2>2. IsPath(yystack')
    BY <1>1, <2>1, BottomIsPath
  <2>3. yytos.stateno # 22
    <3>1. yyact \in ActsOf(yytos.stateno)
      BY <2>1, ActOfTop
    <3> QED
      BY <2>1, <3>1 DEF ActsOf, YY_ERROR_ACTION
  <2>4. yytos'.stateno # 22
    <3>1. CASE yystack' = yystack
      BY <2>3, <3>1 DEF yytos
    <3>2. CASE yystack' = BottomOfStack
      <4>1. Len(<<[stateno |-> 0, major |-> 0, minor |-> <<>>]>>) = 1
        OBVIOUS
      <4> QED
        BY <3>2, <4>1 DEF BottomOfStack, yytos
    <3> QED
      BY <2>1, <3>1, <3>2
  <2> QED
    BY <1>3, <2>1, <2>2, <2>4 DEF StackPath, NoToken
<1> QED
  BY <1>4, <1>5, <1>6, <1>7 DEF ParseStep

\* What the scanner keeps of the text it has looked at.
ScanInv ==
    /\ yyerrcnt \in Int /\ yyerrcnt <= 3
    /\ calc_text \in Seq(CalcChars) /\ calc_p \in 1 .. Len(calc_text) + 1
    /\ ts \in 1 .. calc_p /\ te \in 1 .. calc_p
    /\ scan_cs \in 0 .. 4 /\ (scan_cs \in {1, 3, 4} => ts <= te)
    /\ calc_eof \in BOOLEAN /\ overflowed \in BOOLEAN

\* The stack is a path, and what has been scanned is within the text.
CalcInv == StackPath /\ ScanInv

\* The calculator begins with its invariant.
LEMMA InitCalcInv == CalcInit => CalcInv
<1> SUFFICES ASSUME CalcInit PROVE CalcInv
  OBVIOUS
<1>1. StackPath
  BY InitStackPath DEF CalcInit
<1> DEFINE e == <<>>
<1>2. calc_text = e /\ Len(e) = 0 /\ e \in Seq(CalcChars)
  BY DEF CalcInit
<1> HIDE DEF e
<1>3. calc_text \in Seq(CalcChars) /\ 1 \in 1 .. Len(calc_text) + 1
  BY <1>2
<1>4. /\ yyerrcnt = -1 /\ overflowed = FALSE /\ calc_p = 1 /\ calc_eof = FALSE
      /\ scan_cs = 2 /\ ts = 1 /\ te = 1
  BY DEF CalcInit, ParseInit
<1>5. /\ yyerrcnt \in Int /\ yyerrcnt <= 3 /\ calc_p \in 1 .. Len(calc_text) + 1
      /\ ts \in 1 .. calc_p /\ te \in 1 .. calc_p
      /\ scan_cs \in 0 .. 4 /\ (scan_cs \in {1, 3, 4} => ts <= te)
  BY <1>3, <1>4
<1>6. calc_eof \in BOOLEAN /\ overflowed \in BOOLEAN
  BY <1>4
<1> QED
  BY <1>1, <1>3, <1>5, <1>6, Zenon DEF CalcInv, ScanInv

\* Reading a character keeps the text one, and the position within it.
LEMMA ReadCharText ==
  ASSUME ScanInv, NEW c \in CalcChars, ReadChar(c)
  PROVE  /\ calc_text' \in Seq(CalcChars) /\ Len(calc_text') \in Nat
         /\ calc_p <= Len(calc_text') /\ calc_p \in Nat /\ calc_p >= 1
<1> DEFINE n == Len(calc_text)
<1>1. calc_text \in Seq(CalcChars) /\ n \in Nat /\ calc_p \in 1 .. n + 1
  BY DEF ScanInv
<1>2. CASE calc_p <= n /\ UNCHANGED calc_text
  BY <1>1, <1>2
<1>3. CASE calc_p = n + 1 /\ calc_text' = Append(calc_text, c)
  <2>1. calc_text' \in Seq(CalcChars) /\ Len(calc_text') = n + 1
    BY <1>1, <1>3, AppendProperties
  <2> HIDE DEF n
  <2> QED
    BY <1>1, <1>3, <2>1
<1> QED
  BY <1>2, <1>3 DEF ReadChar

\* Every step keeps the invariant of the calculator.
LEMMA StepCalcInv == CalcInv /\ [CalcNext]_calcVars => CalcInv'
<1> SUFFICES ASSUME CalcInv, [CalcNext]_calcVars PROVE CalcInv'
  OBVIOUS
<1> USE DEF CalcInv
<1>1. yyerrcnt \in Int /\ yyerrcnt <= 3 /\ overflowed \in BOOLEAN
  BY DEF ScanInv
<1>2. CASE UNCHANGED calcVars
  BY <1>2 DEF calcVars, parserVars, scannerVars, StackPath, ScanInv, yytos, InParse
<1>3. CASE ParseStep /\ UNCHANGED scannerVars
  <2>1. StackPath'
    BY <1>3, StepStackPath
  <2>2. yyerrcnt' \in Int /\ yyerrcnt' <= 3 /\ overflowed' \in BOOLEAN
    <3>1. \/ yyerrcnt' = yyerrcnt
          \/ yyerrcnt' = yyerrcnt - 1
          \/ yyerrcnt' = -1
          \/ yyerrcnt' = 3
      BY <1>3 DEF ParseStep, Reduce, Shift, Accept, SyntaxError
    <3>2. overflowed' = overflowed \/ overflowed' = TRUE
      BY <1>3 DEF ParseStep, Reduce, Shift, Accept, SyntaxError, yyStackOverflow, yy_shift
    <3>3. yyerrcnt' \in Int /\ yyerrcnt' <= 3
      BY <1>1, <3>1
    <3>4. overflowed' \in BOOLEAN
      BY <1>1, <3>2, Zenon
    <3> QED
      BY <3>3, <3>4
  <2> QED
    BY <1>3, <2>1, <2>2 DEF scannerVars, ScanInv
<1>4. CASE NextStatement
  <2>1. ScanInv'
    BY <1>4 DEF NextStatement, ScanInv
  <2>2. StackPath'
    BY <1>4 DEF NextStatement, StackPath, yytos, InParse
  <2> QED
    BY <2>1, <2>2
<1>5. CASE Scan
  <2>1. ~InParse
    BY <1>5 DEF Scan, ScanSymbol, ScanSpace, ScanDigit, ScanPoint, ScanNumber, ScanBack, ScanError,
       EndOfFile, Scanning
  <2>2. UNCHANGED <<yystack, yyerrcnt, overflowed>>
    BY <1>5 DEF Scan, ScanSymbol, ScanSpace, ScanDigit, ScanPoint, ScanNumber, ScanBack, ScanError,
       EndOfFile, Emit, parserVars
  <2>3. yylook'.major \in 0 .. 8
    <3>1. yylook.major \in 0 .. 8
      BY DEF StackPath, NoToken
    <3>2. CASE UNCHANGED yylook
      BY <3>1, <3>2
    <3>3. CASE \E c \in Symbols \cup {EndOfInput} : Emit(c, <<>>)
      <4>1. PICK c \in Symbols \cup {EndOfInput} : yylook' = [major |-> c, minor |-> <<>>]
        BY <3>3 DEF Emit
      <4>2. c \in 0 .. 8
        BY FileAssumption DEF EndOfInput, PLUS, CLOSEP
      <4> QED
        BY <4>1, <4>2
    <3>4. CASE \E minor : Emit(DOUBLE, minor)
      <4>1. PICK minor : yylook' = [major |-> 7, minor |-> minor]
        BY <3>4 DEF Emit, DOUBLE
      <4> QED
        BY <4>1
    <3>5. \/ UNCHANGED yylook
          \/ \E c \in Symbols \cup {EndOfInput} : Emit(c, <<>>)
          \/ Emit(DOUBLE, <<ts, calc_p>>)
          \/ Emit(DOUBLE, <<ts, te>>)
      BY <1>5 DEF Scan, ScanSymbol, ScanSpace, ScanDigit, ScanPoint, ScanNumber, ScanBack, ScanError,
         EndOfFile, parserVars
    <3> QED
      BY <3>2, <3>3, <3>4, <3>5
  <2>4. StackPath'
    <3>1. yytos.stateno # 22
      BY <2>1 DEF StackPath
    <3> QED
      BY <2>2, <2>3, <3>1 DEF StackPath, yytos, NoToken
  <2>5. /\ Symbols \cup {EndOfInput} \subseteq CalcChars /\ Space \in CalcChars /\ Digit \in CalcChars
        /\ {Point, Other} \subseteq CalcChars
    BY DEF CalcChars
  <2> DEFINE n == Len(calc_text)
             m == Len(calc_text')
             Looked == calc_text' \in Seq(CalcChars) /\ m \in Nat /\ calc_p <= m /\ calc_p \in Nat /\ calc_p >= 1
  <2>6. /\ calc_text \in Seq(CalcChars) /\ n \in Nat /\ calc_p \in 1 .. n + 1
        /\ ts \in 1 .. calc_p /\ te \in 1 .. calc_p
        /\ scan_cs \in 0 .. 4 /\ (scan_cs \in {1, 3, 4} => ts <= te)
        /\ calc_eof \in BOOLEAN
    BY DEF ScanInv
  <2>7. ASSUME NEW c \in CalcChars, ReadChar(c) PROVE Looked
    BY <2>7, ReadCharText
  <2> HIDE DEF n
  <2>8. ASSUME UNCHANGED calc_text PROVE m = n /\ calc_text' \in Seq(CalcChars)
    BY <2>6, <2>8 DEF n
  <2> DEFINE Fits == /\ calc_text' \in Seq(CalcChars) /\ calc_p' \in 1 .. m + 1
                     /\ ts' \in 1 .. calc_p' /\ te' \in 1 .. calc_p'
                     /\ scan_cs' \in 0 .. 4 /\ (scan_cs' \in {1, 3, 4} => ts' <= te')
                     /\ calc_eof' \in BOOLEAN
  <2>9. Fits => ScanInv'
    BY <1>1, <2>2 DEF ScanInv
  <2> HIDE DEF m
  <2>10. CASE ScanSymbol
    <3>1. Looked
      BY <2>5, <2>7, <2>10 DEF ScanSymbol
    <3> QED
      BY <2>4, <2>6, <2>9, <2>10, <3>1 DEF ScanSymbol
  <2>11. CASE ScanSpace
    <3>1. Looked
      BY <2>5, <2>7, <2>11 DEF ScanSpace
    <3> QED
      BY <2>4, <2>6, <2>9, <2>11, <3>1 DEF ScanSpace
  <2>12. CASE ScanDigit
    <3>1. Looked
      BY <2>5, <2>7, <2>12 DEF ScanDigit
    <3> QED
      <4>1. /\ scan_cs' = IF scan_cs \in {2, 3} THEN 3 ELSE 4
            /\ ts' = IF scan_cs = 2 THEN calc_p ELSE ts
            /\ te' = IF scan_cs \in {2, 3} THEN calc_p + 1 ELSE te
            /\ calc_p' = calc_p + 1 /\ calc_eof' = calc_eof /\ scan_cs # 0
        BY <2>12 DEF ScanDigit, Scanning
      <4>2. calc_p' \in 1 .. m + 1
        BY <3>1, <4>1
      <4>3. ts' \in 1 .. calc_p' /\ te' \in 1 .. calc_p' /\ ts' <= te'
        <5>1. CASE scan_cs = 2
          BY <2>6, <4>1, <5>1
        <5>2. CASE scan_cs = 3
          BY <2>6, <4>1, <5>2
        <5>3. CASE scan_cs \in {1, 4}
          BY <2>6, <4>1, <5>3
        <5> QED
          BY <2>6, <4>1, <5>1, <5>2, <5>3
      <4>4. scan_cs' \in 0 .. 4 /\ calc_eof' \in BOOLEAN
        BY <2>6, <4>1
      <4> QED
        BY <2>4, <2>9, <3>1, <4>2, <4>3, <4>4
  <2>13. CASE ScanPoint
    <3>1. calc_text' \in Seq(CalcChars) /\ m \in Nat /\ calc_p <= m
      BY <2>13, ReadCharText DEF ScanPoint, CalcChars, m
    <3> QED
      BY <2>4, <2>6, <2>9, <2>13, <3>1 DEF ScanPoint
  <2>14. CASE ScanNumber
    <3>1. Looked \/ (UNCHANGED calc_text /\ n = m /\ calc_text' \in Seq(CalcChars))
      BY <2>7, <2>8, <2>14 DEF ScanNumber
    <3> QED
      BY <2>4, <2>6, <2>9, <2>14, <3>1 DEF ScanNumber
  <2>15. CASE ScanBack
    <3>1. Looked \/ (UNCHANGED calc_text /\ n = m /\ calc_text' \in Seq(CalcChars))
      BY <2>7, <2>8, <2>15 DEF ScanBack
    <3> QED
      BY <2>4, <2>6, <2>9, <2>15, <3>1 DEF ScanBack
  <2>16. CASE ScanError
    <3>1. Looked
      BY <2>5, <2>7, <2>16 DEF ScanError
    <3> QED
      BY <2>4, <2>6, <2>9, <2>16, <3>1 DEF ScanError
  <2>17. CASE EndOfFile
    <3>1. n = m /\ calc_text' \in Seq(CalcChars)
      BY <2>8, <2>17 DEF EndOfFile
    <3> QED
      BY <2>4, <2>6, <2>9, <2>17, <3>1 DEF EndOfFile
  <2> QED
    BY <1>5, <2>10, <2>11, <2>12, <2>13, <2>14, <2>15, <2>16, <2>17 DEF Scan
<1> QED
  BY <1>2, <1>3, <1>4, <1>5 DEF CalcNext

\* It says what the generated parser asserts.
LEMMA CalcSafe == CalcInv => CalcTypeOK /\ ParserAsserts
<1> SUFFICES ASSUME CalcInv PROVE CalcTypeOK /\ ParserAsserts
  OBVIOUS
<1>1. ParserAsserts
  BY ParserNeverFails DEF CalcInv
<1> DEFINE n == Len(yystack)
<1>2. DOMAIN yystack = 1 .. n
  BY DEF CalcInv, StackPath, IsPath
<1>3. n \in Nat \ {0} /\ yystack[1].stateno = 0
      /\ (\A i \in 1 .. n - 1 : Follows(yystack[i].stateno, yystack[i + 1].stateno))
      /\ (\A i \in 1 .. n : yystack[i].major \in 0 .. 9)
  BY StackAssumption DEF CalcInv, StackPath, IsPath
<1> HIDE DEF n
<1>4. ASSUME NEW i \in 1 .. n PROVE yystack[i].stateno \in 0 .. 30
  <2>1. CASE i = 1
    BY <1>3, <2>1
  <2>2. CASE i # 1
    <3>1. i - 1 \in 1 .. n - 1 /\ i - 1 + 1 = i
      BY <1>3, <2>2
    <3>2. Follows(yystack[i - 1].stateno, yystack[i].stateno)
      BY <1>3, <3>1
    <3> QED
      BY <3>2 DEF Follows
  <2> QED
    BY <2>1, <2>2
<1> QED
  BY <1>1, <1>2, <1>3, <1>4 DEF CalcTypeOK, CalcInv, StackPath, ScanInv, YY_MAX_REDUCE

-----------------------------------------------------------------------------
(***************************************************************************)
(* The header parser: its marks lie before the position it has come to.    *)
(* FoldLeft is taken apart first: it goes by the greatest index.           *)
(***************************************************************************)
\* The function that the fold over the first characters is taken from.
IsCharacterFold(f, base, s) ==
    f = [t \in SUBSET DOMAIN s |->
           IF t = {} THEN base ELSE Character(f[t \ {Max(t)}], s[Max(t)])]

\* The function that the fold over the first actions is taken from.
IsActFold(f, base, acts, p) ==
    f = [t \in SUBSET DOMAIN acts |->
           IF t = {} THEN base ELSE Act(f[t \ {Max(t)}], acts[Max(t)], p)]

\* A fold is the value, at the set of all its indices, of the function that is
\* defined by taking the greatest index away.
LEMMA CharacterFold ==
  ASSUME NEW base, NEW s
  PROVE  FoldLeft(Character, base, s) = (CHOOSE f : IsCharacterFold(f, base, s))[DOMAIN s]
  BY DEF FoldLeft, MapThenFoldSet, IsCharacterFold

\* The same for the actions of an edge.
LEMMA ActFold ==
  ASSUME NEW base, NEW acts, NEW p
  PROVE  Acted(base, acts, p)
            = (CHOOSE f : IsActFold(f, base, acts, p))[DOMAIN acts]
  BY DEF Acted, FoldLeft, MapThenFoldSet, IsActFold

\* There is such a function: it is built for the sets of the first k indices, one
\* index at a time.
LEMMA CharacterFoldExists ==
  ASSUME NEW base, NEW N \in Nat, NEW s, DOMAIN s = 1 .. N
  PROVE  \E f : IsCharacterFold(f, base, s)
<1> DEFINE IsPart(f, k) == f = [t \in SUBSET (1 .. k) |->
                             IF t = {} THEN base ELSE Character(f[t \ {Max(t)}], s[Max(t)])]
           T == {k \in 0 .. N : \E f : IsPart(f, k)}
<1>1. 0 \in T
  <2>1. SUBSET (1 .. 0) = {{}} /\ 0 \in 0 .. N
    OBVIOUS
  <2>2. IsPart([t \in SUBSET (1 .. 0) |-> base], 0)
    BY <2>1, Zenon
  <2> QED
    BY <2>1, <2>2
<1>2. ASSUME NEW k \in 0 .. N - 1, k \in T PROVE k + 1 \in T
  <2>1. PICK f : IsPart(f, k)
    BY <1>2
  <2> DEFINE g == [t \in SUBSET (1 .. k + 1) |->
                     IF k + 1 \in t THEN Character(f[t \ {k + 1}], s[k + 1]) ELSE f[t]]
  <2>2. ASSUME NEW t \in SUBSET (1 .. k + 1)
        PROVE  g[t] = IF t = {} THEN base ELSE Character(g[t \ {Max(t)}], s[Max(t)])
    <3>1. CASE k + 1 \in t
      <4>1. Max(t) = k + 1
        BY <3>1, MaxOfUpTo
      <4>2. t \ {k + 1} \in SUBSET (1 .. k) /\ t \ {k + 1} \in SUBSET (1 .. k + 1) /\ t # {}
            /\ k + 1 \notin t \ {k + 1}
        BY <3>1
      <4>3. g[t \ {k + 1}] = f[t \ {k + 1}]
        BY <4>2
      <4>4. g[t] = Character(f[t \ {k + 1}], s[k + 1])
        BY <3>1
      <4> QED
        BY <4>1, <4>2, <4>3, <4>4, Zenon
    <3>2. CASE k + 1 \notin t
      <4>1. t \in SUBSET (1 .. k)
        BY <3>2
      <4>2. g[t] = f[t]
        BY <3>2
      <4>3. f[t] = IF t = {} THEN base ELSE Character(f[t \ {Max(t)}], s[Max(t)])
        BY <2>1, <4>1
      <4>4. t \ {Max(t)} \in SUBSET (1 .. k + 1) /\ k + 1 \notin t \ {Max(t)}
        BY <3>2
      <4>5. g[t \ {Max(t)}] = f[t \ {Max(t)}]
        BY <4>4, Zenon
      <4> QED
        BY <4>2, <4>3, <4>5, Zenon
    <3> QED
      BY <3>1, <3>2
  <2>3. IsPart(g, k + 1)
    BY <2>2
  <2>4. k + 1 \in 0 .. N
    OBVIOUS
  <2> HIDE DEF g
  <2> QED
    BY <2>3, <2>4
<1> HIDE DEF T
<1>3. N \in T
  <2>1. \A k \in 0 .. (N - 1) : k \in T => k + 1 \in T
    BY <1>2
  <2>2. 0 .. N \subseteq T
    BY <1>1, <2>1, UpTo
  <2> QED
    BY <2>2
<1> QED
  BY <1>3 DEF T, IsCharacterFold

\* f[k] is the run after k characters.
CharacterSteps(f, base, s, N) ==
    /\ f[0] = base
    /\ \A k \in 0 .. N - 1 : f[k + 1] = Character(f[k], s[k + 1])
    /\ FoldLeft(Character, base, s) = f[N]

\* f[k] is the run after k actions.
ActSteps(f, base, s, p, N) ==
    /\ f[0] = base
    /\ \A k \in 0 .. N - 1 : f[k + 1] = Act(f[k], s[k + 1], p)
    /\ Acted(base, s, p) = f[N]

\* A run of the machine is a fold that takes one character after the other.
LEMMA CharacterFoldSteps ==
  ASSUME NEW base, NEW N \in Nat, NEW s, DOMAIN s = 1 .. N
  PROVE  \E f : CharacterSteps(f, base, s, N)
<1> DEFINE g == CHOOSE f : IsCharacterFold(f, base, s)
           f == [k \in 0 .. N |-> g[1 .. k]]
<1>1. IsCharacterFold(g, base, s)
  BY CharacterFoldExists
<1>2. FoldLeft(Character, base, s) = g[1 .. N]
  BY CharacterFold
<1>3. \A t \in SUBSET (1 .. N) :
         g[t] = IF t = {} THEN base ELSE Character(g[t \ {Max(t)}], s[Max(t)])
  <2> HIDE DEF g
  <2> QED
    BY <1>1 DEF IsCharacterFold
<1> HIDE DEF g
<1>4. f[0] = base
  <2>1. 1 .. 0 = {} /\ {} \in SUBSET (1 .. N) /\ 0 \in 0 .. N
    OBVIOUS
  <2>2. f[0] = g[1 .. 0]
    BY <2>1
  <2> QED
    BY <1>3, <2>1, <2>2, Zenon
<1>5. ASSUME NEW k \in 0 .. N - 1
      PROVE  f[k + 1] = Character(f[k], s[k + 1])
  <2>1. k + 1 \in 1 .. k + 1 /\ 1 .. k + 1 \in SUBSET (1 .. k + 1)
    OBVIOUS
  <2>2. Max(1 .. k + 1) = k + 1
    BY <2>1, MaxOfUpTo
  <2>3. 1 .. k + 1 \in SUBSET (1 .. N) /\ 1 .. k + 1 # {}
    BY <2>1
  <2>4. (1 .. k + 1) \ {k + 1} = 1 .. k
    OBVIOUS
  <2>5. g[1 .. k + 1] = Character(g[1 .. k], s[k + 1])
    BY <1>3, <2>2, <2>3, <2>4, Zenon
  <2>6. k \in 0 .. N /\ k + 1 \in 0 .. N
    OBVIOUS
  <2> QED
    BY <2>5, <2>6, Zenon
<1>6. FoldLeft(Character, base, s) = f[N]
  BY <1>2
<1> HIDE DEF f
<1> QED
  BY <1>4, <1>5, <1>6 DEF CharacterSteps

\* The same for the actions of an edge.
LEMMA ActFoldExists ==
  ASSUME NEW base, NEW p, NEW N \in Nat, NEW s, DOMAIN s = 1 .. N
  PROVE  \E f : IsActFold(f, base, s, p)
<1> DEFINE IsPart(f, k) == f = [t \in SUBSET (1 .. k) |->
                             IF t = {} THEN base ELSE Act(f[t \ {Max(t)}], s[Max(t)], p)]
           T == {k \in 0 .. N : \E f : IsPart(f, k)}
<1>1. 0 \in T
  <2>1. SUBSET (1 .. 0) = {{}} /\ 0 \in 0 .. N
    OBVIOUS
  <2>2. IsPart([t \in SUBSET (1 .. 0) |-> base], 0)
    BY <2>1, Zenon
  <2> QED
    BY <2>1, <2>2
<1>2. ASSUME NEW k \in 0 .. N - 1, k \in T PROVE k + 1 \in T
  <2>1. PICK f : IsPart(f, k)
    BY <1>2
  <2> DEFINE g == [t \in SUBSET (1 .. k + 1) |->
                     IF k + 1 \in t THEN Act(f[t \ {k + 1}], s[k + 1], p) ELSE f[t]]
  <2>2. ASSUME NEW t \in SUBSET (1 .. k + 1)
        PROVE  g[t] = IF t = {} THEN base ELSE Act(g[t \ {Max(t)}], s[Max(t)], p)
    <3>1. CASE k + 1 \in t
      <4>1. Max(t) = k + 1
        BY <3>1, MaxOfUpTo
      <4>2. t \ {k + 1} \in SUBSET (1 .. k) /\ t \ {k + 1} \in SUBSET (1 .. k + 1) /\ t # {}
            /\ k + 1 \notin t \ {k + 1}
        BY <3>1
      <4>3. g[t \ {k + 1}] = f[t \ {k + 1}]
        BY <4>2
      <4>4. g[t] = Act(f[t \ {k + 1}], s[k + 1], p)
        BY <3>1
      <4> QED
        BY <4>1, <4>2, <4>3, <4>4, Zenon
    <3>2. CASE k + 1 \notin t
      <4>1. t \in SUBSET (1 .. k)
        BY <3>2
      <4>2. g[t] = f[t]
        BY <3>2
      <4>3. f[t] = IF t = {} THEN base ELSE Act(f[t \ {Max(t)}], s[Max(t)], p)
        BY <2>1, <4>1
      <4>4. t \ {Max(t)} \in SUBSET (1 .. k + 1) /\ k + 1 \notin t \ {Max(t)}
        BY <3>2
      <4>5. g[t \ {Max(t)}] = f[t \ {Max(t)}]
        BY <4>4, Zenon
      <4> QED
        BY <4>2, <4>3, <4>5, Zenon
    <3> QED
      BY <3>1, <3>2
  <2>3. IsPart(g, k + 1)
    BY <2>2
  <2>4. k + 1 \in 0 .. N
    OBVIOUS
  <2> HIDE DEF g
  <2> QED
    BY <2>3, <2>4
<1> HIDE DEF T
<1>3. N \in T
  <2>1. \A k \in 0 .. (N - 1) : k \in T => k + 1 \in T
    BY <1>2
  <2>2. 0 .. N \subseteq T
    BY <1>1, <2>1, UpTo
  <2> QED
    BY <2>2
<1> QED
  BY <1>3 DEF T, IsActFold

\* They are taken one after the other.
LEMMA ActFoldSteps ==
  ASSUME NEW base, NEW p, NEW N \in Nat, NEW s, DOMAIN s = 1 .. N
  PROVE  \E f : ActSteps(f, base, s, p, N)
<1> DEFINE g == CHOOSE f : IsActFold(f, base, s, p)
           f == [k \in 0 .. N |-> g[1 .. k]]
<1>1. IsActFold(g, base, s, p)
  BY ActFoldExists
<1>2. Acted(base, s, p) = g[1 .. N]
  BY ActFold
<1>3. \A t \in SUBSET (1 .. N) :
         g[t] = IF t = {} THEN base ELSE Act(g[t \ {Max(t)}], s[Max(t)], p)
  <2> HIDE DEF g
  <2> QED
    BY <1>1 DEF IsActFold
<1> HIDE DEF g
<1>4. f[0] = base
  <2>1. 1 .. 0 = {} /\ {} \in SUBSET (1 .. N) /\ 0 \in 0 .. N
    OBVIOUS
  <2>2. f[0] = g[1 .. 0]
    BY <2>1
  <2> QED
    BY <1>3, <2>1, <2>2, Zenon
<1>5. ASSUME NEW k \in 0 .. N - 1
      PROVE  f[k + 1] = Act(f[k], s[k + 1], p)
  <2>1. k + 1 \in 1 .. k + 1 /\ 1 .. k + 1 \in SUBSET (1 .. k + 1)
    OBVIOUS
  <2>2. Max(1 .. k + 1) = k + 1
    BY <2>1, MaxOfUpTo
  <2>3. 1 .. k + 1 \in SUBSET (1 .. N) /\ 1 .. k + 1 # {}
    BY <2>1
  <2>4. (1 .. k + 1) \ {k + 1} = 1 .. k
    OBVIOUS
  <2>5. g[1 .. k + 1] = Act(g[1 .. k], s[k + 1], p)
    BY <1>3, <2>2, <2>3, <2>4, Zenon
  <2>6. k \in 0 .. N /\ k + 1 \in 0 .. N
    OBVIOUS
  <2> QED
    BY <2>5, <2>6, Zenon
<1>6. Acted(base, s, p) = f[N]
  BY <1>2
<1> HIDE DEF f
<1> QED
  BY <1>4, <1>5, <1>6 DEF ActSteps

\* The actions that leave the start and the length of a field alone.
Spoken == {"request_method", "request_uri", "fragment", "request_path", "http_version", "query_string"}
PlainActs == {"mark", "start_query", "http_field", "done"} \cup Spoken

\* The states in which no name of a field is being read.
InName == 17
Others == (1 .. 58) \ {InName}

\* Lists of actions.
IsActs(acts) == acts \in Seq(PlainActs)

\* The edges: a name of a field begins, goes on and ends, and all others.
NameBegins(e) == e.to = InName /\ e.acts \in {<<>>, <<"start_field">>}
NameEnds(e) == e.from = InName /\ e.to \in Others /\ e.acts = <<"write_field">>
IsPlain(e) == e.from \in Others /\ e.to \in Others /\ IsActs(e.acts)
IsEdge(e) == IsPlain(e) \/ NameBegins(e) \/ NameEnds(e)

\* Short lists of actions.
LEMMA ActLists ==
  ASSUME NEW a \in PlainActs, NEW b \in PlainActs, NEW c \in PlainActs
  PROVE  IsActs(<<>>) /\ IsActs(<<a>>) /\ IsActs(<<a, b>>) /\ IsActs(<<a, b, c>>)
<1> DEFINE S == PlainActs
<1>1. a \in S /\ b \in S /\ c \in S
  OBVIOUS
<1> HIDE DEF S
<1>2. <<>> \in Seq(S) /\ <<a>> \in Seq(S) /\ <<a, b>> \in Seq(S) /\ <<a, b, c>> \in Seq(S)
  BY <1>1
<1> QED
  BY <1>2, Zenon DEF IsActs, S

\* Where a state is another one.
LEMMA OtherState == \A s \in 1 .. 58 : s # 17 => s \in Others
  BY DEF Others, InName

\* The edges between the other states.
LEMMA EdgeTyped ==
  ASSUME NEW from \in Others, NEW chars, NEW to \in Others, NEW acts, IsActs(acts)
  PROVE  IsEdge(Edge(from, chars, to, acts))
  BY DEF Edge, IsEdge, IsPlain

\* Those of an escape do.
LEMMA EscapeEdges ==
  ASSUME NEW first \in Others, first + 1 \in Others, first + 2 \in Others, NEW back \in Others
  PROVE  \A e \in Escape(first, back) : IsEdge(e)
<1>1. IsActs(<<>>)
  BY DEF IsActs
<1> QED
  BY <1>1, EdgeTyped, Zenon DEF Escape

\* Those of the end of an address do.
LEMMA AddressEdges ==
  ASSUME NEW from \in Others, NEW acts, IsActs(acts)
  PROVE  \A e \in AddressEnd(from, acts) : IsEdge(e)
<1>1. 5 \in Others /\ 20 \in Others
  BY OtherState
<1> QED
  BY <1>1, EdgeTyped, Zenon DEF AddressEnd

\* All of them do.
LEMMA EdgesTyped == \A e \in Edges : IsEdge(e)
<1>0. /\ "mark" \in PlainActs /\ "start_query" \in PlainActs /\ "http_field" \in PlainActs
      /\ "done" \in PlainActs /\ "request_method" \in PlainActs /\ "request_uri" \in PlainActs
      /\ "fragment" \in PlainActs /\ "request_path" \in PlainActs
      /\ "http_version" \in PlainActs /\ "query_string" \in PlainActs
  BY Zenon DEF PlainActs, Spoken
<1>1. /\ IsActs(<<>>) /\ IsActs(<<"mark">>) /\ IsActs(<<"request_method">>)
      /\ IsActs(<<"request_uri">>) /\ IsActs(<<"http_version">>)
      /\ IsActs(<<"done">>)
      /\ IsActs(<<"mark", "http_field">>) /\ IsActs(<<"http_field">>)
      /\ IsActs(<<"mark", "fragment">>) /\ IsActs(<<"fragment">>)
      /\ IsActs(<<"request_path">>) /\ IsActs(<<"request_path", "request_uri">>)
      /\ IsActs(<<"start_query">>) /\ IsActs(<<"start_query", "query_string", "request_uri">>)
      /\ IsActs(<<"query_string", "request_uri">>)
  BY <1>0, ActLists, Zenon
<1>2. \A e \in RequestStart : IsEdge(e)
  <2>1. 1 \in Others /\ 2 \in Others /\ 3 \in Others /\ 4 \in Others /\ 25 \in Others /\ 26 \in Others /\ 30 \in Others /\ 39 \in Others
    BY OtherState
  <2>2. \A from, to \in Others : \A chars :
           /\ IsEdge(Edge(from, chars, to, <<>>)) /\ IsEdge(Edge(from, chars, to, <<"mark">>))
           /\ IsEdge(Edge(from, chars, to, <<"request_method">>))
    BY <1>1, EdgeTyped, Zenon
  <2> QED
    BY <2>1, <2>2, ZenonT(60) DEF RequestStart
<1>3. \A e \in StarAddress : IsEdge(e)
  <2>1. 4 \in Others /\ 5 \in Others /\ 20 \in Others
    BY OtherState
  <2> QED
    BY <1>1, <2>1, AddressEdges, Zenon DEF StarAddress
<1>4. \A e \in VersionPart : IsEdge(e)
  <2>1. 5 \in Others /\ 6 \in Others /\ 7 \in Others /\ 8 \in Others /\ 9 \in Others /\ 10 \in Others /\ 11 \in Others /\ 12 \in Others /\ 13 \in Others /\ 14 \in Others /\ 15 \in Others
    BY OtherState
  <2>2. IsActs(<<>>) /\ IsActs(<<"mark">>) /\ IsActs(<<"http_version">>)
    BY <1>1
  <2>3. \A from, to \in Others : \A chars :
           /\ IsEdge(Edge(from, chars, to, <<>>))
           /\ IsEdge(Edge(from, chars, to, <<"mark">>))
           /\ IsEdge(Edge(from, chars, to, <<"http_version">>))
    BY <2>2, EdgeTyped, Zenon
  <2> QED
    BY <2>1, <2>3, ZenonT(60) DEF VersionPart
<1>5. \A e \in HeaderStart : IsEdge(e)
  <2>1. 15 \in Others /\ 16 \in Others /\ 58 \in Others
    BY OtherState
  <2>2. IsEdge(Edge(15, TokenChar, 17, <<"start_field">>))
    BY Zenon DEF IsEdge, NameBegins, InName, Edge
  <2> QED
    BY <1>1, <2>1, <2>2, EdgeTyped, Zenon DEF HeaderStart
<1>6. \A e \in HeaderField : IsEdge(e)
  <2>1. 14 \in Others /\ 18 \in Others /\ 19 \in Others
    BY OtherState
  <2>2. IsEdge(Edge(17, TokenChar, 17, <<>>))
    BY Zenon DEF IsEdge, NameBegins, InName, Edge
  <2>3. IsEdge(Edge(17, {":"}, 18, <<"write_field">>))
    BY <2>1, Zenon DEF IsEdge, NameEnds, InName, Edge
  <2>4. \A from, to \in Others : \A chars :
           /\ IsEdge(Edge(from, chars, to, <<>>)) /\ IsEdge(Edge(from, chars, to, <<"mark">>))
           /\ IsEdge(Edge(from, chars, to, <<"http_field">>))
           /\ IsEdge(Edge(from, chars, to, <<"mark", "http_field">>))
    BY <1>1, EdgeTyped, Zenon
  <2> QED
    BY <2>1, <2>2, <2>3, <2>4, Zenon DEF HeaderField
<1>7. \A e \in FragmentPart : IsEdge(e)
  <2>1. 5 \in Others /\ 20 \in Others /\ 21 \in Others /\ 22 \in Others
    BY OtherState
  <2> QED
    BY <1>1, <2>1, EdgeTyped, Zenon DEF FragmentPart
<1>8. \A e \in FragmentEscape : IsEdge(e)
  <2>1. 22 \in Others /\ 22 + 1 \in Others /\ 22 + 2 \in Others /\ 21 \in Others
    BY OtherState
  <2> QED
    BY <2>1, EscapeEdges, Zenon DEF FragmentEscape
<1>9. \A e \in AbsoluteAddress : IsEdge(e)
  <2>1. 5 \in Others /\ 20 \in Others /\ 25 \in Others /\ 26 \in Others /\ 27 \in Others /\ 28 \in Others /\ 29 \in Others
    BY OtherState
  <2>2. \A e \in Escape(27, 26) : IsEdge(e)
    <3>1. 27 \in Others /\ 27 + 1 \in Others /\ 27 + 2 \in Others /\ 26 \in Others
      BY OtherState
    <3> QED
      BY <3>1, EscapeEdges, Zenon
  <2>3. /\ \A e \in AddressEnd(26, <<"request_uri">>) : IsEdge(e)
    BY <1>1, <2>1, AddressEdges, Zenon
  <2>4. IsActs(<<>>)
    BY <1>1
  <2>5. \A from, to \in Others : \A chars : IsEdge(Edge(from, chars, to, <<>>))
    BY <2>4, EdgeTyped, Zenon
  <2>6. \A e \in {Edge(25, SchemeChar, 25, <<>>), Edge(25, {":"}, 26, <<>>),
                     Edge(26, {"%"}, 27, <<>>), Edge(26, Uchar, 26, <<>>)} : IsEdge(e)
    BY <2>1, <2>5, Zenon
  <2> QED
    BY <2>2, <2>3, <2>6, Zenon DEF AbsoluteAddress
<1>10. \A e \in PathPart : IsEdge(e)
  <2>1. 5 \in Others /\ 20 \in Others /\ 30 \in Others /\ 31 \in Others /\ 32 \in Others /\ 33 \in Others /\ 34 \in Others
    BY OtherState
  <2>2. \A e \in Escape(31, 30) : IsEdge(e)
    <3>1. 31 \in Others /\ 31 + 1 \in Others /\ 31 + 2 \in Others /\ 30 \in Others
      BY OtherState
    <3> QED
      BY <3>1, EscapeEdges, Zenon
  <2>3. /\ \A e \in AddressEnd(30, <<"request_path", "request_uri">>) : IsEdge(e)
    BY <1>1, <2>1, AddressEdges, Zenon
  <2>4. IsActs(<<>>) /\ IsActs(<<"request_path">>)
    BY <1>1
  <2>5. \A from, to \in Others : \A chars :
           IsEdge(Edge(from, chars, to, <<>>)) /\ IsEdge(Edge(from, chars, to, <<"request_path">>))
    BY <2>4, EdgeTyped, Zenon
  <2>6. \A e \in {Edge(30, {"%"}, 31, <<>>), Edge(30, {"?"}, 34, <<"request_path">>),
                     Edge(30, Uchar \ {"?"}, 30, <<>>)} : IsEdge(e)
    BY <2>1, <2>5, ZenonT(60)
  <2> QED
    BY <2>2, <2>3, <2>6, Zenon DEF PathPart
<1>11. \A e \in QueryPart : IsEdge(e)
  <2>1. 5 \in Others /\ 20 \in Others /\ 34 \in Others /\ 35 \in Others /\ 36 \in Others /\ 37 \in Others /\ 38 \in Others
    BY OtherState
  <2>2. \A e \in Escape(36, 35) : IsEdge(e)
    <3>1. 36 \in Others /\ 36 + 1 \in Others /\ 36 + 2 \in Others /\ 35 \in Others
      BY OtherState
    <3> QED
      BY <3>1, EscapeEdges, Zenon
  <2>3. /\ \A e \in AddressEnd(34, <<"start_query", "query_string", "request_uri">>) : IsEdge(e)
        /\ \A e \in AddressEnd(35, <<"query_string", "request_uri">>) : IsEdge(e)
    BY <1>1, <2>1, AddressEdges, Zenon
  <2>4. IsActs(<<>>) /\ IsActs(<<"start_query">>)
    BY <1>1
  <2>5. \A from, to \in Others : \A chars :
           IsEdge(Edge(from, chars, to, <<>>)) /\ IsEdge(Edge(from, chars, to, <<"start_query">>))
    BY <2>4, EdgeTyped, Zenon
  <2>6. \A e \in {Edge(34, {"%"}, 36, <<"start_query">>), Edge(34, Uchar, 35, <<"start_query">>),
                     Edge(35, {"%"}, 36, <<>>), Edge(35, Uchar, 35, <<>>)} : IsEdge(e)
    BY <2>1, <2>5, ZenonT(60)
  <2> QED
    BY <2>2, <2>3, <2>6, Zenon DEF QueryPart
<1>12. ASSUME NEW states \in SUBSET (39 .. 56)
       PROVE  \A e \in MethodRest(states) : IsEdge(e)
  <2>1. 3 \in Others /\ \A s \in states : s \in Others /\ s + 1 \in Others
    BY OtherState
  <2>2. ASSUME NEW e \in MethodRest(states) PROVE IsEdge(e)
    <3>1. PICK s \in states :
            e = Edge(s, {" "}, 3, <<"request_method">>) \/ e = Edge(s, MethodChar, s + 1, <<>>)
      BY Zenon DEF MethodRest
    <3> QED
      BY <1>1, <2>1, <3>1, EdgeTyped, Zenon
  <2> QED
    BY <2>2
<1>13. \A e \in MethodTo6 \cup MethodTo11 \cup MethodTo16 \cup MethodTo20 : IsEdge(e)
  <2>1. 39 .. 43 \in SUBSET (39 .. 56) /\ 44 .. 48 \in SUBSET (39 .. 56)
        /\ 49 .. 53 \in SUBSET (39 .. 56) /\ 54 .. 56 \in SUBSET (39 .. 56)
    OBVIOUS
  <2>2. 3 \in Others /\ 57 \in Others
    BY OtherState
  <2>3. IsEdge(Edge(57, {" "}, 3, <<"request_method">>))
    BY <1>1, <2>2, EdgeTyped, Zenon
  <2>4. /\ \A e \in MethodTo6 : IsEdge(e)
        /\ \A e \in MethodTo11 : IsEdge(e)
        /\ \A e \in MethodTo16 : IsEdge(e)
        /\ \A e \in MethodRest(54 .. 56) : IsEdge(e)
    BY <1>12, <2>1, Zenon DEF MethodTo6, MethodTo11, MethodTo16
  <2> QED
    BY <2>3, <2>4, Zenon DEF MethodTo20
<1> QED
  BY <1>2, <1>3, <1>4, <1>5, <1>6, <1>7, <1>8, <1>9, <1>10, <1>11, <1>13 DEF Edges

\* So a character that a state accepts leads along an edge from that state.
LEMMA MachineTyped ==
  ASSUME NEW s \in HttpStates, NEW c \in HttpChars
  PROVE  LET e == Machine[s][c] IN e.to = HttpError \/ (IsEdge(e) /\ e.from = s)
<1> DEFINE es == {e \in Edges : e.from = s /\ c \in e.chars}
<1>1. Machine[s][c] = IF es = {} THEN Edge(s, {c}, HttpError, <<>>) ELSE CHOOSE e \in es : TRUE
  BY DEF Machine
<1>2. Edge(s, {c}, HttpError, <<>>).to = HttpError
  BY DEF Edge
<1>3. es # {} => (CHOOSE e \in es : TRUE) \in es
  OBVIOUS
<1>4. \A e \in es : IsEdge(e) /\ e.from = s
  BY EdgesTyped, Zenon
<1> HIDE DEF es
<1> QED
  BY <1>1, <1>2, <1>3, <1>4, Zenon

\* A request is a text, whole or damaged.
LEMMA TextTyped ==
  ASSUME NEW r \in HttpInputs
  PROVE  TextOf(r) \in Texts
<1>1. /\ r.method \in Texts /\ r.address \in Texts /\ r.version \in Texts /\ r.rest \in Texts
      /\ r.query \in Seq(Texts) /\ r.fragment \in Seq(Texts)
      /\ r.fields \in Seq([name : Texts, value : Texts, blanks : Nat])
      /\ r.damage \in Nat
  BY InputAssumption
<1>2. {" ", ":", "CR", "LF", "?", "#", "ctl"} \subseteq HttpChars
  BY DEF HttpChars
<1>3. Crlf \in Texts /\ <<" ">> \in Texts /\ <<":">> \in Texts /\ <<"?">> \in Texts /\ <<"#">> \in Texts
  <2>1. ASSUME NEW S, NEW a \in S, NEW b \in S PROVE <<a>> \in Seq(S) /\ <<a, b>> \in Seq(S)
    OBVIOUS
  <2>2. /\ " " \in HttpChars /\ ":" \in HttpChars /\ "CR" \in HttpChars /\ "LF" \in HttpChars
        /\ "?" \in HttpChars /\ "#" \in HttpChars
    BY <1>2
  <2> QED
    BY <2>1, <2>2, Zenon DEF Crlf, Texts
<1>4. ASSUME NEW s \in Texts, NEW t \in Texts PROVE s \o t \in Texts
  BY DEF Texts
<1>5. ASSUME NEW mark, <<mark>> \in Texts, NEW texts \in Seq(Texts)
      PROVE  Optional(mark, texts) \in Texts
  <2>1. CASE texts = <<>>
    BY <2>1 DEF Optional, Texts
  <2>2. CASE texts # <<>>
    <3>1. texts[1] \in Texts
      BY <2>2
    <3> QED
      BY <1>4, <1>5, <2>2, <3>1 DEF Optional
  <2> QED
    BY <2>1, <2>2
<1>6. RequestLine(r) \in Texts
  <2>1. Uri(r) \in Texts
    BY <1>1, <1>3, <1>4, <1>5 DEF Uri
  <2>2. Optional("#", r.fragment) \in Texts
    BY <1>1, <1>3, <1>5
  <2> QED
    BY <1>1, <1>3, <1>4, <2>1, <2>2 DEF RequestLine
<1>7. ASSUME NEW f \in [name : Texts, value : Texts, blanks : Nat]
      PROVE  FieldLine(f) \in Texts
  <2>1. [i \in 1 .. f.blanks |-> " "] \in Texts
    <3>1. f.blanks \in Nat /\ " " \in HttpChars
      BY <1>2
    <3>2. ASSUME NEW S, NEW c \in S, NEW n \in Nat PROVE [i \in 1 .. n |-> c] \in Seq(S)
      OBVIOUS
    <3> QED
      BY <3>1, <3>2, Zenon DEF Texts
  <2> QED
    BY <1>3, <1>4, <2>1 DEF FieldLine
<1> DEFINE lines == [i \in DOMAIN r.fields |-> FieldLine(r.fields[i])]
<1>8. FlattenSeq(lines) \in Texts
  <2>1. lines \in Seq(Texts)
    <3>1. DOMAIN r.fields = 1 .. Len(r.fields) /\ Len(r.fields) \in Nat
      BY <1>1
    <3>2. ASSUME NEW i \in 1 .. Len(r.fields) PROVE FieldLine(r.fields[i]) \in Texts
      <4>1. ASSUME NEW S, NEW s \in Seq(S), NEW j \in 1 .. Len(s) PROVE s[j] \in S
        OBVIOUS
      <4>2. r.fields[i] \in [name : Texts, value : Texts, blanks : Nat]
        BY <1>1, <4>1, Zenon
      <4> QED
        BY <1>7, <4>2
    <3> QED
      BY <3>1, <3>2
  <2> QED
    BY <2>1, FlattenSeqType DEF Texts
<1>9. HeaderOf(r) \in Texts
  BY <1>3, <1>4, <1>6, <1>8 DEF HeaderOf
<1>10. Intact(r) \in Texts
  BY <1>1, <1>4, <1>9 DEF Intact
<1>11. "ctl" \in HttpChars
  BY <1>2
<1>12. ASSUME NEW t \in Seq(HttpChars), NEW k PROVE [t EXCEPT ![k] = "ctl"] \in Seq(HttpChars)
  <2>1. ASSUME NEW S, NEW u \in Seq(S), NEW j, NEW c \in S PROVE [u EXCEPT ![j] = c] \in Seq(S)
    <3> DEFINE n == Len(u)
               v == [u EXCEPT ![j] = c]
    <3>1. n \in Nat /\ u \in [1 .. n -> S]
      OBVIOUS
    <3> HIDE DEF n
    <3>2. v \in [1 .. n -> S]
      BY <3>1
    <3> HIDE DEF v
    <3>3. v \in Seq(S)
      BY <3>1, <3>2, SeqDef
    <3> QED
      BY <3>3 DEF v
  <2> QED
    BY <1>11, <2>1, Zenon
<1> QED
  BY <1>10, <1>12 DEF TextOf, Texts

\* The struct http_parser.
Parsers == [cs : HttpStates, mark : Nat, nread : Nat, body_start : Nat,
            field_start : Nat, field_len : Nat, query_start : Nat]

\* The marks lie before position q.
Inside(h, q) ==
    /\ h.mark = 0 \/ h.mark < q
    /\ h.field_start = 0 \/ h.field_start < q
    /\ h.field_len <= q /\ h.body_start <= q

\* What lies before a position lies before a later one.
LEMMA InsideGrows ==
  ASSUME NEW h, h.mark \in Nat, h.field_start \in Nat, h.field_len \in Nat, h.body_start \in Nat,
         NEW p \in Nat, NEW q \in Nat, p <= q, Inside(h, p)
  PROVE  Inside(h, q)
  BY DEF Inside

\* A run of the machine: the parser, its reports, its position and whether it stopped.
IsRun(run) == run \in [h : Parsers, events : {run.events}, p : Nat, stopped : BOOLEAN]

\* A run is its four parts.
LEMMA RunFields ==
  ASSUME NEW run, IsRun(run)
  PROVE  /\ run = [h |-> run.h, events |-> run.events, p |-> run.p, stopped |-> run.stopped]
         /\ run.h \in Parsers /\ run.p \in Nat /\ run.stopped \in BOOLEAN
  BY DEF IsRun

\* Four parts of their types are a run.
LEMMA RunBuilt ==
  ASSUME NEW h \in Parsers, NEW events, NEW p \in Nat, NEW stopped \in BOOLEAN
  PROVE  IsRun([h |-> h, events |-> events, p |-> p, stopped |-> stopped])
  BY DEF IsRun

\* The edge that ends the header.
EndsHeader(e) == e.to = HttpFirstFinal

\* What an action at the position before q leaves.
Keeps(run, after, q) ==
    /\ IsRun(after) /\ Inside(after.h, q)
    /\ after.p = run.p /\ after.stopped = run.stopped

\* An action at position p leaves the marks before p + 1.
LEMMA ActKeeps ==
  ASSUME NEW run, IsRun(run), NEW p \in Nat, Inside(run.h, p + 1), NEW act
  PROVE  Keeps(run, Act(run, act, p), p + 1)
<1> DEFINE h == run.h
           new(g, events) == [h |-> g, events |-> events, p |-> run.p, stopped |-> run.stopped]
<1>1. /\ run = new(h, run.events)
      /\ h \in Parsers /\ run.p \in Nat /\ run.stopped \in BOOLEAN
  BY RunFields
<1>2. ASSUME NEW g \in Parsers, Inside(g, p + 1), NEW events
      PROVE  Keeps(run, new(g, events), p + 1)
  <2>1. IsRun(new(g, events))
    BY <1>1, <1>2, RunBuilt
  <2> QED
    BY <1>2, <2>1 DEF Keeps
<1>3. /\ h.mark \in Nat /\ h.field_start \in Nat /\ h.field_len \in Nat /\ h.body_start \in Nat
      /\ h.mark = 0 \/ h.mark < p + 1
      /\ h.field_start = 0 \/ h.field_start < p + 1
      /\ h.field_len <= p + 1 /\ h.body_start <= p + 1
  BY <1>1 DEF Parsers, Inside
<1>4. CASE act = "mark"
  <2> DEFINE g == [h EXCEPT !.mark = p]
  <2>1. g \in Parsers
    BY <1>1 DEF Parsers
  <2>2. g.mark = p /\ g.field_start = h.field_start /\ g.field_len = h.field_len /\ g.body_start = h.body_start
    BY <1>1 DEF Parsers
  <2>3. Act(run, act, p) = [run EXCEPT !.h.mark = p]
    BY <1>4 DEF Act
  <2>4. [run EXCEPT !.h.mark = p] = new(g, run.events)
    BY <1>1
  <2> HIDE DEF g, h
  <2>5. Inside(g, p + 1)
    BY <1>3, <2>2 DEF Inside
  <2> HIDE DEF new
  <2> QED
    BY <1>2, <2>1, <2>3, <2>4, <2>5
<1>5. CASE act = "start_field"
  <2> DEFINE g == [h EXCEPT !.field_start = p]
  <2>1. g \in Parsers
    BY <1>1 DEF Parsers
  <2>2. g.mark = h.mark /\ g.field_start = p /\ g.field_len = h.field_len /\ g.body_start = h.body_start
    BY <1>1 DEF Parsers
  <2>3. Act(run, act, p) = [run EXCEPT !.h.field_start = p]
    BY <1>5 DEF Act
  <2>4. [run EXCEPT !.h.field_start = p] = new(g, run.events)
    BY <1>1
  <2> HIDE DEF g, h
  <2>5. Inside(g, p + 1)
    BY <1>3, <2>2 DEF Inside
  <2> HIDE DEF new
  <2> QED
    BY <1>2, <2>1, <2>3, <2>4, <2>5
<1>6. CASE act = "write_field"
  <2> DEFINE g == [h EXCEPT !.field_len = p - run.h.field_start]
  <2>0. p - run.h.field_start \in Nat /\ p - run.h.field_start <= p + 1
    BY <1>3
  <2>1. g \in Parsers
    BY <1>1, <2>0 DEF Parsers
  <2>2. g.mark = h.mark /\ g.field_start = h.field_start /\ g.field_len = p - run.h.field_start
        /\ g.body_start = h.body_start
    BY <1>1 DEF Parsers
  <2>3. Act(run, act, p) = [run EXCEPT !.h.field_len = p - run.h.field_start]
    BY <1>6 DEF Act
  <2>4. [run EXCEPT !.h.field_len = p - run.h.field_start] = new(g, run.events)
    BY <1>1
  <2> HIDE DEF g, h
  <2>5. Inside(g, p + 1)
    BY <1>3, <2>0, <2>2 DEF Inside
  <2> HIDE DEF new
  <2> QED
    BY <1>2, <2>1, <2>3, <2>4, <2>5
<1>7. CASE act = "start_query"
  <2> DEFINE g == [h EXCEPT !.query_start = p]
  <2>1. g \in Parsers
    BY <1>1 DEF Parsers
  <2>2. g.mark = h.mark /\ g.field_start = h.field_start /\ g.field_len = h.field_len
        /\ g.body_start = h.body_start
    BY <1>1 DEF Parsers
  <2>3. Act(run, act, p) = [run EXCEPT !.h.query_start = p]
    BY <1>7 DEF Act
  <2>4. [run EXCEPT !.h.query_start = p] = new(g, run.events)
    BY <1>1
  <2> HIDE DEF g, h
  <2>5. Inside(g, p + 1)
    BY <1>3, <2>2 DEF Inside
  <2> HIDE DEF new
  <2> QED
    BY <1>2, <2>1, <2>3, <2>4, <2>5
<1>8. CASE act = "done"
  <2> DEFINE g == [h EXCEPT !.body_start = p + 1]
             events == Append(run.events, Event("header_done", <<>>))
  <2>1. g \in Parsers
    BY <1>1 DEF Parsers
  <2>2. g.mark = h.mark /\ g.field_start = h.field_start /\ g.field_len = h.field_len
        /\ g.body_start = p + 1
    BY <1>1 DEF Parsers
  <2>3. Act(run, act, p) = [run EXCEPT !.h.body_start = p + 1, !.events = Append(@, Event("header_done", <<>>))]
    BY <1>8 DEF Act
  <2>4. [run EXCEPT !.h.body_start = p + 1, !.events = Append(@, Event("header_done", <<>>))] = new(g, events)
    <3> DEFINE u == [run EXCEPT !.h.body_start = p + 1]
    <3> HIDE DEF events
    <3>1. u = new(g, run.events)
      BY <1>1
    <3>2. [run EXCEPT !.h.body_start = p + 1, !.events = events] = [u EXCEPT !.events = events]
      OBVIOUS
    <3> HIDE DEF u, g, h
    <3>3. [u EXCEPT !.events = events] = new(g, events)
      BY <3>1
    <3> QED
      BY <3>2, <3>3 DEF events
  <2> HIDE DEF g, h, events
  <2>5. Inside(g, p + 1)
    BY <1>3, <2>2 DEF Inside
  <2> HIDE DEF new
  <2> QED
    BY <1>2, <2>1, <2>3, <2>4, <2>5
<1>9. CASE act \notin {"mark", "start_field", "write_field", "start_query", "done"}
  <2>1. PICK e : Act(run, act, p) = [run EXCEPT !.events = Append(@, e)]
    BY <1>9 DEF Act
  <2>2. [run EXCEPT !.events = Append(@, e)] = new(h, Append(run.events, e))
    <3> DEFINE events == Append(run.events, e)
    <3> HIDE DEF events
    <3>1. [run EXCEPT !.events = events] = new(h, events)
      BY <1>1
    <3> QED
      BY <3>1 DEF events
  <2> HIDE DEF new
  <2> QED
    BY <1>1, <1>2, <2>1, <2>2
<1> QED
  BY <1>4, <1>5, <1>6, <1>7, <1>8, <1>9

\* So do the actions of an edge together.
LEMMA ActedKeeps ==
  ASSUME NEW run, IsRun(run), NEW p \in Nat, Inside(run.h, p + 1), NEW S, NEW acts \in Seq(S)
  PROVE  Keeps(run, Acted(run, acts, p), p + 1)
<1>1. PICK N \in Nat : DOMAIN acts = 1 .. N
  OBVIOUS
<1>a. PICK f : ActSteps(f, run, acts, p, N)
  BY <1>1, ActFoldSteps, Zenon
<1>2. /\ f[0] = run
      /\ \A k \in 0 .. N - 1 : f[k + 1] = Act(f[k], acts[k + 1], p)
      /\ Acted(run, acts, p) = f[N]
  BY <1>a DEF ActSteps
<1> DEFINE T == {k \in 0 .. N : Keeps(run, f[k], p + 1)}
<1>3. 0 \in T
  <2>1. Keeps(run, run, p + 1) /\ 0 \in 0 .. N
    BY DEF Keeps
  <2> QED
    BY <1>2, <2>1
<1>4. ASSUME NEW k \in 0 .. (N - 1), k \in T PROVE k + 1 \in T
  <2>1. k + 1 \in 0 .. N
    OBVIOUS
  <2>2. Keeps(run, f[k], p + 1)
    BY <1>4
  <2>3. IsRun(f[k]) /\ Inside(f[k].h, p + 1)
    BY <2>2 DEF Keeps
  <2>4. Keeps(f[k], Act(f[k], acts[k + 1], p), p + 1)
    BY <2>3, ActKeeps
  <2>5. Keeps(f[k], f[k + 1], p + 1)
    BY <1>2, <2>4
  <2>6. Keeps(run, f[k + 1], p + 1)
    BY <2>2, <2>5 DEF Keeps
  <2> QED
    BY <2>1, <2>6
<1> HIDE DEF T
<1>5. 0 .. N \subseteq T
  <2>1. \A k \in 0 .. (N - 1) : k \in T => k + 1 \in T
    BY <1>4
  <2> QED
    BY <1>3, <2>1, UpTo
<1>6. N \in T
  BY <1>5
<1> QED
  BY <1>2, <1>6 DEF T

\* What the callbacks are told: their texts.
Told == {Event("http_field", pair) : pair \in Texts \X Texts} \cup {Event("header_done", <<>>)}
        \cup {Event(what, <<a>>) : what \in Spoken, a \in Texts}

\* What lies before a position of the text is a text.
LEMMA SliceTyped ==
  ASSUME http_text \in Texts, NEW a \in Nat, NEW p \in 0 .. Len(http_text)
  PROVE  Slice(a, p) \in Texts
<1>1. \A i \in a + 1 .. p : http_text[i] \in HttpChars
  <2> DEFINE n == Len(http_text)
  <2>1. n \in Nat /\ p \in 0 .. n
    BY DEF Texts
  <2>2. \A i \in 1 .. n : http_text[i] \in HttpChars
    BY DEF Texts
  <2> HIDE DEF n
  <2> QED
    BY <2>1, <2>2
<1>2. a + 1 \in Int /\ p \in Int
  BY DEF Texts
<1>3. SubSeq(http_text, a + 1, p) \in Seq(HttpChars)
  BY <1>1, <1>2, SubSeqProperties
<1> QED
  BY <1>3 DEF Slice, Texts

\* The name of the field that was read last ends before position p.
FieldInside(h, p) == h.field_start + h.field_len <= p

\* What an action other than those on a field's name leaves: callbacks that were told
\* texts, and the name.
Tells(run, after) ==
    /\ after.events \in Seq(Told)
    /\ after.h.field_start = run.h.field_start /\ after.h.field_len = run.h.field_len

\* What is told at position p lies before it.
LEMMA ActTells ==
  ASSUME http_text \in Texts, NEW run, IsRun(run), run.events \in Seq(Told),
         NEW p \in Nat, p < Len(http_text), FieldInside(run.h, p), NEW act \in PlainActs
  PROVE  Tells(run, Act(run, act, p))
<1> DEFINE h == run.h
<1>1. /\ run = [h |-> h, events |-> run.events, p |-> run.p, stopped |-> run.stopped]
      /\ h \in Parsers
  BY RunFields
<1>2. /\ h.mark \in Nat /\ h.field_start \in Nat /\ h.field_len \in Nat /\ h.query_start \in Nat
  BY <1>1 DEF Parsers
<1>3. p \in 0 .. Len(http_text) /\ h.field_start + h.field_len \in 0 .. Len(http_text)
  <2> DEFINE n == Len(http_text)
  <2>1. n \in Nat /\ p < n /\ h.field_start + h.field_len <= p
    BY DEF Texts, FieldInside
  <2> HIDE DEF n, h
  <2>2. p \in 0 .. n /\ h.field_start + h.field_len \in 0 .. n
    BY <1>2, <2>1
  <2> QED
    BY <2>2 DEF n
<1>4. ASSUME NEW e \in Told, Act(run, act, p) = [run EXCEPT !.events = Append(@, e)]
      PROVE  Tells(run, Act(run, act, p))
  <2>1. Append(run.events, e) \in Seq(Told)
    BY AppendProperties
  <2> DEFINE more == Append(run.events, e)
  <2>2. Act(run, act, p) = [run EXCEPT !.events = more]
    BY <1>4
  <2> HIDE DEF more
  <2>3. [run EXCEPT !.events = more].events = more /\ [run EXCEPT !.events = more].h = h
    BY <1>1
  <2> QED
    BY <2>1, <2>2, <2>3 DEF Tells, more
<1>5. CASE act = "mark"
  <2>1. Act(run, act, p) = [run EXCEPT !.h.mark = p]
    BY <1>5 DEF Act
  <2>2. [run EXCEPT !.h.mark = p].events = run.events /\ [run EXCEPT !.h.mark = p].h = [h EXCEPT !.mark = p]
    BY <1>1
  <2>3. [h EXCEPT !.mark = p].field_start = h.field_start /\ [h EXCEPT !.mark = p].field_len = h.field_len
    BY <1>1 DEF Parsers
  <2> QED
    BY <2>1, <2>2, <2>3 DEF Tells
<1>6. CASE act = "start_query"
  <2>1. Act(run, act, p) = [run EXCEPT !.h.query_start = p]
    BY <1>6 DEF Act
  <2>2. [run EXCEPT !.h.query_start = p].events = run.events
        /\ [run EXCEPT !.h.query_start = p].h = [h EXCEPT !.query_start = p]
    BY <1>1
  <2>3. [h EXCEPT !.query_start = p].field_start = h.field_start
        /\ [h EXCEPT !.query_start = p].field_len = h.field_len
    BY <1>1 DEF Parsers
  <2> QED
    BY <2>1, <2>2, <2>3 DEF Tells
<1>7. CASE act = "http_field"
  <2> DEFINE name == Slice(h.field_start, h.field_start + h.field_len)
             text == Slice(h.mark, p)
  <2>1. name \in Texts /\ text \in Texts
    BY <1>2, <1>3, SliceTyped
  <2>2. Act(run, act, p) = [run EXCEPT !.events = Append(@, Event(act, <<name, text>>))]
    BY <1>7 DEF Act
  <2> HIDE DEF name, text
  <2>3. Event(act, <<name, text>>) \in Told
    BY <1>7, <2>1 DEF Told
  <2> QED
    BY <1>4, <2>2, <2>3
<1>8. CASE act = "query_string"
  <2> DEFINE text == Slice(h.query_start, p)
  <2>1. text \in Texts
    BY <1>2, <1>3, SliceTyped
  <2>2. Act(run, act, p) = [run EXCEPT !.events = Append(@, Event(act, <<text>>))]
    BY <1>8 DEF Act
  <2> HIDE DEF text
  <2>3. Event(act, <<text>>) \in Told
    BY <1>8, <2>1 DEF Told, Spoken
  <2> QED
    BY <1>4, <2>2, <2>3
<1>9. CASE act = "done"
  <2> DEFINE g == [h EXCEPT !.body_start = p + 1]
             more == Append(run.events, Event("header_done", <<>>))
  <2>1. Act(run, act, p) = [run EXCEPT !.h.body_start = p + 1, !.events = Append(@, Event("header_done", <<>>))]
    BY <1>9 DEF Act
  <2>2. Event("header_done", <<>>) \in Told
    BY DEF Told
  <2>3. more \in Seq(Told)
    BY <2>2, AppendProperties
  <2>4. Act(run, act, p).events = more /\ Act(run, act, p).h = g
    <3> DEFINE u == [run EXCEPT !.h.body_start = p + 1]
    <3>1. u = [h |-> g, events |-> run.events, p |-> run.p, stopped |-> run.stopped]
      BY <1>1
    <3>2. Act(run, act, p) = [u EXCEPT !.events = more]
      BY <2>1
    <3> HIDE DEF more, g, u
    <3>3. [u EXCEPT !.events = more].events = more /\ [u EXCEPT !.events = more].h = g
      BY <3>1
    <3> QED
      BY <3>2, <3>3
  <2>5. g.field_start = h.field_start /\ g.field_len = h.field_len
    BY <1>1 DEF Parsers
  <2> HIDE DEF g, more
  <2> QED
    BY <2>3, <2>4, <2>5 DEF Tells
<1>10. CASE act \in Spoken \ {"query_string"}
  <2> DEFINE text == Slice(h.mark, p)
  <2>1. text \in Texts
    BY <1>2, <1>3, SliceTyped
  <2>2. Act(run, act, p) = [run EXCEPT !.events = Append(@, Event(act, <<text>>))]
    BY <1>10 DEF Act, Spoken
  <2> HIDE DEF text
  <2>3. Event(act, <<text>>) \in Told
    BY <1>10, <2>1 DEF Told
  <2> QED
    BY <1>4, <2>2, <2>3
<1> QED
  BY <1>5, <1>6, <1>7, <1>8, <1>9, <1>10 DEF PlainActs

\* So is what the actions of an edge tell.
LEMMA ActedTells ==
  ASSUME http_text \in Texts, NEW run, IsRun(run), run.events \in Seq(Told),
         NEW p \in Nat, p < Len(http_text), Inside(run.h, p + 1), FieldInside(run.h, p),
         NEW acts, IsActs(acts)
  PROVE  Tells(run, Acted(run, acts, p))
<1>1. PICK N \in Nat : DOMAIN acts = 1 .. N /\ \A i \in 1 .. N : acts[i] \in PlainActs
  BY DEF IsActs
<1>a. PICK f : ActSteps(f, run, acts, p, N)
  BY <1>1, ActFoldSteps, Zenon
<1>2. /\ f[0] = run
      /\ \A k \in 0 .. N - 1 : f[k + 1] = Act(f[k], acts[k + 1], p)
      /\ Acted(run, acts, p) = f[N]
  BY <1>a DEF ActSteps
<1> DEFINE T == {k \in 0 .. N : Keeps(run, f[k], p + 1) /\ Tells(run, f[k])}
<1>3. 0 \in T
  <2>1. Keeps(run, run, p + 1) /\ Tells(run, run) /\ 0 \in 0 .. N
    BY DEF Keeps, Tells
  <2> QED
    BY <1>2, <2>1
<1>4. ASSUME NEW k \in 0 .. (N - 1), k \in T PROVE k + 1 \in T
  <2>1. k + 1 \in 0 .. N /\ k + 1 \in 1 .. N
    OBVIOUS
  <2>2. Keeps(run, f[k], p + 1) /\ Tells(run, f[k])
    BY <1>4
  <2>3. /\ IsRun(f[k]) /\ Inside(f[k].h, p + 1) /\ f[k].events \in Seq(Told) /\ FieldInside(f[k].h, p)
        /\ acts[k + 1] \in PlainActs
    BY <1>1, <2>1, <2>2 DEF Keeps, Tells, FieldInside
  <2>4. Keeps(f[k], Act(f[k], acts[k + 1], p), p + 1) /\ Tells(f[k], Act(f[k], acts[k + 1], p))
    BY <2>3, ActKeeps, ActTells
  <2>5. Keeps(f[k], f[k + 1], p + 1) /\ Tells(f[k], f[k + 1])
    BY <1>2, <2>4
  <2>6. Keeps(run, f[k + 1], p + 1) /\ Tells(run, f[k + 1])
    BY <2>2, <2>5 DEF Keeps, Tells
  <2> QED
    BY <2>1, <2>6
<1> HIDE DEF T
<1>5. 0 .. N \subseteq T
  <2>1. \A k \in 0 .. (N - 1) : k \in T => k + 1 \in T
    BY <1>4
  <2> QED
    BY <1>3, <2>1, UpTo
<1>6. N \in T
  BY <1>5
<1> QED
  BY <1>2, <1>6 DEF T

\* A list of one action is that action, and an empty one nothing.
LEMMA ActedOne ==
  ASSUME NEW run, NEW p, NEW act
  PROVE  Acted(run, <<act>>, p) = Act(run, act, p) /\ Acted(run, <<>>, p) = run
<1>1. Acted(run, <<>>, p) = run
  <2>1. 0 \in Nat /\ DOMAIN <<>> = 1 .. 0
    OBVIOUS
  <2>2. PICK f : ActSteps(f, run, <<>>, p, 0)
    BY <2>1, ActFoldSteps, Zenon
  <2> QED
    BY <2>2 DEF ActSteps
<1>2. Acted(run, <<act>>, p) = Act(run, act, p)
  <2>1. 1 \in Nat /\ DOMAIN <<act>> = 1 .. 1 /\ 0 \in 0 .. 1 - 1 /\ 0 + 1 = 1 /\ <<act>>[1] = act
    OBVIOUS
  <2>2. PICK f : ActSteps(f, run, <<act>>, p, 1)
    BY <2>1, ActFoldSteps, Zenon
  <2>3. f[0] = run /\ f[0 + 1] = Act(f[0], <<act>>[0 + 1], p) /\ Acted(run, <<act>>, p) = f[1]
    BY <2>1, <2>2, Zenon DEF ActSteps
  <2> QED
    BY <2>1, <2>3
<1> QED
  BY <1>1, <1>2

\* What the actions of an edge at position p leave: while no name is being read, the
\* last one lies before the next position.
LEMMA EdgeTells ==
  ASSUME http_text \in Texts, NEW run, IsRun(run), run.events \in Seq(Told),
         NEW p \in Nat, p < Len(http_text), Inside(run.h, p),
         run.h.cs \in Others => FieldInside(run.h, p), NEW e, IsEdge(e), e.from = run.h.cs
  PROVE  LET acted == Acted(run, e.acts, p) IN
         /\ Keeps(run, acted, p + 1) /\ acted.events \in Seq(Told)
         /\ e.to \in HttpStates /\ (e.to \in Others => FieldInside(acted.h, p + 1))
<1> DEFINE h == run.h
<1>1. /\ run = [h |-> h, events |-> run.events, p |-> run.p, stopped |-> run.stopped]
      /\ h \in Parsers
  BY RunFields
<1>2. h.field_start \in Nat /\ h.field_len \in Nat /\ h.mark \in Nat /\ h.body_start \in Nat
  BY <1>1 DEF Parsers
<1>3. Inside(h, p + 1)
  <2> HIDE DEF h
  <2> QED
    BY <1>2 DEF Inside, h
<1>4. InName \in HttpStates /\ Others \subseteq HttpStates /\ InName \notin Others
  BY DEF InName, Others, HttpStates
<1>5. CASE IsPlain(e)
  <2>1. IsActs(e.acts) /\ e.from \in Others /\ e.to \in Others
    BY <1>5 DEF IsPlain
  <2>2. FieldInside(h, p)
    BY <2>1
  <2>3. Keeps(run, Acted(run, e.acts, p), p + 1)
    BY <1>3, <2>1, ActedKeeps DEF IsActs
  <2>4. Tells(run, Acted(run, e.acts, p))
    BY <1>3, <2>1, <2>2, ActedTells
  <2>5. FieldInside(Acted(run, e.acts, p).h, p + 1)
    <3> DEFINE g == Acted(run, e.acts, p).h
    <3>1. g.field_start = h.field_start /\ g.field_len = h.field_len
      BY <2>4 DEF Tells
    <3>2. h.field_start + h.field_len <= p
      BY <2>2 DEF FieldInside
    <3> HIDE DEF g, h
    <3>3. g.field_start + g.field_len <= p + 1
      BY <1>2, <3>1, <3>2
    <3> QED
      BY <3>3 DEF FieldInside, g
  <2> QED
    BY <1>4, <2>1, <2>3, <2>4, <2>5 DEF Tells
<1>6. CASE NameBegins(e)
  <2>1. e.to = InName
    BY <1>6 DEF NameBegins
  <2>2. CASE e.acts = <<>>
    <3>1. Acted(run, e.acts, p) = run
      BY <2>2, ActedOne
    <3> QED
      BY <1>3, <1>4, <2>1, <3>1 DEF Keeps
  <2>3. CASE e.acts = <<"start_field">>
    <3>1. Acted(run, e.acts, p) = Act(run, "start_field", p)
      BY <2>3, ActedOne
    <3>2. Act(run, "start_field", p) = [run EXCEPT !.h.field_start = p]
      BY DEF Act
    <3>3. [run EXCEPT !.h.field_start = p].events = run.events
      BY <1>1
    <3>4. Keeps(run, Act(run, "start_field", p), p + 1)
      BY <1>3, ActKeeps
    <3> QED
      BY <1>4, <2>1, <3>1, <3>2, <3>3, <3>4
  <2> QED
    BY <1>6, <2>2, <2>3 DEF NameBegins
<1>7. CASE NameEnds(e)
  <2>1. e.to \in Others /\ e.acts = <<"write_field">>
    BY <1>7 DEF NameEnds
  <2>2. Acted(run, e.acts, p) = Act(run, "write_field", p)
    BY <2>1, ActedOne
  <2>3. Act(run, "write_field", p) = [run EXCEPT !.h.field_len = p - run.h.field_start]
    BY DEF Act
  <2> DEFINE g == [h EXCEPT !.field_len = p - h.field_start]
  <2>4. [run EXCEPT !.h.field_len = p - run.h.field_start].events = run.events
        /\ [run EXCEPT !.h.field_len = p - run.h.field_start].h = g
    BY <1>1
  <2>5. g.field_start = h.field_start /\ g.field_len = p - h.field_start
    BY <1>1 DEF Parsers
  <2>6. Keeps(run, Act(run, "write_field", p), p + 1)
    BY <1>3, ActKeeps
  <2> HIDE DEF g, h
  <2>7. FieldInside(g, p + 1)
    BY <1>2, <2>5 DEF FieldInside
  <2> QED
    BY <1>4, <2>1, <2>2, <2>3, <2>4, <2>6, <2>7
<1> QED
  BY <1>5, <1>6, <1>7 DEF IsEdge

\* A run that has come to position q, or stopped before it.
ReadsTo(run, q) ==
    /\ IsRun(run) /\ Inside(run.h, run.p)
    /\ run.p <= q /\ (~run.stopped => run.p = q)
    /\ run.events \in Seq(Told)
    /\ run.h.cs \in Others => FieldInside(run.h, run.p)

\* Reading the character at position p moves the run to p + 1, or stops it.
LEMMA CharacterKeeps ==
  ASSUME http_text \in Texts, NEW run, NEW p \in Nat, p < Len(http_text), ReadsTo(run, p)
  PROVE  ReadsTo(Character(run, p), p + 1)
<1> DEFINE e == Machine[run.h.cs][http_text[p + 1]]
           h == run.h
<1>1. /\ run = [h |-> h, events |-> run.events, p |-> run.p, stopped |-> run.stopped]
      /\ h \in Parsers /\ run.p \in Nat /\ run.stopped \in BOOLEAN
      /\ run.p <= p /\ (~run.stopped => run.p = p)
      /\ IsRun(run) /\ Inside(h, run.p)
      /\ run.events \in Seq(Told) /\ (h.cs \in Others => FieldInside(h, run.p))
  BY RunFields DEF ReadsTo
<1>2. e.to = HttpError \/ (IsEdge(e) /\ e.from = h.cs)
  <2>1. Len(http_text) \in Nat
    BY DEF Texts
  <2> DEFINE n == Len(http_text)
  <2>2. p + 1 \in 1 .. n
    <3> HIDE DEF n
    <3>1. n \in Nat /\ p < n
      BY <2>1 DEF n
    <3> QED
      BY <3>1
  <2>3. http_text[p + 1] \in HttpChars
    BY <2>2 DEF Texts
  <2>4. h.cs \in HttpStates
    BY <1>1 DEF Parsers
  <2> QED
    BY <2>3, <2>4, MachineTyped
<1>3. /\ h.mark \in Nat /\ h.field_start \in Nat /\ h.field_len \in Nat /\ h.body_start \in Nat
      /\ h.mark = 0 \/ h.mark < run.p
      /\ h.field_start = 0 \/ h.field_start < run.p
      /\ h.field_len <= run.p /\ h.body_start <= run.p
  BY <1>1 DEF Parsers, Inside
<1>4. Character(run, p) =
        IF run.stopped THEN run
        ELSE IF e.to = HttpError THEN [run EXCEPT !.h.cs = HttpError, !.stopped = TRUE]
        ELSE [Acted(run, e.acts, p) EXCEPT !.h.cs = e.to, !.p = p + 1, !.stopped = EndsHeader(e)]
  BY DEF Character, EndsHeader
<1> HIDE DEF e, h
<1>5. CASE run.stopped
  BY <1>1, <1>4, <1>5 DEF ReadsTo, h
<1>6. CASE ~run.stopped /\ e.to = HttpError
  <2> DEFINE g == [h EXCEPT !.cs = HttpError]
             after == [h |-> g, events |-> run.events, p |-> run.p, stopped |-> TRUE]
  <2>1. [run EXCEPT !.h.cs = HttpError, !.stopped = TRUE] = after
    <3> DEFINE u == [run EXCEPT !.h.cs = HttpError]
    <3>1. u = [h |-> g, events |-> run.events, p |-> run.p, stopped |-> run.stopped]
      BY <1>1
    <3>2. [run EXCEPT !.h.cs = HttpError, !.stopped = TRUE] = [u EXCEPT !.stopped = TRUE]
      OBVIOUS
    <3> DEFINE yes == TRUE
    <3> HIDE DEF u, g, yes
    <3>3. [u EXCEPT !.stopped = yes] = [h |-> g, events |-> run.events, p |-> run.p, stopped |-> yes]
      BY <3>1
    <3> QED
      BY <3>2, <3>3 DEF yes
  <2>2. g \in Parsers /\ g.mark = h.mark /\ g.field_start = h.field_start
        /\ g.field_len = h.field_len /\ g.body_start = h.body_start
    BY <1>1 DEF Parsers, HttpStates, HttpError
  <2>3. after.h = g /\ after.p = run.p /\ after.stopped = TRUE
    OBVIOUS
  <2>4. IsRun(after)
    <3>1. g \in Parsers /\ run.p \in Nat /\ TRUE \in BOOLEAN
      BY <1>1, <2>2
    <3> HIDE DEF g
    <3> QED
      BY <3>1, RunBuilt, Zenon DEF after
  <2>8. after.events = run.events /\ g.cs \notin Others
    BY <1>1 DEF Parsers, Others, HttpError
  <2>5. Character(run, p) = after
    BY <1>4, <1>6, <2>1
  <2> HIDE DEF after, g
  <2>6. Inside(g, run.p)
    BY <1>3, <2>2 DEF Inside
  <2>7. after.p <= p + 1
    BY <1>1, <2>3
  <2> QED
    BY <1>1, <2>3, <2>4, <2>5, <2>6, <2>7, <2>8 DEF ReadsTo
<1>7. CASE ~run.stopped /\ e.to # HttpError
  <2> DEFINE acted == Acted(run, e.acts, p)
             final == EndsHeader(e)
             g == [acted.h EXCEPT !.cs = e.to]
             after == [h |-> g, events |-> acted.events, p |-> p + 1, stopped |-> final]
  <2>1. IsEdge(e) /\ e.from = run.h.cs /\ Inside(run.h, p) /\ (run.h.cs \in Others => FieldInside(run.h, p))
    BY <1>1, <1>2, <1>7 DEF h
  <2>2. /\ Keeps(run, acted, p + 1) /\ acted.events \in Seq(Told)
        /\ e.to \in HttpStates /\ (e.to \in Others => FieldInside(acted.h, p + 1))
    BY <1>1, <2>1, EdgeTells
  <2> HIDE DEF acted
  <2>3. IsRun(acted) /\ Inside(acted.h, p + 1)
    BY <2>2 DEF Keeps
  <2>4. /\ acted = [h |-> acted.h, events |-> acted.events, p |-> acted.p, stopped |-> acted.stopped]
        /\ acted.h \in Parsers
    BY <2>3, RunFields
  <2>5. [acted EXCEPT !.h.cs = e.to, !.p = p + 1, !.stopped = EndsHeader(e)] = after
    <3> DEFINE u == [acted EXCEPT !.h.cs = e.to]
               v == [u EXCEPT !.p = p + 1]
    <3> HIDE DEF final
    <3>1. u = [h |-> g, events |-> acted.events, p |-> acted.p, stopped |-> acted.stopped]
      BY <2>4
    <3>2. [acted EXCEPT !.h.cs = e.to, !.p = p + 1, !.stopped = final] = [v EXCEPT !.stopped = final]
      OBVIOUS
    <3> HIDE DEF u, g
    <3>3. v = [h |-> g, events |-> acted.events, p |-> p + 1, stopped |-> acted.stopped]
      BY <3>1
    <3> HIDE DEF v
    <3>4. [v EXCEPT !.stopped = final] = after
      BY <3>3
    <3> QED
      BY <3>2, <3>4 DEF final
  <2>6. e.to \in HttpStates /\ final \in BOOLEAN
    BY <2>2 DEF EndsHeader
  <2>7. g \in Parsers /\ g.mark = acted.h.mark /\ g.field_start = acted.h.field_start
        /\ g.field_len = acted.h.field_len /\ g.body_start = acted.h.body_start
        /\ g.cs = e.to
    BY <2>4, <2>6 DEF Parsers
  <2>8. after.h = g /\ after.p = p + 1 /\ after.events = acted.events
    OBVIOUS
  <2> HIDE DEF final, g
  <2>9. IsRun(after)
    <3>1. p + 1 \in Nat
      OBVIOUS
    <3> QED
      BY <2>6, <2>7, <3>1, RunBuilt, Zenon
  <2>10. Character(run, p) = after
    BY <1>4, <1>7, <2>5 DEF acted
  <2> HIDE DEF after
  <2>11. Inside(g, p + 1)
    BY <2>3, <2>7 DEF Inside
  <2>12. g.cs \in Others => FieldInside(g, p + 1)
    BY <2>2, <2>7 DEF FieldInside
  <2> QED
    BY <2>2, <2>8, <2>9, <2>10, <2>11, <2>12 DEF ReadsTo
<1> QED
  BY <1>5, <1>6, <1>7

\* What the dictionary holds are texts.
EnvironTyped(dict) == \A k \in DOMAIN dict : dict[k] \in Texts

\* The marks lie before the position that the next call starts from, and it is no
\* farther than one past the text (and only when the header has ended); so does the
\* last name of a field, unless another one is being read or the request is refused.
HttpInv ==
    /\ http_pc \in {"idle", "reading", "error", "finished", "incomplete", "aborted", "overflown", "astray"}
    /\ http_pc = "aborted" => http.nread = 0 /\ http.cs # HttpError
    /\ http \in Parsers /\ http_text \in Texts
    /\ EnvironTyped(environ)
    /\ Inside(http, http.nread)
    /\ http.cs \in Others => FieldInside(http, http.nread)
    /\ http_pc = "idle" => http.nread = 0
    /\ http.nread <= Len(http_text) + 1
    /\ http.body_start = 0 => http.nread <= Len(http_text)

\* The run with which a call begins, and the positions it reads.
FirstRun == [h |-> http, events |-> <<>>, p |-> http.nread, stopped |-> FALSE]
Positions(len) == [i \in 1 .. len - http.nread |-> http.nread + i - 1]

\* A new parser has no marks.
LEMMA InitHttpInv == HttpInit => HttpInv
<1> SUFFICES ASSUME HttpInit PROVE HttpInv
  OBVIOUS
<1>1. http = NewParser /\ http_text = <<>>
  BY DEF HttpInit
<1>2. HttpStart \in HttpStates
  BY DEF HttpStart, HttpStates
<1>3. http \in Parsers /\ http.nread = 0 /\ http.mark = 0 /\ http.field_start = 0
      /\ http.field_len = 0 /\ http.body_start = 0
  BY <1>1, <1>2 DEF NewParser, Parsers
<1>4. http_text \in Texts /\ Len(http_text) = 0 /\ <<>> \in Texts
  BY <1>1 DEF Texts
<1>5. http_pc = "idle" /\ environ = [k \in {InputKey} |-> <<>>]
  BY Zenon DEF HttpInit
<1>6. EnvironTyped(environ)
  BY <1>4, <1>5, Zenon DEF EnvironTyped
<1>7. FieldInside(http, http.nread)
  BY <1>3 DEF FieldInside
<1> QED
  BY <1>3, <1>4, <1>5, <1>6, <1>7 DEF HttpInv, Inside

\* A call of http_parser_execute reads to the end of its buffer or stops before.
LEMMA RunReads ==
  ASSUME HttpInv, NEW len \in http.nread .. Len(http_text)
  PROVE  /\ ReadsTo(FoldLeft(Character, FirstRun, Positions(len)), len)
         /\ len = http.nread => FoldLeft(Character, FirstRun, Positions(len)) = FirstRun
<1> DEFINE off == http.nread
           n == Len(http_text)
           s == Positions(len)
           N == len - off
<1>1. /\ http \in Parsers /\ http_text \in Texts /\ Inside(http, off) /\ off \in Nat /\ n \in Nat
  BY DEF HttpInv, Parsers, Texts
<1>2. len \in off .. n
  OBVIOUS
<1> HIDE DEF off, n
<1>3. N \in Nat /\ len = off + N /\ len <= n
  BY <1>1, <1>2
<1>4. s = [i \in 1 .. N |-> off + i - 1]
  BY DEF Positions, off
<1> HIDE DEF s, N
<1>5. DOMAIN s = 1 .. N
  BY <1>4
<1>6. PICK f : CharacterSteps(f, FirstRun, s, N)
  BY <1>3, <1>5, CharacterFoldSteps, Zenon
<1>7. /\ f[0] = FirstRun
      /\ \A k \in 0 .. N - 1 : f[k + 1] = Character(f[k], s[k + 1])
      /\ FoldLeft(Character, FirstRun, s) = f[N]
  BY <1>6 DEF CharacterSteps
<1> DEFINE T == {k \in 0 .. N : ReadsTo(f[k], off + k)}
<1>8. 0 \in T
  <2>1. IsRun(FirstRun)
    BY <1>1, RunBuilt DEF FirstRun, off
  <2>2. FirstRun.h = http /\ FirstRun.p = off /\ FirstRun.stopped = FALSE
    BY DEF FirstRun, off
  <2>3. 0 \in 0 .. N /\ off + 0 = off /\ off <= off
    BY <1>1, <1>3
  <2>5. FirstRun.events \in Seq(Told) /\ (FirstRun.h.cs \in Others => FieldInside(FirstRun.h, off))
    BY <2>2 DEF HttpInv, FirstRun, off
  <2>4. ReadsTo(FirstRun, off)
    BY <1>1, <2>1, <2>2, <2>3, <2>5 DEF ReadsTo
  <2> QED
    BY <1>7, <2>3, <2>4
<1>9. ASSUME NEW k \in 0 .. (N - 1), k \in T PROVE k + 1 \in T
  <2>1. k + 1 \in 0 .. N /\ k + 1 \in 1 .. N
    BY <1>3
  <2>2. ReadsTo(f[k], off + k)
    BY <1>9
  <2>3. off + k \in Nat /\ off + k < n
    BY <1>1, <1>3
  <2>4. s[k + 1] = off + k
    <3>1. off + (k + 1) - 1 = off + k
      BY <1>1
    <3> QED
      BY <1>4, <2>1, <3>1
  <2>5. f[k + 1] = Character(f[k], off + k)
    BY <1>7, <2>4
  <2>6. ReadsTo(Character(f[k], off + k), off + k + 1)
    <3>1. off + k < Len(http_text)
      BY <2>3 DEF n
    <3> QED
      BY <1>1, <2>2, <2>3, <3>1, CharacterKeeps, Zenon
  <2>7. off + k + 1 = off + (k + 1)
    BY <1>1
  <2> QED
    BY <2>1, <2>5, <2>6, <2>7
<1> HIDE DEF T
<1>10. 0 .. N \subseteq T
  <2>1. \A k \in 0 .. (N - 1) : k \in T => k + 1 \in T
    BY <1>9
  <2> QED
    BY <1>3, <1>8, <2>1, UpTo
<1>11. N \in T
  BY <1>3, <1>10
<1>12. ReadsTo(f[N], len)
  BY <1>3, <1>11 DEF T
<1>13. len = off => f[N] = FirstRun
  <2> SUFFICES ASSUME len = off PROVE f[N] = FirstRun
    OBVIOUS
  <2>1. N = 0
    BY <1>1, <1>3
  <2> QED
    BY <1>7, <2>1
<1> QED
  BY <1>7, <1>12, <1>13 DEF s, off

\* The function that the fold over the callbacks is taken from.
IsCallbackFold(f, base, s) ==
    f = [t \in SUBSET DOMAIN s |->
           IF t = {} THEN base ELSE Callback(f[t \ {Max(t)}], s[Max(t)])]

\* The fold over the callbacks is its value at the set of all indices.
LEMMA CallbackFold ==
  ASSUME NEW base, NEW s
  PROVE  FoldLeft(Callback, base, s) = (CHOOSE f : IsCallbackFold(f, base, s))[DOMAIN s]
  BY DEF FoldLeft, MapThenFoldSet, IsCallbackFold

\* There is such a function, as for the characters.
LEMMA CallbackFoldExists ==
  ASSUME NEW base, NEW N \in Nat, NEW s, DOMAIN s = 1 .. N
  PROVE  \E f : IsCallbackFold(f, base, s)
<1> DEFINE IsPart(f, k) == f = [t \in SUBSET (1 .. k) |->
                             IF t = {} THEN base ELSE Callback(f[t \ {Max(t)}], s[Max(t)])]
           T == {k \in 0 .. N : \E f : IsPart(f, k)}
<1>1. 0 \in T
  <2>1. SUBSET (1 .. 0) = {{}} /\ 0 \in 0 .. N
    OBVIOUS
  <2>2. IsPart([t \in SUBSET (1 .. 0) |-> base], 0)
    BY <2>1, Zenon
  <2> QED
    BY <2>1, <2>2
<1>2. ASSUME NEW k \in 0 .. N - 1, k \in T PROVE k + 1 \in T
  <2>1. PICK f : IsPart(f, k)
    BY <1>2
  <2> DEFINE g == [t \in SUBSET (1 .. k + 1) |->
                     IF k + 1 \in t THEN Callback(f[t \ {k + 1}], s[k + 1]) ELSE f[t]]
  <2>2. ASSUME NEW t \in SUBSET (1 .. k + 1)
        PROVE  g[t] = IF t = {} THEN base ELSE Callback(g[t \ {Max(t)}], s[Max(t)])
    <3>1. CASE k + 1 \in t
      <4>1. Max(t) = k + 1
        BY <3>1, MaxOfUpTo
      <4>2. t \ {k + 1} \in SUBSET (1 .. k) /\ t \ {k + 1} \in SUBSET (1 .. k + 1) /\ t # {}
            /\ k + 1 \notin t \ {k + 1}
        BY <3>1
      <4>3. g[t \ {k + 1}] = f[t \ {k + 1}]
        BY <4>2
      <4>4. g[t] = Callback(f[t \ {k + 1}], s[k + 1])
        BY <3>1
      <4> QED
        BY <4>1, <4>2, <4>3, <4>4, Zenon
    <3>2. CASE k + 1 \notin t
      <4>1. t \in SUBSET (1 .. k)
        BY <3>2
      <4>2. g[t] = f[t]
        BY <3>2
      <4>3. f[t] = IF t = {} THEN base ELSE Callback(f[t \ {Max(t)}], s[Max(t)])
        BY <2>1, <4>1
      <4>4. t \ {Max(t)} \in SUBSET (1 .. k + 1) /\ k + 1 \notin t \ {Max(t)}
        BY <3>2
      <4>5. g[t \ {Max(t)}] = f[t \ {Max(t)}]
        BY <4>4, Zenon
      <4> QED
        BY <4>2, <4>3, <4>5, Zenon
    <3> QED
      BY <3>1, <3>2
  <2>3. IsPart(g, k + 1)
    BY <2>2
  <2>4. k + 1 \in 0 .. N
    OBVIOUS
  <2> HIDE DEF g
  <2> QED
    BY <2>3, <2>4
<1> HIDE DEF T
<1>3. N \in T
  <2>1. \A k \in 0 .. (N - 1) : k \in T => k + 1 \in T
    BY <1>2
  <2>2. 0 .. N \subseteq T
    BY <1>1, <2>1, UpTo
  <2> QED
    BY <2>2
<1> QED
  BY <1>3 DEF T, IsCallbackFold

\* f[k] is the dictionary after k callbacks.
CallbackSteps(f, base, s, N) ==
    /\ f[0] = base
    /\ \A k \in 0 .. N - 1 : f[k + 1] = Callback(f[k], s[k + 1])
    /\ FoldLeft(Callback, base, s) = f[N]

\* The callbacks are called one after the other.
LEMMA CallbackFoldSteps ==
  ASSUME NEW base, NEW N \in Nat, NEW s, DOMAIN s = 1 .. N
  PROVE  \E f : CallbackSteps(f, base, s, N)
<1> DEFINE g == CHOOSE f : IsCallbackFold(f, base, s)
           f == [k \in 0 .. N |-> g[1 .. k]]
<1>1. IsCallbackFold(g, base, s)
  BY CallbackFoldExists
<1>2. FoldLeft(Callback, base, s) = g[1 .. N]
  BY CallbackFold
<1>3. \A t \in SUBSET (1 .. N) :
         g[t] = IF t = {} THEN base ELSE Callback(g[t \ {Max(t)}], s[Max(t)])
  <2> HIDE DEF g
  <2> QED
    BY <1>1 DEF IsCallbackFold
<1> HIDE DEF g
<1>4. f[0] = base
  <2>1. 1 .. 0 = {} /\ {} \in SUBSET (1 .. N) /\ 0 \in 0 .. N
    OBVIOUS
  <2>2. f[0] = g[1 .. 0]
    BY <2>1
  <2> QED
    BY <1>3, <2>1, <2>2, Zenon
<1>5. ASSUME NEW k \in 0 .. N - 1
      PROVE  f[k + 1] = Callback(f[k], s[k + 1])
  <2>1. k + 1 \in 1 .. k + 1 /\ 1 .. k + 1 \in SUBSET (1 .. k + 1)
    OBVIOUS
  <2>2. Max(1 .. k + 1) = k + 1
    BY <2>1, MaxOfUpTo
  <2>3. 1 .. k + 1 \in SUBSET (1 .. N) /\ 1 .. k + 1 # {}
    BY <2>1
  <2>4. (1 .. k + 1) \ {k + 1} = 1 .. k
    OBVIOUS
  <2>5. g[1 .. k + 1] = Callback(g[1 .. k], s[k + 1])
    BY <1>3, <2>2, <2>3, <2>4, Zenon
  <2>6. k \in 0 .. N /\ k + 1 \in 0 .. N
    OBVIOUS
  <2> QED
    BY <2>5, <2>6, Zenon
<1>6. FoldLeft(Callback, base, s) = f[N]
  BY <1>2
<1> HIDE DEF f
<1> QED
  BY <1>4, <1>5, <1>6 DEF CallbackSteps

\* A callback puts the text it is told in the dictionary, or moves one.
LEMMA CallbackTyped ==
  ASSUME NEW dict, EnvironTyped(dict), NEW event \in Told
  PROVE  EnvironTyped(Callback(dict, event))
<1>1. ASSUME NEW d, EnvironTyped(d), NEW key, NEW text \in Texts PROVE EnvironTyped(Put(d, key, text))
  BY <1>1, Zenon DEF EnvironTyped, Put
<1>2. ASSUME NEW d, EnvironTyped(d), NEW from, NEW to PROVE EnvironTyped(Renamed(d, from, to))
  BY <1>2, Zenon DEF EnvironTyped, Renamed
<1>3. ASSUME NEW d, EnvironTyped(d), NEW key PROVE EnvironTyped(Default(d, key))
  <2>1. <<>> \in Texts
    BY DEF Texts
  <2> QED
    BY <1>1, <1>3, <2>1, Zenon DEF Default
<1>4. CASE event \in {Event("http_field", pair) : pair \in Texts \X Texts}
  <2>1. PICK pair \in Texts \X Texts : event = Event("http_field", pair)
    BY <1>4
  <2>2. event.what = "http_field" /\ event.texts = pair /\ pair[2] \in Texts
    BY <2>1 DEF Event
  <2>3. Callback(dict, event) = http_field(dict, event.texts[1], event.texts[2])
    BY <2>2 DEF Callback
  <2> QED
    BY <1>1, <2>2, <2>3, Zenon DEF http_field
<1>5. CASE event = Event("header_done", <<>>)
  <2>1. Callback(dict, event) = header_done(dict)
    BY <1>5 DEF Callback, Event
  <2> DEFINE moved == Renamed(Renamed(dict, HTTP_CONTENT_LENGTH, Key("CONTENT_LENGTH")),
                         HTTP_CONTENT_TYPE, Key("CONTENT_TYPE"))
             named == IF HTTP_HOST \in DOMAIN moved
                      THEN Put(moved, Key("SERVER_NAME"), moved[HTTP_HOST]) ELSE moved
  <2>2. EnvironTyped(moved)
    BY <1>2, Zenon
  <2>3. HTTP_HOST \in DOMAIN moved => moved[HTTP_HOST] \in Texts
    BY <2>2, Zenon DEF EnvironTyped
  <2>4. header_done(dict) = Default(Default(named, Key("QUERY_STRING")), Key("PATH_INFO"))
    BY Zenon DEF header_done
  <2> HIDE DEF moved
  <2>5. EnvironTyped(named)
    BY <1>1, <2>2, <2>3, Zenon
  <2> HIDE DEF named
  <2> QED
    BY <1>3, <2>1, <2>4, <2>5, Zenon
<1>6. CASE event \in {Event(what, <<a>>) : what \in Spoken, a \in Texts}
  <2>1. PICK what \in Spoken, a \in Texts : event = Event(what, <<a>>)
    BY <1>6
  <2>2. event.what = what /\ event.texts[1] = a
    BY <2>1 DEF Event
  <2>3. what = "request_path" \/ \E key : Callback(dict, event) = Put(dict, key, event.texts[1])
    <3>1. CASE what = "request_method"
      BY <2>2, <3>1 DEF Callback
    <3>2. CASE what = "request_uri"
      BY <2>2, <3>2 DEF Callback
    <3>3. CASE what = "fragment"
      BY <2>2, <3>3 DEF Callback
    <3>4. CASE what = "query_string"
      BY <2>2, <3>4 DEF Callback
    <3>5. CASE what = "http_version"
      BY <2>2, <3>5 DEF Callback
    <3> QED
      BY <3>1, <3>2, <3>3, <3>4, <3>5, Zenon DEF Spoken
  <2>4. CASE what = "request_path"
    <3>1. Callback(dict, event) = request_path(dict, event.texts[1])
      BY <2>2, <2>4 DEF Callback
    <3> QED
      BY <1>1, <2>2, <3>1, Zenon DEF request_path
  <2>5. CASE \E key : Callback(dict, event) = Put(dict, key, event.texts[1])
    BY <1>1, <2>2, <2>5, Zenon
  <2> QED
    BY <2>3, <2>4, <2>5, Zenon
<1> QED
  BY <1>4, <1>5, <1>6 DEF Told

\* What the callbacks of a call leave.
LEMMA CallbacksTyped ==
  ASSUME NEW dict, EnvironTyped(dict), NEW events \in Seq(Told)
  PROVE  EnvironTyped(FoldLeft(Callback, dict, events))
<1> DEFINE N == Len(events)
<1>1. N \in Nat /\ DOMAIN events = 1 .. N /\ \A i \in 1 .. N : events[i] \in Told
  OBVIOUS
<1> HIDE DEF N
<1>2. PICK f : CallbackSteps(f, dict, events, N)
  BY <1>1, CallbackFoldSteps, Zenon
<1>3. /\ f[0] = dict /\ \A k \in 0 .. N - 1 : f[k + 1] = Callback(f[k], events[k + 1])
      /\ FoldLeft(Callback, dict, events) = f[N]
  BY <1>2 DEF CallbackSteps
<1> DEFINE T == {k \in 0 .. N : EnvironTyped(f[k])}
<1>4. 0 \in T
  BY <1>1, <1>3
<1>5. ASSUME NEW k \in 0 .. (N - 1), k \in T PROVE k + 1 \in T
  <2>1. k + 1 \in 0 .. N /\ events[k + 1] \in Told
    BY <1>1
  <2> QED
    BY <1>3, <1>5, <2>1, CallbackTyped
<1> HIDE DEF T
<1>6. N \in T
  <2>1. \A k \in 0 .. (N - 1) : k \in T => k + 1 \in T
    BY <1>5
  <2>2. 0 .. N \subseteq T
    BY <1>1, <1>4, <2>1, UpTo
  <2> QED
    BY <1>1, <2>2
<1> QED
  BY <1>3, <1>6 DEF T

\* A call leaves the marks before the position it returns, and fails no assertion
\* unless there is nothing to read.
LEMMA ExecuteHttpInv ==
  ASSUME HttpInv, NEW len \in http.nread .. Len(http_text), HttpExecute(len)
  PROVE  HttpInv'
<1> DEFINE end == FoldLeft(Character, FirstRun, Positions(len))
           read == http.nread + (end.p - http.nread)
           nread == read + IF end.h.body_start # 0 THEN 1 ELSE 0
           n == Len(http_text)
<1>0. CharactersRead(len) = end
  BY Zenon DEF CharactersRead, FirstRun, Positions
<1> HIDE DEF end
<1>15. SUFFICES ASSUME /\ http_pc' = IF Asserted(end, read, len) THEN "reading" ELSE "aborted"
                       /\ http' = Stored(end, read)
                       /\ environ' = FoldLeft(Callback, environ, end.events)
                PROVE  HttpInv'
  <2>1. /\ UNCHANGED <<http_request, http_text>>
        /\ \/ http_pc' = "overflown" /\ UNCHANGED <<http, http_events, environ>>
           \/ /\ http_pc' = IF Asserted(end, read, len) THEN "reading" ELSE "aborted"
              /\ http' = Stored(end, read)
              /\ environ' = FoldLeft(Callback, environ, end.events)
    BY <1>0, Zenon DEF HttpExecute
  <2>2. CASE http_pc' = "overflown" /\ UNCHANGED <<http, http_events, environ>>
    BY <2>1, <2>2 DEF HttpInv, Inside, FieldInside, EnvironTyped
  <2> QED
    BY <1>15, <2>1, <2>2
<1>1. /\ http' = [end.h EXCEPT !.nread = nread]
      /\ UNCHANGED <<http_request, http_text>> /\ http.cs # HttpError
      /\ environ' = FoldLeft(Callback, environ, end.events)
  BY <1>15, Zenon DEF HttpExecute, Stored
<1>2. ReadsTo(end, len) /\ (len = http.nread => end = FirstRun)
  BY RunReads DEF end
<1>3. end.h \in Parsers /\ end.p \in Nat /\ Inside(end.h, end.p) /\ end.p <= len
  BY <1>2, RunFields DEF ReadsTo
<1>12. end.events \in Seq(Told)
  BY <1>2 DEF ReadsTo
<1>13. end.h.cs \in Others => FieldInside(end.h, end.p)
  BY <1>2 DEF ReadsTo
<1>4. /\ http_text \in Texts /\ n \in Nat /\ len \in Nat /\ len <= n
  <2>1. http_text \in Texts /\ n \in Nat /\ http.nread \in Nat
    BY DEF HttpInv, Parsers, Texts
  <2>2. len \in http.nread .. n
    OBVIOUS
  <2> HIDE DEF n
  <2> QED
    BY <2>1, <2>2
<1>16. http.nread \in Nat /\ read = end.p
  <2>1. http.nread \in Nat
    BY DEF HttpInv, Parsers
  <2> QED
    BY <1>3, <2>1
<1>5. /\ nread \in Nat /\ end.p <= nread /\ nread <= end.p + 1
      /\ end.h.body_start = 0 => nread = end.p
  BY <1>3, <1>16
<1> HIDE DEF nread, n, read
<1>6. /\ http' \in Parsers /\ http'.nread = nread
      /\ http'.mark = end.h.mark /\ http'.body_start = end.h.body_start
      /\ http'.field_start = end.h.field_start /\ http'.field_len = end.h.field_len
  BY <1>1, <1>3, <1>5 DEF Parsers
<1>14. http'.cs = end.h.cs
  BY <1>1, <1>3, <1>5 DEF Parsers
<1>7. Inside(http', nread)
  <2>1. /\ end.h.mark \in Nat /\ end.h.field_start \in Nat /\ end.h.field_len \in Nat
        /\ end.h.body_start \in Nat
    BY <1>3 DEF Parsers
  <2>2. /\ nread \in Nat /\ end.p \in Nat /\ end.p <= nread
        /\ Inside(end.h, end.p)
    BY <1>3, <1>5
  <2>3. Inside(end.h, nread)
    BY <2>1, <2>2, InsideGrows, Zenon
  <2> QED
    BY <1>6, <2>3, Zenon DEF Inside
<1>8. /\ http_text' = http_text /\ Len(http_text)' = n
      /\ http_pc' \in {"reading", "aborted"}
  BY <1>1, <1>15 DEF n
<1>17. http_pc' = "aborted" => http'.nread = 0 /\ http'.cs # HttpError
  <2> SUFFICES ASSUME http_pc' = "aborted" PROVE http'.nread = 0 /\ http'.cs # HttpError
    OBVIOUS
  <2>1. ~Asserted(end, read, len)
    BY <1>15
  <2>2. /\ end.h.mark \in Nat /\ end.h.field_start \in Nat /\ end.h.field_len \in Nat
        /\ end.h.body_start \in Nat
    BY <1>3 DEF Parsers
  <2>3. len = 0
    BY <1>3, <1>4, <1>16, <2>1, <2>2 DEF Asserted, Inside
  <2>4. http.nread = 0
    <3>1. len \in http.nread .. n
      BY DEF n
    <3> QED
      BY <1>4, <1>16, <2>3, <3>1
  <2>5. end.h = http /\ end.p = 0
    BY <1>2, <2>3, <2>4 DEF FirstRun
  <2>6. http.body_start = 0
    BY Zenon DEF HttpExecute
  <2> QED
    BY <1>1, <1>5, <1>6, <1>14, <2>5, <2>6
<1>9. nread <= n + 1 /\ (end.h.body_start = 0 => nread <= n)
  BY <1>3, <1>4, <1>5
<1>10. http'.cs \in Others => FieldInside(http', nread)
  <2>1. end.h.field_start \in Nat /\ end.h.field_len \in Nat
    BY <1>3 DEF Parsers
  <2> SUFFICES ASSUME http'.cs \in Others PROVE FieldInside(http', nread)
    OBVIOUS
  <2>2. end.h.field_start + end.h.field_len <= end.p
    BY <1>13, <1>14 DEF FieldInside
  <2>3. end.h.field_start + end.h.field_len <= nread
    BY <1>3, <1>5, <2>1, <2>2
  <2> QED
    BY <1>6, <2>3 DEF FieldInside
<1>11. EnvironTyped(environ')
  BY <1>1, <1>12, CallbacksTyped DEF HttpInv
<1> QED
  BY <1>4, <1>6, <1>7, <1>8, <1>9, <1>10, <1>11, <1>17 DEF HttpInv, EnvironTyped

\* Every step keeps the invariant of the header parser.
LEMMA StepHttpInv == HttpInv /\ [HttpNext]_httpVars => HttpInv'
<1> SUFFICES ASSUME HttpInv, [HttpNext]_httpVars PROVE HttpInv'
  OBVIOUS
<1>1. CASE HttpBegin
  <2>1. /\ http_text' = TextOf(http_request') /\ http_request' \in HttpInputs
        /\ http_pc' = "reading" /\ http' = http /\ http_pc = "idle" /\ environ' = environ
    BY <1>1 DEF HttpBegin
  <2>2. http_text' \in Texts
    BY <2>1, TextTyped
  <2>3. http \in Parsers /\ Inside(http, http.nread) /\ http.nread = 0
    BY <2>1 DEF HttpInv
  <2>4. Len(http_text') \in Nat
    BY <2>2 DEF Texts
  <2> DEFINE n == Len(http_text')
  <2>5. 0 <= n + 1 /\ 0 <= n
    <3>1. n \in Nat
      BY <2>4
    <3> HIDE DEF n
    <3> QED
      BY <3>1
  <2>6. EnvironTyped(environ') /\ (http'.cs \in Others => FieldInside(http', http'.nread))
    BY <2>1, Zenon DEF HttpInv
  <2> QED
    BY <2>1, <2>2, <2>3, <2>5, <2>6 DEF HttpInv, EnvironTyped
<1>2. CASE HttpRead
  BY <1>2, ExecuteHttpInv DEF HttpRead
<1>5. CASE HttpStartOver
  BY <1>5 DEF HttpStartOver, HttpInv, Inside, FieldInside, EnvironTyped
<1>3. CASE HttpFinish
  <2>1. UNCHANGED <<http_text, http, environ>> /\ http_pc' \in {"error", "finished", "incomplete"}
    BY <1>3 DEF HttpFinish
  <2> QED
    BY <2>1 DEF HttpInv, Inside, FieldInside, EnvironTyped
<1>4. CASE UNCHANGED httpVars
  BY <1>4 DEF HttpInv, Inside, FieldInside, EnvironTyped, httpVars
<1> QED
  BY <1>1, <1>2, <1>3, <1>4, <1>5 DEF HttpNext

\* It says what parser.c asserts.
LEMMA HttpSafe == HttpInv => HttpAsserts
  BY DEF HttpInv, HttpAsserts

\* And its types.
LEMMA HttpTypesFollow == HttpInv => HttpTypeOK
<1> SUFFICES ASSUME HttpInv PROVE HttpTypeOK
  OBVIOUS
<1>1. /\ http.cs \in HttpStates /\ http.mark \in Nat /\ http.nread \in Nat /\ http.body_start \in Nat
      /\ http.field_start \in Nat /\ http.field_len \in Nat /\ http.query_start \in Nat
  BY DEF HttpInv, Parsers
<1> QED
  BY <1>1 DEF HttpInv, HttpTypeOK, EnvironTyped

-----------------------------------------------------------------------------
(***************************************************************************)
(* The client library, for any number of callers, of threads of the pool   *)
(* and of headers.  The invariant says where the task of a waiting caller  *)
(* is (TaskInv), what the phase of a call says of the client's lock        *)
(* (CallInv), and what the headers in use have to do with those of the     *)
(* handle (HeaderInv).                                                     *)
(***************************************************************************)
Names == HeaderNames \cup {"User-Agent", "API-KEY"}
Phases == {"idle", "future", "request", "sending", "answered", "returned"}
CallRecords == [op : JsonOps \cup DirectOps \cup {"none"}, result : Nat, pc : Phases]
Exchanges == [headers : Seq(Names), answer : Statuses \cup {NoResponse}]

Waits(t) == cl_call[t].op \in JsonOps /\ cl_call[t].pc \in {"future", "sending"}
InQueue(t) == \E i \in 1 .. Len(cl_queue) : cl_queue[i] = t
InPool(t) == \E p \in PoolThreads : cl_pool[p] = t

CallInv ==
    \A t \in Callers :
        /\ cl_call[t].pc = "future" => cl_call[t].op \in JsonOps
        /\ cl_call[t].pc = "request" => cl_call[t].op \in DirectOps
        /\ cl_call[t].pc = "sending" => cl_lock = t

TaskInv ==
    /\ \A i, j \in 1 .. Len(cl_queue) : cl_queue[i] = cl_queue[j] => i = j
    /\ \A p, q \in PoolThreads : cl_pool[p] = cl_pool[q] /\ cl_pool[p] # NoCaller => p = q
    /\ \A t \in Callers : /\ Waits(t) <=> InQueue(t) \/ InPool(t)
                          /\ InQueue(t) => ~InPool(t) /\ cl_call[t].pc = "future"

\* The headers of a request: none, or the two of http_request_initialize before
\* the ones that the handle had then.
FromHandle(list) ==
    list # <<>> =>
        /\ Len(list) >= 2 /\ list[1] = "User-Agent" /\ list[2] = "API-KEY"
        /\ \A i \in 3 .. Len(list) : list[i] \in HeaderNames
        /\ cl_handle \in {"none", "open"} =>
              /\ Len(list) <= Len(cl_headers) + 2
              /\ \A i \in 3 .. Len(list) : list[i] = cl_headers[i - 2]

HeaderInv == FromHandle(cl_defaults) /\ \A t \in Callers : FromHandle(cl_wire[t].headers)

ClientInv == ClientTypeOK /\ CallInv /\ TaskInv /\ HeaderInv /\ CallsTellOutcome

(***************************************************************************)
(* Types.                                                                  *)
(***************************************************************************)
\* The types of the calls and of the exchanges, in the names of this module.
LEMMA CallTypes ==
    ASSUME ClientTypeOK
    PROVE  /\ cl_call \in [Callers -> CallRecords] /\ cl_wire \in [Callers -> Exchanges]
           /\ cl_defaults \in Seq(Names)
  BY DEF ClientTypeOK, CallRecords, Exchanges, Names, Phases

\* The library keeps its types.
LEMMA InitClientTypeOK == ClientInit => ClientTypeOK
<1> SUFFICES ASSUME ClientInit PROVE ClientTypeOK
  OBVIOUS
<1>1. /\ <<>> \in Seq(HeaderNames) /\ <<>> \in Seq(HeaderNames \cup {"User-Agent", "API-KEY"})
      /\ <<>> \in Seq(Callers)
  BY SMT
<1>2. cl_call \in [Callers -> [op : JsonOps \cup DirectOps \cup {"none"}, result : Nat,
                     pc : {"idle", "future", "request", "sending", "answered", "returned"}]]
  BY DEF ClientInit, NoCall
<1>3. cl_wire \in [Callers -> [headers : Seq(HeaderNames \cup {"User-Agent", "API-KEY"}),
                               answer : Statuses \cup {NoResponse}]]
  BY <1>1 DEF ClientInit, NotSent
<1>4. QED
  BY <1>1, <1>2, <1>3 DEF ClientInit, ClientTypeOK

\* Every step keeps the types.
LEMMA NextClientTypeOK == ClientTypeOK /\ [ClientNext]_clientVars => ClientTypeOK'
<1> SUFFICES ASSUME ClientTypeOK, [ClientNext]_clientVars PROVE ClientTypeOK'
  OBVIOUS
<1>t. cl_call \in [Callers -> CallRecords] /\ cl_wire \in [Callers -> Exchanges]
  BY CallTypes
<1>n. NoCall \in CallRecords
  BY DEF NoCall, CallRecords, Phases
<1>e. NotSent \in Exchanges
  <2>1. <<>> \in Seq(Names)
    BY SMT
  <2>2. QED
    BY <2>1 DEF NotSent, Exchanges
<1>u. ASSUME cl_call' \in [Callers -> CallRecords], cl_wire' \in [Callers -> Exchanges]
      PROVE  /\ cl_call' \in [Callers -> [op : JsonOps \cup DirectOps \cup {"none"}, result : Nat,
                   pc : {"idle", "future", "request", "sending", "answered", "returned"}]]
             /\ cl_wire' \in [Callers -> [headers : Seq(HeaderNames \cup {"User-Agent", "API-KEY"}),
                               answer : Statuses \cup {NoResponse}]]
  BY <1>u DEF CallRecords, Exchanges, Names, Phases
<1>1. CASE new_http_client
  BY <1>1, ConfigAssumption DEF new_http_client, ClientTypeOK
<1>2. CASE setup_http_header
  BY <1>2 DEF setup_http_header, ClientTypeOK
<1>3. CASE http_request_initialize
  <2>1. cl_defaults' \in Seq(HeaderNames \cup {"User-Agent", "API-KEY"})
    <3>1. <<"User-Agent", "API-KEY">> \in Seq(HeaderNames \cup {"User-Agent", "API-KEY"})
      OBVIOUS
    <3>2. cl_headers \in Seq(HeaderNames \cup {"User-Agent", "API-KEY"})
      BY DEF ClientTypeOK
    <3>3. cl_defaults' = <<"User-Agent", "API-KEY">> \o cl_headers
      BY <1>3 DEF http_request_initialize
    <3>4. QED
      BY <3>1, <3>2, <3>3
  <2>2. QED
    BY <1>3, <2>1 DEF http_request_initialize, ClientTypeOK
<1>4. CASE free_client_handle
  <2>1. <<>> \in Seq(HeaderNames)
    BY SMT
  <2>2. QED
    BY <1>4, <2>1 DEF free_client_handle, ClientTypeOK
<1>5. ASSUME NEW t \in Callers, post_json(t) PROVE ClientTypeOK'
  <2>1. cl_call' \in [Callers -> CallRecords] /\ cl_wire' \in [Callers -> Exchanges]
    BY <1>t, <1>e, <1>5 DEF post_json, CallRecords, Phases
  <2>2. cl_queue' \in Seq(Callers)
    BY <1>5 DEF post_json, ClientTypeOK
  <2>3. QED
    BY <1>u, <1>5, <2>1, <2>2 DEF post_json, settings, ClientTypeOK
<1>6. ASSUME NEW t \in Callers, call_directly(t) PROVE ClientTypeOK'
  <2>1. cl_call' \in [Callers -> CallRecords] /\ cl_wire' \in [Callers -> Exchanges]
    BY <1>t, <1>e, <1>6 DEF call_directly, CallRecords, Phases
  <2>2. cl_file' \in [Callers -> {"absent", "empty", "written"}]
    BY <1>6 DEF call_directly, ClientTypeOK
  <2>3. QED
    BY <1>u, <1>6, <2>1, <2>2 DEF call_directly, settings, ClientTypeOK
<1>s. ASSUME NEW t \in Callers, Send(t), Move(t, "sending") PROVE ClientTypeOK'
  <2>1. cl_call' \in [Callers -> CallRecords]
    BY <1>t, <1>s DEF Move, CallRecords, Phases
  <2>2. [headers |-> cl_defaults, answer |-> NoResponse] \in Exchanges
    BY CallTypes DEF Exchanges
  <2>3. cl_wire' \in [Callers -> Exchanges]
    BY <1>t, <1>s, <2>2 DEF Send
  <2>4. QED
    BY <1>u, <1>s, <2>1, <2>3 DEF Send, settings, ClientTypeOK
<1>7. ASSUME NEW t \in Callers, send_directly(t) PROVE ClientTypeOK'
  BY <1>s, <1>7 DEF send_directly
<1>8. ASSUME NEW t \in Callers, response(t) PROVE ClientTypeOK'
  <2>1. cl_call' \in [Callers -> CallRecords]
    BY <1>t, <1>8 DEF response, Move, CallRecords, Phases
  <2>2. cl_wire' \in [Callers -> Exchanges]
    BY <1>t, <1>8 DEF response, Exchanges
  <2>3. cl_file' \in [Callers -> {"absent", "empty", "written"}]
    BY <1>8 DEF response, ClientTypeOK
  <2>4. cl_pool' \in [PoolThreads -> Callers \cup {NoCaller}]
    BY <1>8 DEF response, ClientTypeOK
  <2>5. QED
    BY <1>u, <1>8, <2>1, <2>2, <2>3, <2>4 DEF response, settings, ClientTypeOK
<1>9. ASSUME NEW t \in Callers, take_status(t) PROVE ClientTypeOK'
  <2>1. cl_call' \in [Callers -> CallRecords]
    <3>1. CASE cl_wire[t].answer = NoResponse
      BY <1>t, <1>9, <3>1 DEF take_status
    <3>2. CASE cl_wire[t].answer # NoResponse
      <4>1. cl_wire[t].answer \in Nat
        BY <1>t, <3>2, ConfigAssumption DEF Exchanges
      <4>2. cl_call' = [cl_call EXCEPT ![t].pc = "returned", ![t].result = cl_wire[t].answer]
        BY <1>9, <3>2 DEF take_status, ReturnStatus
      <4>3. QED
        BY <1>t, <4>1, <4>2 DEF CallRecords, Phases
    <3>3. QED
      BY <3>1, <3>2
  <2>2. QED
    BY <1>t, <1>u, <1>9, <2>1 DEF take_status, settings, ClientTypeOK
<1>10. ASSUME NEW t \in Callers, call_again(t) PROVE ClientTypeOK'
  <2>1. cl_call' \in [Callers -> CallRecords] /\ cl_wire' \in [Callers -> Exchanges]
    BY <1>t, <1>n, <1>e, <1>10 DEF call_again
  <2>2. cl_file' \in [Callers -> {"absent", "empty", "written"}]
    BY <1>10 DEF call_again, ClientTypeOK
  <2>3. QED
    BY <1>u, <1>10, <2>1, <2>2 DEF call_again, settings, ClientTypeOK
<1>11. ASSUME NEW p \in PoolThreads, take_task(p) PROVE ClientTypeOK'
  BY <1>11 DEF take_task, settings, ClientTypeOK
<1>12. ASSUME NEW p \in PoolThreads, send_task(p) PROVE ClientTypeOK'
  <2>1. PICK t \in Callers : t = cl_pool[p]
    BY <1>12 DEF send_task, ClientTypeOK
  <2>2. QED
    BY <1>s, <1>12, <2>1 DEF send_task
<1>13. CASE UNCHANGED clientVars
  BY <1>13 DEF clientVars, ClientTypeOK
<1>14. QED
  BY <1>1, <1>2, <1>3, <1>4, <1>5, <1>6, <1>7, <1>8, <1>9, <1>10, <1>11, <1>12, <1>13
     DEF ClientNext, ClientStep, PoolStep

(***************************************************************************)
(* The phases of a call, and the lock of the client.                       *)
(***************************************************************************)
\* What a step does to the calls: one caller moves, or none does.
LEMMA MovedCalls ==
    ASSUME ClientTypeOK, NEW t \in Callers
    PROVE  /\ \A to \in Phases : Move(t, to) =>
                 /\ cl_call'[t].pc = to /\ cl_call'[t].op = cl_call[t].op
                 /\ \A u \in Callers \ {t} : cl_call'[u] = cl_call[u]
           /\ \A status : ReturnStatus(t, status) =>
                 /\ cl_call'[t].pc = "returned" /\ cl_call'[t].op = cl_call[t].op
                 /\ cl_call'[t].result = status
                 /\ \A u \in Callers \ {t} : cl_call'[u] = cl_call[u]
  BY CallTypes DEF Move, ReturnStatus, CallRecords

\* Only the caller whose request is sent holds the client.
LEMMA NextCallInv == ClientTypeOK /\ CallInv /\ [ClientNext]_clientVars => CallInv'
<1> SUFFICES ASSUME ClientTypeOK, CallInv, [ClientNext]_clientVars PROVE CallInv'
  OBVIOUS
<1>t. cl_call \in [Callers -> CallRecords] /\ NoCaller \notin Callers
  BY CallTypes, ConfigAssumption
<1>1. CASE UNCHANGED <<cl_call, cl_lock>>
  BY <1>1 DEF CallInv
<1>2. ASSUME NEW t \in Callers, post_json(t) PROVE CallInv'
  BY <1>t, <1>2 DEF post_json, CallInv
<1>3. ASSUME NEW t \in Callers, call_directly(t) PROVE CallInv'
  BY <1>t, <1>3 DEF call_directly, CallInv
<1>4. ASSUME NEW t \in Callers, Send(t), Move(t, "sending") PROVE CallInv'
  BY <1>t, <1>4, MovedCalls DEF Send, CallInv, Phases
<1>5. ASSUME NEW t \in Callers, response(t) PROVE CallInv'
  BY <1>t, <1>5, MovedCalls DEF response, CallInv, Phases
<1>6. ASSUME NEW t \in Callers, take_status(t) PROVE CallInv'
  <2>1. cl_lock' = cl_lock /\ (cl_call' = cl_call \/ ReturnStatus(t, cl_wire[t].answer))
    BY <1>6 DEF take_status
  <2>2. CASE cl_call' = cl_call
    BY <2>1, <2>2 DEF CallInv
  <2>3. CASE ReturnStatus(t, cl_wire[t].answer)
    BY <2>1, <2>3, MovedCalls DEF CallInv
  <2>4. QED
    BY <2>1, <2>2, <2>3
<1>7. ASSUME NEW t \in Callers, call_again(t) PROVE CallInv'
  BY <1>t, <1>7 DEF call_again, NoCall, CallInv
<1>8. CASE UNCHANGED clientVars \/ new_http_client \/ setup_http_header
           \/ http_request_initialize \/ free_client_handle
           \/ \E p \in PoolThreads : take_task(p)
  BY <1>1, <1>8 DEF clientVars, new_http_client, setup_http_header, http_request_initialize,
                    free_client_handle, take_task
<1>9. ASSUME NEW p \in PoolThreads, send_task(p) PROVE CallInv'
  <2>1. PICK t \in Callers : t = cl_pool[p]
    BY <1>9 DEF send_task, ClientTypeOK
  <2>2. QED
    BY <1>4, <1>9, <2>1 DEF send_task
<1>10. ASSUME NEW t \in Callers, send_directly(t) PROVE CallInv'
  BY <1>4, <1>10 DEF send_directly
<1>11. QED
  BY <1>2, <1>3, <1>5, <1>6, <1>7, <1>8, <1>9, <1>10 DEF ClientNext, ClientStep, PoolStep

(***************************************************************************)
(* Every waiting caller has its one task.                                  *)
(***************************************************************************)
\* Nothing about the tasks changes when nobody begins or ends to wait.
LEMMA TasksKept ==
    ASSUME TaskInv, UNCHANGED <<cl_queue, cl_pool>>,
           \A t \in Callers : /\ Waits(t)' <=> Waits(t)
                              /\ InQueue(t) /\ cl_call[t].pc = "future" =>
                                    cl_call'[t].pc = "future"
    PROVE  TaskInv'
<1>1. \A t \in Callers : (InQueue(t)' <=> InQueue(t)) /\ (InPool(t)' <=> InPool(t))
  BY DEF InQueue, InPool
<1>2. QED
  BY <1>1 DEF TaskInv

\* Every step keeps the tasks where their callers wait for them.
LEMMA NextTaskInv == ClientTypeOK /\ CallInv /\ TaskInv /\ [ClientNext]_clientVars => TaskInv'
<1> SUFFICES ASSUME ClientTypeOK, CallInv, TaskInv, [ClientNext]_clientVars PROVE TaskInv'
  OBVIOUS
<1>t. /\ cl_call \in [Callers -> CallRecords] /\ NoCaller \notin Callers
      /\ cl_queue \in Seq(Callers) /\ Len(cl_queue) \in Nat
      /\ cl_pool \in [PoolThreads -> Callers \cup {NoCaller}]
      /\ \A i \in 1 .. Len(cl_queue) : cl_queue[i] \in Callers
  BY CallTypes, ConfigAssumption DEF ClientTypeOK
<1>o. JsonOps \cap DirectOps = {} /\ "none" \notin JsonOps
  BY DEF JsonOps, DirectOps
<1>1. CASE UNCHANGED <<cl_call, cl_queue, cl_pool>>
  BY <1>1, TasksKept DEF Waits
<1>2. ASSUME NEW t \in Callers, post_json(t) PROVE TaskInv'
  <2>1. /\ Len(cl_queue') = Len(cl_queue) + 1 /\ cl_queue'[Len(cl_queue) + 1] = t
        /\ \A i \in 1 .. Len(cl_queue) : cl_queue'[i] = cl_queue[i]
        /\ cl_pool' = cl_pool
    BY <1>2, <1>t DEF post_json
  <2>2. /\ cl_call[t].pc = "idle" /\ cl_call'[t].pc = "future" /\ cl_call'[t].op \in JsonOps
        /\ \A u \in Callers \ {t} : cl_call'[u] = cl_call[u]
    BY <1>2, <1>t DEF post_json
  <2>3. ~InQueue(t) /\ ~InPool(t)
    BY <2>2 DEF TaskInv, Waits
  <2>4. \A u \in Callers : /\ InPool(u)' <=> InPool(u)
                           /\ InQueue(u)' <=> InQueue(u) \/ u = t
    <3>1. ASSUME NEW u \in Callers, InQueue(u)' PROVE InQueue(u) \/ u = t
      <4>1. PICK i \in 1 .. Len(cl_queue') : cl_queue'[i] = u
        BY <3>1 DEF InQueue
      <4>2. QED
        BY <1>t, <2>1, <4>1 DEF InQueue
    <3>2. ASSUME NEW u \in Callers, InQueue(u) \/ u = t PROVE InQueue(u)'
      <4>1. Len(cl_queue) + 1 \in 1 .. Len(cl_queue')
        BY <1>t, <2>1
      <4>2. CASE u = t
        BY <2>1, <4>1, <4>2 DEF InQueue
      <4>3. CASE InQueue(u)
        <5>1. PICK i \in 1 .. Len(cl_queue) : cl_queue[i] = u
          BY <4>3 DEF InQueue
        <5>2. i \in 1 .. Len(cl_queue') /\ cl_queue'[i] = u
          BY <1>t, <2>1, <5>1
        <5>3. QED
          BY <5>2 DEF InQueue
      <4>4. QED
        BY <3>2, <4>2, <4>3
    <3>3. QED
      BY <2>1, <3>1, <3>2 DEF InPool
  <2>5. \A i, j \in 1 .. Len(cl_queue') : cl_queue'[i] = cl_queue'[j] => i = j
    <3>1. \A i \in 1 .. Len(cl_queue) : cl_queue[i] # t
      BY <2>3 DEF InQueue
    <3>2. QED
      BY <1>t, <2>1, <3>1 DEF TaskInv
  <2>6. ASSUME NEW u \in Callers
        PROVE  /\ Waits(u)' <=> InQueue(u)' \/ InPool(u)'
               /\ InQueue(u)' => ~InPool(u)' /\ cl_call'[u].pc = "future"
    <3>1. CASE u = t
      BY <2>2, <2>3, <2>4, <3>1 DEF Waits
    <3>2. CASE u # t
      BY <2>2, <2>4, <3>2 DEF Waits, TaskInv
    <3>3. QED
      BY <3>1, <3>2
  <2>7. QED
    BY <2>1, <2>5, <2>6 DEF TaskInv
<1>3. ASSUME NEW p \in PoolThreads, take_task(p) PROVE TaskInv'
  <2>1. /\ cl_pool[p] = NoCaller /\ cl_queue # <<>> /\ cl_call' = cl_call
        /\ cl_pool' = [cl_pool EXCEPT ![p] = Head(cl_queue)]
        /\ cl_queue' = Tail(cl_queue)
    BY <1>3 DEF take_task
  <2>2. /\ Len(cl_queue) >= 1 /\ Head(cl_queue) = cl_queue[1]
        /\ Len(cl_queue') = Len(cl_queue) - 1
        /\ \A i \in 1 .. Len(cl_queue') : cl_queue'[i] = cl_queue[i + 1]
    BY <1>t, <2>1
  <2>3. PICK h \in Callers : h = cl_queue[1]
    BY <1>t, <2>2
  <2>4. cl_pool'[p] = h /\ \A q \in PoolThreads : q # p => cl_pool'[q] = cl_pool[q]
    BY <1>t, <2>1, <2>2, <2>3
  <2>5. InQueue(h) /\ ~InPool(h)
    BY <1>t, <2>2, <2>3 DEF InQueue, TaskInv
  <2>6. \A i, j \in 1 .. Len(cl_queue') : cl_queue'[i] = cl_queue'[j] => i = j
    <3>1. ASSUME NEW i \in 1 .. Len(cl_queue'), NEW j \in 1 .. Len(cl_queue'),
                 cl_queue'[i] = cl_queue'[j]
          PROVE  i = j
      <4>1. i + 1 \in 1 .. Len(cl_queue) /\ j + 1 \in 1 .. Len(cl_queue)
        BY <1>t, <2>2
      <4>2. i + 1 = j + 1
        BY <2>2, <3>1, <4>1 DEF TaskInv
      <4>3. QED
        BY <4>2
    <3>2. QED
      BY <3>1
  <2>7. \A u \in Callers : InQueue(u)' <=> InQueue(u) /\ u # h
    <3>1. ASSUME NEW u \in Callers, InQueue(u)' PROVE InQueue(u) /\ u # h
      <4>1. PICK i \in 1 .. Len(cl_queue') : cl_queue'[i] = u
        BY <3>1 DEF InQueue
      <4>2. i + 1 \in 1 .. Len(cl_queue) /\ 1 \in 1 .. Len(cl_queue) /\ cl_queue[i + 1] = u
        BY <1>t, <2>2, <4>1
      <4>3. i + 1 # 1
        OBVIOUS
      <4>4. u # h
        BY <2>3, <4>2, <4>3 DEF TaskInv
      <4>5. QED
        BY <4>2, <4>4 DEF InQueue
    <3>2. ASSUME NEW u \in Callers, InQueue(u), u # h PROVE InQueue(u)'
      <4>1. PICK i \in 1 .. Len(cl_queue) : cl_queue[i] = u
        BY <3>2 DEF InQueue
      <4>2. i # 1
        BY <2>3, <3>2, <4>1
      <4>3. i - 1 \in 1 .. Len(cl_queue') /\ cl_queue'[i - 1] = u
        BY <1>t, <2>2, <4>1, <4>2
      <4>4. QED
        BY <4>3 DEF InQueue
    <3>3. QED
      BY <3>1, <3>2
  <2>8. \A u \in Callers : InPool(u)' <=> InPool(u) \/ u = h
    BY <1>t, <2>1, <2>4 DEF InPool
  <2>9. \A q, r \in PoolThreads : cl_pool'[q] = cl_pool'[r] /\ cl_pool'[q] # NoCaller => q = r
    BY <2>4, <2>5 DEF TaskInv, InPool
  <2>10. \A u \in Callers : /\ Waits(u)' <=> InQueue(u)' \/ InPool(u)'
                            /\ InQueue(u)' => ~InPool(u)' /\ cl_call'[u].pc = "future"
    BY <2>1, <2>5, <2>7, <2>8 DEF TaskInv, Waits
  <2>11. QED
    BY <2>6, <2>9, <2>10 DEF TaskInv
<1>4. ASSUME NEW p \in PoolThreads, send_task(p) PROVE TaskInv'
  <2>1. PICK t \in Callers : t = cl_pool[p]
    BY <1>4, <1>t DEF send_task
  <2>2. /\ cl_call[t].pc = "future" /\ Move(t, "sending") /\ UNCHANGED <<cl_queue, cl_pool>>
    BY <1>4, <2>1 DEF send_task, Send
  <2>3. InPool(t) /\ ~InQueue(t)
    BY <2>1 DEF InPool, TaskInv
  <2>4. /\ cl_call'[t].pc = "sending" /\ cl_call'[t].op = cl_call[t].op
        /\ \A u \in Callers \ {t} : cl_call'[u] = cl_call[u]
    BY <2>2, MovedCalls DEF Phases
  <2>5. QED
    BY <2>2, <2>3, <2>4, TasksKept DEF Waits
<1>5. ASSUME NEW t \in Callers, response(t) PROVE TaskInv'
  <2>1. /\ cl_call[t].pc = "sending" /\ cl_call'[t].pc = "answered"
        /\ \A u \in Callers \ {t} : cl_call'[u] = cl_call[u]
        /\ cl_queue' = cl_queue
        /\ \A q \in PoolThreads : cl_pool'[q] = IF cl_pool[q] = t THEN NoCaller ELSE cl_pool[q]
    BY <1>5, MovedCalls DEF response, Phases
  <2>2. ~InQueue(t)
    BY <2>1 DEF TaskInv
  <2>3. \A u \in Callers : /\ InQueue(u)' <=> InQueue(u)
                           /\ InPool(u)' <=> InPool(u) /\ u # t
    BY <1>t, <2>1 DEF InQueue, InPool
  <2>4. \A q, r \in PoolThreads : cl_pool'[q] = cl_pool'[r] /\ cl_pool'[q] # NoCaller => q = r
    BY <2>1 DEF TaskInv
  <2>5. ASSUME NEW u \in Callers
        PROVE  /\ Waits(u)' <=> InQueue(u)' \/ InPool(u)'
               /\ InQueue(u)' => ~InPool(u)' /\ cl_call'[u].pc = "future"
    <3>1. CASE u = t
      BY <2>1, <2>2, <2>3, <3>1 DEF Waits
    <3>2. CASE u # t
      BY <2>1, <2>3, <3>2 DEF Waits, TaskInv
    <3>3. QED
      BY <3>1, <3>2
  <2>6. QED
    BY <2>1, <2>4, <2>5 DEF TaskInv
<1>6. ASSUME NEW t \in Callers, call_directly(t) PROVE TaskInv'
  <2>1. /\ cl_call[t].pc = "idle" /\ cl_call'[t].op \in DirectOps
        /\ \A u \in Callers \ {t} : cl_call'[u] = cl_call[u]
        /\ UNCHANGED <<cl_queue, cl_pool>>
    BY <1>6, <1>t DEF call_directly
  <2>2. QED
    BY <1>o, <2>1, TasksKept DEF Waits
<1>7. ASSUME NEW t \in Callers, send_directly(t) PROVE TaskInv'
  <2>1. /\ cl_call[t].pc = "request" /\ Move(t, "sending") /\ UNCHANGED <<cl_queue, cl_pool>>
        /\ cl_call[t].op \in DirectOps
    BY <1>7 DEF send_directly, Send, CallInv
  <2>2. /\ cl_call'[t].pc = "sending" /\ cl_call'[t].op = cl_call[t].op
        /\ \A u \in Callers \ {t} : cl_call'[u] = cl_call[u]
    BY <2>1, MovedCalls DEF Phases
  <2>3. QED
    BY <1>o, <2>1, <2>2, TasksKept DEF Waits
<1>8. ASSUME NEW t \in Callers, take_status(t) PROVE TaskInv'
  <2>1. /\ cl_call[t].pc = "answered" /\ UNCHANGED <<cl_queue, cl_pool>>
        /\ cl_call' = cl_call \/ ReturnStatus(t, cl_wire[t].answer)
    BY <1>8 DEF take_status
  <2>2. CASE cl_call' = cl_call
    BY <1>1, <2>1, <2>2
  <2>3. CASE ReturnStatus(t, cl_wire[t].answer)
    <3>1. cl_call'[t].pc = "returned" /\ \A u \in Callers \ {t} : cl_call'[u] = cl_call[u]
      BY <2>3, MovedCalls
    <3>2. QED
      BY <2>1, <3>1, TasksKept DEF Waits
  <2>4. QED
    BY <2>1, <2>2, <2>3
<1>9. ASSUME NEW t \in Callers, call_again(t) PROVE TaskInv'
  <2>1. /\ cl_call[t].pc = "returned" /\ cl_call'[t].pc = "idle"
        /\ \A u \in Callers \ {t} : cl_call'[u] = cl_call[u]
        /\ UNCHANGED <<cl_queue, cl_pool>>
    BY <1>9, <1>t DEF call_again, NoCall
  <2>2. QED
    BY <2>1, TasksKept DEF Waits
<1>10. CASE UNCHANGED clientVars \/ new_http_client \/ setup_http_header
            \/ http_request_initialize \/ free_client_handle
  BY <1>1, <1>10 DEF clientVars, new_http_client, setup_http_header, http_request_initialize,
                     free_client_handle
<1>11. QED
  BY <1>2, <1>3, <1>4, <1>5, <1>6, <1>7, <1>8, <1>9, <1>10 DEF ClientNext, ClientStep, PoolStep

(***************************************************************************)
(* The headers.                                                            *)
(***************************************************************************)
\* A list of headers stays what it was while the headers of the handle grow.
LEMMA ListKept ==
    ASSUME ClientTypeOK, NEW list \in Seq(Names), FromHandle(list),
           cl_handle' \in {"none", "open"} => cl_handle \in {"none", "open"},
           \/ cl_handle' \notin {"none", "open"}
           \/ cl_headers' = cl_headers
           \/ \E name \in HeaderNames : cl_headers' = Append(cl_headers, name)
    PROVE  FromHandle(list)'
<1>1. CASE cl_handle' \notin {"none", "open"} \/ cl_headers' = cl_headers
  BY <1>1 DEF FromHandle
<1>2. ASSUME NEW name \in HeaderNames, cl_headers' = Append(cl_headers, name)
      PROVE  FromHandle(list)'
  <2>1. /\ cl_headers \in Seq(HeaderNames) /\ Len(cl_headers) \in Nat
        /\ Len(cl_headers') = Len(cl_headers) + 1
        /\ \A i \in 1 .. Len(cl_headers) : cl_headers'[i] = cl_headers[i]
    BY <1>2 DEF ClientTypeOK
  <2>2. ASSUME list # <<>>, cl_handle \in {"none", "open"}
        PROVE  /\ Len(list) <= Len(cl_headers') + 2
               /\ \A i \in 3 .. Len(list) : list[i] = cl_headers'[i - 2]
    <3>1. /\ Len(list) \in Nat /\ Len(list) <= Len(cl_headers) + 2
          /\ \A i \in 3 .. Len(list) : list[i] = cl_headers[i - 2]
      BY <2>2 DEF FromHandle
    <3>2. QED
      BY <2>1, <3>1
  <2>3. QED
    BY <2>2 DEF FromHandle
<1>3. QED
  BY <1>1, <1>2

\* The lists of all callers, when they are the ones from before or the defaults.
LEMMA ListsKept ==
    ASSUME ClientTypeOK, HeaderInv,
           cl_handle' \in {"none", "open"} => cl_handle \in {"none", "open"},
           \/ cl_handle' \notin {"none", "open"}
           \/ cl_headers' = cl_headers
           \/ \E name \in HeaderNames : cl_headers' = Append(cl_headers, name),
           \A t \in Callers : cl_wire'[t].headers \in {<<>>, cl_defaults, cl_wire[t].headers}
    PROVE  /\ \A t \in Callers : FromHandle(cl_wire[t].headers)'
           /\ cl_defaults' = cl_defaults => HeaderInv'
<1>1. PICK old \in Seq(Names) : old = cl_defaults
  BY CallTypes
<1>2. FromHandle(old)'
  BY <1>1, ListKept DEF HeaderInv
<1>3. ASSUME NEW t \in Callers PROVE FromHandle(cl_wire[t].headers)'
  <2>1. PICK was \in Seq(Names) : was = cl_wire[t].headers
    BY CallTypes DEF Exchanges
  <2>2. FromHandle(was)'
    BY <2>1, ListKept DEF HeaderInv
  <2>3. PICK list : list = cl_wire'[t].headers
    OBVIOUS
  <2>4. list = <<>> \/ list = old \/ list = was
    BY <1>1, <2>1, <2>3
  <2>5. FromHandle(list)'
    BY <1>2, <2>2, <2>4 DEF FromHandle
  <2>6. QED
    BY <2>3, <2>5
<1>4. ASSUME cl_defaults' = cl_defaults PROVE FromHandle(cl_defaults)'
  <2>1. old = cl_defaults'
    BY <1>1, <1>4
  <2>2. QED
    BY <1>2, <2>1
<1>5. QED
  BY <1>3, <1>4 DEF HeaderInv

\* No step sends, or keeps, headers that the handle has not got.
LEMMA NextHeaderInv == ClientTypeOK /\ HeaderInv /\ [ClientNext]_clientVars => HeaderInv'
<1> SUFFICES ASSUME ClientTypeOK, HeaderInv, [ClientNext]_clientVars PROVE HeaderInv'
  OBVIOUS
<1>t. cl_wire \in [Callers -> Exchanges] /\ NotSent.headers = <<>>
  BY CallTypes DEF NotSent
<1>1. CASE UNCHANGED <<cl_wire, cl_headers, cl_handle, cl_defaults>>
  BY <1>1 DEF HeaderInv, FromHandle
<1>2. CASE new_http_client
  BY <1>2, ListsKept DEF new_http_client
<1>3. CASE setup_http_header
  BY <1>3, ListsKept DEF setup_http_header, Running
<1>4. CASE http_request_initialize
  <2>1. \A t \in Callers : FromHandle(cl_wire[t].headers)'
    BY <1>4, ListsKept DEF http_request_initialize
  <2>2. cl_defaults' = <<"User-Agent", "API-KEY">> \o cl_headers
    BY <1>4 DEF http_request_initialize
  <2>3. cl_headers \in Seq(HeaderNames) /\ cl_headers' = cl_headers
    BY <1>4 DEF http_request_initialize, ClientTypeOK
  <2>4. PICK list : list = cl_defaults'
    OBVIOUS
  <2>5. /\ Len(list) = Len(cl_headers) + 2 /\ Len(cl_headers) \in Nat
        /\ list[1] = "User-Agent" /\ list[2] = "API-KEY"
        /\ \A i \in 3 .. Len(list) : list[i] = cl_headers[i - 2] /\ list[i] \in HeaderNames
    BY <2>2, <2>3, <2>4
  <2>6. FromHandle(list)'
    BY <2>3, <2>5 DEF FromHandle
  <2>7. QED
    BY <2>1, <2>4, <2>6 DEF HeaderInv
<1>5. CASE free_client_handle
  BY <1>5, ListsKept DEF free_client_handle
<1>6. ASSUME NEW t \in Callers, UNCHANGED settings,
             cl_wire' = [cl_wire EXCEPT ![t] = NotSent]
      PROVE  HeaderInv'
  <2>1. \A u \in Callers : cl_wire'[u].headers \in {<<>>, cl_defaults, cl_wire[u].headers}
    BY <1>t, <1>6
  <2>2. QED
    BY <1>6, <2>1, ListsKept DEF settings
<1>7. ASSUME NEW t \in Callers, Send(t) PROVE HeaderInv'
  <2>1. \A u \in Callers : cl_wire'[u].headers \in {<<>>, cl_defaults, cl_wire[u].headers}
    BY <1>t, <1>7 DEF Send
  <2>2. QED
    BY <1>7, <2>1, ListsKept DEF Send, settings
<1>8. ASSUME NEW t \in Callers, response(t) PROVE HeaderInv'
  <2>1. \A u \in Callers : cl_wire'[u].headers \in {<<>>, cl_defaults, cl_wire[u].headers}
    BY <1>t, <1>8 DEF response, Exchanges
  <2>2. QED
    BY <1>8, <2>1, ListsKept DEF response, settings
<1>9. ASSUME NEW t \in Callers, post_json(t) \/ call_directly(t) \/ call_again(t)
      PROVE  HeaderInv'
  BY <1>6, <1>9 DEF post_json, call_directly, call_again
<1>10. ASSUME NEW p \in PoolThreads, send_task(p) PROVE HeaderInv'
  <2>1. PICK t \in Callers : t = cl_pool[p]
    BY <1>10 DEF send_task, ClientTypeOK
  <2>2. QED
    BY <1>7, <1>10, <2>1 DEF send_task
<1>11. ASSUME NEW t \in Callers, send_directly(t) PROVE HeaderInv'
  BY <1>7, <1>11 DEF send_directly
<1>12. CASE UNCHANGED clientVars \/ (\E p \in PoolThreads : take_task(p))
            \/ \E t \in Callers : take_status(t)
  BY <1>1, <1>12 DEF clientVars, take_task, take_status, settings
<1>13. QED
  BY <1>2, <1>3, <1>4, <1>5, <1>8, <1>9, <1>10, <1>11, <1>12
     DEF ClientNext, ClientStep, PoolStep

(***************************************************************************)
(* The outcome of a call.                                                  *)
(***************************************************************************)
\* No step makes a call return what was not its answer.
LEMMA NextOutcome ==
    ClientTypeOK /\ CallsTellOutcome /\ [ClientNext]_clientVars => CallsTellOutcome'
<1> SUFFICES ASSUME ClientTypeOK, CallsTellOutcome, [ClientNext]_clientVars
             PROVE  CallsTellOutcome'
  OBVIOUS
<1>t. cl_call \in [Callers -> CallRecords] /\ cl_wire \in [Callers -> Exchanges]
  BY CallTypes
<1>1. CASE UNCHANGED <<cl_call, cl_wire, cl_crashed>>
  BY <1>1 DEF CallsTellOutcome
<1>2. ASSUME NEW t \in Callers, ~cl_crashed, cl_crashed' = cl_crashed,
             \A u \in Callers \ {t} : cl_call'[u] = cl_call[u] /\ cl_wire'[u] = cl_wire[u],
             cl_call'[t].pc = "returned" =>
                cl_call'[t].result = 0 /\ cl_call'[t].op = "post_file_request"
                /\ cl_wire'[t] = NotSent
      PROVE  CallsTellOutcome'
  BY <1>2 DEF CallsTellOutcome
<1>3. ASSUME NEW t \in Callers, post_json(t) PROVE CallsTellOutcome'
  BY <1>t, <1>2, <1>3 DEF post_json, Running
<1>4. ASSUME NEW t \in Callers, call_directly(t) PROVE CallsTellOutcome'
  <2>1. PICK op \in DirectOps, opens \in BOOLEAN :
           cl_call' = [cl_call EXCEPT ![t] =
             [op |-> op, result |-> 0,
              pc |-> IF op = "post_file_request" /\ ~opens THEN "returned" ELSE "request"]]
    BY <1>4 DEF call_directly
  <2>2. QED
    BY <1>t, <1>2, <1>4, <2>1 DEF call_directly, Running
<1>5. ASSUME NEW t \in Callers, Send(t), Move(t, "sending") PROVE CallsTellOutcome'
  <2>1. cl_call'[t].pc = "sending" /\ \A u \in Callers \ {t} : cl_call'[u] = cl_call[u]
    BY <1>5, MovedCalls DEF Phases
  <2>2. QED
    BY <1>t, <1>2, <1>5, <2>1 DEF Send
<1>6. ASSUME NEW t \in Callers, response(t) PROVE CallsTellOutcome'
  <2>1. cl_call'[t].pc = "answered" /\ \A u \in Callers \ {t} : cl_call'[u] = cl_call[u]
    BY <1>6, MovedCalls DEF Phases, response
  <2>2. QED
    BY <1>t, <1>2, <1>6, <2>1 DEF response
<1>7. ASSUME NEW t \in Callers, take_status(t) PROVE CallsTellOutcome'
  <2>1. CASE cl_wire[t].answer = NoResponse
    BY <1>7, <2>1 DEF take_status, CallsTellOutcome
  <2>2. CASE cl_wire[t].answer # NoResponse
    <3>1. /\ ReturnStatus(t, cl_wire[t].answer) /\ UNCHANGED <<cl_wire, cl_crashed>>
          /\ ~cl_crashed
      BY <1>7, <2>2 DEF take_status
    <3>2. /\ cl_call'[t].result = cl_wire[t].answer
          /\ \A u \in Callers \ {t} : cl_call'[u] = cl_call[u]
      BY <3>1, MovedCalls
    <3>3. QED
      BY <3>1, <3>2 DEF CallsTellOutcome
  <2>3. QED
    BY <2>1, <2>2
<1>8. ASSUME NEW t \in Callers, call_again(t) PROVE CallsTellOutcome'
  BY <1>t, <1>2, <1>8 DEF call_again, NoCall
<1>9. ASSUME NEW p \in PoolThreads, send_task(p) PROVE CallsTellOutcome'
  <2>1. PICK t \in Callers : t = cl_pool[p]
    BY <1>9, <1>t DEF send_task, ClientTypeOK
  <2>2. QED
    BY <1>5, <1>9, <2>1 DEF send_task
<1>10. ASSUME NEW t \in Callers, send_directly(t) PROVE CallsTellOutcome'
  BY <1>5, <1>10 DEF send_directly
<1>11. CASE UNCHANGED clientVars \/ new_http_client \/ setup_http_header
            \/ http_request_initialize \/ free_client_handle
            \/ \E p \in PoolThreads : take_task(p)
  BY <1>1, <1>11 DEF clientVars, new_http_client, setup_http_header, http_request_initialize,
                     free_client_handle, take_task
<1>12. QED
  BY <1>3, <1>4, <1>6, <1>7, <1>8, <1>9, <1>10, <1>11 DEF ClientNext, ClientStep, PoolStep

(***************************************************************************)
(* The theorems.                                                           *)
(***************************************************************************)
\* The invariant holds before there is a handle.
LEMMA InitClientInv == ClientInit => ClientInv
<1> SUFFICES ASSUME ClientInit PROVE ClientInv
  OBVIOUS
<1>1. ClientTypeOK
  BY InitClientTypeOK
<1>2. /\ \A t \in Callers : cl_call[t] = NoCall /\ cl_wire[t] = NotSent
      /\ \A p \in PoolThreads : cl_pool[p] = NoCaller
      /\ cl_queue = <<>> /\ Len(cl_queue) = 0 /\ cl_defaults = <<>> /\ ~cl_crashed
  BY DEF ClientInit
<1>3. CallInv /\ CallsTellOutcome
  BY <1>2 DEF CallInv, CallsTellOutcome, NoCall
<1>4. TaskInv
  BY <1>2, ConfigAssumption DEF TaskInv, Waits, InQueue, InPool, NoCall
<1>5. HeaderInv
  BY <1>2 DEF HeaderInv, FromHandle, NotSent
<1>6. QED
  BY <1>1, <1>3, <1>4, <1>5 DEF ClientInv

\* Every step keeps the invariant.
LEMMA NextClientInv == ClientInv /\ [ClientNext]_clientVars => ClientInv'
<1> SUFFICES ASSUME ClientInv, [ClientNext]_clientVars PROVE ClientInv'
  OBVIOUS
<1>1. ClientTypeOK /\ CallInv /\ TaskInv /\ HeaderInv /\ CallsTellOutcome
  BY Zenon DEF ClientInv
<1>2. ClientTypeOK' /\ CallInv' /\ TaskInv'
  BY <1>1, NextClientTypeOK, NextCallInv, NextTaskInv, Zenon
<1>3. HeaderInv' /\ CallsTellOutcome'
  BY <1>1, NextHeaderInv, NextOutcome, Zenon
<1> QED
  BY <1>2, <1>3, Zenon DEF ClientInv

\* A waiting caller has one task, and nobody else has any.
LEMMA OneTask == ClientTypeOK /\ TaskInv => FutureHasItsTask
<1> SUFFICES ASSUME ClientTypeOK, TaskInv, NEW t \in Callers
             PROVE  LET waits == cl_call[t].op \in JsonOps /\ cl_call[t].pc \in {"future", "sending"}
                        queued == {i \in DOMAIN cl_queue : cl_queue[i] = t}
                        run == {p \in PoolThreads : cl_pool[p] = t} IN
                    Cardinality(queued) + Cardinality(run) = IF waits THEN 1 ELSE 0
  BY DEF FutureHasItsTask
<1> DEFINE queued == {i \in DOMAIN cl_queue : cl_queue[i] = t}
           run == {p \in PoolThreads : cl_pool[p] = t}
<1>1. DOMAIN cl_queue = 1 .. Len(cl_queue) /\ t # NoCaller
  BY ConfigAssumption DEF ClientTypeOK
<1>2. InQueue(t) => \E i : queued = {i}
  BY <1>1 DEF InQueue, TaskInv
<1>3. ASSUME InPool(t) PROVE \E p : run = {p}
  <2>1. PICK p \in PoolThreads : cl_pool[p] = t
    BY <1>3 DEF InPool
  <2>2. \A q \in PoolThreads : cl_pool[q] = t => q = p
    BY <1>1, <2>1 DEF TaskInv
  <2>3. run = {p}
    BY <2>1, <2>2
  <2>4. QED
    BY <2>3
<1>4. (~InQueue(t) => queued = {}) /\ (~InPool(t) => run = {})
  BY <1>1 DEF InQueue, InPool
<1> HIDE DEF queued, run
<1>c. Cardinality({}) = 0 /\ \A x : Cardinality({x}) = 1
  BY FS_EmptySet, FS_Singleton
<1>5. /\ InQueue(t) => Cardinality(queued) = 1
      /\ ~InQueue(t) => Cardinality(queued) = 0
      /\ InPool(t) => Cardinality(run) = 1
      /\ ~InPool(t) => Cardinality(run) = 0
  BY <1>2, <1>3, <1>4, <1>c
<1>6. (Waits(t) <=> InQueue(t) \/ InPool(t)) /\ (InQueue(t) => ~InPool(t))
  BY DEF TaskInv
<1>7. QED
  BY <1>5, <1>6 DEF Waits, queued, run

\* What is sent is the two headers of the library and then those of the handle.
LEMMA HeadersCarried ==
    ASSUME ClientTypeOK, HeaderInv, "API-KEY" \notin HeaderNames
    PROVE  RequestsCarryHeaders
<1> SUFFICES ASSUME NEW t \in Callers, cl_wire[t].headers # <<>>
             PROVE  LET sent == cl_wire[t].headers IN
                    /\ Cardinality({i \in DOMAIN sent : sent[i] = "API-KEY"}) = 1
                    /\ cl_handle = "open" => IsPrefix(SubSeq(sent, 3, Len(sent)), cl_headers)
  BY DEF RequestsCarryHeaders
<1>1. PICK sent \in Seq(Names) : sent = cl_wire[t].headers
  BY CallTypes DEF Exchanges
<1>2. FromHandle(sent) /\ sent # <<>>
  BY <1>1 DEF HeaderInv
<1>3. /\ Len(sent) \in Nat /\ DOMAIN sent = 1 .. Len(sent) /\ Len(sent) >= 2
      /\ sent[1] = "User-Agent" /\ sent[2] = "API-KEY"
      /\ \A i \in 3 .. Len(sent) : sent[i] \in HeaderNames
  BY <1>2 DEF FromHandle
<1>4. {i \in DOMAIN sent : sent[i] = "API-KEY"} = {2}
  BY <1>3
<1>5. Cardinality({i \in DOMAIN sent : sent[i] = "API-KEY"}) = 1
  BY <1>4, FS_Singleton
<1>6. ASSUME cl_handle = "open" PROVE IsPrefix(SubSeq(sent, 3, Len(sent)), cl_headers)
  <2> DEFINE rest == SubSeq(sent, 3, Len(sent))
  <2>1. /\ Len(sent) <= Len(cl_headers) + 2 /\ Len(cl_headers) \in Nat
        /\ cl_headers \in Seq(HeaderNames)
        /\ \A i \in 3 .. Len(sent) : sent[i] = cl_headers[i - 2]
    BY <1>2, <1>6 DEF FromHandle, ClientTypeOK
  <2>2. /\ Len(rest) = Len(sent) - 2 /\ rest \in Seq(Names)
        /\ \A i \in 1 .. Len(rest) : rest[i] = sent[i + 2]
    BY <1>3
  <2> HIDE DEF rest
  <2>3. \A i \in 1 .. Len(rest) : rest[i] = cl_headers[i]
    BY <1>3, <2>1, <2>2
  <2>4. Len(rest) \in Nat /\ Len(rest) <= Len(cl_headers)
    BY <1>3, <2>1, <2>2
  <2>5. SubSeq(rest, 1, Len(rest)) = SubSeq(cl_headers, 1, Len(rest))
    BY <2>1, <2>2, <2>3, <2>4
  <2>6. QED
    BY <2>4, <2>5 DEF IsPrefix, rest
<1>7. QED
  BY <1>1, <1>5, <1>6

\* The client library keeps its types.
THEOREM ClientTypesHold == ClientSpec => []ClientTypeOK
  BY InitClientTypeOK, NextClientTypeOK, PTL DEF ClientSpec

\* post_json_request and post_json_with_resp wait for exactly one task that will
\* complete their future; a request carries the headers of the handle; and a call
\* returns what the server answered to it.  setup_http_header would take the name
\* API-KEY a second time: the theorem is about callers that do not.
THEOREM ClientKeepsPromises ==
    ASSUME "API-KEY" \notin HeaderNames
    PROVE  ClientSpec => []ClientPromises
<1>1. ClientInv => ClientPromises
  BY OneTask, HeadersCarried DEF ClientInv, ClientPromises
<1>2. QED
  BY <1>1, InitClientInv, NextClientInv, PTL DEF ClientSpec

-----------------------------------------------------------------------------
(***************************************************************************)
(* The programs side by side.                                              *)
(***************************************************************************)

\* The text of a request is typed, and its URI is cut as it should be.
TextsInv == TextInv /\ UriInv

\* The program that runs keeps its invariant.
ProgramsInv ==
    /\ which \in Programs
    /\ which = "sheet" => SheetInv
    /\ which = "calc" => CalcInv
    /\ which = "http" => HttpInv
    /\ which = "client" => ClientInv
    /\ which = "reader" => ReaderInv
    /\ which = "argv" => ArgvReadInv
    /\ which = "dice" => DiceInv
    /\ which = "ini" => IniInv /\ IniReadInv
    /\ which = "text" => TextsInv
    /\ which = "server" => StartupInv
    /\ which = "path" => PathInv

\* Every program begins with its invariant.
LEMMA InitProgramsInv == ProgramsInit => ProgramsInv
<1> SUFFICES ASSUME ProgramsInit PROVE ProgramsInv
  OBVIOUS
<1>1. /\ which \in Programs
      /\ SheetInit /\ CalcInit /\ HttpInit /\ ClientInit /\ Init
      /\ ArgvInit /\ DiceInit /\ IniInit /\ TextInit /\ StartupInit /\ PathInit
  BY Zenon DEF ProgramsInit
<1>2. SheetInv /\ CalcInv /\ HttpInv /\ ClientInv
  BY <1>1, InitSheetInv, InitCalcInv, InitHttpInv, InitClientInv, Zenon
<1>3. ReaderInv
  BY <1>1, InitReader
<1>4. ArgvReadInv /\ DiceInv /\ IniInv /\ IniReadInv /\ TextsInv
  BY <1>1, InitArgvReadInv, InitDiceInv, InitIniInv, InitIniReadInv, InitTextInv, InitUriInv, Zenon DEF TextsInv
<1>5. StartupInv /\ PathInv
  BY <1>1, StartupInitInv, InitPathInv, Zenon
<1> QED
  BY <1>1, <1>2, <1>3, <1>4, <1>5, Zenon DEF ProgramsInv

\* The step of a program keeps its own invariant, and no other program runs.
LEMMA StepProgramsInv == ProgramsInv /\ [ProgramsNext]_programVars => ProgramsInv'
<1> SUFFICES ASSUME ProgramsInv, [ProgramsNext]_programVars PROVE ProgramsInv'
  OBVIOUS
<1>0. which' = which /\ which \in Programs
  BY DEF ProgramsNext, OthersRest, programVars, ProgramsInv
<1>1. CASE which = "sheet"
  <2>1. [SheetNext]_sheetVars
    BY <1>1 DEF ProgramsNext, programVars
  <2>2. SheetInv'
    BY <1>1, <2>1, NextSheetInv, Zenon DEF ProgramsInv
  <2> QED
    BY <1>0, <1>1, <2>2 DEF ProgramsInv
<1>2. CASE which = "calc"
  <2>1. [CalcNext]_calcVars
    BY <1>2 DEF ProgramsNext, programVars
  <2>2. CalcInv'
    BY <1>2, <2>1, StepCalcInv, Zenon DEF ProgramsInv
  <2> QED
    BY <1>0, <1>2, <2>2 DEF ProgramsInv
<1>3. CASE which = "http"
  <2>1. [HttpNext]_httpVars
    BY <1>3 DEF ProgramsNext, programVars
  <2>2. HttpInv'
    BY <1>3, <2>1, StepHttpInv, Zenon DEF ProgramsInv
  <2> QED
    BY <1>0, <1>3, <2>2 DEF ProgramsInv
<1>4. CASE which = "client"
  <2>1. [ClientNext]_clientVars
    BY <1>4 DEF ProgramsNext, programVars
  <2>2. ClientInv'
    BY <1>4, <2>1, NextClientInv, Zenon DEF ProgramsInv
  <2> QED
    BY <1>0, <1>4, <2>2 DEF ProgramsInv
<1>5. CASE which = "reader"
  <2>1. [Next]_vars
    BY <1>5 DEF ProgramsNext, programVars
  <2>2. ReaderInv
    BY <1>5 DEF ProgramsInv
  <2>3. ReaderInv'
    BY <2>1, <2>2, ReaderSteps
  <2> QED
    BY <1>0, <1>5, <2>3 DEF ProgramsInv
<1>6. CASE which = "argv"
  <2>1. [ArgvNext]_argvVars
    BY <1>6 DEF ProgramsNext, programVars
  <2>2. ArgvReadInv'
    BY <1>6, <2>1, StepArgvReadInv, Zenon DEF ProgramsInv
  <2> QED
    BY <1>0, <1>6, <2>2 DEF ProgramsInv
<1>7. CASE which = "dice"
  <2>1. [DiceNext]_diceVars
    BY <1>7 DEF ProgramsNext, programVars
  <2>2. DiceInv'
    BY <1>7, <2>1, StepDiceInv, Zenon DEF ProgramsInv
  <2> QED
    BY <1>0, <1>7, <2>2 DEF ProgramsInv
<1>8. CASE which = "ini"
  <2>1. [IniNext]_iniVars
    BY <1>8 DEF ProgramsNext, programVars
  <2>2. IniInv' /\ IniReadInv'
    BY <1>8, <2>1, StepIniInv, StepIniReadInv, Zenon DEF ProgramsInv
  <2> QED
    BY <1>0, <1>8, <2>2 DEF ProgramsInv
<1>9. CASE which = "text"
  <2>1. [TextNext]_textVars
    BY <1>9 DEF ProgramsNext, programVars
  <2>2. TextsInv'
    BY <1>9, <2>1, StepTextInv, StepUriInv, Zenon DEF ProgramsInv, TextsInv
  <2> QED
    BY <1>0, <1>9, <2>2 DEF ProgramsInv
<1>10. CASE which = "server"
  <2>1. [StartupNext]_startupVars
    BY <1>10 DEF ProgramsNext, programVars
  <2>2. StartupInv'
    BY <1>10, <2>1, StartupStepInv, Zenon DEF ProgramsInv
  <2> QED
    BY <1>0, <1>10, <2>2 DEF ProgramsInv
<1>11. CASE which = "path"
  <2>1. [TypeCharacter]_pathVars
    BY <1>11 DEF ProgramsNext, programVars
  <2>2. PathInv'
    BY <1>11, <2>1, StepPathInv, Zenon DEF ProgramsInv
  <2> QED
    BY <1>0, <1>11, <2>2 DEF ProgramsInv
<1> QED
  BY <1>0, <1>1, <1>2, <1>3, <1>4, <1>5, <1>6, <1>7, <1>8, <1>9, <1>10, <1>11 DEF Programs

\* The state of the program that runs has its types, whichever runs and whatever it
\* is given: the sheet, the calculator, the parser of headers, the client, the reader
\* of responses, the command line, the dice, the settings, the request, the start of
\* the server and the paths.
THEOREM ProgramsTypesHold == ProgramsSpec => []ProgramsTypeOK
<1>1. ProgramsInv => ProgramsTypeOK
  <2> SUFFICES ASSUME ProgramsInv PROVE ProgramsTypeOK
    OBVIOUS
  <2>0. which \in Programs
    BY DEF ProgramsInv
  <2>1. CASE which = "sheet"
    <3>1. SheetTypeOK
      BY <2>1, Zenon DEF ProgramsInv, SheetInv
    <3> QED
      BY <2>1, <3>1 DEF ProgramsTypeOK
  <2>2. CASE which = "calc"
    <3>1. CalcTypeOK
      BY <2>2, CalcSafe, Zenon DEF ProgramsInv
    <3> QED
      BY <2>2, <3>1 DEF ProgramsTypeOK
  <2>3. CASE which = "http"
    <3>1. HttpTypeOK
      BY <2>3, HttpTypesFollow, Zenon DEF ProgramsInv
    <3> QED
      BY <2>3, <3>1 DEF ProgramsTypeOK
  <2>4. CASE which = "client"
    <3>1. ClientTypeOK
      BY <2>4, Zenon DEF ProgramsInv, ClientInv
    <3> QED
      BY <2>4, <3>1 DEF ProgramsTypeOK
  <2>5. CASE which = "reader"
    <3>1. TypeOK
      BY <2>5, Zenon DEF ProgramsInv, ReaderInv
    <3> QED
      BY <2>5, <3>1 DEF ProgramsTypeOK
  <2>6. CASE which = "argv"
    <3>1. ArgvTypeOK
      BY <2>6, Zenon DEF ProgramsInv, ArgvReadInv, ArgvInv
    <3> QED
      BY <2>6, <3>1 DEF ProgramsTypeOK
  <2>7. CASE which = "dice"
    <3>1. DiceTypeOK
      BY <2>7, Zenon DEF ProgramsInv, DiceInv
    <3> QED
      BY <2>7, <3>1 DEF ProgramsTypeOK
  <2>8. CASE which = "ini"
    <3>1. IniTypeOK
      BY <2>8, Zenon DEF ProgramsInv, IniInv
    <3> QED
      BY <2>8, <3>1 DEF ProgramsTypeOK
  <2>9. CASE which = "text"
    <3>1. TextTypeOK
      BY <2>9, TextTypesFollow, Zenon DEF ProgramsInv, TextsInv
    <3> QED
      BY <2>9, <3>1 DEF ProgramsTypeOK
  <2>10. CASE which = "server"
    <3>1. StartupTypeOK
      BY <2>10, Zenon DEF ProgramsInv, StartupInv
    <3> QED
      BY <2>10, <3>1 DEF ProgramsTypeOK
  <2>11. CASE which = "path"
    <3>1. PathTypeOK
      BY <2>11, Zenon DEF ProgramsInv, PathInv, PathTypeOK
    <3> QED
      BY <2>11, <3>1 DEF ProgramsTypeOK
  <2> QED
    BY <2>0, <2>1, <2>2, <2>3, <2>4, <2>5, <2>6, <2>7, <2>8, <2>9, <2>10, <2>11 DEF Programs
<1> QED
  BY <1>1, InitProgramsInv, StepProgramsInv, PTL DEF ProgramsSpec

\* For any texts, lines and requests, however they are cut: the generated parsers
\* never index outside their tables and stacks, the stack of return states of the
\* command line never overflows, and every mark of the header parser lies in the
\* buffer it was given.
THEOREM AssertionsNeverFail == ProgramsSpec => []AssertionsHold
<1>1. ProgramsInv => AssertionsHold
  BY CalcSafe, HttpSafe, ArgvFits, Zenon DEF ProgramsInv, ArgvReadInv, AssertionsHold
<1> QED
  BY <1>1, InitProgramsInv, StepProgramsInv, PTL DEF ProgramsSpec

\* The command line, the settings, the paths and the escapes are read as their
\* grammars say, for texts of any length.
THEOREM TextsAlwaysRead == ProgramsSpec => []TextsAreRead
<1>1. ProgramsInv => TextsAreRead
  <2> SUFFICES ASSUME ProgramsInv PROVE TextsAreRead
    OBVIOUS
  <2>1. which = "argv" => ArgvAnswers
    BY Zenon DEF ProgramsInv, ArgvReadInv
  <2>2. which = "ini" => IniAnswers
    BY IniReadAnswers, Zenon DEF ProgramsInv
  <2>3. which = "path" => PathAnswers
    BY PathsAnswer, Zenon DEF ProgramsInv
  <2> QED
    BY <2>1, <2>2, <2>3, Zenon DEF TextsAreRead
<1> QED
  BY <1>1, InitProgramsInv, StepProgramsInv, PTL DEF ProgramsSpec

=============================================================================
