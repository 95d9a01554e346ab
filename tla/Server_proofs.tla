---------------------------- MODULE Server_proofs ----------------------------
(***************************************************************************)
(* Proofs about Server for any numbers the operator may type and any world *)
(* of addresses, texts and queries: the loaders compute what the reference *)
(* definition says.                                                        *)
(***************************************************************************)
EXTENDS Server, Sums

Numbers == Ranged \cup {"Duration"}

\* What the parsers of file, environment and flags produce: integers for the
\* numeric fields, whatever their size.
Parsed(layer) ==
    DOMAIN layer \subseteq Fields /\ \A f \in DOMAIN layer \cap Numbers : layer[f] \in Int

\* The bounds of every numeric field are integers.
LEMMA BoundsType == \A f \in Ranged : Lo[f] \in Int /\ Hi[f] \in Int
BY DEF Ranged, Lo, Hi

\* The file: an acceptable value replaces what is below, any other does not.
LEMMA JsonMeans ==
    ASSUME NEW f \in Fields, NEW v, NEW old, f \in Numbers => v \in Int
    PROVE  jsonField(f, v, old) = IF Acceptable(f, v) THEN Value(f, v) ELSE old
<1>0. DOMAIN jsonRange = Ranged BY DEF jsonRange, Ranged
<1>1. CASE f \in Ranged
  <2>0. f \in DOMAIN jsonRange BY <1>0, <1>1
  <2>1. Lo[f] \in Int /\ Hi[f] \in Int /\ v \in Int BY <1>1, BoundsType DEF Numbers
  <2>2. f \notin Strings \cup {"Duration", "Port", "Mode", "GeoIPEdition"}
    BY <1>1 DEF Ranged, Strings
  <2>3. jsonRange[f][1] = Lo[f] /\ jsonRange[f][2] = Hi[f]
    BY <1>0, <1>1, <2>0 DEF jsonRange, Ranged, Lo, Hi
  <2>4. Acceptable(f, v) <=> ~(v < Lo[f] \/ v > Hi[f])
    <3>1. Acceptable(f, v) <=> Lo[f] <= v /\ v <= Hi[f] BY <1>1, <2>2, Zenon DEF Acceptable
    <3> QED BY <2>1, <3>1
  <2>5. jsonField(f, v, old) = clamp(v, jsonRange[f][1], jsonRange[f][2], old)
    BY <2>0, <2>2 DEF jsonField, Strings
  <2>6. jsonField(f, v, old) = IF v < Lo[f] \/ v > Hi[f] THEN old ELSE v
    BY <2>3, <2>5, Zenon DEF clamp
  <2>7. Value(f, v) = v BY <2>2, Zenon DEF Value
  <2> QED BY <2>2, <2>4, <2>6, <2>7, Zenon
<1>2. CASE f = "Duration"
  <2>1. v \in Int BY <1>2 DEF Numbers
  <2>2. f \notin Ranged \cup Strings \cup {"Port", "Mode", "GeoIPEdition"}
    BY <1>2 DEF Ranged, Strings
  <2>3. Acceptable(f, v) <=> v >= 1 BY <1>2, <2>2, Zenon DEF Acceptable
  <2>4. f \notin DOMAIN jsonRange BY <1>0, <2>2
  <2>5. jsonField(f, v, old) = IF v >= 1 THEN seconds(v) ELSE old
    BY <1>2, <2>2, <2>4 DEF jsonField, Strings
  <2>6. Value(f, v) = seconds(v) BY <1>2, Zenon DEF Value
  <2> QED BY <2>2, <2>3, <2>5, <2>6, Zenon
<1>3. CASE f \in Strings
  <2>1. f \notin Ranged /\ f # "Duration" BY <1>3 DEF Ranged, Strings
  <2>2. f \notin DOMAIN jsonRange BY <1>0, <2>1
  <2>3. Value(f, v) = v BY <2>1, Zenon DEF Value
  <2>4. Acceptable(f, v) <=> /\ f = "Port" => v \in Numerals
                             /\ f = "Mode" => v \in {"size", "time"}
                             /\ f = "GeoIPEdition" => v # ""
    BY <2>1, Zenon DEF Acceptable
  <2> QED BY <1>3, <2>1, <2>2, <2>3, <2>4 DEF jsonField, Strings
<1> QED BY <1>1, <1>2, <1>3 DEF Fields

\* What the environment can set: anything acceptable but an empty string.
EnvTakes(f, v) == Acceptable(f, v) /\ (f \in Strings => v # "")

\* The environment: the same, and an empty string never does.
LEMMA EnvMeans ==
    ASSUME NEW f \in Fields, NEW v, NEW old, f \in Numbers => v \in Int
    PROVE  envField(f, v, old) = IF EnvTakes(f, v) THEN Value(f, v) ELSE old
<1>0. DOMAIN envRange = Ranged BY DEF envRange, Ranged
<1>1. CASE f \in Ranged
  <2>0. f \in DOMAIN envRange BY <1>0, <1>1
  <2>1. Lo[f] \in Int /\ Hi[f] \in Int /\ v \in Int BY <1>1, BoundsType DEF Numbers
  <2>2. f \notin Strings \cup {"Duration", "Port", "Mode", "GeoIPEdition"}
    BY <1>1 DEF Ranged, Strings
  <2>3. envRange[f][1] = Lo[f] /\ envRange[f][2] = Hi[f]
    BY <1>0, <1>1, <2>0 DEF envRange, Ranged, Lo, Hi
  <2>4. Acceptable(f, v) <=> ~(v < Lo[f] \/ v > Hi[f])
    <3>1. Acceptable(f, v) <=> Lo[f] <= v /\ v <= Hi[f] BY <1>1, <2>2, Zenon DEF Acceptable
    <3> QED BY <2>1, <3>1
  <2>5. envField(f, v, old) = clamp(v, envRange[f][1], envRange[f][2], old)
    BY <2>0, <2>2 DEF envField, Strings
  <2>6. envField(f, v, old) = IF v < Lo[f] \/ v > Hi[f] THEN old ELSE v
    BY <2>3, <2>5, Zenon DEF clamp
  <2>7. Value(f, v) = v BY <2>2, Zenon DEF Value
  <2> QED BY <2>2, <2>4, <2>6, <2>7, Zenon DEF EnvTakes
<1>2. CASE f = "Duration"
  <2>1. v \in Int BY <1>2 DEF Numbers
  <2>2. f \notin Ranged \cup Strings \cup {"Port", "Mode", "GeoIPEdition"}
    BY <1>2 DEF Ranged, Strings
  <2>3. Acceptable(f, v) <=> v >= 1 BY <1>2, <2>2, Zenon DEF Acceptable
  <2>4. f \notin DOMAIN envRange BY <1>0, <2>2
  <2>5. envField(f, v, old) = IF v >= 1 THEN seconds(v) ELSE old
    BY <1>2, <2>2, <2>4 DEF envField, Strings
  <2>6. Value(f, v) = seconds(v) BY <1>2, Zenon DEF Value
  <2> QED BY <2>2, <2>3, <2>5, <2>6, Zenon DEF EnvTakes
<1>3. CASE f \in Strings
  <2>1. f \notin Ranged /\ f # "Duration" BY <1>3 DEF Ranged, Strings
  <2>2. f \notin DOMAIN envRange BY <1>0, <2>1
  <2>3. Value(f, v) = v BY <2>1, Zenon DEF Value
  <2>4. Acceptable(f, v) <=> /\ f = "Port" => v \in Numerals
                             /\ f = "Mode" => v \in {"size", "time"}
                             /\ f = "GeoIPEdition" => v # ""
    BY <2>1, Zenon DEF Acceptable
  <2> QED BY <1>3, <2>1, <2>2, <2>3, <2>4 DEF envField, Strings, EnvTakes
<1> QED BY <1>1, <1>2, <1>3 DEF Fields

\* The flags: as the file.
LEMMA CliMeans ==
    ASSUME NEW f \in FlagFields, NEW v, NEW old, f \in Numbers => v \in Int
    PROVE  cliField(f, v, old) = IF Acceptable(f, v) THEN Value(f, v) ELSE old
<1>0. DOMAIN cliRange = Ranged \ {"HistoryRetentionDays"} BY DEF cliRange, Ranged
<1>1. CASE f \in Ranged
  <2>0. f \in DOMAIN cliRange BY <1>0, <1>1 DEF FlagFields
  <2>1. Lo[f] \in Int /\ Hi[f] \in Int /\ v \in Int BY <1>1, BoundsType DEF Numbers
  <2>2. f \notin Strings \cup {"Duration", "Port", "Mode", "GeoIPEdition"}
    BY <1>1 DEF Ranged, Strings
  <2>3. cliRange[f][1] = Lo[f] /\ cliRange[f][2] = Hi[f]
    BY <1>0, <1>1, <2>0 DEF cliRange, Ranged, Lo, Hi
  <2>4. Acceptable(f, v) <=> ~(v < Lo[f] \/ v > Hi[f])
    <3>1. Acceptable(f, v) <=> Lo[f] <= v /\ v <= Hi[f] BY <1>1, <2>2, Zenon DEF Acceptable
    <3> QED BY <2>1, <3>1
  <2>5. cliField(f, v, old) = clamp(v, cliRange[f][1], cliRange[f][2], old)
    BY <2>0, <2>2 DEF cliField, Strings
  <2>6. cliField(f, v, old) = IF v < Lo[f] \/ v > Hi[f] THEN old ELSE v
    BY <2>3, <2>5, Zenon DEF clamp
  <2>7. Value(f, v) = v BY <2>2, Zenon DEF Value
  <2> QED BY <2>2, <2>4, <2>6, <2>7, Zenon
<1>2. CASE f = "Duration"
  <2>1. v \in Int BY <1>2 DEF Numbers
  <2>2. f \notin Ranged \cup Strings \cup {"Port", "Mode", "GeoIPEdition"}
    BY <1>2 DEF Ranged, Strings
  <2>3. Acceptable(f, v) <=> v >= 1 BY <1>2, <2>2, Zenon DEF Acceptable
  <2>4. f \notin DOMAIN cliRange BY <1>0, <2>2
  <2>5. cliField(f, v, old) = IF v >= 1 THEN seconds(v) ELSE old
    BY <1>2, <2>2, <2>4 DEF cliField, Strings
  <2>6. Value(f, v) = seconds(v) BY <1>2, Zenon DEF Value
  <2> QED BY <2>2, <2>3, <2>5, <2>6, Zenon
<1>3. CASE f \in Strings
  <2>1. f \notin Ranged /\ f # "Duration" BY <1>3 DEF Ranged, Strings
  <2>2. f \notin DOMAIN cliRange BY <1>0, <2>1
  <2>3. Value(f, v) = v BY <2>1, Zenon DEF Value
  <2>4. Acceptable(f, v) <=> /\ f = "Port" => v \in Numerals
                             /\ f = "Mode" => v \in {"size", "time"}
                             /\ f = "GeoIPEdition" => v # ""
    BY <2>1, Zenon DEF Acceptable
  <2> QED BY <1>3, <2>1, <2>2, <2>3, <2>4 DEF cliField, Strings
<1> QED BY <1>1, <1>2, <1>3 DEF Fields, FlagFields

\* Laying flags over environment over file over defaults, with a range check at
\* each of them, gives each field the value of the highest layer that holds an
\* acceptable one.
LEMMA LayersResolve ==
    ASSUME NEW f1, NEW e1, NEW c1, Parsed(f1), Parsed(e1), Parsed(c1)
    PROVE  LoadWithSources(f1, e1, c1) = Resolved(f1, e1, c1)
<1> DEFINE a == applyJSON(defaults, f1)
           b == overlayEnv(a, e1)
           c == applyCLI(b, c1)
<1>1. ASSUME NEW f \in Fields PROVE c[f] = Resolved(f1, e1, c1)[f]
  <2>1. a[f] = IF Provides(f1, f) THEN Value(f, f1[f]) ELSE defaults[f]
    <3>1. CASE f \in DOMAIN f1
      <4>1. f \in Numbers => f1[f] \in Int BY <3>1 DEF Parsed
      <4>2. a[f] = jsonField(f, f1[f], defaults[f]) BY <3>1 DEF applyJSON
      <4> QED BY <3>1, <4>1, <4>2, JsonMeans DEF Provides
    <3>2. CASE f \notin DOMAIN f1 BY <3>2 DEF applyJSON, Provides
    <3> QED BY <3>1, <3>2
  <2>2. b[f] = IF EnvProvides(e1, f) THEN Value(f, e1[f]) ELSE a[f]
    <3>1. CASE f \in DOMAIN e1
      <4>1. f \in Numbers => e1[f] \in Int BY <3>1 DEF Parsed
      <4>2. b[f] = envField(f, e1[f], a[f]) BY <3>1 DEF overlayEnv
      <4> HIDE DEF a, b
      <4>3. EnvProvides(e1, f) <=> EnvTakes(f, e1[f])
        BY <3>1, Zenon DEF EnvProvides, Provides, EnvTakes
      <4>4. b[f] = IF EnvTakes(f, e1[f]) THEN Value(f, e1[f]) ELSE a[f]
        BY <4>1, <4>2, EnvMeans
      <4> QED BY <4>3, <4>4
    <3>2. CASE f \notin DOMAIN e1
      BY <3>2 DEF overlayEnv, EnvProvides, Provides
    <3> QED BY <3>1, <3>2
  <2>3. c[f] = IF f \in FlagFields /\ Provides(c1, f) THEN Value(f, c1[f]) ELSE b[f]
    <3>1. CASE f \in DOMAIN c1 \cap FlagFields
      <4>1. f \in Numbers => c1[f] \in Int BY <3>1 DEF Parsed
      <4>2. c[f] = cliField(f, c1[f], b[f]) BY <3>1 DEF applyCLI
      <4> HIDE DEF b, c
      <4> QED BY <3>1, <4>1, <4>2, CliMeans DEF Provides
    <3>2. CASE f \notin DOMAIN c1 \cap FlagFields BY <3>2 DEF applyCLI, Provides
    <3> QED BY <3>1, <3>2
  <2> HIDE DEF a, b, c
  <2> QED BY <2>1, <2>2, <2>3 DEF Resolved
<1>2. c = [f \in Fields |-> c[f]] BY DEF applyCLI
<1>3. Resolved(f1, e1, c1) = [f \in Fields |-> Resolved(f1, e1, c1)[f]] BY DEF Resolved
<1>4. LoadWithSources(f1, e1, c1) = c BY DEF LoadWithSources
<1> HIDE DEF c
<1> QED BY <1>1, <1>2, <1>3, <1>4

\* An empty layer is a parsed one.
LEMMA ParsedNothing == Parsed([f \in {} |-> ""])
BY DEF Parsed

\* So is a layer in which one more field was set.
LEMMA ParsedExtends ==
    ASSUME NEW g, Parsed(g), NEW f \in Fields, NEW v, f \in Numbers => v \in Int
    PROVE  Parsed(With(g, f, v))
<1> DEFINE h == With(g, f, v)
<1>1. h = [x \in {f} \cup DOMAIN g |-> IF x = f THEN v ELSE g[x]] BY DEF With
<1>2. DOMAIN h = {f} \cup DOMAIN g BY <1>1
<1>3. \A x \in DOMAIN h : h[x] = IF x = f THEN v ELSE g[x] BY <1>1
<1> HIDE DEF h
<1>4. Parsed(h) BY <1>2, <1>3 DEF Parsed
<1> QED BY <1>4 DEF h

\* What the older loader ignores in a string variable.
Rejected(f, v) ==
    \/ f = "Port" /\ v \notin Numerals
    \/ f = "Mode" /\ v \notin {"size", "time"}
    \/ f \in {"Host", "GeoIPEdition"} /\ v = ""

\* It ignores exactly what the newer loader finds empty or unacceptable.
LEMMA StringsAgree ==
    ASSUME NEW f \in Strings, NEW v,
           f \in {"DBPath", "GeoIPDBPath", "GeoIPLicenseKey"} => v # ""
    PROVE  Rejected(f, v) <=> ~(v # "" /\ Acceptable(f, v))
<1>1. f \notin Ranged /\ f # "Duration" BY DEF Ranged, Strings
<1>2. Acceptable(f, v) <=> /\ f = "Port" => v \in Numerals
                           /\ f = "Mode" => v \in {"size", "time"}
                           /\ f = "GeoIPEdition" => v # ""
  BY <1>1, Zenon DEF Acceptable
<1> QED BY <1>2, NumeralAssumption DEF Strings, Rejected

\* The older loader agrees with the newer one, given the environment alone.
LEMMA LegacyAgrees ==
    ASSUME NEW e1, Parsed(e1), LegacySafe(e1)
    PROVE  Load(e1) = LoadWithSources(Nothing, e1, Nothing)
<1> DEFINE R == Resolved(Nothing, e1, Nothing)
<1>1. LoadWithSources(Nothing, e1, Nothing) = R
  BY ParsedNothing, LayersResolve DEF Nothing
<1>2. ASSUME NEW f \in Fields PROVE Load(e1)[f] = R[f]
  <2>1. R[f] = IF EnvProvides(e1, f) THEN Value(f, e1[f]) ELSE defaults[f]
    BY DEF Resolved, Provides, Nothing
  <2>2. CASE f \notin DOMAIN e1
    BY <2>1, <2>2 DEF EnvProvides, Provides, Load, envInt, envDuration, envString
  <2>3. CASE f \in DOMAIN e1 /\ f \in Ranged
    <3>1. Lo[f] \in Int /\ Hi[f] \in Int /\ e1[f] \in Int
      BY <2>3, BoundsType DEF Parsed, Numbers
    <3>2. f \notin Strings \cup {"Duration", "Port", "Mode", "GeoIPEdition"}
      BY <2>3 DEF Ranged, Strings
    <3>3. e1[f] <= Hi[f] BY <2>3 DEF LegacySafe
    <3>4. EnvProvides(e1, f) <=> ~(e1[f] < Lo[f])
      <4>1. Acceptable(f, e1[f]) <=> Lo[f] <= e1[f] /\ e1[f] <= Hi[f]
        BY <2>3, <3>2, Zenon DEF Acceptable
      <4>2. EnvProvides(e1, f) <=> Acceptable(f, e1[f])
        BY <2>3, <3>2, Zenon DEF EnvProvides, Provides
      <4>3. (Lo[f] <= e1[f] /\ e1[f] <= Hi[f]) <=> ~(e1[f] < Lo[f]) BY <3>1, <3>3
      <4> QED BY <4>1, <4>2, <4>3
    <3>5. Value(f, e1[f]) = e1[f] BY <3>2, Zenon DEF Value
    <3>6. Load(e1)[f] = envInt(f, e1) BY <2>3 DEF Load
    <3>7. envInt(f, e1) = IF e1[f] < Lo[f] THEN defaults[f] ELSE e1[f]
      <4>1. ~(e1[f] > Hi[f]) BY <3>1, <3>3
      <4> QED BY <2>3, <4>1, Zenon DEF envInt
    <3> HIDE DEF R
    <3> QED BY <2>1, <3>4, <3>5, <3>6, <3>7, Zenon
  <2>4. CASE f \in DOMAIN e1 /\ f = "Duration"
    <3>1. e1[f] \in Int BY <2>4 DEF Parsed, Numbers
    <3>2. f \notin Ranged \cup Strings BY <2>4 DEF Ranged, Strings
    <3>3. EnvProvides(e1, f) <=> ~(e1[f] < 1)
      <4>1. f \notin {"Port", "Mode", "GeoIPEdition"} BY <2>4
      <4>2. Acceptable(f, e1[f]) <=> e1[f] >= 1 BY <2>4, <3>2, <4>1, Zenon DEF Acceptable
      <4>3. EnvProvides(e1, f) <=> Acceptable(f, e1[f])
        BY <2>4, <3>2, Zenon DEF EnvProvides, Provides
      <4>4. e1[f] >= 1 <=> ~(e1[f] < 1) BY <3>1
      <4> QED BY <4>2, <4>3, <4>4
    <3>4. Value(f, e1[f]) = seconds(e1[f]) BY <2>4, Zenon DEF Value
    <3>5. Load(e1)[f] = envDuration(e1) BY <2>4, <3>2 DEF Load
    <3>6. envDuration(e1) = IF e1[f] < 1 THEN defaults[f] ELSE seconds(e1[f])
      BY <2>4, Zenon DEF envDuration
    <3> HIDE DEF R
    <3> QED BY <2>1, <3>3, <3>4, <3>5, <3>6, Zenon
  <2>5. CASE f \in DOMAIN e1 /\ f \in Strings
    <3>1. f \notin Ranged /\ f # "Duration" BY <2>5 DEF Ranged, Strings
    <3>2. Load(e1)[f] = envString(f, e1) BY <3>1 DEF Load
    <3>3. f \in {"DBPath", "GeoIPDBPath", "GeoIPLicenseKey"} => e1[f] # ""
      BY <2>5 DEF LegacySafe
    <3>4. Value(f, e1[f]) = e1[f] BY <3>1, Zenon DEF Value
    <3>5. EnvProvides(e1, f) <=> e1[f] # "" /\ Acceptable(f, e1[f])
      BY <2>5, Zenon DEF EnvProvides, Provides
    <3>6. Rejected(f, e1[f]) <=> ~EnvProvides(e1, f) BY <2>5, <3>3, <3>5, StringsAgree
    <3>7. envString(f, e1) = IF f \notin DOMAIN e1 \/ Rejected(f, e1[f]) THEN defaults[f] ELSE e1[f]
      BY Zenon DEF envString, Rejected
    <3>9. envString(f, e1) = IF EnvProvides(e1, f) THEN e1[f] ELSE defaults[f]
      BY <2>5, <3>6, <3>7, Zenon
    <3> HIDE DEF R
    <3> QED BY <2>1, <3>2, <3>4, <3>9, Zenon
  <2> QED BY <2>2, <2>3, <2>4, <2>5 DEF Fields
<1>3. Load(e1) = [f \in Fields |-> Load(e1)[f]] BY DEF Load
<1>4. R = [f \in Fields |-> R[f]] BY DEF Resolved
<1> HIDE DEF R
<1> QED BY <1>1, <1>2, <1>3, <1>4

-----------------------------------------------------------------------------
(* The inductive invariant: what was parsed, what was loaded, what is run. *)

\* The operator edits fields that exist, and the layers hold what was parsed.
LayersInv == focus \subseteq Fields /\ Parsed(file) /\ Parsed(env) /\ Parsed(cli)

\* The settings are what the layers resolve to.
CfgInv == proc \in {"loaded", "serving"} => cfg = Resolved(FileSettings, env, cli)

\* The server listens on a port that can be listened on and runs with them.
LiveInv ==
    proc = "serving" =>
        /\ cfg["Port"] \in Listenable
        /\ \E opened \in SUBSET {"store", "mmdb"} : live = newServerWithStore(opened)

ServerInv == LayersInv /\ CfgInv /\ LiveInv

\* The layer read from the file is the file's, or nothing.
LEMMA FileSettingsIs == FileSettings = file \/ FileSettings = [f \in {} |-> ""]
BY DEF FileSettings, readJSONFile

\* Either way it holds what the parser lets through.
LEMMA FileSettingsParsed == ASSUME LayersInv PROVE Parsed(FileSettings)
BY FileSettingsIs, ParsedNothing DEF LayersInv

\* Nothing is set, loaded or running at first.
LEMMA InitServer == Init => ServerInv
<1> SUFFICES ASSUME Init PROVE ServerInv OBVIOUS
<1>1. focus \subseteq Fields BY ServerAssumption DEF Init
<1>2. LayersInv BY <1>1, ParsedNothing DEF Init, LayersInv, Nothing
<1> QED BY <1>2 DEF Init, ServerInv, CfgInv, LiveInv

\* A request changes nothing but the record of its answer.
LEMMA RepliesKeep ==
    ASSUME ServerInv, UNCHANGED <<settings, proc, code, cfg, live>> PROVE ServerInv'
BY DEF ServerInv, LayersInv, CfgInv, LiveInv, FileSettings, Path, newServerWithStore, features, settings

\* Every step keeps the three: edits happen before the load, the load resolves
\* the layers, the start takes its settings from it, and requests change none.
LEMMA NextServer == ServerInv /\ [Next]_vars => ServerInv'
<1> SUFFICES ASSUME ServerInv, [Next]_vars PROVE ServerInv' OBVIOUS
<1>1. CASE Set
  <2>1. proc = "down" /\ UNCHANGED <<focus, proc>> BY <1>1 DEF Set, MayEdit
  <2>2. PICK f \in focus : \E v \in Tries[f] :
          \/ file' = With(file, f, v) /\ UNCHANGED <<env, cli>>
          \/ env' = With(env, f, v) /\ UNCHANGED <<file, cli>>
          \/ cli' = With(cli, f, v) /\ UNCHANGED <<file, env>>
    BY <1>1 DEF Set
  <2>3. f \in Fields BY DEF ServerInv, LayersInv
  <2>4. f \in Numbers => \A v \in Tries[f] : v \in Int BY ServerAssumption DEF Numbers
  <2>5. Parsed(file') /\ Parsed(env') /\ Parsed(cli')
    BY <2>2, <2>3, <2>4, ParsedExtends DEF ServerInv, LayersInv
  <2> QED BY <2>1, <2>5 DEF ServerInv, LayersInv, CfgInv, LiveInv
<1>2. CASE Place \/ Argue
  <2>1. proc = "down" /\ UNCHANGED <<focus, file, env, cli, proc>>
    BY <1>2 DEF Place, Argue, MayEdit
  <2> QED BY <2>1 DEF ServerInv, LayersInv, CfgInv, LiveInv
<1>3. CASE Configure
  <2>1. UNCHANGED <<settings>> BY <1>3 DEF Configure
  <2>2. LayersInv' BY <2>1 DEF ServerInv, LayersInv, settings
  <2>3. FileSettings' = FileSettings BY <2>1 DEF FileSettings, Path, settings
  <2>4. CASE proc' = "exited" BY <2>2, <2>4 DEF ServerInv, CfgInv, LiveInv
  <2>5. CASE cfg' = LoadWithSources(FileSettings, env, cli) /\ proc' = "loaded"
    <3>1. cfg' = Resolved(FileSettings, env, cli)
      BY <2>5, FileSettingsParsed, LayersResolve DEF ServerInv, LayersInv
    <3> QED BY <2>1, <2>2, <2>3, <2>5, <3>1 DEF ServerInv, CfgInv, LiveInv, settings
  <2> QED BY <1>3, <2>4, <2>5 DEF Configure, exit
<1>4. CASE Serve
  <2>1. proc = "loaded" /\ UNCHANGED <<settings, cfg>> BY <1>4 DEF Serve, exit
  <2>2. LayersInv' BY <2>1 DEF ServerInv, LayersInv, settings
  <2>3. cfg' = Resolved(FileSettings, env, cli)' BY <2>1
    DEF ServerInv, CfgInv, FileSettings, Path, settings
  <2>4. PICK opened \in SUBSET {"store", "mmdb"} : live' = newServerWithStore(opened)
    BY <1>4 DEF Serve
  <2>5. newServerWithStore(opened)' = newServerWithStore(opened)
    BY <2>1 DEF newServerWithStore, features
  <2>6. proc' = "serving" => cfg["Port"] \in Listenable BY <1>4 DEF Serve, exit
  <2> QED BY <2>1, <2>2, <2>3, <2>4, <2>5, <2>6 DEF ServerInv, CfgInv, LiveInv
<1>5. CASE Refuse \/ ConfigHandler \/ PostResult \/ ListResults
             \/ ResultsExport \/ Download \/ SizeTest
  <2>1. UNCHANGED <<settings, proc, code, cfg, live>>
    BY <1>5 DEF Refuse, ConfigHandler, PostResult, ListResults, ResultsExport, Download,
                SizeTest, Reply
  <2> QED BY <2>1, RepliesKeep
<1>6. CASE UNCHANGED vars BY <1>6, RepliesKeep DEF vars, settings
<1> QED BY <1>1, <1>2, <1>3, <1>4, <1>5, <1>6 DEF Next

\* In every reachable state the layers hold what the parsers let through, the
\* settings are what they resolve to, and the server runs with them.
THEOREM InductiveInvariant == Spec => []ServerInv
BY InitServer, NextServer, PTL DEF Spec

\* Every field of a loaded configuration comes from the highest layer that
\* holds an acceptable value, for any values in all three layers; the older
\* loader agrees for environments with nothing above its range and no path set
\* empty (config.go 133-181).
THEOREM LayersWin == Spec => []HighestValidLayerWins
<1>1. ServerInv => HighestValidLayerWins
  BY LegacyAgrees DEF ServerInv, CfgInv, LayersInv, HighestValidLayerWins
<1> QED BY <1>1, InductiveInvariant, PTL

-----------------------------------------------------------------------------
(* What can be run with                                                    *)

\* Wrapping int64 arithmetic: the identity within its range, and one turn too
\* low just above it.
LEMMA Wraps ==
    ASSUME NEW n \in Int
    PROVE  /\ int64(n) \in Int /\ -(IntMax + 1) <= int64(n) /\ int64(n) <= IntMax
           /\ -(IntMax + 1) <= n /\ n <= IntMax => int64(n) = n
           /\ IntMax < n /\ n <= 2 * IntMax + 1 => int64(n) < 0
<1> DEFINE M == IntMax + 1
           a == n + IntMax + 1
           b == 2 * (IntMax + 1)
<1>1. M \in Int /\ M > 0 /\ a \in Int /\ b \in Int /\ b > 0 BY DurationAssumption
<1>2. int64(n) = (a % b) - M BY Zenon DEF int64
<1> HIDE DEF a, b
<1>3. a % b \in Int /\ 0 <= a % b /\ a % b < b BY <1>1, Z3
<1>4. 0 <= a /\ a < b => a % b = a BY <1>1, Z3
<1>5. b <= a /\ a < b + b => a % b = a - b BY <1>1, Z3
<1> QED BY <1>1, <1>2, <1>3, <1>4, <1>5, DurationAssumption DEF a, b

\* A number of seconds that fits in an int64 stays what it is.
LEMMA SecondsFit ==
    ASSUME NEW n \in Int, n >= 1, n <= IntMax \div Second PROVE seconds(n) >= Second
<1>1. n * Second \in Int /\ n * Second >= Second /\ n * Second <= IntMax
  BY DurationAssumption, Z3
<1> QED BY <1>1, Wraps, DurationAssumption DEF seconds

\* The keep-alive timeout outlives the longest test, or is off.
LEMMA IdleOutlives ==
    ASSUME NEW d \in Int, d <= IntMax
    PROVE  idleTimeout(d) <= 0 \/ (idleTimeout(d) > 300 * Second /\ idleTimeout(d) > d)
<1> DEFINE m == IF d < 300 * Second THEN 300 * Second ELSE d
<1>1. m \in Int /\ m >= d /\ m >= 300 * Second /\ m <= IntMax BY DurationAssumption
<1>2. idleTimeout(d) = int64(m + 60 * Second) BY DEF idleTimeout
<1> HIDE DEF m
<1>3. m + 60 * Second \in Int /\ m + 60 * Second > m /\ m + 60 * Second <= 2 * IntMax + 1
  BY <1>1, DurationAssumption
<1>4. -(IntMax + 1) <= m + 60 * Second BY <1>1, DurationAssumption
<1>5. CASE m + 60 * Second <= IntMax
  <2>1. int64(m + 60 * Second) = m + 60 * Second BY <1>3, <1>4, <1>5, Wraps
  <2> QED BY <1>1, <1>2, <1>3, <2>1, DurationAssumption
<1>6. CASE m + 60 * Second > IntMax
  <2>1. int64(m + 60 * Second) < 0 /\ int64(m + 60 * Second) \in Int BY <1>3, <1>6, Wraps
  <2> QED BY <1>2, <2>1
<1> QED BY <1>1, <1>3, <1>5, <1>6, DurationAssumption

\* A field of the loaded configuration is a default, or the acceptable value of
\* one of the layers.
LEMMA CfgFrom ==
    ASSUME ServerInv, proc \in {"loaded", "serving"}, NEW f \in Fields
    PROVE  \/ cfg[f] = defaults[f]
           \/ \E layer \in {file, env, cli} : Provides(layer, f) /\ cfg[f] = Value(f, layer[f])
<1>1. cfg[f] = Resolved(FileSettings, env, cli)[f] BY DEF ServerInv, CfgInv
<1>2. \/ cfg[f] = defaults[f]
      \/ \E layer \in {FileSettings, env, cli} : Provides(layer, f) /\ cfg[f] = Value(f, layer[f])
  BY <1>1 DEF Resolved, EnvProvides
<1>3. ~Provides([x \in {} |-> ""], f) BY DEF Provides
<1> QED BY <1>2, <1>3, FileSettingsIs

\* The compiled-in defaults are within the ranges.
LEMMA DefaultsInRange ==
    \A f \in Ranged : defaults[f] \in Int /\ Lo[f] <= defaults[f] /\ defaults[f] <= Hi[f]
<1>1. /\ defaults["DownloadMB"] = 25 /\ defaults["UploadMB"] = 10 /\ defaults["Streams"] = 4
      /\ defaults["MaxConcurrent"] = 10 /\ defaults["WarmupMs"] = 500
      /\ defaults["HistoryRetentionDays"] = 90 /\ defaults["RatePerMin"] = 0
  BY DEF defaults
<1>2. /\ Hi["DownloadMB"] = 10240 /\ Hi["UploadMB"] = 10240 /\ Hi["Streams"] = 32
      /\ Hi["MaxConcurrent"] = 100 /\ Hi["WarmupMs"] = 10000
      /\ Hi["HistoryRetentionDays"] = 3650 /\ Hi["RatePerMin"] = 100000
  BY DEF Hi
<1>3. /\ \A f \in {"DownloadMB", "UploadMB", "Streams", "MaxConcurrent"} : Lo[f] = 1
      /\ \A f \in {"WarmupMs", "HistoryRetentionDays", "RatePerMin"} : Lo[f] = 0
  BY DEF Lo, Ranged
<1> QED BY <1>1, <1>2, <1>3 DEF Ranged

\* A loaded number is within its range.
LEMMA RangedLoaded ==
    ASSUME ServerInv, proc \in {"loaded", "serving"}, NEW f \in Ranged
    PROVE  cfg[f] \in Int /\ Lo[f] <= cfg[f] /\ cfg[f] <= Hi[f]
<1>1. \A layer \in {file, env, cli} : Parsed(layer) BY DEF ServerInv, LayersInv
<1>2. f \in Fields /\ f # "Duration" BY DEF Fields, Ranged
<1>3. CASE cfg[f] = defaults[f] BY <1>3, DefaultsInRange
<1>4. ASSUME NEW layer \in {file, env, cli}, Provides(layer, f), cfg[f] = Value(f, layer[f])
      PROVE  cfg[f] \in Int /\ Lo[f] <= cfg[f] /\ cfg[f] <= Hi[f]
  <2>1. cfg[f] = layer[f] BY <1>2, <1>4 DEF Value
  <2>2. layer[f] \in Int BY <1>1, <1>4 DEF Parsed, Provides, Numbers
  <2>3. Acceptable(f, layer[f]) BY <1>4 DEF Provides
  <2>4. Lo[f] <= layer[f] /\ layer[f] <= Hi[f] BY <2>3, Zenon DEF Acceptable
  <2> QED BY <2>1, <2>2, <2>4
<1> QED BY <1>2, <1>3, <1>4, CfgFrom

\* A loaded duration fits in an int64, and is a second or more unless one was asked
\* for that does not.
LEMMA DurationLoaded ==
    ASSUME ServerInv, proc \in {"loaded", "serving"}
    PROVE  /\ cfg["Duration"] \in Int /\ cfg["Duration"] <= IntMax
           /\ cfg["Duration"] >= Second \/ \E layer \in {file, env, cli} : TooLong(layer)
<1>0. \A layer \in {file, env, cli} : Parsed(layer) BY DEF ServerInv, LayersInv
<1>1. "Duration" \in Fields BY DEF Fields
<1>2. defaults["Duration"] = seconds(15) BY DEF defaults
<1>3. 15 * Second \in Int /\ 15 * Second <= IntMax /\ 15 * Second >= Second
  BY DurationAssumption
<1>4. seconds(15) = 15 * Second BY <1>3, Wraps, DurationAssumption DEF seconds
<1>5. ASSUME NEW layer \in {file, env, cli}, Provides(layer, "Duration")
      PROVE  /\ seconds(layer["Duration"]) \in Int /\ seconds(layer["Duration"]) <= IntMax
             /\ seconds(layer["Duration"]) >= Second \/ TooLong(layer)
  <2>1. layer["Duration"] \in Int BY <1>0, <1>5 DEF Parsed, Provides, Numbers
  <2>2. Acceptable("Duration", layer["Duration"]) BY <1>5 DEF Provides
  <2>3. layer["Duration"] >= 1 BY <2>2, Zenon DEF Acceptable
  <2>4. layer["Duration"] * Second \in Int BY <2>1, DurationAssumption
  <2>5. seconds(layer["Duration"]) \in Int /\ seconds(layer["Duration"]) <= IntMax
    BY <2>4, Wraps DEF seconds
  <2>6. TooLong(layer) <=> layer["Duration"] > IntMax \div Second
    BY <1>5 DEF TooLong, Provides
  <2>7. IntMax \div Second \in Int BY DurationAssumption
  <2>8. layer["Duration"] <= IntMax \div Second => seconds(layer["Duration"]) >= Second
    BY <2>1, <2>3, SecondsFit
  <2> QED BY <2>1, <2>5, <2>6, <2>7, <2>8
<1>6. \A layer : Value("Duration", layer["Duration"]) = seconds(layer["Duration"]) BY DEF Value
<1> QED BY <1>1, <1>2, <1>3, <1>4, <1>5, <1>6, CfgFrom

\* There are slots to give.
LEMMA CapacityServed ==
    ASSUME ServerInv, proc = "serving" PROVE live.capacity \in 1 .. 100
<1>1. PICK opened \in SUBSET {"store", "mmdb"} : live = newServerWithStore(opened)
  BY DEF ServerInv, LiveInv
<1>2. "MaxConcurrent" \in Ranged /\ Lo["MaxConcurrent"] = 1 /\ Hi["MaxConcurrent"] = 100
  BY DEF Ranged, Lo, Hi
<1>3. live.capacity = newCapacity(cfg["MaxConcurrent"]) BY <1>1 DEF newServerWithStore
<1> QED BY <1>2, <1>3, RangedLoaded DEF newCapacity

\* A server that listens has settings its handlers can work with, whatever
\* numbers and strings the operator typed (main.go 240-247, config.go).
THEOREM ServesSafely == Spec => []SafeToServe
<1>1. ASSUME ServerInv PROVE SafeToServe
  <2> SUFFICES ASSUME proc = "serving" PROVE SafeToServe BY DEF SafeToServe
  <2>1. PICK opened \in SUBSET {"store", "mmdb"} : live = newServerWithStore(opened)
    BY <1>1 DEF ServerInv, LiveInv
  <2>3. \A f \in Ranged : cfg[f] \in Int /\ Lo[f] <= cfg[f] /\ cfg[f] <= Hi[f]
    BY <1>1, RangedLoaded
  <2>4. cfg["Mode"] \in {"size", "time"}
    <3>1. "Mode" \in Fields /\ "Mode" # "Duration" BY DEF Fields, Strings
    <3>2. defaults["Mode"] = "time" BY DEF defaults
    <3>3. ASSUME NEW layer, Provides(layer, "Mode") PROVE layer["Mode"] \in {"size", "time"}
      <4>1. Acceptable("Mode", layer["Mode"]) BY <3>3 DEF Provides
      <4> QED BY <4>1, Zenon DEF Acceptable
    <3> QED BY <1>1, <3>1, <3>2, <3>3, CfgFrom DEF Value
  <2>5. cfg["Port"] \in Numerals BY <1>1, ServerAssumption DEF ServerInv, LiveInv
  <2>6. live.capacity \in 1 .. 100 BY <1>1, CapacityServed
  <2>7. /\ cfg["Duration"] \in Int /\ cfg["Duration"] <= IntMax
        /\ cfg["Duration"] >= Second \/ \E layer \in {file, env, cli} : TooLong(layer)
    BY <1>1, DurationLoaded
  <2>8. live.idle <= 0 \/ (live.idle > 300 * Second /\ live.idle > cfg["Duration"])
    <3>1. live.idle = idleTimeout(cfg["Duration"]) BY <2>1 DEF newServerWithStore
    <3> QED BY <2>7, <3>1, IdleOutlives
  <2>9. ASSUME NEW f \in {"GeoIPLicenseKey", "GeoIPDBPath"}, cfg[f] # "" PROVE Asked(f)
    <3>1. f \in Fields /\ f # "Duration" BY DEF Fields, Strings
    <3>2. CASE cfg[f] = defaults[f]
      <4>1. defaults["GeoIPLicenseKey"] = "" /\ defaults["GeoIPDBPath"] = "" BY DEF defaults
      <4>2. CASE f = "GeoIPLicenseKey" BY <2>9, <3>2, <4>1, <4>2
      <4>3. CASE f = "GeoIPDBPath" BY <2>9, <3>2, <4>1, <4>3
      <4> QED BY <4>2, <4>3
    <3>3. ASSUME NEW layer \in {file, env, cli}, Provides(layer, f), cfg[f] = Value(f, layer[f])
          PROVE  Asked(f)
      <4>1. cfg[f] = layer[f] BY <3>1, <3>3 DEF Value
      <4> QED BY <2>9, <3>3, <4>1 DEF Provides, Asked
    <3> QED BY <1>1, <3>1, <3>2, <3>3, CfgFrom
  <2>10. live.on = features(opened) BY <2>1 DEF newServerWithStore
  <2>11. "updater" \in live.on => live.target # "" /\ Asked("GeoIPLicenseKey")
    <3>1. "updater" \in live.on => cfg["GeoIPLicenseKey"] # "" /\ cfg["GeoIPEdition"] # ""
      BY <2>10 DEF features
    <3>2. live.target = IF cfg["GeoIPDBPath"] = "" THEN cfg["GeoIPEdition"] ELSE cfg["GeoIPDBPath"]
      BY <2>1 DEF newServerWithStore
    <3> QED BY <2>9, <3>1, <3>2
  <2>12. "geoip" \in live.on => Asked("GeoIPDBPath")
    <3>1. "geoip" \in live.on => cfg["GeoIPDBPath"] # "" BY <2>10 DEF features
    <3> QED BY <2>9, <3>1
  <2> QED BY <2>3, <2>4, <2>5, <2>6, <2>7, <2>8, <2>11, <2>12 DEF SafeToServe
<1> QED BY <1>1, InductiveInvariant, PTL

-----------------------------------------------------------------------------
(* What a request leaves behind                                            *)

\* Only a server that serves has answered, and it has answered once.
AnsweredInv == last # NoRequest => proc = "serving"

\* A property of the answer and of the settings it was made from is kept when
\* each handler's answer has it: nothing changes the settings afterwards.
LEMMA NextAnswered ==
    ASSUME AnsweredInv, [Next]_vars
    PROVE  /\ AnsweredInv'
           /\ \/ last' = NoRequest
              \/ UNCHANGED <<last, live, cfg>>
              \/ /\ proc = "serving" /\ UNCHANGED <<live, cfg>>
                 /\ Refuse \/ ConfigHandler \/ PostResult \/ ListResults
                      \/ ResultsExport \/ Download \/ SizeTest
<1>1. CASE Set \/ Place \/ Argue \/ Configure \/ Serve
  <2>1. proc # "serving" /\ last' = last
    BY <1>1 DEF Set, Place, Argue, Configure, Serve, MayEdit
  <2> QED BY <2>1 DEF AnsweredInv
<1>2. CASE Refuse \/ ConfigHandler \/ PostResult \/ ListResults
             \/ ResultsExport \/ Download \/ SizeTest
  <2>1. proc = "serving" /\ UNCHANGED <<proc, live, cfg>>
    BY <1>2 DEF Refuse, ConfigHandler, PostResult, ListResults, ResultsExport, Download,
                SizeTest, Reply, Quiet
  <2> QED BY <1>2, <2>1 DEF AnsweredInv
<1>3. CASE UNCHANGED vars BY <1>3 DEF vars, AnsweredInv
<1> QED BY <1>1, <1>2, <1>3 DEF Next

\* Among the prefixes of a text up to a length there is a longest that ends where
\* a character begins.
LEMMA CutExists ==
    ASSUME NEW s \in Seq(Byte), NEW n \in Nat, n < Len(s)
    PROVE  \E cut \in 0 .. n : /\ cut = 0 \/ s[cut + 1] # "c"
                               /\ \A i \in cut + 1 .. n : s[i + 1] = "c"
<1> DEFINE T == {c \in 0 .. n : c = 0 \/ s[c + 1] # "c"}
           D == {d \in Nat : d <= n /\ n - d \in T}
<1>1. D \in SUBSET Nat /\ n \in D OBVIOUS
<1>2. PICK d \in D : \A e \in D : d <= e
  <2> HIDE DEF D
  <2> QED BY <1>1, LeastNatural
<1>3. \A e \in D : ~(e < d) BY <1>1, <1>2
<1>4. n - d \in 0 .. n /\ n - d \in T BY <1>2
<1>5. ASSUME NEW i \in n - d + 1 .. n PROVE s[i + 1] = "c"
  <2>0. d \in Nat /\ d <= n BY <1>2
  <2> HIDE DEF D, T
  <2>1. i \in 0 .. n /\ n - i \in Nat /\ n - i < d /\ n - (n - i) = i BY <2>0
  <2> USE DEF D, T
  <2>2. n - i \notin D BY <1>3, <2>1
  <2>3. i \notin T BY <2>1, <2>2
  <2> QED BY <2>1, <2>3
<1> QED BY <1>4, <1>5

\* Truncation keeps the limit, whatever the bytes.
LEMMA TruncateFits ==
    ASSUME NEW s \in Seq(Byte), NEW n \in Nat
    PROVE  truncate(s, n) \in Seq(Byte) /\ Len(truncate(s, n)) <= n
<1>1. CASE Len(s) <= n BY <1>1 DEF truncate
<1>2. CASE ~(Len(s) <= n)
  <2>1. n < Len(s) BY <1>2
  <2>2. PICK cut \in 0 .. n : truncate(s, n) = SubSeq(s, 1, cut)
    BY <1>2, <2>1, CutExists DEF truncate
  <2>3. SubSeq(s, 1, cut) \in Seq(Byte) /\ Len(SubSeq(s, 1, cut)) = cut BY <2>1, <2>2
  <2> QED BY <2>2, <2>3
<1> QED BY <1>1, <1>2

\* It cuts no character.
LEMMA TruncateWhole ==
    ASSUME NEW s \in Seq(Byte), WholeCharacters(s), NEW n \in Nat
    PROVE  WholeCharacters(truncate(s, n))
<1>1. CASE Len(s) <= n BY <1>1 DEF truncate
<1>2. CASE ~(Len(s) <= n)
  <2>1. n < Len(s) BY <1>2
  <2>2. PICK cut \in 0 .. n : /\ cut = 0 \/ s[cut + 1] # "c"
                              /\ truncate(s, n) = SubSeq(s, 1, cut)
    BY <1>2, <2>1, CutExists DEF truncate
  <2> DEFINE t == SubSeq(s, 1, cut)
  <2>3. t \in Seq(Byte) /\ Len(t) = cut /\ DOMAIN t = 1 .. cut /\ \A i \in 1 .. cut : t[i] = s[i]
    BY <2>1, <2>2
  <2> HIDE DEF t
  <2>4. DOMAIN s = 1 .. Len(s) /\ cut \in Nat /\ cut <= n /\ cut < Len(s) /\ Len(s) \in Nat
    BY <2>1, <2>2
  <2>5. \A b : Following(b) \in 0 .. 2 BY DEF Following
  <2>6. ASSUME NEW i \in DOMAIN t, t[i] # "c"
        PROVE  /\ i + Following(t[i]) <= Len(t)
               /\ \A j \in i + 1 .. i + Following(t[i]) : t[j] = "c"
               /\ i + Following(t[i]) < Len(t) => t[i + Following(t[i]) + 1] # "c"
    <3> DEFINE m == i + Following(s[i])
    <3>1. i \in 1 .. cut /\ t[i] = s[i] /\ i \in DOMAIN s BY <2>3, <2>4
    <3>2. m \in Nat /\ m >= i BY <2>5, <3>1
    <3>3. (\A j \in i + 1 .. m : s[j] = "c") /\ (m < Len(s) => s[m + 1] # "c")
      BY <2>6, <3>1 DEF WholeCharacters
    <3> HIDE DEF m
    <3>4. m <= cut
      <4>1. cut # 0 /\ s[cut + 1] # "c" BY <2>2, <3>1
      <4>2. cut + 1 \notin i + 1 .. m BY <3>3, <4>1
      <4> QED BY <2>4, <3>1, <3>2, <4>2
    <3>5. \A j \in i + 1 .. m : t[j] = "c" BY <2>3, <2>4, <3>1, <3>2, <3>3, <3>4
    <3>6. m < cut => t[m + 1] # "c" BY <2>3, <2>4, <3>2, <3>3
    <3> QED BY <2>3, <3>1, <3>4, <3>5, <3>6 DEF m
  <2>7. t # <<>> => t[1] # "c"
    <3>1. t # <<>> => cut >= 1 BY <2>3, <2>4
    <3>2. s # <<>> /\ s[1] # "c" BY <2>4 DEF WholeCharacters
    <3> QED BY <2>3, <2>4, <3>1, <3>2
  <2>8. WholeCharacters(t) BY <2>6, <2>7 DEF WholeCharacters
  <2> QED BY <2>2, <2>8 DEF t
<1> QED BY <1>1, <1>2

\* A cell of the export never begins like a formula.
LEMMA CellIsSafe ==
    ASSUME NEW S, NEW s \in Seq(S), csvSafe(s) # <<>> PROVE Head(csvSafe(s)) \notin Formulas
<1>1. CASE s # <<>> /\ Head(s) \in Formulas
  <2>1. csvSafe(s) = <<"'">> \o s BY <1>1 DEF csvSafe
  <2>2. Head(<<"'">> \o s) = "'" OBVIOUS
  <2> QED BY <2>1, <2>2, AddressAssumption
<1>2. CASE ~(s # <<>> /\ Head(s) \in Formulas) BY <1>2 DEF csvSafe
<1> QED BY <1>1, <1>2

\* A location is a list of names.
LEMMA PlaceIsList == ASSUME NEW t, NEW rec PROVE \E S : Locate(t, rec) \in Seq(S)
<1> DEFINE x == pickName(rec.country)
           y == pickName(rec.city)
<1>1. Locate(t, rec) \in {<<>>, <<x>>, <<y, x>>} BY DEF Locate, formatLocation
<1> HIDE DEF x, y
<1>2. <<>> \in Seq({x, y}) /\ <<x>> \in Seq({x, y}) /\ <<y, x>> \in Seq({x, y}) OBVIOUS
<1>3. Locate(t, rec) \in Seq({x, y}) BY <1>1, <1>2
<1> QED BY <1>3

\* The address a request counts for is the peer's, or one that a peer on the local
\* network put into a header.
LEMMA WhoseAddress ==
    ASSUME NEW r, r.xff \in Seq(STRING)
    PROVE  \/ ClientIP(r) = r.peer
           \/ /\ isPrivateOrLoopback(r.peer)
              /\ \E t \in {r.xri} \cup {r.xff[i] : i \in DOMAIN r.xff} :
                   t \in DOMAIN ParseIP /\ ClientIP(r) = ParseIP[t]
<1>1. r.xff # <<>> => 1 \in DOMAIN r.xff /\ Head(r.xff) = r.xff[1] OBVIOUS
<1> QED BY <1>1 DEF ClientIP

\* A place is given to an address out there only.
LEMMA WhoHasAPlace ==
    ASSUME NEW t, NEW rec, Locate(t, rec) # <<>>
    PROVE  t \in DOMAIN ParseIP /\ ~isPrivateOrLoopback(t)
BY DEF Locate, geoipInternal, isPrivateOrLoopback

\* The row that is made of a posted result.
LEMMA RowIs ==
    ASSUME NEW in \in Bodies, NEW r \in Posts, NEW geoip
    PROVE  LET row == createResult(in, r, geoip)
           IN  /\ row.ip = ClientIP(r) /\ row.ua = truncate(r.ua, MaxText)
               /\ row.settings = truncate(in.settings, MaxText)
               /\ row.loc = (IF geoip THEN Locate(ClientIP(r), r.rec) ELSE <<>>)
               /\ row.mbps >= 0 /\ row.ms >= 0 /\ row.loss >= 0
               /\ row.mbps \in Int /\ row.ms \in Int /\ row.loss \in Int
<1> DEFINE S == sanitiseResult(in)
           A == [S EXCEPT !.ip = ClientIP(r)]
           B == [A EXCEPT !.ua = truncate(r.ua, MaxText)]
           loc == IF geoip THEN Locate(ClientIP(r), r.rec) ELSE <<>>
           row == [B EXCEPT !.loc = loc]
<1>1. createResult(in, r, geoip) = row BY Zenon DEF createResult
<1>2. in.mbps \in Int /\ in.ms \in Int /\ in.loss \in Int BY RequestAssumption
<1>3. /\ clampFloat(in.mbps, 0, 1000000) >= 0 /\ clampFloat(in.mbps, 0, 1000000) \in Int
      /\ clampFloat(in.ms, 0, 60000) >= 0 /\ clampFloat(in.ms, 0, 60000) \in Int
      /\ clampFloat(in.loss, 0, 100) >= 0 /\ clampFloat(in.loss, 0, 100) \in Int
  BY <1>2, SMT DEF clampFloat
<1>0. /\ S.mbps = clampFloat(in.mbps, 0, 1000000) /\ S.ms = clampFloat(in.ms, 0, 60000)
      /\ S.loss = clampFloat(in.loss, 0, 100) /\ S.settings = truncate(in.settings, MaxText)
  BY SMT DEF sanitiseResult
<1>4. /\ DOMAIN S = {"mbps", "ms", "loss", "grade", "settings", "ip", "loc", "ua"}
      /\ S = [f \in DOMAIN S |-> S[f]]
  <2> DEFINE a == clampFloat(in.mbps, 0, 1000000)
             b == clampFloat(in.ms, 0, 60000)
  <2>1. S = [mbps |-> a, ms |-> b, loss |-> clampFloat(in.loss, 0, 100),
             grade |-> IF in.grade \in {"", "A", "B", "C", "D"} THEN in.grade ELSE "",
             settings |-> truncate(in.settings, MaxText), ip |-> "", loc |-> <<>>, ua |-> <<>>]
    BY SMT DEF sanitiseResult
  <2> HIDE DEF a, b
  <2> HIDE DEF S
  <2> QED BY <2>1
<1> HIDE DEF S
<1>5. /\ A.ip = ClientIP(r) /\ A = [f \in DOMAIN S |-> A[f]] /\ DOMAIN A = DOMAIN S
      /\ \A f \in DOMAIN S : f # "ip" => A[f] = S[f]
  BY <1>4
<1> HIDE DEF A
<1>6. /\ B.ua = truncate(r.ua, MaxText) /\ B = [f \in DOMAIN A |-> B[f]] /\ DOMAIN B = DOMAIN A
      /\ \A f \in DOMAIN A : f # "ua" => B[f] = A[f]
  BY <1>4, <1>5
<1> HIDE DEF B, loc
<1>7. row.loc = loc /\ \A f \in DOMAIN B : f # "loc" => row[f] = B[f] BY <1>4, <1>5, <1>6
<1> HIDE DEF row
<1>8. /\ row.ip = ClientIP(r) /\ row.ua = truncate(r.ua, MaxText)
      /\ row.settings = S.settings /\ row.mbps = S.mbps /\ row.ms = S.ms /\ row.loss = S.loss
  BY <1>4, <1>5, <1>6, <1>7
<1>9. row.loc = (IF geoip THEN Locate(ClientIP(r), r.rec) ELSE <<>>) BY <1>7 DEF loc
<1> QED BY <1>0, <1>1, <1>3, <1>8, <1>9, SMT

\* Each handler's answer says whose it is.
LEMMA AnswerOf ==
    /\ Refuse => last'.route = "refused"
    /\ ConfigHandler => last'.route = "config"
    /\ ListResults => last'.route = "list"
    /\ Download => last'.route = "download"
    /\ ResultsExport => last'.route \in {"export", "refused"}
    /\ SizeTest => last'.route = "sizetest"
<1>1. Refuse => last'.route = "refused" BY SMT DEF Refuse, Reply
<1>2. ConfigHandler => last'.route = "config" BY SMT DEF ConfigHandler, Reply
<1>3. ListResults => last'.route = "list" BY SMT DEF ListResults, Reply
<1>4. Download => last'.route = "download" BY SMT DEF Download, Reply
<1>5. ResultsExport => last'.route \in {"export", "refused"} BY DEF ResultsExport, Reply
<1>6. SizeTest => last'.route = "sizetest" BY SMT DEF SizeTest, Reply, measureDownload
<1> QED BY <1>1, <1>2, <1>3, <1>4, <1>5, <1>6

\* The server's word, on one row.
LEMMA RowIsSafe ==
    ASSUME NEW in \in Bodies, NEW r \in Posts, NEW on
    PROVE  ServersWord(r, createResult(in, r, "geoip" \in on), on)
<1> DEFINE g == "geoip" \in on
           row == createResult(in, r, g)
<1>1. /\ row.ip = ClientIP(r) /\ row.ua = truncate(r.ua, MaxText)
      /\ row.settings = truncate(in.settings, MaxText)
      /\ row.loc = (IF g THEN Locate(ClientIP(r), r.rec) ELSE <<>>)
      /\ row.mbps >= 0 /\ row.ms >= 0 /\ row.loss >= 0
      /\ row.mbps \in Int /\ row.ms \in Int /\ row.loss \in Int
  <2> HIDE DEF g
  <2> QED BY RowIs
<1> HIDE DEF row, g
<1>3. \/ row.ip = r.peer
      \/ /\ isPrivateOrLoopback(r.peer)
         /\ \E t \in {r.xri} \cup {r.xff[i] : i \in DOMAIN r.xff} :
              t \in DOMAIN ParseIP /\ row.ip = ParseIP[t]
  BY <1>1, WhoseAddress, RequestAssumption
<1>4. row.loc # <<>> => /\ "geoip" \in on
                        /\ row.ip \in DOMAIN ParseIP /\ ~isPrivateOrLoopback(row.ip)
  BY <1>1, WhoHasAPlace DEF g
<1>5. \A s \in {row.ua, row.settings} : s \in Seq(Byte) /\ Len(s) <= MaxText
  BY <1>1, TruncateFits, RequestAssumption, AddressAssumption
<1>6. WholeCharacters(row.settings) /\ (WholeCharacters(r.ua) => WholeCharacters(row.ua))
  BY <1>1, TruncateWhole, RequestAssumption, AddressAssumption
<1>7. \A cell \in writeResultsCSV(row) : cell # <<>> => Head(cell) \notin Formulas
  <2>1. ASSUME NEW s \in {<<row.grade>>, <<row.ip>>, row.loc, row.ua, row.settings},
               csvSafe(s) # <<>>
        PROVE  Head(csvSafe(s)) \notin Formulas
    <3>1. \A x : <<x>> \in Seq({x}) OBVIOUS
    <3>2. \E S : row.loc \in Seq(S)
      <4>1. <<>> \in Seq({}) OBVIOUS
      <4> QED BY <1>1, <4>1, PlaceIsList
    <3>3. PICK S : s \in Seq(S) BY <1>5, <3>1, <3>2
    <3> QED BY <2>1, <3>3, CellIsSafe
  <2>2. \A n \in {row.mbps, row.ms, row.loss} : (IF n < 0 THEN <<"=">> ELSE <<"a">>) = <<"a">>
    BY <1>1
  <2>3. Head(<<"a">>) \notin Formulas BY AddressAssumption
  <2>4. ASSUME NEW cell \in writeResultsCSV(row)
        PROVE  \/ cell = <<"a">>
               \/ \E s \in {<<row.grade>>, <<row.ip>>, row.loc, row.ua, row.settings} :
                    cell = csvSafe(s)
    BY <2>2, Zenon DEF writeResultsCSV
  <2> QED BY <2>1, <2>3, <2>4
<1>8. ServersWord(r, row, on) BY <1>3, <1>4, <1>5, <1>6, <1>7 DEF ServersWord
<1> QED BY <1>8 DEF row, g

\* What is stored with a result is the server's word, whatever bytes a client puts
\* into its headers, whatever texts and numbers the JSON decoder lets through and
\* whatever names the database holds: for any world of addresses, any set of
\* formulas and any length limit (results_handler.go, ClientIP).
THEOREM TheServersWord == Spec => []RowIsTheServersWord
<1>1. Init => AnsweredInv /\ RowIsTheServersWord
  BY DEF Init, AnsweredInv, RowIsTheServersWord, NoRequest
<1>2. ASSUME AnsweredInv, RowIsTheServersWord, [Next]_vars
      PROVE  AnsweredInv' /\ RowIsTheServersWord'
  <2>1. AnsweredInv' BY <1>2, NextAnswered
  <2>2. CASE last'.route # "post" BY <2>1, <2>2 DEF RowIsTheServersWord
  <2>3. CASE UNCHANGED <<last, live, cfg>> BY <1>2, <2>1, <2>3 DEF RowIsTheServersWord
  <2>4. CASE PostResult
    <3>1. PICK r \in Posts, in \in Bodies :
            last' = [route |-> "post", req |-> r, row |-> createResult(in, r, "geoip" \in live.on)]
      BY <2>4 DEF PostResult, Reply
    <3>2. live' = live BY <2>4 DEF PostResult, Reply
    <3>3. last'.req = r /\ last'.row = createResult(in, r, "geoip" \in live.on) BY <3>1
    <3>4. ServersWord(r, createResult(in, r, "geoip" \in live.on), live.on) BY RowIsSafe
    <3> QED BY <2>1, <3>2, <3>3, <3>4 DEF RowIsTheServersWord
  <2>5. CASE Refuse \/ ConfigHandler \/ ListResults \/ ResultsExport \/ Download \/ SizeTest
    <3>1. last'.route \in {"refused", "config", "list", "export", "download", "sizetest"}
      BY <2>5, AnswerOf
    <3> QED BY <2>2, <3>1
  <2>6. last' = NoRequest => last'.route # "post" BY DEF NoRequest
  <2> QED BY <1>2, <2>1, <2>2, <2>3, <2>4, <2>5, <2>6, NextAnswered
<1> QED BY <1>1, <1>2, PTL DEF Spec

-----------------------------------------------------------------------------
(* Limits                                                                  *)

\* The larger of two numbers is one of them and not less than either.
LEMMA MaxOfTwo ==
    ASSUME NEW a \in Int, NEW b \in Int
    PROVE  Max({a, b}) \in Int /\ Max({a, b}) >= a /\ Max({a, b}) >= b
<1>1. \E x \in {a, b} : \A y \in {a, b} : x >= y OBVIOUS
<1>2. Max({a, b}) \in {a, b} /\ \A y \in {a, b} : Max({a, b}) >= y
  BY <1>1 DEF Max
<1> QED BY <1>2

\* A clamped number is within its bounds.
LEMMA ClampedInt ==
    ASSUME NEW n \in Int, NEW lo \in Int, NEW hi \in Int, lo <= hi
    PROVE  clampInt(n, lo, hi) \in lo .. hi
BY DEF clampInt

\* A number of seconds within the limit is no longer than the limit.
LEMMA SecondsWithin ==
    ASSUME NEW n \in Int, 1 <= n, n <= 300
    PROVE  seconds(n) \in Int /\ seconds(300) \in Int /\ seconds(n) <= seconds(300)
<1>1. n * Second \in Int /\ 0 <= n * Second /\ n * Second <= 300 * Second
  BY DurationAssumption, Z3
<1>2. 300 * Second \in Int /\ 300 * Second <= IntMax /\ 0 <= 300 * Second BY DurationAssumption
<1>3. seconds(300) = 300 * Second BY <1>2, Wraps, DurationAssumption DEF seconds
<1>4. seconds(n) = n * Second BY <1>1, <1>2, Wraps, DurationAssumption DEF seconds
<1> QED BY <1>1, <1>2, <1>3, <1>4

\* The bytes of a number of megabytes.
LEMMA Megabytes ==
    ASSUME NEW n \in Int, 1 <= n
    PROVE  n * MB \in Int /\ n * MB >= 1 /\ (n <= 1024 => n * MB <= 1024 * MB)
<1>1. MB \in Int /\ 1 <= MB BY AddressAssumption
<1>2. n * MB \in Int /\ n * MB >= 1 BY <1>1, Z3
<1>3. n <= 1024 => n * MB <= 1024 * MB BY <1>1, Z3
<1> QED BY <1>2, <1>3

\* What a download is to send, whatever the query asks for.
LEMMA DownloadBounded ==
    ASSUME NEW c, NEW q, c["DownloadMB"] \in Int, c["DownloadMB"] >= 1, c["Duration"] \in Int,
           q.bytes \in Seq(Int), q.size \in Seq(Int), q.duration \in Seq(Int)
    PROVE  DownloadWithin(DownloadHandler(c, q), c)
<1> DEFINE own == c["DownloadMB"] * MB
           M == Max({maxBytesPerStream, own})
           N == Max({seconds(maxDurationSecs), c["Duration"]})
<1>1. own \in Int /\ own >= 1 /\ maxBytesPerStream \in Int
  <2>1. MB \in Int /\ 1 <= MB BY AddressAssumption
  <2>2. PICK d \in Int : d = c["DownloadMB"] /\ 1 <= d OBVIOUS
  <2>3. d * MB \in Int /\ d * MB >= 1 BY <2>2, Megabytes
  <2>4. own = d * MB BY <2>2
  <2> HIDE DEF own
  <2> QED BY <2>1, <2>3, <2>4 DEF maxBytesPerStream
<1>2. M \in Int /\ M >= maxBytesPerStream /\ M >= own
  <2> HIDE DEF own
  <2> QED BY <1>1, MaxOfTwo
<1>3. totalBytes(c, q) \in 1 .. M
  <2>1. CASE Within(q.bytes, maxBytesPerStream)
    <3>1. Head(q.bytes) \in Int BY <2>1 DEF Within
    <3> HIDE DEF M, own
    <3> QED BY <1>1, <1>2, <2>1, <3>1 DEF Within, totalBytes
  <2>2. CASE ~Within(q.bytes, maxBytesPerStream) /\ q.bytes = <<>> /\ Within(q.size, 1024)
    <3>1. Head(q.size) \in Int /\ Head(q.size) >= 1 /\ Head(q.size) <= 1024 BY <2>2 DEF Within
    <3>2. PICK n \in Int : n = Head(q.size) BY <3>1
    <3>3. n * MB \in Int /\ n * MB >= 1 /\ n * MB <= maxBytesPerStream
      <4>1. n >= 1 /\ n <= 1024 /\ n \in Int /\ MB \in Int /\ MB >= 1 BY <3>1, <3>2, AddressAssumption
      <4>2. n * MB \in Int /\ n * MB >= 1 /\ n * MB <= 1024 * MB BY <4>1, Megabytes
      <4> QED BY <4>2 DEF maxBytesPerStream
    <3>4. totalBytes(c, q) = n * MB BY <2>2, <3>2 DEF totalBytes
    <3> HIDE DEF M, own
    <3> QED BY <1>1, <1>2, <3>3, <3>4
  <2>3. CASE ~Within(q.bytes, maxBytesPerStream) /\ ~(q.bytes = <<>> /\ Within(q.size, 1024))
    <3>1. totalBytes(c, q) = own BY <2>3 DEF totalBytes
    <3> HIDE DEF M, own
    <3> QED BY <1>1, <1>2, <3>1
  <2> QED BY <2>1, <2>2, <2>3
<1>4. /\ seconds(300) \in Int /\ \A n \in Int : 1 <= n /\ n <= 300 => seconds(n) <= seconds(300)
      /\ \A n \in Int : 1 <= n /\ n <= 300 => seconds(n) \in Int
  <2>1. ASSUME NEW n \in Int, 1 <= n, n <= 300
        PROVE  seconds(n) \in Int /\ seconds(300) \in Int /\ seconds(n) <= seconds(300)
    BY <2>1, SecondsWithin
  <2>2. seconds(300) \in Int
    <3>1. 1 \in Int /\ 1 <= 1 /\ 1 <= 300 OBVIOUS
    <3> QED BY <2>1, <3>1
  <2> QED BY <2>1, <2>2
<1>5. N \in Int /\ N >= seconds(300) /\ N >= c["Duration"]
  <2>1. PICK d \in Int : d = c["Duration"] OBVIOUS
  <2>2. PICK s \in Int : s = seconds(300) BY <1>4
  <2>3. N = Max({s, d})  BY <2>1, <2>2 DEF maxDurationSecs
  <2> HIDE DEF N
  <2>4. Max({s, d}) \in Int /\ Max({s, d}) >= s /\ Max({s, d}) >= d BY MaxOfTwo
  <2> QED BY <2>1, <2>2, <2>3, <2>4
<1>6. (IF Within(q.duration, maxDurationSecs) THEN seconds(Head(q.duration)) ELSE c["Duration"]) <= N
  <2> HIDE DEF N
  <2>1. CASE Within(q.duration, maxDurationSecs)
    <3>1. Head(q.duration) \in Int /\ 1 <= Head(q.duration) /\ Head(q.duration) <= 300
      BY <2>1 DEF Within, maxDurationSecs
    <3>2. PICK n \in Int : n = Head(q.duration) /\ 1 <= n /\ n <= 300 BY <3>1
    <3> QED BY <1>4, <1>5, <2>1, <3>2
  <2>2. CASE ~Within(q.duration, maxDurationSecs) BY <1>5, <2>2
  <2> QED BY <2>1, <2>2
<1> HIDE DEF M, N
<1>7. CASE q.bytes # <<>> \/ q.size # <<>> \/ c["Mode"] # "time"
  <2>1. DownloadHandler(c, q) = [by |-> "size", amount |-> totalBytes(c, q)]
    BY <1>7 DEF DownloadHandler
  <2> QED BY <1>3, <2>1 DEF M, own, DownloadWithin
<1>8. CASE ~(q.bytes # <<>> \/ q.size # <<>> \/ c["Mode"] # "time")
  <2> DEFINE t == IF Within(q.duration, maxDurationSecs) THEN seconds(Head(q.duration))
                  ELSE c["Duration"]
  <2>1. DownloadHandler(c, q) = [by |-> "time", amount |-> t]
    BY <1>8 DEF DownloadHandler
  <2>2. t <= N BY <1>6
  <2> HIDE DEF t
  <2> QED BY <2>1, <2>2 DEF N, DownloadWithin
<1> QED BY <1>7, <1>8

\* The page that is listed.
LEMMA PageBounded ==
    ASSUME NEW q, q.limit \in Seq(Int), q.offset \in Seq(Int)
    PROVE  listPage(q).limit \in 1 .. 100 /\ listPage(q).offset \in 0 .. maxListOffset
<1>1. parseQueryInt(q.limit, 20) \in Int /\ parseQueryInt(q.offset, 0) \in Int
  BY SMT DEF parseQueryInt
<1>2. maxListOffset \in Int /\ maxListOffset >= 0 BY SMT DEF maxListOffset
<1>3. clampInt(parseQueryInt(q.limit, 20), 1, 100) \in 1 .. 100
  <2>1. PICK n \in Int : n = parseQueryInt(q.limit, 20) BY <1>1
  <2>2. clampInt(n, 1, 100) \in 1 .. 100 BY DEF clampInt
  <2> QED BY <2>1, <2>2
<1>4. clampInt(parseQueryInt(q.offset, 0), 0, maxListOffset) \in 0 .. maxListOffset
  <2>1. PICK n \in Int : n = parseQueryInt(q.offset, 0) BY <1>1
  <2>2. clampInt(n, 0, maxListOffset) \in 0 .. maxListOffset BY <1>2 DEF clampInt
  <2> QED BY <2>1, <2>2
<1> QED BY <1>3, <1>4 DEF listPage

\* The selector: an option, and none above the number wanted if that is 1 or more.
LEMMA Selected ==
    ASSUME NEW d \in Int
    PROVE  setStreamsSelection(d) \in StreamOptions /\ (d >= 1 => setStreamsSelection(d) <= d)
<1> DEFINE U == {v \in StreamOptions : v <= d}
<1>1. setStreamsSelection(d) = IF U # {} THEN Max(U) ELSE Min(StreamOptions)
  BY DEF setStreamsSelection
<1>2. StreamOptions \subseteq Int /\ 1 \in StreamOptions /\ \A v \in StreamOptions : 1 <= v
  BY DEF StreamOptions
<1>3. CASE U # {}
  <2>1. \E x \in U : \A y \in U : x >= y BY <1>3 DEF StreamOptions
  <2> HIDE DEF U
  <2>2. Max(U) \in U BY <2>1 DEF Max
  <2> QED BY <1>1, <1>3, <2>2 DEF U
<1>4. CASE U = {}
  <2>1. \E x \in StreamOptions : \A y \in StreamOptions : x <= y BY <1>2
  <2>2. Min(StreamOptions) \in StreamOptions BY <2>1 DEF Min
  <2>3. ~(d >= 1) BY <1>2, <1>4
  <2> QED BY <1>1, <1>4, <2>2, <2>3
<1> QED BY <1>3, <1>4

\* The fallback aside, a setting of the page is an integer within its bounds.
LEMMA ClampedNum ==
    ASSUME NEW v \in Int \cup {NaN}, NEW lo \in Int, NEW hi \in Int, lo <= hi, NEW def \in Int
    PROVE  clampNum(v, lo, hi, def) = def \/ clampNum(v, lo, hi, def) \in lo .. hi
<1>1. CASE v = NaN BY <1>1 DEF clampNum
<1>2. CASE v # NaN
  <2>1. v \in Int BY <1>2
  <2> QED BY <1>2, <2>1, ClampedInt DEF clampNum
<1> QED BY <1>1, <1>2

\* The streams the page opens: one of its options, and no more than the server has
\* slots, although the fallback of mergeConfig does not know how many those are.
LEMMA StreamsBounded ==
    ASSUME NEW c, NEW cap \in 1 .. 100, NEW l, c["Streams"] \in Int,
           l.streams \in Seq(Int \cup {NaN})
    PROVE  activeCfg(c, cap, l).streams \in StreamOptions /\ activeCfg(c, cap, l).streams <= cap
<1> DEFINE most == IF cap < 32 THEN cap ELSE 32
           n == IF l.streams = <<>> THEN c["Streams"] ELSE Head(l.streams)
           m == mergeConfig(c, cap, l).streams
           k == setStreamsSelection(m)
<1>0. most \in Int /\ 1 <= most OBVIOUS
<1>1. n \in Int \cup {NaN}
  <2>1. \A s \in Seq(Int \cup {NaN}) : s # <<>> => Head(s) \in Int \cup {NaN} OBVIOUS
  <2> QED BY <2>1
<1>2. m = clampNum(n, 1, most, 4) BY DEF mergeConfig
<1>3. activeCfg(c, cap, l).streams = applyStreamsCap(cap, k) BY DEF activeCfg
<1> HIDE DEF n, most, m
<1>4. m \in Int
  <2>1. 1 \in Int /\ 4 \in Int OBVIOUS
  <2>2. clampNum(n, 1, most, 4) = 4 \/ clampNum(n, 1, most, 4) \in 1 .. most
    BY <1>0, <1>1, <2>1, ClampedNum
  <2> QED BY <1>0, <1>2, <2>2
<1>5. k \in StreamOptions BY <1>4, Selected
<1>6. setStreamsSelection(cap) \in StreamOptions /\ setStreamsSelection(cap) <= cap BY Selected
<1>7. k \in Int BY <1>5 DEF StreamOptions
<1> HIDE DEF k
<1> QED BY <1>3, <1>5, <1>6, <1>7 DEF applyStreamsCap

\* No query makes the server send, stream or list more than its limits, and the page
\* opens no more streams than the server has slots: for any numbers in the query,
\* any settings the operator typed and any the browser has stored, numbers or not
\* (handler.go, results_handler.go, app.js).
THEOREM QueriesStayBounded == Spec => []QueriesAreBounded
<1>1. Init => AnsweredInv /\ QueriesAreBounded
  <2>1. ASSUME last = NoRequest PROVE last.route = "none" BY <2>1 DEF NoRequest
  <2> QED BY <2>1 DEF Init, AnsweredInv, QueriesAreBounded
<1>2. ASSUME ServerInv, AnsweredInv, QueriesAreBounded, [Next]_vars
      PROVE  AnsweredInv' /\ QueriesAreBounded'
  <2>1. AnsweredInv' BY <1>2, NextAnswered
  <2>2. ASSUME last'.route \notin {"download", "list", "config"} PROVE QueriesAreBounded'
    BY <2>2 DEF QueriesAreBounded
  <2>3. CASE UNCHANGED <<last, live, cfg>> BY <1>2, <2>1, <2>3 DEF QueriesAreBounded
  <2>4. CASE last' = NoRequest
    <3>1. last'.route = "none" BY <2>4 DEF NoRequest
    <3> QED BY <2>1, <2>2, <3>1
  <2> SUFFICES ASSUME proc = "serving", UNCHANGED <<live, cfg>>,
                      Refuse \/ ConfigHandler \/ PostResult \/ ListResults
                        \/ ResultsExport \/ Download \/ SizeTest
               PROVE  QueriesAreBounded'
    BY <1>2, <2>1, <2>3, <2>4, NextAnswered
  <2>5. CASE Refuse \/ ResultsExport \/ SizeTest
    <3>1. last'.route \in {"refused", "export", "sizetest"} BY <2>5, AnswerOf
    <3> QED BY <2>2, <3>1
  <2>6. CASE PostResult
    <3>1. last'.route = "post" BY <2>6 DEF PostResult, Reply
    <3> QED BY <2>2, <3>1
  <2>7. CASE Download
    <3>1. PICK q \in Queries :
            last' = [route |-> "download", q |-> q, plan |-> DownloadHandler(cfg, q)]
      BY <2>7 DEF Download, Reply
    <3>2. "DownloadMB" \in Ranged /\ Lo["DownloadMB"] = 1 BY DEF Ranged, Lo
    <3>3. cfg["DownloadMB"] \in Int /\ cfg["DownloadMB"] >= 1 /\ cfg["Duration"] \in Int
      BY <1>2, <3>2, RangedLoaded, DurationLoaded
    <3>4. q.bytes \in Seq(Int) /\ q.size \in Seq(Int) /\ q.duration \in Seq(Int)
      BY RequestAssumption
    <3>5. DownloadWithin(DownloadHandler(cfg, q), cfg) BY <3>3, <3>4, DownloadBounded
    <3>6. last'.route = "download" /\ last'.plan = DownloadHandler(cfg, q) BY <3>1
    <3> QED BY <3>5, <3>6 DEF QueriesAreBounded
  <2>8. CASE ListResults
    <3> DEFINE L == {<<>>, <<0>>, <<100>>, <<101>>}
               O == {<<>>, <<-1>>, <<maxListOffset + 1>>}
    <3>0. \E l \in L, o \in O :
            Reply([route |-> "list", page |-> listPage([limit |-> l, offset |-> o])])
      BY <2>8, Zenon DEF ListResults
    <3> HIDE DEF L, O
    <3>1. PICK l \in L, o \in O :
            last' = [route |-> "list", page |-> listPage([limit |-> l, offset |-> o])]
      BY <3>0, Zenon DEF Reply
    <3> USE DEF L, O
    <3>2. l \in Seq(Int) /\ o \in Seq(Int)
      <4>1. maxListOffset \in Int BY SMT DEF maxListOffset
      <4>2. <<>> \in Seq(Int) /\ \A n \in Int : <<n>> \in Seq(Int) OBVIOUS
      <4>3. PICK k \in Int : k = maxListOffset + 1 BY <4>1
      <4>4. PICK m \in Int : m = -1 OBVIOUS
      <4>5. o = <<>> \/ o = <<m>> \/ o = <<k>> BY <4>3, <4>4
      <4>6. o \in Seq(Int)
        <5>1. <<m>> \in Seq(Int) /\ <<k>> \in Seq(Int) BY <4>2
        <5> QED BY <4>2, <4>5, <5>1, Zenon
      <4>7. l = <<>> \/ l = <<0>> \/ l = <<100>> \/ l = <<101>> OBVIOUS
      <4>8. 0 \in Int /\ 100 \in Int /\ 101 \in Int OBVIOUS
      <4>9. l \in Seq(Int)
        <5>1. <<0>> \in Seq(Int) /\ <<100>> \in Seq(Int) /\ <<101>> \in Seq(Int)
          BY <4>2, <4>8, Zenon
        <5> QED BY <4>2, <4>7, <5>1, Zenon
      <4> QED BY <4>6, <4>9
    <3> DEFINE q == [limit |-> l, offset |-> o]
    <3>3. q.limit \in Seq(Int) /\ q.offset \in Seq(Int) BY <3>2
    <3>4. last'.route = "list" /\ last'.page = listPage(q) BY <3>1
    <3> HIDE DEF q
    <3>5. listPage(q).limit \in 1 .. 100 /\ listPage(q).offset \in 0 .. maxListOffset
      BY <3>3, PageBounded
    <3> QED BY <3>4, <3>5 DEF QueriesAreBounded
  <2>9. CASE ConfigHandler
    <3>1. PICK l \in Stored : last' = [route |-> "config", on |-> live.on,
                                       ui |-> activeCfg(cfg, live.capacity, l)]
      BY <2>9 DEF ConfigHandler, Reply
    <3>2. "Streams" \in Ranged BY DEF Ranged
    <3>3. cfg["Streams"] \in Int /\ live.capacity \in 1 .. 100 /\ l.streams \in Seq(Int \cup {NaN})
      BY <1>2, <3>2, RangedLoaded, CapacityServed, RequestAssumption
    <3>4. activeCfg(cfg, live.capacity, l).streams <= live.capacity BY <3>3, StreamsBounded
    <3>5. last'.route = "config" /\ last'.ui = activeCfg(cfg, live.capacity, l) BY <3>1
    <3> QED BY <3>4, <3>5 DEF QueriesAreBounded
  <2> QED BY <2>5, <2>6, <2>7, <2>8, <2>9
<1> QED BY <1>1, <1>2, InductiveInvariant, PTL DEF Spec
-----------------------------------------------------------------------------
(* A sized test sends what was configured                                  *)

\* What division leaves.
LEMMA Division ==
    ASSUME NEW t \in Nat, NEW n \in Nat, n >= 1
    PROVE  /\ t \div n \in Nat /\ t % n \in Nat /\ t % n < n
           /\ t = n * (t \div n) + (t % n)
<1>1. t % n \in 0 .. n - 1 OBVIOUS
<1>2. t \div n \in Int OBVIOUS
<1>3. t = n * (t \div n) + (t % n) BY Z3
<1>4. t \div n >= 0 BY Z3
<1> QED BY <1>1, <1>2, <1>3, <1>4

\* The sum of what n streams send when the first r send u and the others v.
LEMMA TwoRates ==
    ASSUME NEW u \in Int, NEW v \in Int, NEW r \in Nat, NEW n \in Nat, r <= n, NEW f,
           \A i \in 0 .. n - 1 : f[i] = IF i < r THEN u ELSE v
    PROVE  SumFunctionOnSet(f, 0 .. n - 1) = r * u + (n - r) * v
<1> DEFINE least(k) == IF k < r THEN k ELSE r
           upTo(k) == least(k) * u + (k - least(k)) * v
           Bad == {k \in 0 .. n : SumFunctionOnSet(f, 0 .. k - 1) # upTo(k)}
<1>1. Bad = {}
  <2> SUFFICES ASSUME Bad # {} PROVE FALSE OBVIOUS
  <2>1. PICK k \in Bad : \A m \in Bad : k <= m
    <3>1. Bad \in SUBSET Nat OBVIOUS
    <3> HIDE DEF Bad
    <3> QED BY <3>1, LeastNatural
  <2>2. k \in Nat /\ k <= n OBVIOUS
  <2>3. k # 0
    <3>1. 0 .. 0 - 1 = {} OBVIOUS
    <3>2. upTo(0) = 0 OBVIOUS
    <3>3. SumFunctionOnSet(f, 0 .. 0 - 1) = 0 BY <3>1, SumEmpty
    <3> QED BY <3>2, <3>3
  <2> DEFINE j == k - 1
             S == 0 .. j - 1
  <2>4. j \in Nat /\ j < n /\ j + 1 = k /\ j <= n BY <2>2, <2>3
  <2>5. SumFunctionOnSet(f, S) = upTo(j)
    <3>1. j \in 0 .. n /\ ~(k <= j) BY <2>4
    <3>2. j \notin Bad BY <2>1, <3>1
    <3> HIDE DEF upTo
    <3> QED BY <3>1, <3>2
  <2>6. IsFiniteSet(S) BY <2>4, FS_Interval
  <2>7. j \notin S /\ 0 .. k - 1 = S \cup {j}
    <3>1. k - 1 = j BY <2>2
    <3> HIDE DEF j
    <3>2. 0 .. j = S \cup {j} BY <2>4
    <3>3. j \notin S BY <2>4
    <3> QED BY <3>1, <3>2, <3>3
  <2>8. \A i \in 0 .. n - 1 : f[i] \in Int OBVIOUS
  <2>9. f[j] \in Int /\ \A i \in S : f[i] \in Int BY <2>4, <2>8
  <2>10. SumFunctionOnSet(f, S \cup {j}) = SumFunctionOnSet(f, S) + f[j]
    <3> HIDE DEF S, j
    <3> QED BY <2>6, <2>7, <2>9, SumAdd
  <2>11. f[j] = IF j < r THEN u ELSE v BY <2>4
  <2>12. upTo(j) + (IF j < r THEN u ELSE v) = upTo(k)
    <3>1. \A x, y \in Int : (x + 1) * y = x * y + y BY Z3
    <3>2. \A x, y \in Int : x * y \in Int OBVIOUS
    <3> HIDE DEF j
    <3>3. CASE j < r
      <4>1. least(j) = j /\ least(k) = j + 1 /\ j - least(j) = 0 /\ k - least(k) = 0
        BY <2>4, <3>3
      <4>2. (j + 1) * u = j * u + u BY <2>4, <3>1
      <4> HIDE DEF least
      <4> QED BY <2>4, <3>2, <3>3, <4>1, <4>2
    <3>4. CASE ~(j < r)
      <4>1. least(j) = r /\ least(k) = r /\ j - r \in Int /\ k - r = (j - r) + 1
        BY <2>4, <3>4
      <4>2. ((j - r) + 1) * v = (j - r) * v + v BY <3>1, <4>1
      <4>3. r * u \in Int /\ (j - r) * v \in Int BY <3>2, <4>1
      <4>4. upTo(j) = r * u + (j - r) * v /\ upTo(k) = r * u + (k - r) * v BY <4>1
      <4>5. (k - r) * v = (j - r) * v + v BY <4>1, <4>2
      <4> HIDE DEF least, upTo
      <4>6. PICK x \in Int, y \in Int : x = r * u /\ y = (j - r) * v BY <4>3
      <4>7. upTo(j) = x + y /\ upTo(k) = x + (y + v) BY <4>4, <4>5, <4>6
      <4>8. (x + y) + v = x + (y + v) OBVIOUS
      <4>9. upTo(j) + v = upTo(k) BY <4>7, <4>8
      <4> QED BY <3>4, <4>9
    <3> QED BY <3>3, <3>4
  <2>13. SumFunctionOnSet(f, 0 .. k - 1) = upTo(k)
    <3> HIDE DEF upTo
    <3> QED BY <2>5, <2>7, <2>10, <2>11, <2>12
  <2> QED BY <2>13
<1>2. n \in 0 .. n /\ least(n) = r OBVIOUS
<1> HIDE DEF least
<1> QED BY <1>1, <1>2

\* What the page asks for: one of its options of streams, at least a megabyte.
LEMMA PageAsks ==
    ASSUME NEW c, NEW cap \in 1 .. 100, NEW l, c["Streams"] \in Int, c["DownloadMB"] \in Int,
           l.streams \in Seq(Int \cup {NaN}), l.download \in Seq(Int \cup {NaN})
    PROVE  /\ activeCfg(c, cap, l).streams \in 1 .. 16
           /\ activeCfg(c, cap, l).download \in Nat /\ activeCfg(c, cap, l).download >= MB
<1> DEFINE served == c["DownloadMB"] * MB
           m == IF l.download = <<>> THEN served ELSE Head(l.download)
           top == 10240 * MB
           own == 25 * MB
           ui == activeCfg(c, cap, l)
<1>1. activeCfg(c, cap, l).streams \in StreamOptions BY StreamsBounded
<1>2. MB \in Int /\ 32 <= MB BY AddressAssumption
<1>3. served \in Int
  <2>1. PICK d \in Int : d = c["DownloadMB"] OBVIOUS
  <2>2. d * MB \in Int BY <1>2
  <2> QED BY <2>1, <2>2
<1>4. top \in Int /\ MB <= top /\ own \in Int /\ MB <= own BY <1>2
<1> HIDE DEF served
<1>5. m \in Int \cup {NaN} BY <1>3
<1>6. activeCfg(c, cap, l).download = clampNum(m, MB, top, own)
  BY DEF activeCfg, mergeConfig, served
<1> HIDE DEF m, top, own
<1>7. clampNum(m, MB, top, own) = own \/ clampNum(m, MB, top, own) \in MB .. top
  BY <1>2, <1>4, <1>5, ClampedNum
<1>8. activeCfg(c, cap, l).streams \in 1 .. 16 BY <1>1 DEF StreamOptions
<1> QED BY <1>2, <1>4, <1>6, <1>7, <1>8

\* DownloadHandler sends a share within the limit of a stream, and the configured
\* download instead of any other.
LEMMA ShareSent ==
    ASSUME NEW s \in Int, 1 <= s,
           NEW q, q.bytes = <<s>>, q.size = <<>>
    PROVE  DownloadHandler(cfg, q).amount =
             IF s <= maxBytesPerStream THEN s ELSE cfg["DownloadMB"] * MB
<1>1. q.bytes # <<>> /\ Head(q.bytes) = s OBVIOUS
<1>2. DownloadHandler(cfg, q).amount = totalBytes(cfg, q) BY <1>1 DEF DownloadHandler
<1>3. Within(q.bytes, maxBytesPerStream) <=> s <= maxBytesPerStream BY <1>1 DEF Within
<1> QED BY <1>1, <1>2, <1>3 DEF totalBytes

\* The streams of a sized test, together.
LEMMA SizeTestAddsUp ==
    ASSUME NEW ui, ui.streams \in 1 .. 16, ui.download \in Nat, ui.download >= MB,
           cfg["DownloadMB"] \in Int
    PROVE  measureDownload(ui).sent =
             SizeTestSends(ui.streams, ui.download, cfg["DownloadMB"] * MB)
<1> DEFINE t == ui.download
           n == ui.streams
           b == t \div n
           r == t % n
           C == cfg["DownloadMB"] * MB
           L == maxBytesPerStream
           given(s) == IF s <= L THEN s ELSE C
           ask(i) == [bytes |-> <<streamBytes(ui, i)>>, size |-> <<>>, duration |-> <<>>]
           f == [i \in 0 .. n - 1 |-> DownloadHandler(cfg, ask(i)).amount]
<1>1. n \in Nat /\ 1 <= n /\ n <= 16 OBVIOUS
<1>2. t \in Nat /\ 32 <= t BY AddressAssumption
<1>3. measureDownload(ui).sent = SumFunction(f) BY DEF measureDownload
<1>4. \A i : streamBytes(ui, i) = b + (IF i < r THEN 1 ELSE 0) BY DEF streamBytes
<1>5. C \in Int /\ L \in Int
  <2>1. PICK d \in Int : d = cfg["DownloadMB"] OBVIOUS
  <2>2. MB \in Int /\ d * MB \in Int BY AddressAssumption
  <2> QED BY <2>1, <2>2 DEF maxBytesPerStream
<1>6. SizeTestSends(n, t, C) =
        LET over == IF b > L THEN n ELSE IF b = L THEN r ELSE 0
        IN  IF over = 0 THEN t ELSE over * C + (n - over) * b
  BY DEF SizeTestSends
<1> SUFFICES SumFunction(f) = SizeTestSends(n, t, C) BY <1>3
<1> HIDE DEF t, n, C, L
<1>7. b \in Nat /\ r \in Nat /\ r < n /\ t = n * b + r BY <1>1, <1>2, Division
<1> HIDE DEF b, r
<1>8. b >= 1
  <2> SUFFICES ASSUME b = 0 PROVE FALSE BY <1>7
  <2>1. n * b = 0 BY <1>1
  <2> QED BY <1>1, <1>2, <1>7, <2>1
<1>9. ASSUME NEW i \in 0 .. n - 1 PROVE f[i] = IF i < r THEN given(b + 1) ELSE given(b)
  <2> DEFINE s == streamBytes(ui, i)
             q == ask(i)
  <2>1. s = b + (IF i < r THEN 1 ELSE 0) BY <1>4
  <2>2. s \in Int /\ 1 <= s
    <3> HIDE DEF s
    <3> QED BY <1>7, <1>8, <2>1
  <2>3. q.bytes = <<s>> /\ q.size = <<>> OBVIOUS
  <2>4. f[i] = DownloadHandler(cfg, q).amount OBVIOUS
  <2> HIDE DEF q, s, f
  <2>5. f[i] = given(s) BY <2>2, <2>3, <2>4, ShareSent DEF C, L
  <2>6. CASE i < r
    <3>1. s = b + 1 BY <1>7, <2>1, <2>6
    <3> QED BY <2>5, <2>6, <3>1
  <2>7. CASE ~(i < r)
    <3>1. s = b BY <1>7, <2>1, <2>7
    <3> QED BY <2>5, <2>7, <3>1
  <2> QED BY <2>6, <2>7
<1>10. SumFunction(f) = SumFunctionOnSet(f, 0 .. n - 1) BY DEF SumFunction
<1> HIDE DEF f
<1>11. given(b + 1) \in Int /\ given(b) \in Int BY <1>5, <1>7
<1>12. SumFunction(f) = r * given(b + 1) + (n - r) * given(b)
  <2> DEFINE x == given(b + 1)
             y == given(b)
  <2>1. \A i \in 0 .. n - 1 : f[i] = IF i < r THEN x ELSE y BY <1>9, Zenon
  <2>2. x \in Int /\ y \in Int /\ n \in Nat /\ r \in Nat /\ r <= n BY <1>1, <1>7, <1>11
  <2> HIDE DEF x, y
  <2>3. SumFunctionOnSet(f, 0 .. n - 1) = r * x + (n - r) * y BY ONLY <2>1, <2>2, TwoRates
  <2> QED BY <1>10, <2>3 DEF x, y
<1>13. CASE b > L
  <2>1. given(b + 1) = C /\ given(b) = C BY <1>5, <1>7, <1>13
  <2>2. r * C + (n - r) * C = n * C /\ n * C + (n - n) * b = n * C
    <3>1. \A x, y, z \in Int : x * z + (y - x) * z = y * z BY Z3
    <3>2. n * C \in Int /\ n - n = 0 /\ 0 * b = 0 BY <1>1, <1>5, <1>7
    <3> QED BY <1>1, <1>5, <1>7, <3>1, <3>2
  <2>3. SizeTestSends(n, t, C) = n * C + (n - n) * b
    <3>1. n # 0 BY <1>1
    <3> QED BY <1>6, <1>13, <3>1
  <2> HIDE DEF given
  <2> QED BY <1>12, <2>1, <2>2, <2>3
<1>14. ASSUME b <= L, b < L \/ r = 0 PROVE SumFunction(f) = SizeTestSends(n, t, C)
  <2>1. given(b) = b BY <1>14
  <2>2. r * given(b + 1) = r * (b + 1)
    <3>1. CASE r = 0
      <4>1. \A x \in Int : 0 * x = 0 OBVIOUS
      <4>2. b + 1 \in Int BY <1>7
      <4> HIDE DEF given
      <4> QED BY <1>11, <3>1, <4>1, <4>2
    <3>2. CASE b < L
      <4>1. given(b + 1) = b + 1 BY <1>5, <1>7, <3>2
      <4> QED BY <4>1
    <3> QED BY <1>14, <3>1, <3>2
  <2>3. r * (b + 1) + (n - r) * b = n * b + r
    <3>1. \A x, y, z \in Int : x * (z + 1) + (y - x) * z = y * z + x BY Z3
    <3> QED BY <1>1, <1>7, <3>1
  <2>4. SizeTestSends(n, t, C) = t BY <1>5, <1>6, <1>7, <1>14
  <2> HIDE DEF given
  <2> QED BY <1>7, <1>12, <2>1, <2>2, <2>3, <2>4
<1>15. CASE b = L /\ r # 0
  <2>1. given(b + 1) = C /\ given(b) = b BY <1>5, <1>7, <1>15
  <2>2. SizeTestSends(n, t, C) = r * C + (n - r) * b BY <1>5, <1>6, <1>7, <1>15
  <2> HIDE DEF given
  <2> QED BY <1>12, <2>1, <2>2
<1> QED BY <1>5, <1>7, <1>13, <1>14, <1>15

\* No query is answered without a limit, and a sized test sends exactly what was
\* configured as long as its shares are within the limit of a stream, and a known
\* multiple above it: for any settings, any number of streams and any size of a
\* megabyte that leaves every stream a byte (handler.go 389-402, app.js 635-669).
THEOREM AnswersStayBounded == Spec => []AnswersAreBounded
<1> DEFINE Exact == last.route = "sizetest" =>
              last.sent = SizeTestSends(last.ui.streams, last.ui.download, cfg["DownloadMB"] * MB)
<1>1. Init => AnsweredInv /\ Exact
  <2>1. ASSUME last = NoRequest PROVE last.route = "none" BY <2>1 DEF NoRequest
  <2> QED BY <2>1 DEF Init, AnsweredInv
<1>2. ASSUME ServerInv, AnsweredInv, Exact, [Next]_vars PROVE AnsweredInv' /\ Exact'
  <2>1. AnsweredInv' BY <1>2, NextAnswered
  <2>2. ASSUME last'.route # "sizetest" PROVE Exact' BY <2>2
  <2>3. CASE UNCHANGED <<last, live, cfg>> BY <1>2, <2>1, <2>3
  <2>4. CASE last' = NoRequest
    <3>1. last'.route = "none" BY <2>4 DEF NoRequest
    <3> QED BY <2>1, <2>2, <3>1
  <2> SUFFICES ASSUME proc = "serving", UNCHANGED <<live, cfg>>,
                      Refuse \/ ConfigHandler \/ PostResult \/ ListResults
                        \/ ResultsExport \/ Download \/ SizeTest
               PROVE  Exact'
    BY <1>2, <2>1, <2>3, <2>4, NextAnswered
  <2>5. CASE Refuse \/ ConfigHandler \/ ListResults \/ ResultsExport \/ Download
    <3>1. last'.route \in {"refused", "config", "list", "export", "download"}
      BY <2>5, AnswerOf
    <3> QED BY <2>2, <3>1
  <2>6. CASE PostResult
    <3>1. last'.route = "post" BY <2>6 DEF PostResult, Reply
    <3> QED BY <2>2, <3>1
  <2>7. CASE SizeTest
    <3>1. PICK l \in Stored : last' = measureDownload(activeCfg(cfg, live.capacity, l))
      BY <2>7 DEF SizeTest, Reply
    <3> DEFINE ui == activeCfg(cfg, live.capacity, l)
    <3>2. "Streams" \in Ranged /\ "DownloadMB" \in Ranged BY DEF Ranged
    <3>3. /\ cfg["Streams"] \in Int /\ cfg["DownloadMB"] \in Int /\ live.capacity \in 1 .. 100
          /\ l.streams \in Seq(Int \cup {NaN}) /\ l.download \in Seq(Int \cup {NaN})
      BY <1>2, <3>2, RangedLoaded, CapacityServed, RequestAssumption
    <3>4. ui.streams \in 1 .. 16 /\ ui.download \in Nat /\ ui.download >= MB
      BY <3>3, PageAsks
    <3>5. last' = measureDownload(ui) /\ cfg' = cfg BY <3>1
    <3> HIDE DEF ui
    <3>6. measureDownload(ui).ui = ui BY DEF measureDownload
    <3>7. measureDownload(ui).sent = SizeTestSends(ui.streams, ui.download, cfg["DownloadMB"] * MB)
      BY <3>3, <3>4, SizeTestAddsUp
    <3> QED BY <3>5, <3>6, <3>7
  <2> QED BY <2>5, <2>6, <2>7
<1>3. QueriesAreBounded /\ Exact => AnswersAreBounded BY DEF AnswersAreBounded
<1> HIDE DEF Exact
<1> QED BY <1>1, <1>2, <1>3, InductiveInvariant, QueriesStayBounded, PTL DEF Spec
=============================================================================
