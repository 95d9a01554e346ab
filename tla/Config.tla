------------------------------- MODULE Config -------------------------------
(***************************************************************************)
(* The settings of the server.  LoadWithSources lays three layers over     *)
(* the compiled-in defaults: the JSON file, the environment, the flags.    *)
(* A layer is a function from the fields that are set there to what is set.*)
(*                                                                         *)
(* Numbers arrive parsed.  In the environment a number that strconv.Atoi   *)
(* refuses counts as not set, as the code treats it; in the file and in    *)
(* the flags it spoils the whole layer, which FileError and the state      *)
(* "bad" of the flags stand for.  Durations are int64 nanoseconds, scaled  *)
(* down: Second units to a second, IntMax the largest value.               *)
(***************************************************************************)
EXTENDS Integers

CONSTANTS
    Second,     \* time.Second
    IntMax,     \* math.MaxInt64
    Numerals    \* the strings that strconv.Atoi accepts

ASSUME DurationAssumption ==
    /\ Second \in Nat \ {0} /\ IntMax \in Nat
    /\ 360 * Second <= IntMax

ASSUME NumeralAssumption == "8080" \in Numerals /\ "" \notin Numerals

Ranged == {"DownloadMB", "UploadMB", "Streams", "MaxConcurrent", "WarmupMs",
           "HistoryRetentionDays", "RatePerMin"}
Strings == {"Host", "Port", "Mode", "DBPath", "GeoIPDBPath", "GeoIPLicenseKey",
            "GeoIPEdition"}
Fields == Ranged \cup Strings \cup {"Duration"}

\* The flags: every field but one.
FlagFields == Fields \ {"HistoryRetentionDays"}

Lo == [f \in Ranged |->
         IF f \in {"WarmupMs", "HistoryRetentionDays", "RatePerMin"} THEN 0 ELSE 1]
Hi == [DownloadMB |-> 10240, UploadMB |-> 10240, Streams |-> 32, MaxConcurrent |-> 100,
       WarmupMs |-> 10000, HistoryRetentionDays |-> 3650, RatePerMin |-> 100000]

\* int64 arithmetic wraps around.
int64(n) == ((n + IntMax + 1) % (2 * (IntMax + 1))) - (IntMax + 1)
seconds(n) == int64(n * Second)

defaults ==
    [Host |-> "::", Port |-> "8080", Mode |-> "time", Duration |-> seconds(15),
     DownloadMB |-> 25, UploadMB |-> 10, Streams |-> 4, MaxConcurrent |-> 10,
     WarmupMs |-> 500, DBPath |-> "./speedtest.db", HistoryRetentionDays |-> 90,
     RatePerMin |-> 0, GeoIPDBPath |-> "", GeoIPLicenseKey |-> "",
     GeoIPEdition |-> "GeoLite2-City"]

-----------------------------------------------------------------------------
clamp(n, min, max, fallback) == IF n < min \/ n > max THEN fallback ELSE n

(* The three overlays, each with its own copy of the ranges and of the     *)
(* tests of a field, as in the code.                                       *)

jsonRange ==
    [DownloadMB |-> <<1, 10240>>, UploadMB |-> <<1, 10240>>, Streams |-> <<1, 32>>,
     MaxConcurrent |-> <<1, 100>>, WarmupMs |-> <<0, 10000>>,
     HistoryRetentionDays |-> <<0, 3650>>, RatePerMin |-> <<0, 100000>>]

\* What a field holds after v of the file was laid over old.
jsonField(f, v, old) ==
    CASE f \in DOMAIN jsonRange -> clamp(v, jsonRange[f][1], jsonRange[f][2], old)
      [] f = "Duration" -> IF v >= 1 THEN seconds(v) ELSE old
      [] f = "Port" -> IF v \in Numerals THEN v ELSE old
      [] f = "Mode" -> IF v \in {"size", "time"} THEN v ELSE old
      [] f = "GeoIPEdition" -> IF v # "" THEN v ELSE old
      [] f \in {"Host", "DBPath", "GeoIPDBPath", "GeoIPLicenseKey"} -> v

applyJSON(cfg, fc) ==
    [f \in Fields |-> IF f \in DOMAIN fc THEN jsonField(f, fc[f], cfg[f]) ELSE cfg[f]]

envRange ==
    [DownloadMB |-> <<1, 10240>>, UploadMB |-> <<1, 10240>>, Streams |-> <<1, 32>>,
     MaxConcurrent |-> <<1, 100>>, WarmupMs |-> <<0, 10000>>,
     HistoryRetentionDays |-> <<0, 3650>>, RatePerMin |-> <<0, 100000>>]

\* The environment cannot set a field to the empty string.
envField(f, v, old) ==
    CASE f \in DOMAIN envRange -> clamp(v, envRange[f][1], envRange[f][2], old)
      [] f = "Duration" -> IF v >= 1 THEN seconds(v) ELSE old
      [] f = "Port" -> IF v # "" /\ v \in Numerals THEN v ELSE old
      [] f = "Mode" -> IF v # "" /\ v \in {"size", "time"} THEN v ELSE old
      [] f \in Strings \ {"Port", "Mode"} -> IF v # "" THEN v ELSE old

overlayEnv(cfg, env) ==
    [f \in Fields |-> IF f \in DOMAIN env THEN envField(f, env[f], cfg[f]) ELSE cfg[f]]

\* Mutant: one bound of one copy.  --rate-per-min 0, which turns the limiter off,
\* counts as out of range.
cliRangeNoZero ==
    [DownloadMB |-> <<1, 10240>>, UploadMB |-> <<1, 10240>>, Streams |-> <<1, 32>>,
     MaxConcurrent |-> <<1, 100>>, WarmupMs |-> <<0, 10000>>, RatePerMin |-> <<1, 100000>>]

cliRange ==
    [DownloadMB |-> <<1, 10240>>, UploadMB |-> <<1, 10240>>, Streams |-> <<1, 32>>,
     MaxConcurrent |-> <<1, 100>>, WarmupMs |-> <<0, 10000>>, RatePerMin |-> <<0, 100000>>]

\* A flag can set a path or the key to the empty string, which turns a feature off.
cliField(f, v, old) ==
    CASE f \in DOMAIN cliRange -> clamp(v, cliRange[f][1], cliRange[f][2], old)
      [] f = "Duration" -> IF v >= 1 THEN seconds(v) ELSE old
      [] f = "Port" -> IF v \in Numerals THEN v ELSE old
      [] f = "Mode" -> IF v \in {"size", "time"} THEN v ELSE old
      [] f = "GeoIPEdition" -> IF v # "" THEN v ELSE old
      [] f \in {"Host", "DBPath", "GeoIPDBPath", "GeoIPLicenseKey"} -> v

applyCLI(cfg, cli) ==
    [f \in Fields |-> IF f \in DOMAIN cli \cap FlagFields
                        THEN cliField(f, cli[f], cfg[f]) ELSE cfg[f]]

-----------------------------------------------------------------------------
(* Which file is read, and loading                                         *)

\* disk[p] is what is found at a place: no file, one that is no JSON or has an
\* unknown field, an empty object, or the object with the file's settings.
Places == {"flag", "env", "cwd", "xdg", "etc"}
Contents == {"missing", "bad", "empty", "full"}

\* named: the explicit paths given, by --config or SPEEDTEST_CONFIG.  The
\* search takes the first place that has a file.
configPath(named, disk) ==
    CASE "flag" \in named -> "flag"
      [] "flag" \notin named /\ "env" \in named -> "env"
      [] OTHER -> IF disk["cwd"] # "missing" THEN "cwd"
                  ELSE IF disk["xdg"] # "missing" THEN "xdg"
                  ELSE IF disk["etc"] # "missing" THEN "etc" ELSE "none"

\* readJSONFile fails: an explicit path without a file, or a file it refuses.
FileError(path, disk) == path # "none" /\ disk[path] \in {"missing", "bad"}

readJSONFile(path, disk, settings) ==
    IF path # "none" /\ disk[path] = "full" THEN settings ELSE [f \in {} |-> ""]

LoadWithSources(file, env, cli) ==
    applyCLI(overlayEnv(applyJSON(defaults, file), env), cli)

-----------------------------------------------------------------------------
(* Load, the loader for the environment alone that older callers use       *)

envInt(f, env) ==
    IF f \notin DOMAIN env THEN defaults[f]
    ELSE IF env[f] < Lo[f] THEN defaults[f]
    ELSE IF env[f] > Hi[f] THEN Hi[f] ELSE env[f]

envDuration(env) ==
    IF "Duration" \notin DOMAIN env THEN defaults["Duration"]
    ELSE IF env["Duration"] < 1 THEN defaults["Duration"] ELSE seconds(env["Duration"])

\* envStr, envPort and envMode ignore an empty variable, envStrAllowEmpty does not.
envString(f, env) ==
    IF \/ f \notin DOMAIN env
       \/ f = "Port" /\ env[f] \notin Numerals
       \/ f = "Mode" /\ env[f] \notin {"size", "time"}
       \/ f \in {"Host", "GeoIPEdition"} /\ env[f] = ""
      THEN defaults[f] ELSE env[f]

Load(env) ==
    [f \in Fields |-> IF f \in Ranged THEN envInt(f, env)
                      ELSE IF f = "Duration" THEN envDuration(env) ELSE envString(f, env)]

-----------------------------------------------------------------------------
(* The reference the loaders are compared with                             *)

Acceptable(f, v) ==
    /\ f \in Ranged => Lo[f] <= v /\ v <= Hi[f]
    /\ f = "Duration" => v >= 1
    /\ f = "Port" => v \in Numerals
    /\ f = "Mode" => v \in {"size", "time"}
    /\ f = "GeoIPEdition" => v # ""

Provides(layer, f) == f \in DOMAIN layer /\ Acceptable(f, layer[f])

\* The environment does not provide an empty string.
EnvProvides(env, f) == Provides(env, f) /\ (f \in Strings => env[f] # "")

Value(f, v) == IF f = "Duration" THEN seconds(v) ELSE v

\* The highest layer that provides a field decides it.
Resolved(file, env, cli) ==
    [f \in Fields |-> IF f \in FlagFields /\ Provides(cli, f) THEN Value(f, cli[f])
                      ELSE IF EnvProvides(env, f) THEN Value(f, env[f])
                      ELSE IF Provides(file, f) THEN Value(f, file[f])
                      ELSE defaults[f]]

\* Where the two loaders agree: nothing above its range, no path set empty.
LegacySafe(env) ==
    \A f \in DOMAIN env :
        /\ f \in Ranged => env[f] <= Hi[f]
        /\ f \in {"DBPath", "GeoIPDBPath", "GeoIPLicenseKey"} => env[f] # ""
=============================================================================
