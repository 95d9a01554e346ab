------------------------------- MODULE Server -------------------------------
(***************************************************************************)
(* The server from the operator's settings to the answers that depend on   *)
(* them: the operator edits file, environment and flags, main() loads and  *)
(* checks them, opens what they ask for and serves.  One request is served *)
(* per start, for requests meet only in the state the modules SpeedTest,   *)
(* RateLimiter, GeoIP and ResultStore are about.                           *)
(***************************************************************************)
EXTENDS Requests, TLC

CONSTANTS
    Groups,         \* sets of fields that are edited together
    Tries,          \* field -> the values the operator tries
    Listenable,     \* the ports net.Listen accepts
    MaxEdits,       \* bound on the settings made before the start
    RequestEdits,   \* bound on the settings of a server that gets requests
    Posts, Bodies, Queries,   \* requests, result bodies and download queries
    Stored          \* the settings users have stored in their browsers

ASSUME ServerAssumption ==
    /\ Listenable \subseteq Numerals /\ MaxEdits \in Nat /\ RequestEdits \in Nat
    /\ \A G \in Groups : G \subseteq Fields
    /\ \A f \in Ranged \cup {"Duration"} : Tries[f] \subseteq Int

\* Headers are lists of strings and any bytes, the JSON decoder produces texts of
\* whole characters and numbers that have been parsed, and what a browser has
\* stored is a number of bytes and of streams, or nothing that is a number.
ASSUME RequestAssumption ==
    /\ \A r \in Posts : r.xff \in Seq(STRING) /\ r.ua \in Seq(Byte)
    /\ \A in \in Bodies : /\ in.settings \in Seq(Byte) /\ WholeCharacters(in.settings)
                         /\ in.mbps \in Int /\ in.ms \in Int /\ in.loss \in Int
    /\ \A q \in Queries : q.bytes \in Seq(Int) /\ q.size \in Seq(Int) /\ q.duration \in Seq(Int)
    /\ \A l \in Stored : l.download \in Seq(Int \cup {NaN}) /\ l.streams \in Seq(Int \cup {NaN})

VARIABLES
    focus,          \* the group the operator is editing
    file, env, cli, \* the three layers
    args,           \* the command line: "ok", "bad", "help", "version"
    named,          \* the explicit configuration paths
    disk,           \* the files at the places of a configuration
    proc,           \* main(): "down", "loaded", "serving", "exited"
    code,           \* its exit status
    cfg,
    live,           \* what the server runs with
    last            \* the last request and what became of it

settings == <<focus, file, env, cli, args, named, disk>>
vars == <<focus, file, env, cli, args, named, disk, proc, code, cfg, live, last>>

Nothing == [f \in {} |-> ""]
With(layer, f, v) == [g \in DOMAIN layer \cup {f} |-> IF g = f THEN v ELSE layer[g]]
NotServing == [on |-> {}, capacity |-> 0, idle |-> 0, target |-> ""]
NoRequest == [route |-> "none"]

Init ==
    /\ focus \in Groups
    /\ file = Nothing /\ env = Nothing /\ cli = Nothing
    /\ args = "ok" /\ named = {} /\ disk = [p \in Places |-> "missing"]
    /\ proc = "down" /\ code = 0 /\ cfg = defaults
    /\ live = NotServing /\ last = NoRequest

-----------------------------------------------------------------------------
(* The operator                                                            *)

Edits == Cardinality(DOMAIN file) + Cardinality(DOMAIN env) + Cardinality(DOMAIN cli)
            + Cardinality(named) + Cardinality({p \in Places : disk[p] # "missing"})

MayEdit == proc = "down" /\ args = "ok" /\ Edits < MaxEdits

Set ==
    /\ MayEdit
    /\ \E f \in focus : \E v \in Tries[f] :
         \/ f \notin DOMAIN file /\ file' = With(file, f, v) /\ UNCHANGED <<env, cli>>
         \/ f \notin DOMAIN env /\ env' = With(env, f, v) /\ UNCHANGED <<file, cli>>
         \/ f \in FlagFields \ DOMAIN cli /\ cli' = With(cli, f, v) /\ UNCHANGED <<file, env>>
    /\ UNCHANGED <<focus, args, named, disk, proc, code, cfg, live, last>>

Place ==
    /\ MayEdit
    /\ \/ \E p \in {"flag", "env"} \ named : named' = named \cup {p} /\ UNCHANGED disk
       \/ /\ \E p \in Places : \E c \in Contents \ {"missing"} :
               disk[p] = "missing" /\ disk' = [disk EXCEPT ![p] = c]
          /\ UNCHANGED named
    /\ UNCHANGED <<focus, file, env, cli, args, proc, code, cfg, live, last>>

\* An unknown flag or a malformed number, --help, --version.
Argue ==
    /\ MayEdit /\ args' \in {"bad", "help", "version"}
    /\ UNCHANGED <<focus, file, env, cli, named, disk, proc, code, cfg, live, last>>

-----------------------------------------------------------------------------
(* main(): load, open, listen                                              *)

Path == configPath(named, disk)
FileSettings == readJSONFile(Path, disk, file)

exit(status) == proc' = "exited" /\ code' = status /\ UNCHANGED cfg

\* A file that cannot be read is reported even to someone who asks for --version.
Configure ==
    /\ proc = "down"
    /\ \/ args = "bad" /\ exit(2)
       \/ args = "help" /\ exit(0)
       \/ args \in {"ok", "version"} /\ FileError(Path, disk) /\ exit(2)
       \/ args = "version" /\ ~FileError(Path, disk) /\ exit(0)
       \/ /\ args = "ok" /\ ~FileError(Path, disk)
          /\ cfg' = LoadWithSources(FileSettings, env, cli)
          /\ proc' = "loaded" /\ UNCHANGED code
    /\ UNCHANGED <<settings, live, last>>

\* Mutant: the keep-alive timeout does not depend on the length of a test.
idleTimeoutFlat(d) == 120 * Second

idleTimeout(d) ==
    LET max == 300 * Second IN int64((IF d < max THEN max ELSE d) + 60 * Second)

newCapacity(maxConcurrent) == IF maxConcurrent <= 0 THEN 10 ELSE maxConcurrent

\* Features are optional: a store or a database that cannot be opened is left
\* out.  The updater writes beside the binary when no path is configured.
features(opened) ==
    (IF cfg["DBPath"] # "" /\ "store" \in opened THEN {"history"} ELSE {})
      \cup (IF cfg["GeoIPDBPath"] # "" /\ "mmdb" \in opened THEN {"geoip"} ELSE {})
      \cup (IF cfg["GeoIPLicenseKey"] # "" /\ cfg["GeoIPEdition"] # "" THEN {"updater"} ELSE {})
      \cup (IF cfg["RatePerMin"] > 0 THEN {"limiter"} ELSE {})

newServerWithStore(opened) ==
    [on |-> features(opened), capacity |-> newCapacity(cfg["MaxConcurrent"]),
     idle |-> idleTimeout(cfg["Duration"]),
     target |-> IF cfg["GeoIPDBPath"] = "" THEN cfg["GeoIPEdition"] ELSE cfg["GeoIPDBPath"]]

\* ListenAndServe fails on a port out of range and on one that is in use.
Serve ==
    /\ proc = "loaded"
    /\ \E opened \in SUBSET {"store", "mmdb"} : live' = newServerWithStore(opened)
    /\ \/ cfg["Port"] \in Listenable /\ proc' = "serving" /\ UNCHANGED <<code, cfg>>
       \/ exit(1)
    /\ UNCHANGED <<settings, last>>

-----------------------------------------------------------------------------
(* Requests.  last holds what a property needs of the request, its status  *)
(* and what it stored, listed or was sent.                                 *)

Quiet == proc = "serving" /\ last = NoRequest /\ Edits <= RequestEdits

Reply(answer) == last' = answer /\ UNCHANGED <<settings, proc, code, cfg, live>>

allowed(route) ==
    CASE route = "results" -> {"GET", "POST"} [] route = "upload" -> {"POST"} [] OTHER -> {"GET"}

\* Each handler's early returns, in its order: the export looks for the store
\* before the method, the others after it.
status(route, method) ==
    CASE route = "export" /\ "history" \notin live.on -> 503
      [] route # "export" /\ method \notin allowed(route) -> 405
      [] route = "export" /\ "history" \in live.on /\ method # "GET" -> 405
      [] route = "results" /\ method \in allowed(route) /\ "history" \notin live.on -> 503
      [] OTHER -> 200

Refuse ==
    /\ Quiet
    /\ \E route \in {"config", "ip", "ping", "download", "upload", "healthz", "metrics",
                     "results", "export"}, method \in {"GET", "POST", "OTHER"} :
         /\ status(route, method) # 200
         /\ Reply([route |-> "refused", what |-> route, status |-> status(route, method)])

\* The switches of /api/config, and what the page makes of it.
ConfigHandler ==
    /\ Quiet
    /\ \E localCfg \in Stored :
         Reply([route |-> "config", on |-> live.on,
                ui |-> activeCfg(cfg, live.capacity, localCfg)])

PostResult ==
    /\ Quiet /\ status("results", "POST") = 200
    /\ \E r \in Posts, in \in Bodies :
         Reply([route |-> "post", req |-> r, row |-> createResult(in, r, "geoip" \in live.on)])

ListResults ==
    /\ Quiet /\ status("results", "GET") = 200
    /\ \E l \in {<<>>, <<0>>, <<100>>, <<101>>}, o \in {<<>>, <<-1>>, <<maxListOffset + 1>>} :
         Reply([route |-> "list", page |-> listPage([limit |-> l, offset |-> o])])

\* The whole table up to a limit, as JSON unless asked otherwise; another format
\* is refused.
ResultsExport ==
    /\ Quiet /\ status("export", "GET") = 200
    /\ \/ Reply([route |-> "export", page |-> exportPage])
       \/ Reply([route |-> "refused", what |-> "export", status |-> 400])

Download ==
    /\ Quiet
    /\ \E q \in Queries : Reply([route |-> "download", q |-> q, plan |-> DownloadHandler(cfg, q)])

\* The page's sized test: one download per stream, each with its share.
measureDownload(ui) ==
    LET ask(i) == [bytes |-> <<streamBytes(ui, i)>>, size |-> <<>>, duration |-> <<>>]
    IN  [route |-> "sizetest", ui |-> ui,
         sent |-> SumFunction([i \in 0 .. ui.streams - 1 |-> DownloadHandler(cfg, ask(i)).amount])]

SizeTest ==
    /\ Quiet
    /\ \E localCfg \in Stored :
         Reply(measureDownload(activeCfg(cfg, live.capacity, localCfg)))

Next ==
    \/ Set \/ Place \/ Argue \/ Configure \/ Serve
    \/ Refuse \/ ConfigHandler \/ PostResult \/ ListResults \/ ResultsExport
    \/ Download \/ SizeTest

Spec == Init /\ [][Next]_vars

-----------------------------------------------------------------------------
\* Every field of the running server comes from the highest of flags,
\* environment, file and defaults that holds an acceptable value for it,
\* whatever unacceptable values the layers above hold: the four copies of the
\* ranges and tests agree, field by field (config.go 133-181, and 531-536 on
\* values out of range, where docs/configuration.md 390 has them clamped).
\* Load, for the environment alone, agrees wherever no value is above its range,
\* which it does clamp, and no path is set to the empty string.
HighestValidLayerWins ==
    /\ proc \in {"loaded", "serving"} => cfg = Resolved(FileSettings, env, cli)
    /\ LegacySafe(env) => Load(env) = LoadWithSources(Nothing, env, Nothing)

TooLong(layer) == "Duration" \in DOMAIN layer /\ layer["Duration"] > IntMax \div Second

Asked(f) == \E layer \in {file, env, cli} : f \in DOMAIN layer /\ layer[f] # ""

\* A server that listens has settings its handlers can work with, whatever the
\* operator typed: slots to give, values in range, a keep-alive timeout that is
\* off or outlives the longest test (main.go 240-247), a test duration of a
\* second or more unless one was asked for that does not fit in an int64, a
\* file for the updater, and no third-party data nobody asked for.
SafeToServe ==
    proc = "serving" =>
        /\ \A f \in Ranged : Lo[f] <= cfg[f] /\ cfg[f] <= Hi[f]
        /\ cfg["Mode"] \in {"size", "time"} /\ cfg["Port"] \in Numerals
        /\ live.capacity \in 1 .. 100
        /\ live.idle <= 0 \/ (live.idle > 300 * Second /\ live.idle > cfg["Duration"])
        /\ cfg["Duration"] >= Second \/ \E layer \in {file, env, cli} : TooLong(layer)
        /\ "updater" \in live.on => live.target # "" /\ Asked("GeoIPLicenseKey")
        /\ "geoip" \in live.on => Asked("GeoIPDBPath")

\* row is what a server with these features may store for request r.
ServersWord(r, row, on) ==
    /\ \/ row.ip = r.peer
       \/ /\ isPrivateOrLoopback(r.peer)
          /\ \E t \in {r.xri} \cup {r.xff[i] : i \in DOMAIN r.xff} :
               t \in DOMAIN ParseIP /\ row.ip = ParseIP[t]
    /\ row.loc # <<>> => /\ "geoip" \in on
                         /\ row.ip \in DOMAIN ParseIP /\ ~isPrivateOrLoopback(row.ip)
    /\ Len(row.ua) <= MaxText /\ Len(row.settings) <= MaxText
    /\ WholeCharacters(row.settings) /\ (WholeCharacters(r.ua) => WholeCharacters(row.ua))
    /\ \A cell \in writeResultsCSV(row) : cell # <<>> => Head(cell) \notin Formulas

\* What is stored with a result is the server's word, not the client's: an
\* address taken from a header only if a peer on the local network sent it and
\* it is one, a place only for an address out there, texts within their limit
\* and not cut inside a character (a User-Agent that arrives with other bytes is
\* stored with them), and no cell a spreadsheet would run when it is exported,
\* whatever text, User-Agent or name in the database it is printed from.
RowIsTheServersWord ==
    last.route = "post" => ServersWord(last.req, last.row, live.on)

\* A download within the limits of the handler or what the operator configured.
DownloadWithin(plan, c) ==
    IF plan.by = "size"
      THEN plan.amount \in 1 .. Max({maxBytesPerStream, c["DownloadMB"] * MB})
      ELSE plan.amount <= Max({seconds(maxDurationSecs), c["Duration"]})

\* No query makes the server send, stream or list more than its limits, and the
\* page opens no more streams than the server has slots, whatever its browser has
\* stored.  A value out of range counts as absent, so ?bytes above the limit is
\* answered with the configured size, which may be larger (docs/api.md 103, 330
\* have a hard cap and a 400).
QueriesAreBounded ==
    /\ last.route = "download" => DownloadWithin(last.plan, cfg)
    /\ last.route = "list" =>
         last.page.limit \in 1 .. 100 /\ last.page.offset \in 0 .. maxListOffset
    /\ last.route = "config" => last.ui.streams <= live.capacity

\* What n streams send of a test of total bytes: the total, if the shares are within
\* the limit of a stream.  Above it a stream sends own bytes, the configured size:
\* all of them do, or those with the remainder if the limit is just their share
\* without it.
SizeTestSends(n, total, own) ==
    LET share == total \div n
        over == IF share > maxBytesPerStream THEN n
                ELSE IF share = maxBytesPerStream THEN total % n ELSE 0
    IN  IF over = 0 THEN total ELSE over * own + (n - over) * share

\* No query is answered without a limit, and a sized test sends exactly what was
\* configured as long as its shares are within the limit of a stream; from one byte
\* above it on, the streams above it each send the whole configured download.
AnswersAreBounded ==
    /\ QueriesAreBounded
    /\ last.route = "sizetest" =>
         last.sent = SizeTestSends(last.ui.streams, last.ui.download, cfg["DownloadMB"] * MB)
=============================================================================
