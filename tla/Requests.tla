------------------------------ MODULE Requests ------------------------------
(***************************************************************************)
(* What the handlers compute from one request: whose address it counts     *)
(* for, what a posted result becomes before it is stored, what a CSV       *)
(* export prints, which page is listed, what a download is to send, and    *)
(* how the page splits a sized test over its streams.                      *)
(*                                                                         *)
(* An address is a written form; ParseIP maps the forms net.ParseIP        *)
(* accepts to their canonical ones.  A text a client sends is cut at a     *)
(* byte, so it is the sequence of its bytes: "a" stands for a character of *)
(* one byte, "=" for one a spreadsheet takes for a formula, "L2" and "L3"  *)
(* begin a character of two and three bytes, "c" continues one.  net/http  *)
(* lets any such sequence through in a header; the JSON decoder replaces   *)
(* what is no character, and lets no NaN or infinity through.              *)
(***************************************************************************)
EXTENDS Integers, Sequences, FiniteSetsExt, Config

CONSTANTS
    ParseIP,    \* written address -> canonical form
    Loopback, Private, LinkLocal,   \* canonical addresses
    Formulas,   \* the bytes and names that begin like a formula
    MaxText,    \* length limit of a stored text (512 and 1024 in the code)
    MB,         \* bytes in a megabyte
    NaN         \* what Number() makes of a text that is no number, or of an infinity

ASSUME AddressAssumption ==
    /\ \A t \in DOMAIN ParseIP : /\ ParseIP[t] \in DOMAIN ParseIP
                                 /\ ParseIP[ParseIP[t]] = ParseIP[t]
    /\ "=" \in Formulas /\ {"'", "a"} \cap Formulas = {}
    /\ MaxText \in Nat
    /\ MB \in Nat /\ MB >= 32   \* every stream of a test gets a byte
    /\ NaN \notin Int

-----------------------------------------------------------------------------
(* Addresses and places                                                    *)

\* A peer whose proxy headers are believed.
isPrivateOrLoopback(t) == t \in DOMAIN ParseIP /\ ParseIP[t] \in Loopback \cup Private

\* Mutant: the headers are believed whoever sends them.
ClientIPTrusting(r) ==
    IF r.xff # <<>> /\ Head(r.xff) \in DOMAIN ParseIP THEN ParseIP[Head(r.xff)]
    ELSE IF r.xri \in DOMAIN ParseIP THEN ParseIP[r.xri] ELSE r.peer

\* r.xff holds the comma-separated entries of X-Forwarded-For.
ClientIP(r) ==
    IF isPrivateOrLoopback(r.peer) /\ r.xff # <<>> /\ Head(r.xff) \in DOMAIN ParseIP
      THEN ParseIP[Head(r.xff)]
    ELSE IF isPrivateOrLoopback(r.peer) /\ r.xri \in DOMAIN ParseIP
      THEN ParseIP[r.xri]
    ELSE r.peer

\* The addresses geoip declines to resolve.
geoipInternal(t) == ParseIP[t] \in Loopback \cup Private \cup LinkLocal

\* preferredLanguages: zh-CN, then en.
pickName(names) ==
    IF "zh" \in DOMAIN names /\ names["zh"] # "" THEN names["zh"]
    ELSE IF "en" \in DOMAIN names THEN names["en"] ELSE ""

formatLocation(rec) ==
    LET country == pickName(rec.country)
        city == pickName(rec.city)
    IN  IF country = "" THEN <<>> ELSE IF city = "" THEN <<country>> ELSE <<city, country>>

\* rec is what the database holds for the address; <<>> is "no location".
Locate(t, rec) ==
    IF t \notin DOMAIN ParseIP THEN <<>>
    ELSE IF geoipInternal(t) THEN <<>> ELSE formatLocation(rec)

-----------------------------------------------------------------------------
(* POST /api/results, and the export of what it stored                     *)

Byte == {"a", "=", "L2", "L3", "c"}

\* The bytes that follow the first one of a character.
Following(b) == IF b = "L2" THEN 1 ELSE IF b = "L3" THEN 2 ELSE 0

\* A text in which no character is cut or begins in its middle.
WholeCharacters(s) ==
    /\ s # <<>> => s[1] # "c"
    /\ \A i \in DOMAIN s : s[i] # "c" =>
         /\ i + Following(s[i]) <= Len(s)
         /\ \A j \in i + 1 .. i + Following(s[i]) : s[j] = "c"
         /\ i + Following(s[i]) < Len(s) => s[i + Following(s[i]) + 1] # "c"

clampFloat(v, lo, hi) == IF v < lo THEN lo ELSE IF v > hi THEN hi ELSE v

\* Walk back from n to a byte that begins a character.
truncate(s, n) ==
    IF Len(s) <= n THEN s
    ELSE SubSeq(s, 1, CHOOSE cut \in 0 .. n : /\ cut = 0 \/ s[cut + 1] # "c"
                                              /\ \A i \in cut + 1 .. n : s[i + 1] = "c")

\* The seven measurements are of three kinds; the grade is an enumeration.
sanitiseResult(in) ==
    [mbps |-> clampFloat(in.mbps, 0, 1000000), ms |-> clampFloat(in.ms, 0, 60000),
     loss |-> clampFloat(in.loss, 0, 100),
     grade |-> IF in.grade \in {"", "A", "B", "C", "D"} THEN in.grade ELSE "",
     settings |-> truncate(in.settings, MaxText),
     ip |-> "", loc |-> <<>>, ua |-> <<>>]

createResult(in, r, geoip) ==
    [sanitiseResult(in) EXCEPT
        !.ip = ClientIP(r),
        !.ua = truncate(r.ua, MaxText),
        !.loc = IF geoip THEN Locate(ClientIP(r), r.rec) ELSE <<>>]

csvSafe(s) == IF s # <<>> /\ Head(s) \in Formulas THEN <<"'">> \o s ELSE s

\* The cells a row is printed as; a negative number would begin with its sign.
writeResultsCSV(row) ==
    {csvSafe(s) : s \in {<<row.grade>>, <<row.ip>>, row.loc, row.ua, row.settings}}
        \cup {IF n < 0 THEN <<"=">> ELSE <<"a">> : n \in {row.mbps, row.ms, row.loss}}

-----------------------------------------------------------------------------
(* GET /api/results and /api/download.  A query value is <<>> when it is   *)
(* absent.  A text that is no number counts as absent in a list and as 0,  *)
(* which is out of range, in a download.                                   *)

clampInt(n, lo, hi) == IF n < lo THEN lo ELSE IF n > hi THEN hi ELSE n

parseQueryInt(q, def) == IF q = <<>> THEN def ELSE Head(q)

maxListOffset == 1000000

\* listResults hands the store a limit from 1 to maxListLimit.
listPage(q) ==
    [limit |-> clampInt(parseQueryInt(q.limit, 20), 1, 100),
     offset |-> clampInt(parseQueryInt(q.offset, 0), 0, maxListOffset)]

exportPage == [limit |-> 100000, offset |-> 0]

maxBytesPerStream == 1024 * MB
maxDurationSecs == 300

Within(q, max) == q # <<>> /\ Head(q) >= 1 /\ Head(q) <= max

\* Mutant: ?bytes without its limit.
totalBytesUncapped(cfg, q) ==
    IF q.bytes # <<>> /\ Head(q.bytes) >= 1 THEN Head(q.bytes) ELSE cfg["DownloadMB"] * MB

totalBytes(cfg, q) ==
    IF Within(q.bytes, maxBytesPerStream) THEN Head(q.bytes)
    ELSE IF q.bytes = <<>> /\ Within(q.size, 1024) THEN Head(q.size) * MB
    ELSE cfg["DownloadMB"] * MB

\* What a download sends: a number of bytes, or bytes for a time.
DownloadHandler(cfg, q) ==
    IF q.bytes # <<>> \/ q.size # <<>> \/ cfg["Mode"] # "time"
      THEN [by |-> "size", amount |-> totalBytes(cfg, q)]
      ELSE [by |-> "time", amount |-> IF Within(q.duration, maxDurationSecs)
                                        THEN seconds(Head(q.duration)) ELSE cfg["Duration"]]

-----------------------------------------------------------------------------
(* The page: settings taken from /api/config, a sized test split over the  *)
(* parallel streams.  Sizes are in bytes: a stored size may be a fraction  *)
(* of a megabyte.                                                          *)

\* Math.min, Math.max and the fallback for what is no finite number.
clampNum(v, lo, hi, def) == IF v = NaN THEN def ELSE clampInt(v, lo, hi)

\* What the user has stored, <<>> if nothing, goes before what the server says;
\* maxConcurrent is the capacity of the semaphore, as /api/config reports it.
\* The fallback of four streams is not held against it.
mergeConfig(cfg, maxConcurrent, localCfg) ==
    LET first(stored, served) == IF stored = <<>> THEN served ELSE Head(stored)
        streamsCap == IF maxConcurrent < 32 THEN maxConcurrent ELSE 32
    IN  [download |-> clampNum(first(localCfg.download, cfg["DownloadMB"] * MB),
                               MB, 10240 * MB, 25 * MB),
         streams |-> clampNum(first(localCfg.streams, cfg["Streams"]), 1, streamsCap, 4)]

\* The options of the streams selector in index.html.
StreamOptions == {1, 2, 4, 8, 16}

\* The largest option that is not above the number wanted, or else the smallest.
setStreamsSelection(desired) ==
    LET usable == {v \in StreamOptions : v <= desired}
    IN  IF usable # {} THEN Max(usable) ELSE Min(StreamOptions)

\* Mutant: a selected option above the server's capacity stays selected.
applyStreamsCapLabelsOnly(cap, selected) == selected

\* The options above cap are disabled; the selection moves down if it is one of them.
applyStreamsCap(cap, selected) ==
    IF cap > 0 /\ selected > cap THEN setStreamsSelection(cap) ELSE selected

\* The settings a test of the page uses: merged, then what the selector shows of
\* them, then held against the capacity.  A choice made later is stored, and one
\* of the enabled options.
activeCfg(cfg, maxConcurrent, localCfg) ==
    LET merged == mergeConfig(cfg, maxConcurrent, localCfg)
    IN  [download |-> merged.download,
         streams |-> applyStreamsCap(maxConcurrent, setStreamsSelection(merged.streams))]

streamBytes(ui, i) ==
    ui.download \div ui.streams + (IF i < ui.download % ui.streams THEN 1 ELSE 0)
=============================================================================
