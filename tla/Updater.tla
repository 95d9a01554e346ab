------------------------------- MODULE Updater -------------------------------
(***************************************************************************)
(* geoip.Updater and the way main() drives it: boot, the refresh loop      *)
(* (Run, tickSafe, tick, download, extract), the file it keeps at          *)
(* TargetPath, its temporary files, and shutdown, crash and restart of the *)
(* process in the middle of a refresh.                                     *)
(*                                                                         *)
(* MaxMind is an external server that publishes a new bundle now and then  *)
(* and answers a conditional GET by comparing dates.  A bundle is          *)
(* identified by its Last-Modified date.  SetGeoIP and CloseGeoIP are      *)
(* atomic here: GeoIP shows that they may be taken so.                     *)
(***************************************************************************)
EXTENDS Naturals

CONSTANTS
    ExplicitPath,  \* TRUE: geoip_db_path is set; FALSE: the default file name
    MaxClock,      \* bound on the dates
    MaxFaults,     \* bound on the failures of one behaviour
    MaxBoots       \* bound on the starts of the process

ASSUME UpdaterAssumption ==
    /\ ExplicitPath \in BOOLEAN
    /\ MaxClock \in Nat /\ MaxFaults \in Nat /\ MaxBoots \in Nat

VARIABLES
    clock,      \* the date, shared by this host and MaxMind
    published,  \* Last-Modified of the bundle MaxMind serves
    dir,        \* whether the directory of TargetPath exists
    target,     \* the file at TargetPath, or NoFile
    temps,      \* the temporary files of the current tick
    orphans,    \* temporary files nobody will remove any more
    up,         \* the process is running
    pc,         \* where the updater goroutine is
    ims,        \* If-Modified-Since of the request in flight, or NoDate
    bundle,     \* the bundle being downloaded: [ver, data]
    mtime,      \* modification date of the extracted file
    opened,     \* the tick holds an open Lookup it has not handed over
    live,       \* version of the database the handler serves, or NoDate
    cancelled,  \* updaterCtx is cancelled
    closed,     \* CloseGeoIP has run
    unread,     \* history: boot's geoip.Open failed and no swap has come since
    faults, boots

procVars == <<up, boots, unread>>
hostVars == <<clock, published>>
tickVars == <<ims, bundle, mtime>>
ctlVars == <<cancelled, closed>>
vars == <<clock, published, dir, target, temps, orphans, up, pc, ims, bundle,
          mtime, opened, live, cancelled, closed, unread, faults, boots>>

NoDate == MaxClock + 1
NoFile == [ver |-> NoDate, mtime |-> NoDate, data |-> "intact"]
Dates == 0 .. MaxClock
MaybeDate == Dates \cup {NoDate}
Quality == {"intact", "corrupt"}

\* A fresh host, or one with a file at TargetPath that an earlier run or the
\* operator left behind: a database, or something geoip.Open rejects.
Init ==
    /\ clock = 0 /\ published = 0
    /\ \/ target = NoFile /\ dir \in BOOLEAN
       \/ target \in [ver : {0}, mtime : {0}, data : Quality] /\ dir = TRUE
    /\ temps = {} /\ orphans = {}
    /\ up = FALSE /\ pc = "off"
    /\ ims = NoDate /\ bundle = [ver |-> NoDate, data |-> "intact"] /\ mtime = NoDate
    /\ opened = FALSE /\ live = NoDate
    /\ cancelled = FALSE /\ closed = FALSE /\ unread = FALSE
    /\ faults = 0 /\ boots = 0

-----------------------------------------------------------------------------
(* The world around the process                                            *)

ClockTick ==
    /\ clock < MaxClock
    /\ clock' = clock + 1
    /\ UNCHANGED <<published, dir, target, temps, orphans, procVars, pc, tickVars,
                   opened, live, ctlVars, faults>>

\* MaxMind publishes a bundle dated now.
Publish ==
    /\ published < clock
    /\ published' = clock
    /\ UNCHANGED <<clock, dir, target, temps, orphans, procVars, pc, tickVars,
                   opened, live, ctlVars, faults>>

\* MaxMind's answer to If-Modified-Since: changed after that date or not.
ModifiedSince(date) == date = NoDate \/ published > date

-----------------------------------------------------------------------------
(* main(): boot, signal handler, exit                                      *)

Fault == faults < MaxFaults /\ faults' = faults + 1

\* geoip.Open of the configured path: the file is served, or main warns and
\* goes on without a lookup because the file is no database or cannot be read.
openAtBoot ==
    \/ target.data = "intact" /\ live' = target.ver /\ unread' = FALSE /\ UNCHANGED faults
    \/ target.data = "corrupt" /\ live' = NoDate /\ unread' = TRUE /\ UNCHANGED faults
    \/ target # NoFile /\ Fault /\ live' = NoDate /\ unread' = TRUE

\* Mutant: main does not open the configured database at boot.
BootWithoutOpen ==
    /\ ~up /\ boots < MaxBoots
    /\ up' = TRUE /\ boots' = boots + 1
    /\ live' = NoDate /\ unread' = FALSE
    /\ pc' = "tick"
    /\ cancelled' = FALSE /\ closed' = FALSE
    /\ UNCHANGED <<hostVars, dir, target, temps, orphans, tickVars, opened, faults>>

\* geoip.Open is tried on an explicit path only; then the updater starts,
\* and Run's first tick is immediate.
Boot ==
    /\ ~up /\ boots < MaxBoots
    /\ up' = TRUE /\ boots' = boots + 1
    /\ \/ ExplicitPath /\ openAtBoot
       \/ ~ExplicitPath /\ live' = NoDate /\ unread' = FALSE /\ UNCHANGED faults
    /\ pc' = "tick"
    /\ cancelled' = FALSE /\ closed' = FALSE
    /\ UNCHANGED <<hostVars, dir, target, temps, orphans, tickVars, opened>>

\* SIGINT or SIGTERM: cancelUpdater.
Signal ==
    /\ up /\ ~cancelled
    /\ cancelled' = TRUE
    /\ UNCHANGED <<hostVars, dir, target, temps, orphans, procVars, pc, tickVars,
                   opened, live, closed, faults>>

\* CloseGeoIP, after Shutdown has returned.
CloseGeoIP ==
    /\ up /\ cancelled /\ ~closed
    /\ closed' = TRUE
    /\ live' = NoDate
    /\ UNCHANGED <<hostVars, dir, target, temps, orphans, procVars, pc, tickVars,
                   opened, cancelled, faults>>

\* The process is gone: memory is lost, the disk stays, deferred removals of a
\* tick in progress never run.
Gone ==
    /\ up' = FALSE
    /\ pc' = "off"
    /\ live' = NoDate
    /\ opened' = FALSE
    /\ orphans' = orphans \cup temps
    /\ temps' = {}
    /\ UNCHANGED <<hostVars, dir, target, boots, unread, tickVars, ctlVars, faults>>

\* main returns after the signal handler is done, whatever the updater does.
Exit == up /\ closed /\ Gone

Crash == up /\ ~closed /\ boots < MaxBoots /\ Gone

-----------------------------------------------------------------------------
(* The updater goroutine.  Every way a step can fail costs one of the      *)
(* MaxFaults failures (Fault), except the ones a cancelled context causes. *)

\* tick returns: its deferred removals run and the loop waits again.
Return ==
    /\ pc' = "wait"
    /\ temps' = {}

\* Mutant: the directory is no longer created before the download.
tickNoMkdir ==
    /\ pc = "tick"
    /\ ims' = target.mtime
    /\ pc' = "sent"
    /\ UNCHANGED <<temps, faults, dir, hostVars, target, orphans, procVars, bundle,
                   mtime, opened, live, ctlVars>>

\* tick: MkdirAll, then download stats the file and sends the request.
tick ==
    /\ pc = "tick"
    /\ \/ /\ dir' = TRUE
          /\ ims' = target.mtime
          /\ pc' = "sent"
          /\ UNCHANGED <<temps, faults>>
       \/ ~dir /\ Fault /\ Return /\ UNCHANGED <<dir, ims>>
    /\ UNCHANGED <<hostVars, target, orphans, procVars, bundle, mtime, opened,
                   live, ctlVars>>

\* download, the response's head: 304, 200 and a temporary file, or an error.
response ==
    /\ pc = "sent"
    /\ \/ /\ ~ModifiedSince(ims)
          /\ Return
          /\ UNCHANGED <<bundle, faults>>
       \/ /\ ModifiedSince(ims) /\ dir
          /\ \/ bundle' = [ver |-> published, data |-> "intact"] /\ UNCHANGED faults
             \/ bundle' = [ver |-> published, data |-> "corrupt"] /\ Fault
          /\ temps' = {"tar"}
          /\ pc' = "copy"
       \/ Fault /\ Return /\ UNCHANGED bundle
       \/ (cancelled \/ ~dir) /\ Return /\ UNCHANGED <<bundle, faults>>
    /\ UNCHANGED <<hostVars, dir, target, orphans, procVars, ims, mtime, opened,
                   live, ctlVars>>

\* download, the body: copied under the size cap, or the file is removed.
copyBody ==
    /\ pc = "copy"
    /\ \/ pc' = "extract" /\ UNCHANGED <<temps, faults>>
       \/ Fault /\ Return
       \/ cancelled /\ Return /\ UNCHANGED faults
    /\ UNCHANGED <<hostVars, dir, target, orphans, procVars, tickVars, opened,
                   live, ctlVars>>

\* Mutant: tickSafe without its recover, the goroutine dies with the panic.
panicUnrecovered ==
    /\ pc = "extract" /\ Fault
    /\ pc' = "stopped"
    /\ temps' = {}
    /\ orphans' = orphans \cup {"mmdb"}
    /\ UNCHANGED <<hostVars, dir, target, procVars, tickVars, opened, live, ctlVars>>

\* A panic while the archive is unpacked: tickSafe recovers and the removals
\* deferred so far run, but the file extract had created stays behind.
panic ==
    /\ pc = "extract" /\ Fault
    /\ Return
    /\ orphans' = orphans \cup {"mmdb"}
    /\ UNCHANGED <<hostVars, dir, target, procVars, tickVars, opened, live, ctlVars>>

\* extract: the first .mmdb entry goes to a second temporary file.
extract ==
    /\ pc = "extract"
    /\ \/ /\ temps' = temps \cup {"mmdb"}
          /\ mtime' = clock
          /\ pc' = "verify"
          /\ UNCHANGED faults
       \/ Fault /\ Return /\ UNCHANGED mtime
       \/ bundle.data = "corrupt" /\ Return /\ UNCHANGED <<mtime, faults>>
    /\ UNCHANGED <<hostVars, dir, target, orphans, procVars, ims, bundle, opened,
                   live, ctlVars>>

\* Mutant: the extracted file is not opened before it replaces the old one.
verifyNothing ==
    /\ pc = "verify"
    /\ opened' = TRUE
    /\ pc' = "rename"
    /\ UNCHANGED <<temps, faults, hostVars, dir, target, orphans, procVars,
                   tickVars, live, ctlVars>>

\* Opener on the extracted file.
verify ==
    /\ pc = "verify"
    /\ \/ /\ bundle.data = "intact"
          /\ opened' = TRUE
          /\ pc' = "rename"
          /\ UNCHANGED <<temps, faults>>
       \/ Fault /\ Return /\ UNCHANGED opened
       \/ bundle.data = "corrupt" /\ Return /\ UNCHANGED <<opened, faults>>
    /\ UNCHANGED <<hostVars, dir, target, orphans, procVars, tickVars, live, ctlVars>>

\* Mutant: a failed rename returns without closing the new Lookup.
renameKeepsLookup ==
    /\ pc = "rename"
    /\ \/ /\ target' = [ver |-> bundle.ver, mtime |-> mtime, data |-> bundle.data]
          /\ temps' = temps \ {"mmdb"}
          /\ pc' = "swap"
          /\ UNCHANGED <<opened, faults>>
       \/ Fault /\ Return /\ UNCHANGED <<target, opened>>
    /\ UNCHANGED <<hostVars, dir, orphans, procVars, tickVars, live, ctlVars>>

\* os.Rename onto TargetPath; on failure the Lookup is closed.
rename ==
    /\ pc = "rename"
    /\ \/ /\ target' = [ver |-> bundle.ver, mtime |-> mtime, data |-> bundle.data]
          /\ temps' = temps \ {"mmdb"}
          /\ pc' = "swap"
          /\ UNCHANGED <<opened, faults>>
       \/ Fault /\ Return /\ opened' = FALSE /\ UNCHANGED target
    /\ UNCHANGED <<hostVars, dir, orphans, procVars, tickVars, live, ctlVars>>

\* onSwap hands the Lookup to SetGeoIP, which keeps it or closes it.
swap ==
    /\ pc = "swap"
    /\ live' = IF closed THEN live ELSE bundle.ver
    /\ opened' = FALSE
    /\ unread' = FALSE
    /\ Return
    /\ UNCHANGED <<hostVars, dir, target, orphans, up, boots, tickVars, ctlVars, faults>>

\* Run's select: the ticker, or ctx.Done; either may win when both are ready.
nextTick ==
    /\ pc = "wait"
    /\ pc' = "tick"
    /\ UNCHANGED <<hostVars, dir, target, temps, orphans, procVars, tickVars,
                   opened, live, ctlVars, faults>>

\* Mutant: the loop does not listen to ctx.Done.
neverStops == FALSE /\ UNCHANGED vars

stop ==
    /\ pc = "wait" /\ cancelled
    /\ pc' = "stopped"
    /\ UNCHANGED <<hostVars, dir, target, temps, orphans, procVars, tickVars,
                   opened, live, ctlVars, faults>>

Run == \/ tick \/ response \/ copyBody \/ panic \/ extract \/ verify \/ rename
       \/ swap \/ nextTick \/ stop

Next ==
    \/ ClockTick \/ Publish
    \/ Boot \/ Signal \/ CloseGeoIP \/ Exit \/ Crash
    \/ Run

Spec == Init /\ [][Next]_vars

(* The goroutine keeps being scheduled and its ticker keeps firing.        *)
(* Restarts, signals, crashes and publications may happen or               *)
(* not, failures stop after MaxFaults.  Strong fairness of stop is Go's    *)
(* select: among ready cases it picks at random, so ctx.Done, ready for    *)
(* good, is not passed over for ever.                                      *)
FairSpec == Spec /\ WF_vars(Run) /\ SF_vars(stop)

-----------------------------------------------------------------------------
CountersOK ==
    /\ clock \in Dates /\ published \in Dates
    /\ faults \in 0 .. MaxFaults /\ boots \in 0 .. MaxBoots

TypeOK ==
    /\ CountersOK
    /\ dir \in BOOLEAN
    /\ target \in [ver : MaybeDate, mtime : MaybeDate, data : Quality]
    /\ temps \subseteq {"tar", "mmdb"} /\ orphans \subseteq {"tar", "mmdb"}
    /\ up \in BOOLEAN
    /\ pc \in {"off", "tick", "sent", "copy", "extract", "verify", "rename",
               "swap", "wait", "stopped"}
    /\ ims \in MaybeDate
    /\ bundle \in [ver : MaybeDate, data : Quality]
    /\ mtime \in MaybeDate
    /\ opened \in BOOLEAN
    /\ live \in MaybeDate
    /\ cancelled \in BOOLEAN /\ closed \in BOOLEAN /\ unread \in BOOLEAN

\* The temporary files that exist at each point of a tick.
TempsAt(p) ==
    CASE p \in {"copy", "extract", "swap"} -> {"tar"}
      [] p \in {"verify", "rename"} -> {"tar", "mmdb"}
      [] OTHER -> {}

TickInv ==
    /\ up <=> pc # "off"
    /\ temps = TempsAt(pc)
    /\ opened <=> pc \in {"rename", "swap"}
    /\ pc \in {"rename", "swap"} => bundle.data = "intact"
    /\ pc \in {"copy", "extract", "verify", "rename", "swap"} => bundle.ver \in Dates
    /\ pc \in {"verify", "rename"} => mtime \in Dates
    /\ pc = "swap" => target.ver = bundle.ver
    /\ closed => cancelled
    /\ ~up \/ closed => live = NoDate

\* Whatever replaces the file at TargetPath is a database that opens: no
\* corrupt or half-written bundle takes the place of a good copy, at whatever
\* step the tick fails or the process dies (updater.go 180-182).
GoodCopySurvives == [][target' # target => target'.data = "intact"]_vars

\* Between two ticks, and after the loop has stopped, the updater has left no
\* temporary file and no unclaimed Lookup, on every error path of tick,
\* download and extract (orphans are the losses of crashes and panics).
AtRestClean == pc \in {"wait", "stopped"} => temps = {} /\ ~opened

\* With an explicit path, the handler serves exactly the database that is on
\* disk, apart from the instant between rename and onSwap and after shutdown.
\* The one exception is a start over a file that geoip.Open rejects (main.go
\* 125-127): then nothing at all is served, until a bundle is swapped in.
ServesWhatIsOnDisk ==
    up /\ ~closed /\ pc # "swap" => live = IF unread THEN NoDate ELSE target.ver

\* The inductive invariant: temporary files, the open Lookup, the file on disk
\* and the served database all agree with how far the tick has come.
IInv ==
    /\ TypeOK
    /\ TickInv
    /\ ExplicitPath => ServesWhatIsOnDisk

\* A running server with a licence key ends up serving a database whenever
\* there is no file or MaxMind has a bundle newer than the file, whatever failed
\* at first and however the process was started, over a bad file or a good one.
ComesLive ==
    [](up /\ ModifiedSince(target.mtime) => <>(live # NoDate \/ cancelled \/ ~up))

\* A running server with a licence key whose file, if there is one, is a database
\* ends up serving one (main.go 136-149: an existing file is picked up on the
\* next restart, a missing one is downloaded).
EventuallyLive ==
    [](up /\ target.data = "intact" => <>(live # NoDate \/ cancelled \/ ~up))

\* A failed or panicking tick does not end the refresh loop (tickSafe).
RefreshKeepsRunning ==
    [](up => <>(pc = "tick" \/ cancelled \/ ~up))

\* After cancelUpdater the loop stops, also in the middle of a tick.
StopsOnCancel ==
    cancelled ~> (pc = "stopped" \/ ~up)
=============================================================================
