------------------------------- MODULE TestRun -------------------------------
(***************************************************************************)
(* The browser's test run (static/app.js): runTest and what it drives, the *)
(* background ping loop, the parallel streams of measureDownload and       *)
(* measureUpload, the Stop button, the speed gauges and the POST of the    *)
(* result.                                                                 *)
(*                                                                         *)
(* JavaScript runs one task at a time, and everything that follows from a  *)
(* task through resolved or rejected promises (microtasks) happens before  *)
(* the next one.  An action is one task with its microtasks: a click, a    *)
(* timer, an answer from the network, an animation frame.  In particular   *)
(* an abort() rejects the pending fetches at once, and the catch and       *)
(* finally blocks of runTest run in the same action.                       *)
(***************************************************************************)
EXTENDS Naturals

CONSTANTS
    Streams,    \* the parallel streams of a phase (activeCfg.streams)
    Chunks,     \* blobs a stream uploads in size mode
    MaxRuns     \* bound on the runs of one behaviour

ASSUME TestRunAssumption ==
    Streams # {} /\ Chunks \in Nat \ {0} /\ MaxRuns \in Nat

VARIABLES
    mode,       \* activeCfg.mode, which the user may change at any time
    history,    \* srvCfg.historyEnabled
    testing, runs,
    pc,         \* the await at which runTest is suspended
    aborted,    \* abortCtrl.signal.aborted
    stopped,    \* the user has pressed Stop in this run
    phase,      \* currentPhase
    phaseMode,  \* the mode measureDownload or measureUpload started with
    stream,     \* state of each stream of the current phase
    left,       \* workerSize's remaining, in blobs
    expired,    \* workerTime's deadline has passed
    ping,       \* the ping loop: "off", a ping in "flight", or in its "sleep"
    pingLoad,   \* what ran beside the ping in flight: "quiet" or "busy"
    pingNetworkErrorShown,
    idleLatencySamples, loadedLatencySamples, \* as the set of their pingLoads
    grade,      \* the two sets when the bufferbloat grade was computed
    pending,    \* gauges with a speed that waits for an animation frame
    shown,      \* what each gauge displays: "--" or a "speed"
    payload,    \* the speeds of the result POSTed by this run
    outcome,    \* how the last run ended
    retry       \* a toast with a Retry button is displayed

Gauges == {"download", "upload"}
NoGrade == [idle |-> {}, loaded |-> {}]
NoPayload == [g \in Gauges |-> "none"]

settings == <<mode, history>>
pings == <<ping, pingLoad, pingNetworkErrorShown, idleLatencySamples,
           loadedLatencySamples>>
gauge == <<pending, shown>>
vars == <<mode, history, testing, runs, pc, aborted, stopped, phase, phaseMode, stream,
          left, expired, ping, pingLoad, pingNetworkErrorShown, idleLatencySamples,
          loadedLatencySamples, grade, pending, shown, payload, outcome,
          retry>>

Init ==
    /\ mode \in {"time", "size"} /\ history \in BOOLEAN
    /\ testing = FALSE /\ runs = 0 /\ pc = "idle"
    /\ aborted = FALSE /\ stopped = FALSE
    /\ phase = "idle" /\ phaseMode = "time"
    /\ stream = [s \in Streams |-> "off"]
    /\ left = [s \in Streams |-> 0]
    /\ expired = FALSE
    /\ ping = "off" /\ pingLoad = "quiet" /\ pingNetworkErrorShown = FALSE
    /\ idleLatencySamples = {} /\ loadedLatencySamples = {}
    /\ grade = NoGrade
    /\ pending = {} /\ shown = [g \in Gauges |-> "--"]
    /\ payload = NoPayload
    /\ outcome = "none" /\ retry = FALSE

-----------------------------------------------------------------------------
(* runTest: beginning, phases, end                                         *)

\* A transfer starts beside the ping in flight.
LoadBegins == pingLoad' = IF ping = "flight" THEN "busy" ELSE pingLoad

\* runTest up to its first await: new controllers, cleared display and
\* buckets; the ping loop sends its first ping.
runTest ==
    /\ ~testing /\ runs < MaxRuns
    /\ testing' = TRUE /\ runs' = runs + 1
    /\ aborted' = FALSE /\ stopped' = FALSE
    /\ shown' = [g \in Gauges |-> "--"]
    /\ pingNetworkErrorShown' = FALSE
    /\ idleLatencySamples' = {} /\ loadedLatencySamples' = {}
    /\ grade' = NoGrade /\ payload' = NoPayload /\ outcome' = "none"
    /\ ping' = "flight" /\ pingLoad' = "quiet"
    /\ phase' = "ping"
    /\ pc' = "warm"
    /\ UNCHANGED <<settings, phaseMode, stream, left, expired, pending>>

StartClick == runTest /\ UNCHANGED retry

\* The toast's action: dismissed, then runTest, which does nothing while
\* another run is under way.
RetryClick ==
    /\ retry /\ retry' = FALSE
    /\ \/ runTest
       \/ testing /\ UNCHANGED <<settings, testing, runs, pc, aborted, stopped, phase,
                                 phaseMode, stream, left, expired, pings, grade, gauge,
                                 payload, outcome>>

\* The user closes the toast, or newer ones push it out; it does not expire.
ToastGone ==
    /\ retry /\ retry' = FALSE
    /\ UNCHANGED <<settings, testing, runs, pc, aborted, stopped, phase, phaseMode, stream,
                   left, expired, pings, grade, gauge, payload, outcome>>

\* Mutant: the finally block does not stop the ping loop.
FinishKeepsPing(how) ==
    /\ testing' = FALSE
    /\ pc' = "idle" /\ phase' = "idle" /\ aborted' = TRUE
    /\ stream' = [s \in Streams |-> "off"]
    /\ outcome' = how
    /\ UNCHANGED <<ping, pingLoad>>

\* runTest's finally block: the ping loop and every straggler are aborted.
Finish(how) ==
    /\ testing' = FALSE
    /\ pc' = "idle" /\ phase' = "idle" /\ aborted' = TRUE
    /\ stream' = [s \in Streams |-> "off"]
    /\ ping' = "off" /\ pingLoad' = "quiet"
    /\ outcome' = how

\* Mutant: the stage is announced only when the first answer comes in.
BeginDownloadLateStage ==
    /\ UNCHANGED phase
    /\ pc' = "download" /\ phaseMode' = mode
    /\ stream' = [s \in Streams |-> "fetch"]
    /\ LoadBegins

BeginDownload ==
    /\ phase' = "download"
    /\ pc' = "download" /\ phaseMode' = mode
    /\ stream' = [s \in Streams |-> "fetch"]
    /\ LoadBegins

BeginUpload ==
    /\ phase' = "upload"
    /\ pc' = "upload" /\ phaseMode' = mode
    /\ stream' = [s \in Streams |-> "post"]
    /\ left' = [s \in Streams |-> Chunks]
    /\ expired' = FALSE
    /\ LoadBegins

\* After both phases: grade, then the result is read off the page and POSTed.
Conclude ==
    /\ grade' = IF idleLatencySamples # {} /\ loadedLatencySamples # {}
                  THEN [idle |-> idleLatencySamples, loaded |-> loadedLatencySamples]
                  ELSE NoGrade
    /\ \/ /\ history
          /\ pc' = "persist" /\ payload' = shown
          /\ stream' = [s \in Streams |-> "off"]
          /\ UNCHANGED <<testing, phase, aborted, ping, pingLoad, outcome>>
       \/ ~history /\ Finish("done") /\ UNCHANGED payload

-----------------------------------------------------------------------------
(* Timers and answers while a run is under way                             *)

\* Mutant: Stop during the warm-up is forgotten.
WarmupOverIgnoresStop ==
    /\ pc = "warm"
    /\ BeginDownload /\ UNCHANGED <<testing, aborted, ping, outcome>>
    /\ UNCHANGED <<settings, runs, stopped, left, expired, pingNetworkErrorShown,
                   idleLatencySamples, loadedLatencySamples, grade, gauge, payload, retry>>

\* The 1.5 s of idle pings are over; Stop does not cut them short.
WarmupOver ==
    /\ pc = "warm"
    /\ \/ ~aborted /\ BeginDownload /\ UNCHANGED <<testing, aborted, ping, outcome>>
       \/ aborted /\ Finish("stopped") /\ UNCHANGED phaseMode
    /\ UNCHANGED <<settings, runs, stopped, left, expired, pingNetworkErrorShown,
                   idleLatencySamples, loadedLatencySamples, grade, gauge, payload, retry>>

\* The head of a 200 answer.
DownloadHead(s) ==
    /\ pc = "download" /\ stream[s] = "fetch"
    /\ stream' = [stream EXCEPT ![s] = "read"]
    /\ UNCHANGED <<settings, testing, runs, pc, aborted, stopped, phase, phaseMode, left,
                   expired, pings, grade, gauge, payload, outcome, retry>>

\* setSpeed: one frame is requested for any number of values.
setSpeed(g) ==
    /\ pending' = pending \cup {g}
    /\ UNCHANGED <<shown, settings, testing, runs, pc, aborted, stopped, phase, phaseMode,
                   stream, left, expired, pings, grade, payload, outcome, retry>>

\* A chunk after the warm-up; an earlier one changes nothing.
DownloadChunk(s) == pc = "download" /\ stream[s] = "read" /\ setSpeed("download")
UploadProgress(s) == pc = "upload" /\ stream[s] = "post" /\ setSpeed("upload")

\* A body ends; the last one lets measureDownload return.
DownloadEnd(s) ==
    /\ pc = "download" /\ stream[s] = "read"
    /\ \/ /\ \A r \in Streams \ {s} : stream[r] = "ok"
          /\ BeginUpload
       \/ /\ \E r \in Streams \ {s} : stream[r] # "ok"
          /\ stream' = [stream EXCEPT ![s] = "ok"]
          /\ UNCHANGED <<pc, phase, phaseMode, left, expired, pingLoad>>
    /\ UNCHANGED <<settings, testing, runs, aborted, stopped, ping, pingNetworkErrorShown,
                   idleLatencySamples, loadedLatencySamples, grade, gauge, payload,
                   outcome, retry>>

\* A stream fails: its siblings are aborted, the user is told, and a 503 is
\* offered for a retry.
StreamFails(s) ==
    /\ stream[s] \in {"fetch", "read", "post"}
    /\ Finish("toast")
    /\ \/ stream[s] # "read" /\ retry' = TRUE     \* 503
       \/ UNCHANGED retry                         \* other status, network error
    /\ UNCHANGED <<settings, runs, stopped, phaseMode, left, expired,
                   pingNetworkErrorShown, idleLatencySamples, loadedLatencySamples, grade,
                   gauge, payload>>

\* Mutant: the deadline timer is not armed.
DeadlineLost == FALSE /\ UNCHANGED vars

\* streamCtrl.abort() at the deadline: a stream that is being read returns,
\* one still waiting for its answer rejects with an AbortError that the try
\* block around the reading loop does not see.
Deadline ==
    /\ pc = "download" /\ phaseMode = "time"
    /\ \/ /\ \A s \in Streams : stream[s] # "fetch"
          /\ BeginUpload
          /\ UNCHANGED <<testing, aborted, ping, outcome>>
       \/ /\ \E s \in Streams : stream[s] = "fetch"
          /\ Finish("silent")
          /\ UNCHANGED <<phaseMode, left, expired>>
    /\ UNCHANGED <<settings, runs, stopped, pingNetworkErrorShown, idleLatencySamples,
                   loadedLatencySamples, grade, gauge, payload, retry>>

\* A worker leaves its loop; the last one lets measureUpload return.
WorkerDone(s) ==
    \/ /\ \A r \in Streams \ {s} : stream[r] = "ok"
       /\ Conclude
    \/ /\ \E r \in Streams \ {s} : stream[r] # "ok"
       /\ stream' = [stream EXCEPT ![s] = "ok"]
       /\ UNCHANGED <<pc, testing, phase, aborted, ping, pingLoad, outcome, grade, payload>>

\* A blob is answered 2xx: workerSize counts it, workerTime looks at the clock.
UploadLoad(s) ==
    /\ pc = "upload" /\ stream[s] = "post"
    /\ left' = IF phaseMode = "size" THEN [left EXCEPT ![s] = @ - 1] ELSE left
    /\ IF (phaseMode = "size" /\ left[s] = 1) \/ (phaseMode = "time" /\ expired)
         THEN WorkerDone(s)
         ELSE UNCHANGED <<stream, pc, testing, phase, aborted, ping, pingLoad, outcome,
                          grade, payload>>
    /\ UNCHANGED <<settings, runs, stopped, phaseMode, expired, pingNetworkErrorShown,
                   idleLatencySamples, loadedLatencySamples, gauge, retry>>

UploadExpires ==
    /\ pc = "upload" /\ phaseMode = "time" /\ ~expired
    /\ expired' = TRUE
    /\ UNCHANGED <<settings, testing, runs, pc, aborted, stopped, phase, phaseMode, stream,
                   left, pings, grade, gauge, payload, outcome, retry>>

\* postBlobUntil's timer: the XHR is aborted and its promise resolves.
UploadDeadline(s) ==
    /\ pc = "upload" /\ stream[s] = "post" /\ expired
    /\ WorkerDone(s)
    /\ UNCHANGED <<settings, runs, stopped, phaseMode, left, expired,
                   pingNetworkErrorShown, idleLatencySamples, loadedLatencySamples, gauge,
                   retry>>

\* The POST of the result is answered or fails; neither is shown to the user.
PersistAnswer ==
    /\ pc = "persist"
    /\ Finish("done")
    /\ UNCHANGED <<settings, runs, stopped, phaseMode, left, expired,
                   pingNetworkErrorShown, idleLatencySamples, loadedLatencySamples, grade,
                   gauge, payload, retry>>

\* Mutant: Stop reaches the ping loop but not the streams.
StopOnlyPings ==
    /\ testing /\ ~aborted
    /\ stopped' = TRUE /\ aborted' = TRUE
    /\ ping' = "off" /\ pingLoad' = "quiet"
    /\ UNCHANGED <<settings, runs, testing, pc, phase, stream, outcome, phaseMode, left,
                   expired, pingNetworkErrorShown, idleLatencySamples,
                   loadedLatencySamples, grade, gauge, payload, retry>>

\* The Stop button: every pending request is aborted.  Only the warm-up sleep
\* goes on; in the other phases the run ends here.
Stop ==
    /\ testing /\ ~aborted
    /\ stopped' = TRUE
    /\ \/ /\ pc = "warm"
          /\ aborted' = TRUE
          /\ ping' = "off" /\ pingLoad' = "quiet"
          /\ UNCHANGED <<testing, pc, phase, stream, outcome>>
       \/ pc # "warm" /\ Finish("stopped")
    /\ UNCHANGED <<settings, runs, phaseMode, left, expired, pingNetworkErrorShown,
                   idleLatencySamples, loadedLatencySamples, grade, gauge, payload, retry>>

-----------------------------------------------------------------------------
(* The ping loop, the gauges and the settings                              *)

\* A ping is answered or lost; an answer counts for the phase of that moment.
PingReply ==
    /\ ping = "flight" /\ ping' = "sleep"
    /\ \/ /\ idleLatencySamples' = idleLatencySamples \cup
               IF phase = "ping" THEN {pingLoad} ELSE {}
          /\ loadedLatencySamples' = loadedLatencySamples \cup
               IF phase \in {"download", "upload"} THEN {pingLoad} ELSE {}
          /\ UNCHANGED pingNetworkErrorShown
       \/ /\ pingNetworkErrorShown' \in {pingNetworkErrorShown, TRUE}
          /\ UNCHANGED <<idleLatencySamples, loadedLatencySamples>>
    /\ UNCHANGED <<settings, testing, runs, pc, aborted, stopped, phase, phaseMode, stream,
                   left, expired, pingLoad, grade, gauge, payload, outcome, retry>>

PingNext ==
    /\ ping = "sleep" /\ ping' = "flight"
    /\ pingLoad' = IF \E s \in Streams : stream[s] \in {"fetch", "read", "post"}
                     THEN "busy" ELSE "quiet"
    /\ UNCHANGED <<settings, testing, runs, pc, aborted, stopped, phase, phaseMode, stream,
                   left, expired, pingNetworkErrorShown, idleLatencySamples,
                   loadedLatencySamples, grade, gauge, payload, outcome, retry>>

\* flushSpeed; a hidden page gets no animation frames.
flushSpeed ==
    /\ pending # {} /\ pending' = {}
    /\ shown' = [g \in Gauges |-> IF g \in pending THEN "speed" ELSE shown[g]]
    /\ UNCHANGED <<settings, testing, runs, pc, aborted, stopped, phase, phaseMode, stream,
                   left, expired, pings, grade, payload, outcome, retry>>

\* The mode toggle stays usable during a run.
ModeClick ==
    /\ mode' \in {"time", "size"} \ {mode}
    /\ UNCHANGED <<history, testing, runs, pc, aborted, stopped, phase, phaseMode, stream,
                   left, expired, pings, grade, gauge, payload, outcome, retry>>

-----------------------------------------------------------------------------
User == StartClick \/ RetryClick \/ Stop \/ ModeClick

StreamStep(s) ==
    \/ DownloadHead(s) \/ DownloadChunk(s) \/ DownloadEnd(s)
    \/ UploadProgress(s) \/ UploadLoad(s) \/ StreamFails(s)

Timers == WarmupOver \/ Deadline \/ UploadExpires \/ ToastGone

Next ==
    \/ User \/ Timers
    \/ \E s \in Streams : StreamStep(s) \/ UploadDeadline(s)
    \/ PersistAnswer \/ PingReply \/ PingNext \/ flushSpeed

Spec == Init /\ [][Next]_vars

(* Timers that are armed fire.  Nothing is assumed of the user, of the     *)
(* server and the network, or of animation frames.                         *)
FairSpec ==
    /\ Spec
    /\ WF_vars(WarmupOver) /\ WF_vars(Deadline) /\ WF_vars(UploadExpires)
    /\ \A s \in Streams : WF_vars(UploadDeadline(s))

-----------------------------------------------------------------------------
Loads == {"quiet", "busy"}

\* The types of the page's state; a stream posts at most its share of blobs.
TypeOK ==
    /\ mode \in {"time", "size"} /\ history \in BOOLEAN
    /\ testing \in BOOLEAN /\ runs \in 0 .. MaxRuns
    /\ pc \in {"idle", "warm", "download", "upload", "persist"}
    /\ aborted \in BOOLEAN /\ stopped \in BOOLEAN
    /\ phase \in {"idle", "ping", "download", "upload"}
    /\ phaseMode \in {"time", "size"}
    /\ stream \in [Streams -> {"off", "fetch", "read", "post", "ok"}]
    /\ left \in [Streams -> 0 .. Chunks]
    /\ expired \in BOOLEAN
    /\ ping \in {"off", "flight", "sleep"} /\ pingLoad \in Loads
    /\ pingNetworkErrorShown \in BOOLEAN
    /\ idleLatencySamples \subseteq Loads /\ loadedLatencySamples \subseteq Loads
    /\ grade \in [idle : SUBSET Loads, loaded : SUBSET Loads]
    /\ pending \subseteq Gauges
    /\ shown \in [Gauges -> {"--", "speed"}]
    /\ payload \in [Gauges -> {"none", "--", "speed"}]
    /\ outcome \in {"none", "done", "stopped", "toast", "silent"}
    /\ retry \in BOOLEAN

Busy == \E s \in Streams : stream[s] \in {"fetch", "read", "post"}

\* Between two runs nothing of the last one is left: no stream, no ping, no
\* live controller, on every way out of runTest; and a run has streams in
\* flight exactly while it awaits one of its two transfers.
QuietWhenIdle ==
    /\ testing <=> pc # "idle"
    /\ ~testing => ping = "off" /\ phase = "idle"
    /\ Busy <=> pc \in {"download", "upload"}

\* Where runTest is suspended says which phase is announced, and a run that was
\* aborted or stopped and goes on is one whose warm-up is not over.
PhaseInv ==
    /\ pc = "warm" => phase = "ping"
    /\ pc = "persist" => phase = "upload"
    /\ pc \in {"idle", "download", "upload"} => phase = pc
    /\ ping # "off" => testing /\ ~aborted
    /\ testing /\ aborted => pc = "warm"
    /\ testing /\ stopped => aborted

\* The streams are those of the current transfer, and a stream that posts in
\* size mode has a blob left.
StreamsInv ==
    \A s \in Streams :
        /\ pc \notin {"download", "upload"} => stream[s] = "off"
        /\ pc = "download" => stream[s] \in {"fetch", "read", "ok"}
        /\ pc = "upload" => stream[s] \in {"post", "ok"}
        /\ pc = "upload" /\ phaseMode = "size" /\ stream[s] = "post" => left[s] >= 1

\* Until the grade is computed each bucket holds pings of its own kind, and the
\* ping in flight is of the kind its phase will book it as.
SamplesInv ==
    pc \in {"warm", "download", "upload"} =>
        /\ idleLatencySamples \subseteq {"quiet"} /\ loadedLatencySamples \subseteq {"busy"}
        /\ ping = "flight" => pingLoad = IF pc = "warm" THEN "quiet" ELSE "busy"

\* The run's invariant, which every step keeps: on every way through runTest its
\* state is well typed, nothing outlives the run, and phase, streams and latency
\* samples agree with where it is suspended.
RunInv == TypeOK /\ QuietWhenIdle /\ PhaseInv /\ StreamsInv /\ SamplesInv

\* The bufferbloat grade compares latency under load with a baseline taken
\* while nothing else was on the link: no ping of the idle bucket overlapped a
\* transfer, also not one sent before the download began, and every ping of
\* the other bucket did overlap one (app.js 406-410, 1076-1079).
GradeComparesLoadWithQuiet ==
    grade # NoGrade => grade = [idle |-> {"quiet"}, loaded |-> {"busy"}]

\* After Stop the run sends nothing more: no stream, no ping, no result.
NoRequestAfterStop ==
    [][stopped /\ stopped' =>
         /\ Busy' => Busy
         /\ ping' = "flight" => ping = "flight"
         /\ pc' = "persist" => pc = "persist"]_vars

\* Stop ends the run, in every phase and whatever the server does.
StopEndsRun == stopped /\ testing ~> ~testing

\* In time mode neither transfer outlasts its deadline, although the server
\* never answers (app.js 647-649, 771-777).
TimedPhasesEnd ==
    /\ pc = "download" /\ phaseMode = "time" ~> pc # "download"
    /\ pc = "upload" /\ phaseMode = "time" ~> pc # "upload"

\* "Only the user's Stop button should propagate as an error" (app.js
\* 700-702): a run that ends with neither a result nor a toast was stopped.
OnlyStopIsSilent == outcome # "silent"
=============================================================================
