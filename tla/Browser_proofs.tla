--------------------------- MODULE Browser_proofs ---------------------------
(***************************************************************************)
(* Proofs about the three components that run in the browser: TestRun for  *)
(* any set of streams and any number of runs, ServiceWorker for any set of *)
(* files and any number of upgrades and outages, HistoryPanel for any number *)
(* of overlapping calls and any size of the table.                         *)
(***************************************************************************)
EXTENDS TestRun, ServiceWorker, HistoryPanel, Sums, SequenceTheorems

-----------------------------------------------------------------------------
(* TestRun.  The types are kept in two parts, flags and other values,      *)
(* since no prover is at ease with both.                                   *)

Flags ==
    /\ history \in BOOLEAN /\ testing \in BOOLEAN /\ aborted \in BOOLEAN
    /\ stopped \in BOOLEAN /\ expired \in BOOLEAN
    /\ pingNetworkErrorShown \in BOOLEAN /\ retry \in BOOLEAN

Values ==
    /\ mode \in {"time", "size"} /\ runs \in 0 .. MaxRuns
    /\ pc \in {"idle", "warm", "download", "upload", "persist"}
    /\ phase \in {"idle", "ping", "download", "upload"}
    /\ phaseMode \in {"time", "size"}
    /\ stream \in [Streams -> {"off", "fetch", "read", "post", "ok"}]
    /\ left \in [Streams -> 0 .. Chunks]
    /\ ping \in {"off", "flight", "sleep"} /\ pingLoad \in Loads
    /\ idleLatencySamples \subseteq Loads /\ loadedLatencySamples \subseteq Loads
    /\ grade \in [idle : SUBSET Loads, loaded : SUBSET Loads]
    /\ pending \subseteq Gauges
    /\ shown \in [Gauges -> {"--", "speed"}]
    /\ payload \in [Gauges -> {"none", "--", "speed"}]
    /\ outcome \in {"none", "done", "stopped", "toast", "silent"}

\* The two parts are all of the type invariant.
LEMMA TypeParts == TypeOK <=> Flags /\ Values
BY Zenon DEF TypeOK, Flags, Values

\* Every step keeps the flags Boolean.
LEMMA NextFlags == ASSUME Flags, Next PROVE Flags'
<1> USE DEF Flags, settings, pings, gauge
<1>1. CASE StartClick BY <1>1, Zenon DEF StartClick, runTest
<1>2. CASE RetryClick BY <1>2, Zenon DEF RetryClick, runTest
<1>3. CASE Stop BY <1>3, Zenon DEF Stop, Finish
<1>4. CASE ModeClick BY <1>4, Zenon DEF ModeClick
<1>5. CASE WarmupOver BY <1>5, Zenon DEF WarmupOver, BeginDownload, LoadBegins, Finish
<1>6. CASE Deadline BY <1>6, Zenon DEF Deadline, BeginUpload, LoadBegins, Finish
<1>7. CASE UploadExpires BY <1>7, Zenon DEF UploadExpires
<1>8. CASE ToastGone BY <1>8, Zenon DEF ToastGone
<1>9. CASE PersistAnswer BY <1>9, Zenon DEF PersistAnswer, Finish
<1>10. CASE PingReply BY <1>10, Zenon DEF PingReply
<1>11. CASE PingNext BY <1>11, Zenon DEF PingNext
<1>12. CASE flushSpeed BY <1>12, Zenon DEF flushSpeed
<1>13. ASSUME NEW s \in Streams, DownloadHead(s) PROVE Flags'
  BY <1>13, Zenon DEF DownloadHead
<1>14. ASSUME NEW s \in Streams, DownloadChunk(s) \/ UploadProgress(s) PROVE Flags'
  BY <1>14, Zenon DEF DownloadChunk, UploadProgress, setSpeed
<1>15. ASSUME NEW s \in Streams, DownloadEnd(s) PROVE Flags'
  BY <1>15, Zenon DEF DownloadEnd, BeginUpload, LoadBegins
<1>16. ASSUME NEW s \in Streams, StreamFails(s) PROVE Flags'
  BY <1>16, Zenon DEF StreamFails, Finish
<1>17. ASSUME NEW s \in Streams, UploadLoad(s) PROVE Flags'
  BY <1>17, Zenon DEF UploadLoad, WorkerDone, Conclude, Finish
<1>18. ASSUME NEW s \in Streams, UploadDeadline(s) PROVE Flags'
  BY <1>18, Zenon DEF UploadDeadline, WorkerDone, Conclude, Finish
<1> QED BY <1>1, <1>2, <1>3, <1>4, <1>5, <1>6, <1>7, <1>8, <1>9, <1>10, <1>11, <1>12,
       <1>13, <1>14, <1>15, <1>16, <1>17, <1>18 DEF Next, User, Timers, StreamStep

\* The last worker's return, with its grade and the result it collects.
LEMMA WorkerValues ==
    ASSUME Values, NEW s \in Streams, WorkerDone(s)
    PROVE  /\ pc' \in {"idle", "upload", "persist", pc} /\ phase' \in {"idle", phase}
           /\ stream' \in [Streams -> {"off", "fetch", "read", "post", "ok"}]
           /\ ping' \in {"off", ping} /\ pingLoad' \in Loads
           /\ grade' \in [idle : SUBSET Loads, loaded : SUBSET Loads]
           /\ payload' \in [Gauges -> {"none", "--", "speed"}]
           /\ outcome' \in {"done", outcome}
<1>1. CASE Conclude
  <2>1. grade' \in [idle : SUBSET Loads, loaded : SUBSET Loads]
    BY <1>1 DEF Conclude, NoGrade, Values
  <2> QED BY <1>1, <2>1 DEF Conclude, Finish, Values, Loads
<1>2. CASE ~Conclude BY <1>2 DEF WorkerDone, Values
<1> QED BY <1>1, <1>2

\* Every step keeps the other types; a stream's share of blobs is never exceeded
\* because a stream that posts in size mode has one left.
LEMMA NextValues == ASSUME Values, StreamsInv, Next PROVE Values'
<1> USE TestRunAssumption DEF Values, Loads, Gauges, settings, pings, gauge
<1>1. CASE StartClick
  BY <1>1 DEF StartClick, runTest, NoGrade, NoPayload
<1>2. CASE RetryClick
  <2>1. CASE runTest BY <1>2, <2>1 DEF RetryClick, runTest, NoGrade, NoPayload
  <2>2. CASE ~runTest
    <3>1. UNCHANGED <<mode, runs, pc, phase, phaseMode, stream, left, ping, pingLoad,
                      idleLatencySamples, loadedLatencySamples, grade, pending, shown,
                      payload, outcome>>
      BY <1>2, <2>2 DEF RetryClick
    <3> QED BY <3>1
  <2> QED BY <2>1, <2>2
<1>3. CASE Stop
  <2>1. UNCHANGED <<mode, runs, phaseMode, left, idleLatencySamples, loadedLatencySamples,
                    grade, pending, shown, payload>>
    BY <1>3 DEF Stop
  <2>2. pc' \in {"idle", pc} /\ phase' \in {"idle", phase} /\ outcome' \in {"stopped", outcome}
          /\ ping' = "off" /\ pingLoad' = "quiet"
          /\ (stream' = stream \/ stream' = [s \in Streams |-> "off"])
    BY <1>3 DEF Stop, Finish
  <2> QED BY <2>1, <2>2
<1>4. CASE ModeClick BY <1>4 DEF ModeClick
<1>5. CASE WarmupOver BY <1>5 DEF WarmupOver, BeginDownload, LoadBegins, Finish
<1>6. CASE Deadline BY <1>6 DEF Deadline, BeginUpload, LoadBegins, Finish
<1>7. CASE UploadExpires BY <1>7 DEF UploadExpires
<1>8. CASE ToastGone BY <1>8 DEF ToastGone
<1>9. CASE PersistAnswer
  <2>1. stream' \in [Streams -> {"off", "fetch", "read", "post", "ok"}]
    BY <1>9 DEF PersistAnswer, Finish
  <2>2. pc' = "idle" /\ phase' = "idle" /\ ping' = "off" /\ pingLoad' = "quiet" /\ outcome' = "done"
    BY <1>9 DEF PersistAnswer, Finish
  <2>3. UNCHANGED <<mode, runs, phaseMode, left, idleLatencySamples, loadedLatencySamples,
                    grade, pending, shown, payload>>
    BY <1>9 DEF PersistAnswer
  <2> QED BY <2>1, <2>2, <2>3
<1>10. CASE PingReply
  <2>1. idleLatencySamples' \subseteq Loads /\ loadedLatencySamples' \subseteq Loads
    BY <1>10 DEF PingReply
  <2>2. ping' = "sleep" /\ UNCHANGED <<mode, runs, pc, phase, phaseMode, stream, left, pingLoad,
                                      grade, pending, shown, payload, outcome>>
    BY <1>10 DEF PingReply
  <2> QED BY <2>1, <2>2
<1>11. CASE PingNext BY <1>11 DEF PingNext
<1>12. CASE flushSpeed BY <1>12 DEF flushSpeed
<1>13. ASSUME NEW s \in Streams, DownloadHead(s) PROVE Values'
  BY <1>13 DEF DownloadHead
<1>14. ASSUME NEW s \in Streams, DownloadChunk(s) \/ UploadProgress(s) PROVE Values'
  <2>1. pending' \subseteq Gauges BY <1>14 DEF DownloadChunk, UploadProgress, setSpeed
  <2>2. UNCHANGED <<mode, runs, pc, phase, phaseMode, stream, left, ping, pingLoad,
                    idleLatencySamples, loadedLatencySamples, grade, shown, payload, outcome>>
    BY <1>14 DEF DownloadChunk, UploadProgress, setSpeed
  <2> QED BY <2>1, <2>2
<1>15. ASSUME NEW s \in Streams, DownloadEnd(s) PROVE Values'
  BY <1>15 DEF DownloadEnd, BeginUpload, LoadBegins
<1>16. ASSUME NEW s \in Streams, StreamFails(s) PROVE Values'
  BY <1>16 DEF StreamFails, Finish
<1>17. ASSUME NEW s \in Streams, UploadLoad(s) PROVE Values'
  <2>1. left' \in [Streams -> 0 .. Chunks]
    BY <1>17 DEF UploadLoad, StreamsInv
  <2>2. CASE WorkerDone(s) BY <1>17, <2>1, <2>2, WorkerValues DEF UploadLoad
  <2>3. CASE ~WorkerDone(s) BY <1>17, <2>1, <2>3 DEF UploadLoad
  <2> QED BY <2>2, <2>3
<1>18. ASSUME NEW s \in Streams, UploadDeadline(s) PROVE Values'
  BY <1>18, WorkerValues DEF UploadDeadline
<1> QED BY <1>1, <1>2, <1>3, <1>4, <1>5, <1>6, <1>7, <1>8, <1>9, <1>10, <1>11, <1>12,
       <1>13, <1>14, <1>15, <1>16, <1>17, <1>18 DEF Next, User, Timers, StreamStep

\* Phase, Stop and ping loop stay in step with runTest.
LEMMA NextPhase == ASSUME RunInv, Next PROVE PhaseInv'
<1> USE DEF RunInv, PhaseInv, settings, pings, gauge
<1>1. CASE StartClick BY <1>1 DEF StartClick, runTest
<1>2. CASE RetryClick BY <1>2 DEF RetryClick, runTest
<1>3. CASE Stop BY <1>3 DEF Stop, Finish
<1>4. CASE ModeClick BY <1>4 DEF ModeClick
<1>5. CASE WarmupOver BY <1>5 DEF WarmupOver, BeginDownload, LoadBegins, Finish
<1>6. CASE Deadline BY <1>6 DEF Deadline, BeginUpload, LoadBegins, Finish
<1>7. CASE UploadExpires BY <1>7 DEF UploadExpires
<1>8. CASE ToastGone BY <1>8 DEF ToastGone
<1>9. CASE PersistAnswer BY <1>9 DEF PersistAnswer, Finish
<1>10. CASE PingReply BY <1>10 DEF PingReply
<1>11. CASE PingNext BY <1>11 DEF PingNext
<1>12. CASE flushSpeed BY <1>12 DEF flushSpeed
<1>13. ASSUME NEW s \in Streams, DownloadHead(s) PROVE PhaseInv'
  BY <1>13 DEF DownloadHead
<1>14. ASSUME NEW s \in Streams, DownloadChunk(s) \/ UploadProgress(s) PROVE PhaseInv'
  BY <1>14 DEF DownloadChunk, UploadProgress, setSpeed
<1>15. ASSUME NEW s \in Streams, DownloadEnd(s) PROVE PhaseInv'
  BY <1>15 DEF DownloadEnd, BeginUpload, LoadBegins
<1>16. ASSUME NEW s \in Streams, StreamFails(s) PROVE PhaseInv'
  BY <1>16 DEF StreamFails, Finish
<1>17. ASSUME NEW s \in Streams, UploadLoad(s) PROVE PhaseInv'
  BY <1>17 DEF UploadLoad, WorkerDone, Conclude, Finish
<1>18. ASSUME NEW s \in Streams, UploadDeadline(s) PROVE PhaseInv'
  BY <1>18 DEF UploadDeadline, WorkerDone, Conclude, Finish
<1> QED BY <1>1, <1>2, <1>3, <1>4, <1>5, <1>6, <1>7, <1>8, <1>9, <1>10, <1>11, <1>12,
       <1>13, <1>14, <1>15, <1>16, <1>17, <1>18 DEF Next, User, Timers, StreamStep

\* Streams change with the phase, and a blob is counted before the next is sent.
LEMMA NextStreams == ASSUME RunInv, Next PROVE StreamsInv'
<1>a. Values BY TypeParts DEF RunInv
<1>b. ~testing => pc = "idle" BY DEF RunInv, QuietWhenIdle
<1> USE <1>a, <1>b, TestRunAssumption DEF RunInv, StreamsInv, Values, settings, pings, gauge
<1>1. CASE StartClick BY <1>1 DEF StartClick, runTest
<1>2. CASE RetryClick BY <1>2 DEF RetryClick, runTest
<1>3. CASE Stop BY <1>3 DEF Stop, Finish
<1>4. CASE ModeClick BY <1>4 DEF ModeClick
<1>5. CASE WarmupOver BY <1>5 DEF WarmupOver, BeginDownload, LoadBegins, Finish
<1>6. CASE Deadline BY <1>6 DEF Deadline, BeginUpload, LoadBegins, Finish
<1>7. CASE UploadExpires BY <1>7 DEF UploadExpires
<1>8. CASE ToastGone BY <1>8 DEF ToastGone
<1>9. CASE PersistAnswer BY <1>9 DEF PersistAnswer, Finish
<1>10. CASE PingReply BY <1>10 DEF PingReply
<1>11. CASE PingNext BY <1>11 DEF PingNext
<1>12. CASE flushSpeed BY <1>12 DEF flushSpeed
<1>13. ASSUME NEW s \in Streams, DownloadHead(s) PROVE StreamsInv'
  BY <1>13 DEF DownloadHead
<1>14. ASSUME NEW s \in Streams, DownloadChunk(s) \/ UploadProgress(s) PROVE StreamsInv'
  BY <1>14 DEF DownloadChunk, UploadProgress, setSpeed
<1>15. ASSUME NEW s \in Streams, DownloadEnd(s) PROVE StreamsInv'
  BY <1>15 DEF DownloadEnd, BeginUpload, LoadBegins
<1>16. ASSUME NEW s \in Streams, StreamFails(s) PROVE StreamsInv'
  BY <1>16 DEF StreamFails, Finish
<1>17. ASSUME NEW s \in Streams, UploadLoad(s) PROVE StreamsInv'
  BY <1>17 DEF UploadLoad, WorkerDone, Conclude, Finish
<1>18. ASSUME NEW s \in Streams, UploadDeadline(s) PROVE StreamsInv'
  BY <1>18 DEF UploadDeadline, WorkerDone, Conclude, Finish
<1> QED BY <1>1, <1>2, <1>3, <1>4, <1>5, <1>6, <1>7, <1>8, <1>9, <1>10, <1>11, <1>12,
       <1>13, <1>14, <1>15, <1>16, <1>17, <1>18 DEF Next, User, Timers, StreamStep

\* A ping is booked as what it was when the grade is yet to come.
LEMMA NextSamples == ASSUME RunInv, Next PROVE SamplesInv'
<1>a. Values BY TypeParts DEF RunInv
<1>b. ~testing => pc = "idle" BY DEF RunInv, QuietWhenIdle
<1> USE <1>a DEF RunInv, SamplesInv, PhaseInv, Values, Loads, settings, pings, gauge
<1>1. CASE StartClick BY <1>1 DEF StartClick, runTest
<1>2. CASE RetryClick BY <1>2 DEF RetryClick, runTest
<1>3. CASE Stop BY <1>3 DEF Stop, Finish
<1>4. CASE ModeClick BY <1>4 DEF ModeClick
<1>5. CASE WarmupOver BY <1>5 DEF WarmupOver, BeginDownload, LoadBegins, Finish
<1>6. CASE Deadline BY <1>6 DEF Deadline, BeginUpload, LoadBegins, Finish
<1>7. CASE UploadExpires BY <1>7 DEF UploadExpires
<1>8. CASE ToastGone BY <1>8 DEF ToastGone
<1>9. CASE PersistAnswer BY <1>9 DEF PersistAnswer, Finish
<1>10. CASE PingReply BY <1>10 DEF PingReply
<1>11. CASE PingNext BY <1>11 DEF PingNext, StreamsInv, QuietWhenIdle, Busy
<1>12. CASE flushSpeed BY <1>12 DEF flushSpeed
<1>13. ASSUME NEW s \in Streams, DownloadHead(s) PROVE SamplesInv'
  BY <1>13 DEF DownloadHead
<1>14. ASSUME NEW s \in Streams, DownloadChunk(s) \/ UploadProgress(s) PROVE SamplesInv'
  BY <1>14 DEF DownloadChunk, UploadProgress, setSpeed
<1>15. ASSUME NEW s \in Streams, DownloadEnd(s) PROVE SamplesInv'
  BY <1>15 DEF DownloadEnd, BeginUpload, LoadBegins
<1>16. ASSUME NEW s \in Streams, StreamFails(s) PROVE SamplesInv'
  BY <1>16 DEF StreamFails, Finish
<1>17. ASSUME NEW s \in Streams, UploadLoad(s) PROVE SamplesInv'
  BY <1>17 DEF UploadLoad, WorkerDone, Conclude, Finish
<1>18. ASSUME NEW s \in Streams, UploadDeadline(s) PROVE SamplesInv'
  BY <1>18 DEF UploadDeadline, WorkerDone, Conclude, Finish
<1> QED BY <1>1, <1>2, <1>3, <1>4, <1>5, <1>6, <1>7, <1>8, <1>9, <1>10, <1>11, <1>12,
       <1>13, <1>14, <1>15, <1>16, <1>17, <1>18 DEF Next, User, Timers, StreamStep

Control ==
    /\ testing <=> pc # "idle"
    /\ ~testing => ping = "off" /\ phase = "idle"

Unfinished == pc \in {"download", "upload"} => \E s \in Streams : stream[s] # "ok"

\* A transfer with an unfinished stream, and nothing else, is a busy state.
LEMMA QuietParts == ASSUME StreamsInv PROVE QuietWhenIdle <=> Control /\ Unfinished
BY DEF StreamsInv, QuietWhenIdle, Control, Unfinished, Busy



\* The end of the last worker keeps them together.
LEMMA WorkerControl ==
    ASSUME Control, pc = "upload", NEW s \in Streams, WorkerDone(s) PROVE Control'
<1>1. CASE pc' = "persist" /\ UNCHANGED <<testing, phase, ping>> BY <1>1 DEF Control
<1>2. CASE Finish("done") BY <1>2 DEF Control, Finish
<1>3. CASE UNCHANGED <<pc, testing, phase, ping>> BY <1>3 DEF Control
<1> QED BY <1>1, <1>2, <1>3 DEF WorkerDone, Conclude

\* A run is under way exactly while runTest is suspended, and its ping loop and
\* phase end with it.
LEMMA NextControl == ASSUME PhaseInv, Control, Next PROVE Control'
<1> USE DEF PhaseInv, Control, settings, pings, gauge
<1>1. CASE StartClick BY <1>1 DEF StartClick, runTest
<1>2. CASE RetryClick BY <1>2 DEF RetryClick, runTest
<1>3. CASE Stop BY <1>3 DEF Stop, Finish
<1>4. CASE ModeClick BY <1>4 DEF ModeClick
<1>5. CASE WarmupOver BY <1>5 DEF WarmupOver, BeginDownload, LoadBegins, Finish
<1>6. CASE Deadline BY <1>6 DEF Deadline, BeginUpload, LoadBegins, Finish
<1>7. CASE UploadExpires BY <1>7 DEF UploadExpires
<1>8. CASE ToastGone BY <1>8 DEF ToastGone
<1>9. CASE PersistAnswer BY <1>9 DEF PersistAnswer, Finish
<1>10. CASE PingReply BY <1>10 DEF PingReply
<1>11. CASE PingNext BY <1>11 DEF PingNext
<1>12. CASE flushSpeed BY <1>12 DEF flushSpeed
<1>13. ASSUME NEW s \in Streams, DownloadHead(s) PROVE Control'
  BY <1>13 DEF DownloadHead
<1>14. ASSUME NEW s \in Streams, DownloadChunk(s) \/ UploadProgress(s) PROVE Control'
  BY <1>14 DEF DownloadChunk, UploadProgress, setSpeed
<1>15. ASSUME NEW s \in Streams, DownloadEnd(s) PROVE Control'
  BY <1>15 DEF DownloadEnd, BeginUpload, LoadBegins
<1>16. ASSUME NEW s \in Streams, StreamFails(s) PROVE Control'
  BY <1>16 DEF StreamFails, Finish
<1>17. ASSUME NEW s \in Streams, UploadLoad(s) PROVE Control'
  BY <1>17 DEF UploadLoad, WorkerDone, Conclude, Finish
<1>18. ASSUME NEW s \in Streams, UploadDeadline(s) PROVE Control'
  BY <1>18, WorkerControl DEF UploadDeadline
<1> QED BY <1>1, <1>2, <1>3, <1>4, <1>5, <1>6, <1>7, <1>8, <1>9, <1>10, <1>11, <1>12,
       <1>13, <1>14, <1>15, <1>16, <1>17, <1>18 DEF Next, User, Timers, StreamStep

\* A transfer is over as soon as its last stream is.
LEMMA NextUnfinished == ASSUME Values, Unfinished, Next PROVE Unfinished'
<1> USE TestRunAssumption DEF Unfinished, Values, settings, pings, gauge
<1>1. CASE StartClick BY <1>1 DEF StartClick, runTest
<1>2. CASE RetryClick BY <1>2 DEF RetryClick, runTest
<1>3. CASE Stop BY <1>3 DEF Stop, Finish
<1>4. CASE ModeClick BY <1>4 DEF ModeClick
<1>5. CASE WarmupOver BY <1>5 DEF WarmupOver, BeginDownload, LoadBegins, Finish
<1>6. CASE Deadline BY <1>6 DEF Deadline, BeginUpload, LoadBegins, Finish
<1>7. CASE UploadExpires BY <1>7 DEF UploadExpires
<1>8. CASE ToastGone BY <1>8 DEF ToastGone
<1>9. CASE PersistAnswer BY <1>9 DEF PersistAnswer, Finish
<1>10. CASE PingReply BY <1>10 DEF PingReply
<1>11. CASE PingNext BY <1>11 DEF PingNext
<1>12. CASE flushSpeed BY <1>12 DEF flushSpeed
<1>13. ASSUME NEW s \in Streams, DownloadHead(s) PROVE Unfinished'
  BY <1>13 DEF DownloadHead
<1>14. ASSUME NEW s \in Streams, DownloadChunk(s) \/ UploadProgress(s) PROVE Unfinished'
  BY <1>14 DEF DownloadChunk, UploadProgress, setSpeed
<1>15. ASSUME NEW s \in Streams, DownloadEnd(s) PROVE Unfinished'
  BY <1>15 DEF DownloadEnd, BeginUpload, LoadBegins
<1>16. ASSUME NEW s \in Streams, StreamFails(s) PROVE Unfinished'
  BY <1>16 DEF StreamFails, Finish
<1>17. ASSUME NEW s \in Streams, UploadLoad(s) PROVE Unfinished'
  BY <1>17 DEF UploadLoad, WorkerDone, Conclude, Finish
<1>18. ASSUME NEW s \in Streams, UploadDeadline(s) PROVE Unfinished'
  BY <1>18 DEF UploadDeadline, WorkerDone, Conclude, Finish
<1> QED BY <1>1, <1>2, <1>3, <1>4, <1>5, <1>6, <1>7, <1>8, <1>9, <1>10, <1>11, <1>12,
       <1>13, <1>14, <1>15, <1>16, <1>17, <1>18 DEF Next, User, Timers, StreamStep

\* The page at rest is in order.
LEMMA InitRun == Init => RunInv
<1> SUFFICES ASSUME Init PROVE RunInv OBVIOUS
<1>1. Flags BY DEF Init, Flags
<1>2. Values BY TestRunAssumption DEF Init, Values, Loads, Gauges, NoGrade, NoPayload
<1>3. QuietWhenIdle BY DEF Init, QuietWhenIdle, Busy
<1>4. PhaseInv /\ StreamsInv /\ SamplesInv BY DEF Init, PhaseInv, StreamsInv, SamplesInv
<1> QED BY <1>1, <1>2, <1>3, <1>4, TypeParts DEF RunInv

\* Every step keeps the run's invariant.
LEMMA NextRun == RunInv /\ [Next]_vars => RunInv'
<1> SUFFICES ASSUME RunInv, [Next]_vars PROVE RunInv' OBVIOUS
<1>1. CASE Next
  <2>1. TypeOK /\ PhaseInv /\ StreamsInv /\ QuietWhenIdle BY DEF RunInv
  <2>2. Flags /\ Values BY <2>1, TypeParts
  <2>3. TypeOK'
    <3>1. Flags' BY <1>1, <2>2, NextFlags
    <3>2. Values' BY <1>1, <2>1, <2>2, NextValues
    <3> QED BY <3>1, <3>2, Zenon DEF TypeOK, Flags, Values
  <2>4. StreamsInv' BY <1>1, NextStreams
  <2>5. QuietWhenIdle'
    <3>1. Control /\ Unfinished BY <2>1, QuietParts
    <3>2. Control' BY <1>1, <2>1, <3>1, NextControl
    <3>3. Unfinished' BY <1>1, <2>2, <3>1, NextUnfinished
    <3> QED BY <2>4, <3>2, <3>3 DEF StreamsInv, QuietWhenIdle, Control, Unfinished, Busy
  <2>6. PhaseInv' /\ SamplesInv' BY <1>1, NextPhase, NextSamples
  <2> QED BY <2>3, <2>4, <2>5, <2>6 DEF RunInv
<1>2. CASE UNCHANGED vars
  BY <1>2 DEF vars, RunInv, TypeOK, QuietWhenIdle, Busy, PhaseInv, StreamsInv, SamplesInv
<1> QED BY <1>1, <1>2

\* Nothing of a run outlives it: on every way out of runTest, by Stop, deadline,
\* failure of one of several streams or success, no stream, no ping and no phase
\* is left, and while it runs they agree with where it is suspended.
THEOREM NothingOutlivesTheRun == Spec => []RunInv
BY InitRun, NextRun, PTL DEF Spec

\* What the last worker grades: one kind of ping on each side, or nothing.
LEMMA WorkerGrade ==
    ASSUME RunInv, GradeComparesLoadWithQuiet, pc = "upload", NEW s \in Streams, WorkerDone(s)
    PROVE  GradeComparesLoadWithQuiet'
<1> USE DEF GradeComparesLoadWithQuiet
<1>1. CASE Conclude
  <2>1. /\ idleLatencySamples # {} => idleLatencySamples = {"quiet"}
        /\ loadedLatencySamples # {} => loadedLatencySamples = {"busy"}
    BY DEF RunInv, SamplesInv
  <2> QED BY <1>1, <2>1 DEF Conclude
<1>2. CASE ~Conclude BY <1>2 DEF WorkerDone
<1> QED BY <1>1, <1>2

\* Only the two ends of measureUpload compute a grade, from buckets that hold
\* pings of one kind each.
LEMMA NextGrade ==
    ASSUME RunInv, Next, GradeComparesLoadWithQuiet PROVE GradeComparesLoadWithQuiet'
<1> USE DEF GradeComparesLoadWithQuiet, settings, pings, gauge
<1>1. CASE StartClick BY <1>1 DEF StartClick, runTest
<1>2. CASE RetryClick BY <1>2 DEF RetryClick, runTest
<1>3. CASE Stop BY <1>3 DEF Stop, Finish
<1>4. CASE ModeClick BY <1>4 DEF ModeClick
<1>5. CASE WarmupOver BY <1>5 DEF WarmupOver, BeginDownload, LoadBegins, Finish
<1>6. CASE Deadline BY <1>6 DEF Deadline, BeginUpload, LoadBegins, Finish
<1>7. CASE UploadExpires BY <1>7 DEF UploadExpires
<1>8. CASE ToastGone BY <1>8 DEF ToastGone
<1>9. CASE PersistAnswer BY <1>9 DEF PersistAnswer, Finish
<1>10. CASE PingReply BY <1>10 DEF PingReply
<1>11. CASE PingNext BY <1>11 DEF PingNext
<1>12. CASE flushSpeed BY <1>12 DEF flushSpeed
<1>13. ASSUME NEW s \in Streams, DownloadHead(s) PROVE GradeComparesLoadWithQuiet'
  BY <1>13 DEF DownloadHead
<1>14. ASSUME NEW s \in Streams, DownloadChunk(s) \/ UploadProgress(s) PROVE GradeComparesLoadWithQuiet'
  BY <1>14 DEF DownloadChunk, UploadProgress, setSpeed
<1>15. ASSUME NEW s \in Streams, DownloadEnd(s) PROVE GradeComparesLoadWithQuiet'
  BY <1>15 DEF DownloadEnd, BeginUpload, LoadBegins
<1>16. ASSUME NEW s \in Streams, StreamFails(s) PROVE GradeComparesLoadWithQuiet'
  BY <1>16 DEF StreamFails, Finish
<1>17. ASSUME NEW s \in Streams, UploadLoad(s) PROVE GradeComparesLoadWithQuiet'
  BY <1>17, WorkerGrade DEF UploadLoad
<1>18. ASSUME NEW s \in Streams, UploadDeadline(s) PROVE GradeComparesLoadWithQuiet'
  BY <1>18, WorkerGrade DEF UploadDeadline
<1> QED BY <1>1, <1>2, <1>3, <1>4, <1>5, <1>6, <1>7, <1>8, <1>9, <1>10, <1>11, <1>12,
       <1>13, <1>14, <1>15, <1>16, <1>17, <1>18 DEF Next, User, Timers, StreamStep

\* The bufferbloat grade compares latency under load with latency on a quiet
\* link, however pings and phases overlap.
THEOREM GradeIsFair == Spec => []GradeComparesLoadWithQuiet
<1>1. Init => GradeComparesLoadWithQuiet BY DEF Init, GradeComparesLoadWithQuiet
<1>2. RunInv /\ GradeComparesLoadWithQuiet /\ [Next]_vars => GradeComparesLoadWithQuiet'
  BY NextGrade DEF vars, GradeComparesLoadWithQuiet
<1> QED BY <1>1, <1>2, NothingOutlivesTheRun, PTL DEF Spec

\* A step that leaves a run stopped leads to its end or to a warm-up without
\* streams and pings.
LEMMA StaysSilent ==
    ASSUME RunInv, [Next]_vars, stopped'
    PROVE  ~Busy' /\ ping' = "off" /\ pc' # "persist"
<1>1. RunInv' BY NextRun
<1> QED BY <1>1 DEF RunInv, QuietWhenIdle, PhaseInv

\* After Stop a run sends nothing more.
THEOREM StopIsFinal == Spec => NoRequestAfterStop
<1>1. RunInv /\ [Next]_vars => [stopped /\ stopped' =>
         /\ Busy' => Busy
         /\ ping' = "flight" => ping = "flight"
         /\ pc' = "persist" => pc = "persist"]_vars
  BY StaysSilent
<1> QED BY <1>1, NothingOutlivesTheRun, PTL DEF Spec, NoRequestAfterStop

-----------------------------------------------------------------------------
(* ServiceWorker: an active worker always has the whole shell.             *)

(* Contents of caches                                                      *)

\* Nothing is a possible content, and one more file of some version is, too.
LEMMA EmptyContents == Empty \in Contents /\ DOMAIN Empty = {}
<1>1. Empty \in [{} -> Versions] BY DEF Empty
<1> QED BY <1>1 DEF Contents, Empty

\* The files in a cache are files of the page.
LEMMA ContentsType ==
    ASSUME NEW f \in Contents
    PROVE  DOMAIN f \subseteq Assets /\ \A a \in DOMAIN f : f[a] \in Versions
<1>1. PICK D \in SUBSET Assets : f \in [D -> Versions] BY DEF Contents
<1> QED BY <1>1

\* What is written over a content is a content.
LEMMA WrittenContents ==
    ASSUME NEW f \in Contents, NEW g \in Contents
    PROVE  [a \in DOMAIN f \cup DOMAIN g |-> IF a \in DOMAIN g THEN g[a] ELSE f[a]] \in Contents
<1> DEFINE D == DOMAIN f \cup DOMAIN g
           h == [a \in D |-> IF a \in DOMAIN g THEN g[a] ELSE f[a]]
<1>1. D \in SUBSET Assets BY ContentsType
<1>2. \A a \in D : (IF a \in DOMAIN g THEN g[a] ELSE f[a]) \in Versions BY ContentsType
<1>3. h \in [D -> Versions] BY <1>2
<1> HIDE DEF D, h
<1>4. h \in Contents BY <1>1, <1>3 DEF Contents
<1> QED BY <1>4 DEF h, D

\* One file more.
LEMMA WithContents ==
    ASSUME NEW f \in Contents, NEW a \in Assets, NEW v \in Versions
    PROVE  With(f, a, v) \in Contents /\ DOMAIN With(f, a, v) = DOMAIN f \cup {a}
<1> DEFINE D == DOMAIN f \cup {a}
<1>1. D \in SUBSET Assets BY ContentsType
<1>2. With(f, a, v) = [b \in D |-> IF b = a THEN v ELSE f[b]] BY DEF With
<1>3. \A b \in D : (IF b = a THEN v ELSE f[b]) \in Versions BY ContentsType
<1>4. With(f, a, v) \in [D -> Versions] BY <1>2, <1>3
<1> HIDE DEF D
<1>5. With(f, a, v) \in Contents /\ DOMAIN With(f, a, v) = D BY <1>1, <1>4 DEF Contents
<1> QED BY <1>5 DEF D

-----------------------------------------------------------------------------
(* Opening and writing                                                     *)

\* No two caches have the same name.
Unique(C) == \A i, j \in DOMAIN C : C[i].name = C[j].name => i = j

\* D has the caches of C, in their places, with what they had and possibly more.
Extends(C, D) ==
    \A i \in DOMAIN C : /\ i \in DOMAIN D /\ D[i].name = C[i].name
                        /\ DOMAIN C[i].has \subseteq DOMAIN D[i].has

\* Opening a cache creates it when it is not there, empty and last.
LEMMA OpenFacts ==
    ASSUME WorkerTypeOK, Unique(caches), NEW name \in Versions
    PROVE  /\ open(name) \in Seq(Cache) /\ Unique(open(name))
           /\ \A i \in DOMAIN caches : i \in DOMAIN open(name) /\ open(name)[i] = caches[i]
           /\ \A i \in DOMAIN open(name) :
                i \in DOMAIN caches \/ open(name)[i] = [name |-> name, has |-> Empty]
           /\ \E i \in DOMAIN open(name) : open(name)[i].name = name
<1>1. caches \in Seq(Cache) BY DEF WorkerTypeOK
<1>2. CASE \E i \in DOMAIN caches : caches[i].name = name
  <2>1. open(name) = caches BY <1>2 DEF open
  <2> QED BY <1>1, <1>2, <2>1
<1>3. CASE ~(\E i \in DOMAIN caches : caches[i].name = name)
  <2> DEFINE c == [name |-> name, has |-> Empty]
  <2>1. open(name) = Append(caches, c) BY <1>3 DEF open
  <2>2. c \in Cache /\ c.name = name BY EmptyContents DEF Cache
  <2> HIDE DEF c
  <2> DEFINE n == Len(caches)
  <2>3. n \in Nat /\ DOMAIN caches = 1 .. n BY <1>1
  <2>4. Append(caches, c) \in Seq(Cache) /\ DOMAIN Append(caches, c) = 1 .. n + 1
          /\ (\A i \in 1 .. n : Append(caches, c)[i] = caches[i]) /\ Append(caches, c)[n + 1] = c
    BY <1>1, <2>2
  <2> HIDE DEF n
  <2> DEFINE A == Append(caches, c)
  <2>5. A \in Seq(Cache) /\ DOMAIN A = 1 .. n + 1
          /\ (\A i \in 1 .. n : A[i] = caches[i]) /\ A[n + 1] = c
    BY <2>4
  <2> HIDE DEF A
  <2>6. \A i \in DOMAIN caches : i \in DOMAIN A /\ A[i] = caches[i] BY <2>3, <2>5
  <2>7. \A i \in DOMAIN A : i \in DOMAIN caches \/ (i = n + 1 /\ A[i] = c) BY <2>3, <2>5
  <2>8. n + 1 \in DOMAIN A BY <2>3, <2>5
  <2>9. Unique(A) BY <1>3, <2>2, <2>6, <2>7 DEF Unique
  <2> QED BY <2>1, <2>2, <2>5, <2>6, <2>7, <2>8, <2>9 DEF A, c
<1> QED BY <1>2, <1>3

\* Writing touches the cache of that name only.
LEMMA PutFacts ==
    ASSUME WorkerTypeOK, Unique(caches), NEW name \in Versions, NEW f \in Contents
    PROVE  /\ put(name, f) \in Seq(Cache) /\ Unique(put(name, f)) /\ Extends(caches, put(name, f))
           /\ \A i \in DOMAIN put(name, f) : \A a \in DOMAIN put(name, f)[i].has :
                \/ put(name, f)[i].name = name /\ a \in DOMAIN f
                \/ i \in DOMAIN caches /\ caches[i].name = put(name, f)[i].name
                     /\ a \in DOMAIN caches[i].has
           /\ \A a \in DOMAIN f : \E i \in DOMAIN put(name, f) :
                put(name, f)[i].name = name /\ a \in DOMAIN put(name, f)[i].has
<1> DEFINE O == open(name)
           new(i) == [a \in DOMAIN O[i].has \cup DOMAIN f |-> IF a \in DOMAIN f THEN f[a] ELSE O[i].has[a]]
           P == put(name, f)
<1>1. /\ O \in Seq(Cache) /\ Unique(O)
      /\ \A i \in DOMAIN caches : i \in DOMAIN O /\ O[i] = caches[i]
      /\ \A i \in DOMAIN O : i \in DOMAIN caches \/ O[i] = [name |-> name, has |-> Empty]
      /\ \E i \in DOMAIN O : O[i].name = name
  BY OpenFacts
<1>2. P = [i \in DOMAIN O |-> IF O[i].name # name THEN O[i] ELSE [name |-> name, has |-> new(i)]]
  BY DEF put
<1> HIDE DEF O, P
<1>3. DOMAIN O = 1 .. Len(O) /\ Len(O) \in Nat /\ \A i \in DOMAIN O : O[i] \in Cache BY <1>1
<1>4. ASSUME NEW i \in DOMAIN O
      PROVE  /\ P[i] \in Cache /\ P[i].name = O[i].name
             /\ O[i].name # name => DOMAIN P[i].has = DOMAIN O[i].has
             /\ O[i].name = name => DOMAIN P[i].has = DOMAIN O[i].has \cup DOMAIN f
  <2>1. O[i].has \in Contents /\ O[i].name \in Versions BY <1>3 DEF Cache
  <2>2. new(i) \in Contents /\ DOMAIN new(i) = DOMAIN O[i].has \cup DOMAIN f
    BY <2>1, WrittenContents
  <2> HIDE DEF new
  <2>3. CASE O[i].name # name BY <1>2, <1>3, <2>3
  <2>4. CASE O[i].name = name
    <3>1. P[i] = [name |-> name, has |-> new(i)] BY <1>2, <2>4
    <3> QED BY <2>2, <2>4, <3>1 DEF Cache
  <2> QED BY <2>3, <2>4
<1> HIDE DEF new
<1>5. DOMAIN P = DOMAIN O BY <1>2
<1>6. P \in Seq(Cache)
  <2>1. P = [i \in 1 .. Len(O) |-> P[i]] BY <1>2, <1>3
  <2>2. \A i \in 1 .. Len(O) : P[i] \in Cache BY <1>3, <1>4
  <2>3. P \in [1 .. Len(O) -> Cache] BY <2>1, <2>2
  <2> QED BY <1>3, <2>3
<1>7. Unique(P) BY <1>1, <1>4, <1>5 DEF Unique
<1>8. Extends(caches, P) BY <1>1, <1>4, <1>5 DEF Extends
<1>9. ASSUME NEW i \in DOMAIN P, NEW a \in DOMAIN P[i].has
      PROVE  \/ P[i].name = name /\ a \in DOMAIN f
             \/ i \in DOMAIN caches /\ caches[i].name = P[i].name /\ a \in DOMAIN caches[i].has
  <2>1. (P[i].name = name /\ a \in DOMAIN f) \/ a \in DOMAIN O[i].has BY <1>4, <1>5
  <2>2. (i \in DOMAIN caches /\ O[i] = caches[i]) \/ DOMAIN O[i].has = {}
    BY <1>1, <1>5, EmptyContents
  <2> QED BY <1>4, <1>5, <2>1, <2>2
<1>10. \A a \in DOMAIN f : \E i \in DOMAIN P : P[i].name = name /\ a \in DOMAIN P[i].has
  BY <1>1, <1>4, <1>5
<1> QED BY <1>6, <1>7, <1>8, <1>9, <1>10 DEF P

\* What is left of the caches when a worker sweeps all but its own.
Kept(name) == IF Named(name) = {} THEN <<>> ELSE <<caches[CHOOSE i \in Named(name) : TRUE]>>

\* The one cache of that name is left, if there is one, with all it has.
LEMMA KeptFacts ==
    ASSUME WorkerTypeOK, Unique(caches), NEW name
    PROVE  /\ Kept(name) \in Seq(Cache) /\ Unique(Kept(name))
           /\ \A i \in DOMAIN Kept(name) : Kept(name)[i].name = name
           /\ \A j \in DOMAIN caches : caches[j].name = name =>
                \E i \in DOMAIN Kept(name) : Kept(name)[i] = caches[j]
<1>1. caches \in Seq(Cache) BY DEF WorkerTypeOK
<1>2. CASE Named(name) = {}
  <2>1. Kept(name) = <<>> BY <1>2 DEF Kept
  <2> QED BY <1>2, <2>1 DEF Named, Unique
<1>3. CASE Named(name) # {}
  <2>1. PICK k \in Named(name) : Kept(name) = <<caches[k]>> BY <1>3 DEF Kept
  <2>2. k \in DOMAIN caches /\ caches[k].name = name /\ caches[k] \in Cache BY <1>1 DEF Named
  <2>3. \A j \in DOMAIN caches : caches[j].name = name => j = k BY <2>2 DEF Unique
  <2>4. DOMAIN Kept(name) = {1} /\ Kept(name)[1] = caches[k] BY <2>1
  <2> QED BY <2>1, <2>2, <2>3, <2>4 DEF Unique
<1> QED BY <1>2, <1>3

\* Where some cache has a file, a match gives a version of it.
LEMMA MatchType ==
    ASSUME WorkerTypeOK, NEW a, Holding(a) # {} PROVE match(a) \in Versions
<1> DEFINE H == Holding(a)
<1>1. H \subseteq DOMAIN caches /\ H \subseteq Nat BY DEF Holding, WorkerTypeOK
<1>2. PICK n \in H : \A m \in H : n <= m BY <1>1, LeastNatural
<1>3. PICK i \in H : match(a) = caches[i].has[a] BY <1>2 DEF match
<1>4. a \in DOMAIN caches[i].has BY <1>3 DEF Holding
<1>5. caches[i] \in Cache BY <1>1, <1>3 DEF WorkerTypeOK
<1>6. caches[i].has \in Contents BY <1>5 DEF Cache
<1> QED BY <1>3, <1>4, <1>6, ContentsType

-----------------------------------------------------------------------------
(* Steps                                                                   *)

PageType == [at : {"closed", "loading", "loaded", "partial", "broken"}, controlled : BOOLEAN,
             got : Contents]
WorkerType == [v : 0 .. MaxVersion, at : {"none", "installing", "installed"}, got : Contents]

\* Every step keeps the types.
LEMMA NextType == ASSUME ShellInv, WorkerNext PROVE WorkerTypeOK'
<1> USE DEF PageType, WorkerType
<1>0. WorkerTypeOK /\ Unique(caches) BY DEF ShellInv, Unique
<1> USE <1>0
<1>1. CASE Upgrade BY <1>1, AssetAssumption DEF Upgrade, WorkerTypeOK, Versions
<1>2. CASE NetworkDown
  <2>1. online' \in BOOLEAN BY <1>2, Zenon DEF NetworkDown
  <2> QED BY <1>2, <2>1, AssetAssumption DEF NetworkDown, WorkerTypeOK
<1>3. CASE NetworkUp
  <2>1. online' \in BOOLEAN BY <1>3, Zenon DEF NetworkUp
  <2> QED BY <1>3, <2>1 DEF NetworkUp, WorkerTypeOK
<1>4. CASE Navigate
  <2>1. page' \in PageType BY <1>4, EmptyContents DEF Navigate
  <2> QED BY <1>4, <2>1 DEF Navigate, WorkerTypeOK
<1>5. CASE Put
  <2>1. PICK p \in puts : puts' = puts \ {p} /\ (caches' = put(p.name, With(Empty, p.a, p.v)) \/ caches' = caches)
    BY <1>5 DEF Put
  <2>2. p.name \in Versions /\ p.a \in Assets /\ p.v \in Versions BY DEF WorkerTypeOK, Assets
  <2>3. With(Empty, p.a, p.v) \in Contents BY <2>2, EmptyContents, WithContents
  <2>4. caches' \in Seq(Cache)
    <3>1. CASE caches' = caches BY <3>1 DEF WorkerTypeOK
    <3>2. CASE caches' = put(p.name, With(Empty, p.a, p.v)) BY <2>2, <2>3, <3>2, PutFacts
    <3> QED BY <2>1, <3>1, <3>2
  <2> QED BY <1>5, <2>1, <2>4 DEF Put, WorkerTypeOK
<1>6. CASE Register
  <2>1. server \in Versions BY DEF WorkerTypeOK
  <2>2. caches' \in Seq(Cache) BY <1>6, <2>1, OpenFacts DEF Register
  <2>3. incoming' \in WorkerType
          /\ incoming'.at = "installing" /\ incoming'.v # 0
    BY <1>6, <2>1, EmptyContents DEF Register, Versions
  <2> QED BY <1>6, <2>2, <2>3 DEF Register, WorkerTypeOK
<1>7. CASE InstallFails
  <2>1. incoming' \in WorkerType
          /\ incoming'.at = "none" /\ incoming'.v = 0
    BY <1>7, EmptyContents, AssetAssumption DEF InstallFails, NoWorker
  <2> QED BY <1>7, <2>1 DEF InstallFails, WorkerTypeOK
<1>8. CASE Installed
  <2>1. incoming.v \in Versions /\ incoming.got \in Contents
    BY <1>8 DEF Installed, WorkerTypeOK, Versions
  <2>2. caches' \in Seq(Cache) BY <1>8, <2>1, PutFacts DEF Installed
  <2>3. incoming' = [incoming EXCEPT !.at = "installed"] BY <1>8 DEF Installed
  <2>4. incoming' \in WorkerType
          /\ incoming'.at = "installed" /\ incoming'.v = incoming.v
    BY <2>3 DEF WorkerTypeOK
  <2> QED BY <1>8, <2>1, <2>2, <2>4 DEF Installed, WorkerTypeOK, Versions
<1>9. CASE Activate
  <2>1. incoming' \in WorkerType
          /\ incoming'.at = "none" /\ incoming'.v = 0
    BY <1>9, EmptyContents, AssetAssumption DEF Activate, NoWorker
  <2>2. page' \in PageType
    <3>1. (page.at # "closed") \in BOOLEAN BY Zenon
    <3> QED BY <1>9, <3>1 DEF Activate, WorkerTypeOK
  <2>3. caches' = Kept(incoming.v) BY <1>9 DEF Activate, Kept
  <2>5. caches' \in Seq(Cache) BY <2>3, KeptFacts
  <2>4. active' \in 0 .. MaxVersion BY <1>9 DEF Activate, WorkerTypeOK
  <2> QED BY <1>9, <2>1, <2>2, <2>4, <2>5 DEF Activate, WorkerTypeOK
<1>10. ASSUME NEW a \in Assets, FromCache(a) PROVE WorkerTypeOK'
  <2>1. match(a) \in Versions BY <1>10, MatchType DEF FromCache
  <2>2. With(page.got, a, match(a)) \in Contents BY <2>1, WithContents DEF WorkerTypeOK
  <2>3. page' \in PageType BY <1>10, <2>2 DEF FromCache, Got, WorkerTypeOK
  <2> QED BY <1>10, <2>3 DEF FromCache, WorkerTypeOK
<1>11. ASSUME NEW a \in Assets, FromNetwork(a) PROVE WorkerTypeOK'
  <2>1. With(page.got, a, server) \in Contents BY WithContents DEF WorkerTypeOK
  <2>2. page' \in PageType BY <1>11, <2>1 DEF FromNetwork, Got, WorkerTypeOK
  <2>3. page.controlled => a \in Late /\ active \in Versions
    BY <1>11 DEF FromNetwork, Wanted, Assets, WorkerTypeOK, Versions, ShellInv
  <2>4. puts' \subseteq [name : Versions, a : Late, v : Versions]
    BY <1>11, <2>3 DEF FromNetwork, WorkerTypeOK
  <2> QED BY <1>11, <2>2, <2>4 DEF FromNetwork, WorkerTypeOK
<1>12. ASSUME NEW a \in Assets, NotAtAll(a) PROVE WorkerTypeOK'
  <2>1. page' \in PageType BY <1>12 DEF NotAtAll, WorkerTypeOK
  <2> QED BY <1>12, <2>1 DEF NotAtAll, WorkerTypeOK
<1>13. ASSUME NEW a \in Precached, InstallFetch(a) PROVE WorkerTypeOK'
  <2>1. With(incoming.got, a, server) \in Contents BY WithContents DEF WorkerTypeOK, Assets
  <2>2. incoming' = [incoming EXCEPT !.got = With(incoming.got, a, server)] BY <1>13 DEF InstallFetch
  <2>3. incoming' \in WorkerType
          /\ incoming'.at = incoming.at /\ incoming'.v = incoming.v
    BY <2>1, <2>2 DEF WorkerTypeOK
  <2> QED BY <1>13, <2>3 DEF InstallFetch, WorkerTypeOK
<1> QED BY <1>1, <1>2, <1>3, <1>4, <1>5, <1>6, <1>7, <1>8, <1>9, <1>10, <1>11, <1>12, <1>13
       DEF WorkerNext, Load, Install

-----------------------------------------------------------------------------
(* The shell                                                               *)

\* What is on the shelves stays there while caches are only added to.
LEMMA Grows ==
    ASSUME Extends(caches, caches'), NEW name, Shelved(name) PROVE Shelved(name)'
BY DEF Extends, Shelved

\* A precached file is in the active worker's cache and in that of the worker that
\* is about to take over, and nowhere else.
OnlyOwn ==
    \A i \in DOMAIN caches : DOMAIN caches[i].has \cap Precached # {} =>
         caches[i].name = active \/ (incoming.at = "installed" /\ caches[i].name = incoming.v)

\* The parts of the invariant, the page's files apart: those follow from the
\* active worker's shelf.
LEMMA ShellParts ==
    ShellInv <=> /\ WorkerTypeOK /\ Unique(caches) /\ OnlyOwn
                 /\ active # 0 => Shelved(active)
                 /\ incoming.at = "installed" => Shelved(incoming.v)
                 /\ page.controlled => active # 0
<1>1. ASSUME active # 0 => Shelved(active), page.controlled => active # 0
      PROVE  page.at = "loading" /\ page.controlled => \A a \in Precached : Holding(a) # {}
  BY <1>1 DEF Shelved, Holding
<1> QED BY <1>1 DEF ShellInv, OnlyOwn, Unique

\* The same of the state after a step.
LEMMA NextParts ==
    ASSUME WorkerTypeOK', Unique(caches)', OnlyOwn',
           active' # 0 => Shelved(active)',
           incoming'.at = "installed" => Shelved(incoming.v)',
           page'.controlled => active' # 0
    PROVE  ShellInv'
<1>1. page'.at = "loading" /\ page'.controlled => \A a \in Precached : Holding(a)' # {}
  BY DEF Shelved, Holding
<1> QED BY <1>1 DEF ShellInv, OnlyOwn, Unique

\* Steps that leave the caches and the workers as they are keep the shell, when a
\* page comes under control of an active worker only.
LEMMA Untouched ==
    ASSUME ShellInv, WorkerTypeOK', UNCHANGED <<caches, active, incoming>>,
           page'.controlled => active # 0
    PROVE  ShellInv'
<1>1. /\ Unique(caches) /\ OnlyOwn
      /\ active # 0 => Shelved(active)
      /\ incoming.at = "installed" => Shelved(incoming.v)
  BY ShellParts
<1>2. /\ Unique(caches)' /\ OnlyOwn'
      /\ active' # 0 => Shelved(active)'
      /\ incoming'.at = "installed" => Shelved(incoming.v)'
  BY <1>1 DEF Unique, OnlyOwn, Shelved
<1> QED BY <1>2, NextParts

\* Every step keeps the shell whole.
LEMMA NextShell == ASSUME ShellInv, [WorkerNext]_workerVars PROVE ShellInv'
<1>0. /\ WorkerTypeOK /\ Unique(caches) /\ OnlyOwn
      /\ active # 0 => Shelved(active)
      /\ incoming.at = "installed" => Shelved(incoming.v)
      /\ page.controlled => active # 0
  BY ShellParts
<1>1. CASE UNCHANGED workerVars
  <2>1. WorkerTypeOK' BY <1>0, <1>1 DEF WorkerTypeOK, workerVars
  <2> QED BY <1>0, <1>1, <2>1, Untouched DEF workerVars
<1> SUFFICES ASSUME WorkerNext PROVE ShellInv' BY <1>1
<1>2. WorkerTypeOK' BY NextType
<1>3. CASE Upgrade \/ NetworkDown \/ NetworkUp
  BY <1>0, <1>2, <1>3, Untouched DEF Upgrade, NetworkDown, NetworkUp
<1>4. CASE Navigate
  <2>1. page'.controlled = (active # 0) BY <1>4 DEF Navigate
  <2> QED BY <1>2, <1>4, <2>1, Untouched DEF Navigate
<1>5. CASE Load
  <2>1. PICK a \in Assets : FromCache(a) \/ FromNetwork(a) \/ NotAtAll(a) BY <1>5 DEF Load
  <2>2. page'.controlled = page.controlled
    BY <1>0, <2>1 DEF FromCache, FromNetwork, NotAtAll, Got, WorkerTypeOK
  <2> QED BY <1>0, <1>2, <2>1, <2>2, Untouched DEF FromCache, FromNetwork, NotAtAll
<1>6. CASE (\E a \in Precached : InstallFetch(a)) \/ InstallFails
  <2>1. UNCHANGED <<caches, active, page>> /\ incoming.at = "installing" /\ incoming'.at # "installed"
    BY <1>0, <1>6 DEF InstallFetch, InstallFails, NoWorker, WorkerTypeOK
  <2>2. /\ Unique(caches)' /\ OnlyOwn'
        /\ active' # 0 => Shelved(active)'
        /\ incoming'.at = "installed" => Shelved(incoming.v)'
        /\ page'.controlled => active' # 0
    BY <1>0, <2>1 DEF Unique, OnlyOwn, Shelved
  <2> QED BY <1>2, <2>2, NextParts
<1>7. CASE Put
  <2>1. UNCHANGED <<active, incoming, page>> BY <1>7 DEF Put
  <2>2. PICK p \in puts : caches' = put(p.name, With(Empty, p.a, p.v)) \/ caches' = caches
    BY <1>7 DEF Put
  <2>3. CASE caches' = caches BY <1>0, <1>2, <2>1, <2>3, Untouched
  <2>4. CASE caches' = put(p.name, With(Empty, p.a, p.v))
    <3> DEFINE f == With(Empty, p.a, p.v)
    <3>1. p.name \in Versions /\ p.a \in Late /\ p.a \in Assets /\ p.v \in Versions
      BY <1>0 DEF WorkerTypeOK, Assets
    <3>2. f \in Contents /\ DOMAIN f \cap Precached = {}
      <4>1. f \in Contents /\ DOMAIN f = DOMAIN Empty \cup {p.a}
        BY <3>1, EmptyContents, WithContents
      <4> HIDE DEF f
      <4> QED BY <3>1, <4>1, EmptyContents, AssetAssumption
    <3> HIDE DEF f
    <3>3. /\ Unique(caches)' /\ Extends(caches, caches')
          /\ \A i \in DOMAIN caches' : \A a \in DOMAIN caches'[i].has :
               \/ caches'[i].name = p.name /\ a \in DOMAIN f
               \/ i \in DOMAIN caches /\ caches[i].name = caches'[i].name
                    /\ a \in DOMAIN caches[i].has
      <4>1. caches' = put(p.name, f) BY <2>4 DEF f
      <4> QED BY <1>0, <3>1, <3>2, <4>1, PutFacts DEF Unique
    <3>4. OnlyOwn' BY <1>0, <2>1, <3>2, <3>3 DEF OnlyOwn
    <3>5. /\ active' # 0 => Shelved(active)'
          /\ incoming'.at = "installed" => Shelved(incoming.v)'
          /\ page'.controlled => active' # 0
      <4>1. \A n : Shelved(n) => Shelved(n)' BY <3>3, Grows
      <4> QED BY <1>0, <2>1, <4>1 DEF Shelved
    <3> QED BY <1>2, <3>3, <3>4, <3>5, NextParts
  <2> QED BY <2>2, <2>3, <2>4
<1>8. CASE Register
  <2>1. UNCHANGED <<active, page>> /\ incoming.at # "installed" /\ incoming'.at = "installing"
    BY <1>8 DEF Register, NoWorker
  <2>2. /\ Unique(caches)'
        /\ \A i \in DOMAIN caches : i \in DOMAIN caches' /\ caches'[i] = caches[i]
        /\ \A i \in DOMAIN caches' : i \in DOMAIN caches \/ DOMAIN caches'[i].has = {}
    <3>1. server \in Versions /\ caches' = open(server) BY <1>0, <1>8 DEF Register, WorkerTypeOK
    <3> QED BY <1>0, <3>1, OpenFacts, EmptyContents DEF Unique
  <2>3. OnlyOwn' BY <1>0, <2>1, <2>2 DEF OnlyOwn
  <2>4. active' # 0 => Shelved(active)' BY <1>0, <2>1, <2>2 DEF Shelved
  <2>5. (incoming'.at = "installed" => Shelved(incoming.v)') /\ (page'.controlled => active' # 0)
    BY <1>0, <2>1
  <2> QED BY <1>2, <2>2, <2>3, <2>4, <2>5, NextParts
<1>9. CASE Installed
  <2> DEFINE f == incoming.got
  <2>1. /\ UNCHANGED <<active, page>> /\ incoming.at = "installing" /\ DOMAIN f = Precached
        /\ incoming'.at = "installed" /\ incoming'.v = incoming.v /\ caches' = put(incoming.v, f)
    BY <1>0, <1>9 DEF Installed, WorkerTypeOK
  <2>2. incoming.v \in Versions /\ f \in Contents BY <1>0, <2>1 DEF WorkerTypeOK, Versions
  <2>3. PICK n \in Versions : n = incoming.v BY <2>2
  <2>4. PICK g \in Contents : g = f BY <2>2
  <2> HIDE DEF f
  <2>5. /\ Unique(caches)' /\ Extends(caches, caches')
        /\ \A i \in DOMAIN caches' : \A a \in DOMAIN caches'[i].has :
             \/ caches'[i].name = n
             \/ i \in DOMAIN caches /\ caches[i].name = caches'[i].name
                  /\ a \in DOMAIN caches[i].has
        /\ \A a \in Precached : \E i \in DOMAIN caches' :
             caches'[i].name = n /\ a \in DOMAIN caches'[i].has
    <3>1. caches' = put(n, g) BY <2>1, <2>3, <2>4
    <3>2. DOMAIN g = Precached BY <2>1, <2>4
    <3> QED BY <1>0, <3>1, <3>2, PutFacts DEF Unique
  <2>6. OnlyOwn' BY <1>0, <2>1, <2>3, <2>5 DEF OnlyOwn
  <2>7. incoming'.at = "installed" => Shelved(incoming.v)' BY <2>1, <2>3, <2>5 DEF Shelved
  <2>8. active' # 0 => Shelved(active)'
    <3>1. \A m : Shelved(m) => Shelved(m)' BY <2>5, Grows
    <3> QED BY <1>0, <2>1, <3>1 DEF Shelved
  <2>9. page'.controlled => active' # 0 BY <1>0, <2>1
  <2> QED BY <1>2, <2>5, <2>6, <2>7, <2>8, <2>9, NextParts
<1>10. CASE Activate
  <2>1. /\ incoming.at = "installed" /\ active' = incoming.v /\ incoming'.at = "none"
        /\ caches' = Kept(incoming.v)
    BY <1>10 DEF Activate, Kept, NoWorker
  <2>2. PICK n : n = incoming.v OBVIOUS
  <2>3. n # 0 /\ Shelved(n) BY <1>0, <2>1, <2>2 DEF WorkerTypeOK, Shelved
  <2>4. /\ Unique(caches)' /\ \A i \in DOMAIN caches' : caches'[i].name = n
        /\ \A j \in DOMAIN caches : caches[j].name = n =>
             \E i \in DOMAIN caches' : caches'[i] = caches[j]
    <3>1. caches' = Kept(n) BY <2>1, <2>2
    <3> QED BY <1>0, <3>1, KeptFacts DEF Unique
  <2>5. OnlyOwn' BY <2>1, <2>2, <2>4 DEF OnlyOwn
  <2>6. active' # 0 => Shelved(active)' BY <2>1, <2>2, <2>3, <2>4 DEF Shelved
  <2>7. (incoming'.at = "installed" => Shelved(incoming.v)') /\ (page'.controlled => active' # 0)
    BY <2>1, <2>2, <2>3
  <2> QED BY <1>2, <2>4, <2>5, <2>6, <2>7, NextParts
<1> QED BY <1>3, <1>4, <1>5, <1>6, <1>7, <1>8, <1>9, <1>10 DEF WorkerNext, Install

\* At first there is no cache, no worker and no page.
LEMMA InitShell == ASSUME WorkerInit PROVE ShellInv
<1>1. WorkerTypeOK
  <2>1. online \in BOOLEAN BY Zenon DEF WorkerInit
  <2>2. page \in PageType BY EmptyContents DEF WorkerInit, NoPage, PageType
  <2>3. incoming \in WorkerType /\ incoming.at = "none" /\ incoming.v = 0
    BY EmptyContents, AssetAssumption DEF WorkerInit, NoWorker, WorkerType
  <2> QED BY <2>1, <2>2, <2>3, AssetAssumption DEF WorkerInit, WorkerTypeOK, PageType, WorkerType, Versions
<1>2. DOMAIN caches = {} /\ active = 0 /\ incoming.at = "none" /\ ~page.controlled
  BY DEF WorkerInit, NoWorker, NoPage
<1> QED BY <1>1, <1>2, ShellParts DEF Unique, OnlyOwn

\* A page under control never breaks for want of a precached file, and an upgrade
\* leaves no old shell behind (sw.js 45-72, 108-127): whatever the interleaving of
\* upgrades, outages, installs, late puts and loads, for any set of files.
THEOREM ShellIsWhole == WorkerSpec => []ShellInv
<1>1. WorkerInit => ShellInv BY InitShell
<1>2. ShellInv /\ [WorkerNext]_workerVars => ShellInv' BY NextShell
<1> QED BY <1>1, <1>2, PTL DEF WorkerSpec

-----------------------------------------------------------------------------
(* HistoryPanel: what is shown, however the calls of refresh overlap.      *)

\* Rounding up keeps the order of totals, and there is always a first page.
LEMMA PagesGrow ==
    ASSUME NEW n \in Nat, NEW m \in Nat, n <= m
    PROVE  Pages(n) \in Nat /\ 1 <= Pages(n) /\ Pages(n) <= Pages(m)
<1> DEFINE a == n + PageSize - 1
           b == m + PageSize - 1
<1>1. PageSize \in Nat /\ PageSize >= 1 BY PanelAssumption
<1>2. a \in Nat /\ b \in Nat /\ a <= b BY <1>1
<1>3. a \div PageSize \in Int /\ b \div PageSize \in Int
  <2> HIDE DEF a, b
  <2> QED BY <1>1, <1>2
<1>4. a \div PageSize <= b \div PageSize
  <2> HIDE DEF a, b
  <2>1. PageSize * (a \div PageSize) <= a BY <1>1, <1>2
  <2>2. b < PageSize * (b \div PageSize) + PageSize BY <1>1, <1>2
  <2>3. PICK x \in Int, y \in Int : x = a \div PageSize /\ y = b \div PageSize BY <1>3
  <2>4. PageSize * x <= a /\ b < PageSize * y + PageSize BY <2>1, <2>2, <2>3
  <2>5. PageSize * x < PageSize * y + PageSize /\ PageSize * x \in Int /\ PageSize * y \in Int
    BY <1>1, <1>2, <2>4
  <2>6. x <= y
    <3> SUFFICES ASSUME x >= y + 1 PROVE FALSE OBVIOUS
    <3>1. PageSize * x >= PageSize * (y + 1) BY <1>1
    <3>2. PageSize * (y + 1) = PageSize * y + PageSize BY <1>1
    <3> QED BY <2>5, <3>1, <3>2, <1>1
  <2> QED BY <2>3, <2>6
<1> HIDE DEF a, b
<1> QED BY <1>3, <1>4 DEF Pages, AtLeast, a, b

\* The window of a long pager, entry by entry.
LEMMA Window ==
    ASSUME NEW total \in Nat, NEW cur \in 1 .. total, total > 7
    PROVE  LET W == computePageWindow(total, cur)
               l == AtLeast(cur - 2, 2)
               r == AtMost(cur + 2, total - 1)
               a == IF l > 2 THEN 1 ELSE 0
               b == IF r < total - 1 THEN 1 ELSE 0
               n == r - l + 1
           IN  /\ W \in Seq(0 .. total) /\ Len(W) = n + a + b + 2
               /\ W[1] = 1 /\ W[Len(W)] = total
               /\ a = 1 => W[2] = 0
               /\ \A i \in 1 .. n : W[1 + a + i] = l + i - 1
               /\ b = 1 => W[Len(W) - 1] = 0
<1> DEFINE W == computePageWindow(total, cur)
           l == AtLeast(cur - 2, 2)
           r == AtMost(cur + 2, total - 1)
           a == IF l > 2 THEN 1 ELSE 0
           b == IF r < total - 1 THEN 1 ELSE 0
           n == r - l + 1
           S == 0 .. total
           A == IF l > 2 THEN <<0>> ELSE <<>>
           M == [i \in 1 .. r - l + 1 |-> l + i - 1]
           B == IF r < total - 1 THEN <<0>> ELSE <<>>
<1>1. /\ l \in Int /\ r \in Int /\ 2 <= l /\ l <= r /\ r <= total - 1 /\ n \in Nat
      /\ l <= cur \/ cur = 1
      /\ r >= cur \/ cur = total
  BY DEF AtLeast, AtMost
<1>2. W = <<1>> \o A \o M \o B \o <<total>>
  <2>1. ~(total <= 7) OBVIOUS
  <2> QED BY <2>1, Zenon DEF computePageWindow
<1> HIDE DEF l, r, W
<1>3. A \in Seq(S) /\ Len(A) = a /\ (a = 1 => A[1] = 0) /\ a \in {0, 1}
  <2>0. <<0>> \in Seq(S) /\ <<>> \in Seq(S) /\ Len(<<0>>) = 1 /\ Len(<<>>) = 0 /\ <<0>>[1] = 0
    OBVIOUS
  <2>1. CASE l > 2
    <3>1. A = <<0>> /\ a = 1 BY <2>1
    <3> HIDE DEF A, a
    <3> QED BY <2>0, <3>1
  <2>2. CASE ~(l > 2)
    <3>1. A = <<>> /\ a = 0 BY <2>2
    <3> HIDE DEF A, a
    <3> QED BY <2>0, <3>1
  <2> QED BY <2>1, <2>2
<1>4. B \in Seq(S) /\ Len(B) = b /\ (b = 1 => B[1] = 0) /\ b \in {0, 1}
  <2>0. <<0>> \in Seq(S) /\ <<>> \in Seq(S) /\ Len(<<0>>) = 1 /\ Len(<<>>) = 0 /\ <<0>>[1] = 0
    OBVIOUS
  <2>1. CASE r < total - 1
    <3>1. B = <<0>> /\ b = 1 BY <2>1
    <3> HIDE DEF B, b
    <3> QED BY <2>0, <3>1
  <2>2. CASE ~(r < total - 1)
    <3>1. B = <<>> /\ b = 0 BY <2>2
    <3> HIDE DEF B, b
    <3> QED BY <2>0, <3>1
  <2> QED BY <2>1, <2>2
<1>5. M \in Seq(S) /\ Len(M) = n /\ \A i \in 1 .. n : M[i] = l + i - 1 BY <1>1
<1>6. <<1>> \in Seq(S) /\ Len(<<1>>) = 1 /\ <<1>>[1] = 1
        /\ <<total>> \in Seq(S) /\ Len(<<total>>) = 1 /\ <<total>>[1] = total
  OBVIOUS
<1> HIDE DEF A, B, M, S, a, b, n
<1> DEFINE P == <<1>> \o A
           Q == P \o M
           R == Q \o B
<1>7. P \in Seq(S) /\ Len(P) = 1 + a /\ P[1] = 1 /\ (a = 1 => P[2] = 0)
  <2>1. /\ P \in Seq(S) /\ Len(P) = Len(<<1>>) + Len(A)
        /\ \A i \in 1 .. Len(<<1>>) + Len(A) :
             P[i] = IF i <= Len(<<1>>) THEN <<1>>[i] ELSE A[i - Len(<<1>>)]
    BY <1>3, <1>6, ConcatProperties
  <2> HIDE DEF P
  <2> QED BY <1>3, <1>6, <2>1
<1> HIDE DEF P
<1>8. /\ Q \in Seq(S) /\ Len(Q) = 1 + a + n /\ Q[1] = 1 /\ (a = 1 => Q[2] = 0)
      /\ \A i \in 1 .. n : Q[1 + a + i] = l + i - 1
  <2>1. /\ Q \in Seq(S) /\ Len(Q) = Len(P) + Len(M)
        /\ \A i \in 1 .. Len(P) + Len(M) : Q[i] = IF i <= Len(P) THEN P[i] ELSE M[i - Len(P)]
    BY <1>5, <1>7, ConcatProperties
  <2> HIDE DEF Q
  <2>2. Len(Q) = 1 + a + n BY <1>5, <1>7, <2>1
  <2>3. Q[1] = 1 /\ (a = 1 => Q[2] = 0) BY <1>1, <1>3, <1>5, <1>7, <2>1
  <2>4. ASSUME NEW i \in 1 .. n PROVE Q[1 + a + i] = l + i - 1
    <3>1. 1 + a + i \in 1 .. Len(P) + Len(M) /\ ~(1 + a + i <= Len(P)) /\ 1 + a + i - Len(P) = i
      BY <1>1, <1>3, <1>5, <1>7
    <3>2. PICK k \in 1 .. Len(P) + Len(M) : k = 1 + a + i BY <3>1
    <3>3. Q[k] = M[k - Len(P)] BY <2>1, <3>1, <3>2
    <3>4. k - Len(P) = i
      <4>1. Len(P) = 1 + a /\ a \in Int /\ i \in Int BY <1>3, <1>7
      <4> QED BY <3>2, <4>1
    <3>5. Q[k] = M[i] BY <3>3, <3>4
    <3> QED BY <1>5, <3>2, <3>5
  <2> QED BY <2>1, <2>2, <2>3, <2>4
<1> HIDE DEF Q
<1>9. /\ R \in Seq(S) /\ Len(R) = 1 + a + n + b
      /\ \A i \in 1 .. 1 + a + n : R[i] = Q[i]
      /\ b = 1 => R[Len(R)] = 0
  <2>1. /\ R \in Seq(S) /\ Len(R) = Len(Q) + Len(B)
        /\ \A i \in 1 .. Len(Q) + Len(B) : R[i] = IF i <= Len(Q) THEN Q[i] ELSE B[i - Len(Q)]
    BY <1>4, <1>8, ConcatProperties
  <2> HIDE DEF R
  <2> QED BY <1>1, <1>3, <1>4, <1>8, <2>1
<1> HIDE DEF R
<1>10. /\ W \in Seq(S) /\ Len(W) = 2 + a + n + b
       /\ \A i \in 1 .. 1 + a + n + b : W[i] = R[i]
       /\ W[Len(W)] = total
  <2>1. W = R \o <<total>> BY <1>2 DEF R, Q, P
  <2>2. /\ W \in Seq(S) /\ Len(W) = Len(R) + Len(<<total>>)
        /\ \A i \in 1 .. Len(R) + Len(<<total>>) :
             W[i] = IF i <= Len(R) THEN R[i] ELSE <<total>>[i - Len(R)]
    BY <1>6, <1>9, <2>1, ConcatProperties
  <2> QED BY <1>1, <1>3, <1>4, <1>6, <1>9, <2>2
<1>11. \A i \in 1 .. 1 + a + n : W[i] = Q[i] BY <1>1, <1>3, <1>4, <1>9, <1>10
<1>12. W[1] = 1 /\ (a = 1 => W[2] = 0) BY <1>1, <1>3, <1>8, <1>11
<1>13. ASSUME NEW i \in 1 .. n PROVE W[1 + a + i] = l + i - 1
  BY <1>1, <1>3, <1>8, <1>11
<1>14. b = 1 => W[Len(W) - 1] = 0 BY <1>1, <1>3, <1>4, <1>9, <1>10
<1>15. Len(W) = n + a + b + 2 BY <1>1, <1>3, <1>4, <1>10
<1>16. /\ W \in Seq(S) /\ Len(W) = n + a + b + 2
       /\ W[1] = 1 /\ W[Len(W)] = total
       /\ a = 1 => W[2] = 0
       /\ \A i \in 1 .. n : W[1 + a + i] = l + i - 1
       /\ b = 1 => W[Len(W) - 1] = 0
  BY <1>10, <1>12, <1>13, <1>14, <1>15
<1> QED BY <1>16, Zenon DEF W, S, l, r, a, b, n

\* Every window offers first, last and current page, and skips no page silently.
LEMMA WindowComplete ==
    ASSUME NEW total \in Nat, NEW cur \in 1 .. total
    PROVE  /\ computePageWindow(total, cur) \in Seq(0 .. total)
           /\ Len(computePageWindow(total, cur)) >= 1
           /\ Complete(computePageWindow(total, cur), total, cur)
<1> DEFINE W == computePageWindow(total, cur)
<1>1. CASE total <= 7
  <2>1. W = [i \in 1 .. total |-> i] BY <1>1, Zenon DEF computePageWindow
  <2> HIDE DEF W
  <2>2. W \in Seq(0 .. total) /\ Len(W) = total /\ \A i \in 1 .. total : W[i] = i BY <2>1
  <2>3. Complete(W, total, cur) BY <2>2 DEF Complete
  <2> QED BY <2>2, <2>3 DEF W
<1>2. CASE total > 7
  <2> DEFINE l == AtLeast(cur - 2, 2)
             r == AtMost(cur + 2, total - 1)
             a == IF l > 2 THEN 1 ELSE 0
             b == IF r < total - 1 THEN 1 ELSE 0
             n == r - l + 1
  <2>1. /\ W \in Seq(0 .. total) /\ Len(W) = n + a + b + 2
        /\ W[1] = 1 /\ W[Len(W)] = total
        /\ a = 1 => W[2] = 0
        /\ \A i \in 1 .. n : W[1 + a + i] = l + i - 1
        /\ b = 1 => W[Len(W) - 1] = 0
    BY <1>2, Window, Zenon
  <2>2. /\ l \in Int /\ r \in Int /\ 2 <= l /\ l <= r /\ r <= total - 1
        /\ (l <= cur /\ cur <= r) \/ cur = 1 \/ cur = total
    BY <1>2 DEF AtLeast, AtMost
  <2>3. a \in {0, 1} /\ b \in {0, 1} /\ (a = 0 => l = 2) /\ (a = 1 => l > 2)
          /\ (b = 0 => r = total - 1) /\ (b = 1 => r < total - 1)
    <3> HIDE DEF l, r
    <3> QED BY <2>2
  <2>4. n \in Nat /\ n = r - l + 1 /\ n >= 1
    <3> HIDE DEF l, r
    <3> QED BY <2>2
  <2> HIDE DEF W, l, r, a, b, n
  <2>5. Len(W) \in Nat /\ Len(W) >= 3 BY <2>1, <2>3, <2>4
  <2>k. Len(W) = n + a + b + 2 /\ n \in Int /\ n >= 1 /\ a \in 0 .. 1 /\ b \in 0 .. 1
    BY <2>1, <2>3, <2>4
  <2>6. \E i \in DOMAIN W : W[i] = cur
    <3>0. DOMAIN W = 1 .. Len(W) BY <2>1
    <3>1. CASE cur = 1 BY <2>1, <2>5, <3>0, <3>1
    <3>2. CASE cur = total BY <2>1, <2>5, <3>0, <3>2
    <3>3. CASE l <= cur /\ cur <= r
      <4>1. PICK i \in 1 .. n : i = cur - l + 1 BY <2>2, <2>4, <3>3
      <4>2. W[1 + a + i] = l + i - 1 BY <2>1
      <4>4. 1 + a + i \in 1 .. Len(W) BY <2>k
      <4>3. l + i - 1 = cur BY <2>2, <4>1
      <4> QED BY <3>0, <4>2, <4>3, <4>4
    <3> QED BY <2>2, <3>1, <3>2, <3>3
  <2>7. ASSUME NEW i \in 1 .. Len(W) - 1
        PROVE  IF W[i] = 0 THEN W[i - 1] + 1 < W[i + 1] ELSE W[i + 1] \in {0, W[i] + 1}
    \* The entries by position: the first page, an ellipsis, the middle, an
    \* ellipsis, the last page.
    <3>1. CASE i = 1 /\ a = 1
      <4>1. W[i] = 1 /\ W[i + 1] = 0 BY <2>1, <3>1
      <4> QED BY <4>1
    <3>2. CASE i = 1 /\ a = 0
      <4>1. 1 \in 1 .. n /\ l + 1 - 1 = 2 BY <2>2, <2>3, <2>4, <3>2
      <4>2. W[1 + a + 1] = 2 BY <2>1, <4>1
      <4>3. W[i] = 1 /\ W[i + 1] = 2 BY <2>1, <3>2, <4>2
      <4> QED BY <4>3
    <3>3. CASE i = 2 /\ a = 1
      <4>1. 1 \in 1 .. n /\ l + 1 - 1 = l BY <2>2, <2>4
      <4>2. W[1 + a + 1] = l BY <2>1, <4>1
      <4>3. W[i] = 0 /\ W[i - 1] = 1 /\ W[i + 1] = l BY <2>1, <3>3, <4>2
      <4> QED BY <2>2, <2>3, <3>3, <4>3
    <3>4. CASE i >= 2 + a /\ i <= a + n
      <4>1. PICK j \in 1 .. n : j = i - 1 - a BY <2>k, <3>4
      <4>2. j + 1 \in 1 .. n /\ 1 + a + j = i /\ 1 + a + (j + 1) = i + 1 BY <2>k, <3>4, <4>1
      <4>3. W[i] = l + j - 1 BY <2>1, <4>2
      <4>4. W[i + 1] = l + (j + 1) - 1 BY <2>1, <4>2
      <4>5. W[i] # 0 /\ W[i + 1] = W[i] + 1 BY <2>2, <4>3, <4>4
      <4> QED BY <4>5
    <3>5. CASE i = 1 + a + n /\ b = 1
      <4>1. n \in 1 .. n /\ l + n - 1 = r BY <2>2, <2>4
      <4>2. W[1 + a + n] = r BY <2>1, <4>1
      <4>3. i + 1 = Len(W) - 1 BY <2>k, <3>5
      <4>4. W[i] = r /\ W[i + 1] = 0 BY <2>1, <3>5, <4>2, <4>3
      <4> QED BY <2>2, <4>4
    <3>6. CASE i = 1 + a + n /\ b = 0
      <4>1. n \in 1 .. n /\ l + n - 1 = r BY <2>2, <2>4
      <4>2. W[1 + a + n] = r BY <2>1, <4>1
      <4>3. i + 1 = Len(W) BY <2>k, <3>6
      <4>4. W[i] = r /\ W[i + 1] = total BY <2>1, <3>6, <4>2, <4>3
      <4> QED BY <2>2, <2>3, <3>6, <4>4
    <3>7. CASE i = 2 + a + n /\ b = 1
      <4>1. n \in 1 .. n /\ l + n - 1 = r BY <2>2, <2>4
      <4>2. W[1 + a + n] = r BY <2>1, <4>1
      <4>3. i = Len(W) - 1 /\ i + 1 = Len(W) /\ i - 1 = 1 + a + n BY <2>k, <3>7
      <4>4. W[i] = 0 /\ W[i - 1] = r /\ W[i + 1] = total BY <2>1, <3>7, <4>2, <4>3
      <4> QED BY <2>2, <2>3, <3>7, <4>4
    <3>8. \/ i = 1 \/ (i = 2 /\ a = 1) \/ (i >= 2 + a /\ i <= a + n)
          \/ i = 1 + a + n \/ (i = 2 + a + n /\ b = 1)
      BY <2>k
    <3> QED BY <2>3, <3>1, <3>2, <3>3, <3>4, <3>5, <3>6, <3>7, <3>8
  <2>8. Complete(W, total, cur) BY <2>1, <2>6, <2>7 DEF Complete
  <2> QED BY <2>1, <2>5, <2>8 DEF W
<1> QED BY <1>1, <1>2

\* The types without the two flags.
Call == [pc : {"idle", "sent", "served"}, page : 1 .. Pages(MaxRows), total : 0 .. MaxRows]

PanelValues ==
    /\ rows \in 0 .. MaxRows /\ changes \in 0 .. MaxChanges
    /\ currentPage \in 1 .. Pages(MaxRows) /\ totalRows \in 0 .. MaxRows
    /\ body \in -1 .. Pages(MaxRows)
    /\ pager \in Seq(0 .. Pages(MaxRows)) /\ pagerPage \in 1 .. Pages(MaxRows)
    /\ call \in [Calls -> Call]

\* The types are those of the flags and of the other values.
LEMMA PanelTypeParts == PanelTypeOK <=> PanelValues /\ refreshBtn \in BOOLEAN /\ overlapped \in BOOLEAN
BY Zenon DEF PanelTypeOK, PanelValues, Call

\* The pages of any total the table can have.
LEMMA PagesOf ==
    ASSUME NEW n \in 0 .. MaxRows
    PROVE  Pages(n) \in 1 .. Pages(MaxRows) /\ Pages(n) \in Nat /\ Pages(MaxRows) \in Nat
<1>1. n \in Nat /\ MaxRows \in Nat /\ n <= MaxRows BY PanelAssumption
<1> QED BY <1>1, PagesGrow

\* A new call disables the button and is alone or marked as overlapping.
LEMMA Sent ==
    ASSUME PanelInv, NEW c \in Calls, NEW p \in 1 .. Pages(MaxRows), Send(c, p),
           p = currentPage'
    PROVE  call' \in [Calls -> Call] /\ overlapped' \in BOOLEAN
             /\ ButtonComesBack' /\ ShowsCurrentPage' /\ LoneCall'
<1>0. call \in [Calls -> Call] BY PanelTypeParts DEF PanelInv, PanelValues
<1> DEFINE new == [pc |-> "sent", page |-> p, total |-> 0]
<1>1. call' = [call EXCEPT ![c] = new] /\ call[c].pc = "idle" BY DEF Send
<1>2. overlapped' = \E d \in Calls : call[d].pc # "idle" BY DEF Send
<1>3. new \in Call /\ new.pc = "sent" /\ new.page = p BY PanelAssumption DEF Call
<1> HIDE DEF new
<1>4. call' \in [Calls -> Call] /\ call'[c] = new /\ \A d \in Calls \ {c} : call'[d] = call[d]
  BY <1>0, <1>1, <1>3
<1>5. overlapped' \in BOOLEAN BY <1>2, Zenon
<1>6. ~(\A d \in Calls : call'[d].pc = "idle") BY <1>3, <1>4
<1>7. ButtonComesBack' /\ ShowsCurrentPage' BY <1>6 DEF ButtonComesBack, ShowsCurrentPage
<1>8. LoneCall'
  <2> SUFFICES ASSUME ~overlapped' PROVE LoneCall' BY DEF LoneCall
  <2>1. \A d \in Calls : call[d].pc = "idle" BY <1>2, Zenon
  <2>2. \A d \in Calls \ {c} : call'[d].pc = "idle" BY <1>4, <2>1
  <2> QED BY <1>3, <1>4, <2>2 DEF LoneCall
<1> QED BY <1>4, <1>5, <1>7, <1>8

\* A call ends, with an error or with the rows of its page.
LEMMA Ended ==
    ASSUME PanelInv, NEW c \in Calls, call[c].pc # "idle", Idle(c), refreshBtn' = TRUE,
           UNCHANGED <<overlapped, currentPage>>,
           body' \in {-1, 0, call[c].page}
    PROVE  call' \in [Calls -> Call] /\ ButtonComesBack' /\ ShowsCurrentPage' /\ LoneCall'
<1>0. call \in [Calls -> Call] BY PanelTypeParts DEF PanelInv, PanelValues
<1>1. NoCall \in Call /\ NoCall.pc = "idle"
  <2>1. 0 \in 0 .. MaxRows BY PanelAssumption
  <2>2. 1 \in 1 .. Pages(MaxRows) BY <2>1, PagesOf
  <2> QED BY <2>1, <2>2 DEF NoCall, Call
<1>2. call' \in [Calls -> Call] /\ call'[c] = NoCall /\ \A d \in Calls \ {c} : call'[d] = call[d]
  BY <1>0, <1>1 DEF Idle
<1>3. ButtonComesBack' BY Zenon DEF ButtonComesBack
<1>4. ShowsCurrentPage'
  <2> SUFFICES ASSUME ~overlapped', body' > 0 PROVE body' = currentPage' BY DEF ShowsCurrentPage
  <2>1. ~overlapped OBVIOUS
  <2>2. call[c].page = currentPage BY <2>1 DEF PanelInv, LoneCall
  <2>3. body' = call[c].page OBVIOUS
  <2> QED BY <2>2, <2>3
<1>5. LoneCall'
  <2> SUFFICES ASSUME ~overlapped' PROVE \A d \in Calls : call'[d].pc = "idle"
    BY Zenon DEF LoneCall
  <2>1. ~overlapped OBVIOUS
  <2>2. \A d \in Calls \ {c} : call[d].pc = "idle" BY <2>1 DEF PanelInv, LoneCall
  <2> QED BY <1>1, <1>2, <2>2
<1> QED BY <1>2, <1>3, <1>4, <1>5

\* mountHistory: a first call, alone.
LEMMA InitPanel == PanelInit => PanelInv
<1> SUFFICES ASSUME PanelInit PROVE PanelInv OBVIOUS
<1>1. 0 \in 0 .. MaxRows /\ 0 \in 0 .. MaxChanges BY PanelAssumption
<1>2. Pages(0) \in Nat /\ 1 <= Pages(0) /\ 1 \in 1 .. Pages(MaxRows) BY <1>1, PagesOf
<1>3. PICK c \in Calls : call = [d \in Calls |-> IF d = c THEN [NoCall EXCEPT !.pc = "sent"]
                                                         ELSE NoCall]
  BY DEF PanelInit
<1>4. [NoCall EXCEPT !.pc = "sent"] \in Call /\ NoCall \in Call
        /\ [NoCall EXCEPT !.pc = "sent"].pc = "sent" /\ [NoCall EXCEPT !.pc = "sent"].page = 1
        /\ NoCall.pc = "idle"
  BY <1>1, <1>2 DEF NoCall, Call
<1>5. call \in [Calls -> Call] /\ call[c].pc = "sent" /\ call[c].page = 1
        /\ \A d \in Calls \ {c} : call[d].pc = "idle"
  BY <1>3, <1>4
<1>6. PanelTypeOK
  <2>1. PanelValues
    <3>1. Pages(MaxRows) \in Nat BY <1>1, PagesOf
    <3>2. 0 \in -1 .. Pages(MaxRows) BY <3>1
    <3>3. <<>> \in Seq(0 .. Pages(MaxRows)) OBVIOUS
    <3> QED BY <1>1, <1>2, <1>5, <3>2, <3>3 DEF PanelInit, PanelValues
  <2>2. refreshBtn \in BOOLEAN /\ overlapped \in BOOLEAN BY Zenon DEF PanelInit
  <2> QED BY <2>1, <2>2, PanelTypeParts
<1>7. CurrentPageExists BY <1>2 DEF PanelInit, CurrentPageExists
<1>8. ButtonComesBack /\ ShowsCurrentPage BY <1>5 DEF ButtonComesBack, ShowsCurrentPage
<1>9. LoneCall BY <1>5 DEF PanelInit, LoneCall
<1> QED BY <1>6, <1>7, <1>8, <1>9 DEF PanelInv

\* The answer is rendered: rows of the page asked for, and a complete pager.
LEMMA Rendered ==
    ASSUME PanelInv, NEW t \in Call, currentPage <= Pages(t.total), Render(t)
    PROVE  /\ body' \in {0, t.page} /\ body' \in -1 .. Pages(MaxRows)
           /\ pager' \in Seq(0 .. Pages(MaxRows)) /\ pagerPage' \in 1 .. Pages(MaxRows)
           /\ pager' # <<>> => Complete(pager', pager'[Len(pager')], pagerPage')
<1>1. t.page \in 1 .. Pages(MaxRows) /\ t.total \in 0 .. MaxRows BY DEF Call
<1>2. PICK k \in Nat : k = Pages(t.total) /\ k \in 1 .. Pages(MaxRows) /\ Pages(MaxRows) \in Nat
  BY <1>1, PagesOf
<1>3. currentPage \in 1 .. k /\ currentPage \in 1 .. Pages(MaxRows)
  BY <1>2, PanelTypeParts DEF PanelInv, PanelValues
<1>4. body' \in {0, t.page} BY DEF Render
<1>5. pagerPage' = currentPage BY DEF Render
<1>6. pager' \in {<<>>, computePageWindow(k, currentPage)} BY <1>2 DEF Render
<1>7. /\ computePageWindow(k, currentPage) \in Seq(0 .. k)
      /\ Complete(computePageWindow(k, currentPage), k, currentPage)
  BY <1>3, WindowComplete
<1>8. Seq(0 .. k) \subseteq Seq(0 .. Pages(MaxRows)) BY <1>2
<1>9. computePageWindow(k, currentPage)[Len(computePageWindow(k, currentPage))] = k
  BY <1>7 DEF Complete
<1>10. body' \in -1 .. Pages(MaxRows) BY <1>1, <1>2, <1>4
<1>11. pager' \in Seq(0 .. Pages(MaxRows))
  <2>1. <<>> \in Seq(0 .. Pages(MaxRows)) OBVIOUS
  <2>2. computePageWindow(k, currentPage) \in Seq(0 .. Pages(MaxRows)) BY <1>7, <1>8, Zenon
  <2> QED BY <1>6, <2>1, <2>2, Zenon
<1>12. pager' # <<>> => Complete(pager', pager'[Len(pager')], pagerPage')
  BY <1>5, <1>6, <1>7, <1>9
<1> QED BY <1>3, <1>4, <1>5, <1>10, <1>11, <1>12

\* The pager on display is complete for the total and the page it was drawn for,
\* whose page may no longer be current.
PagerOK == pager # <<>> => Complete(pager, pager[Len(pager)], pagerPage)

\* Every step keeps the panel's invariant, and the pager complete.
LEMMA NextPanel == ASSUME PanelInv, PagerOK, [PanelNext]_panelVars PROVE PanelInv' /\ PagerOK'
<1>v. PanelValues /\ refreshBtn \in BOOLEAN /\ overlapped \in BOOLEAN BY PanelTypeParts DEF PanelInv
<1>p. Pages(MaxRows) \in Nat /\ 0 \in -1 .. Pages(MaxRows) /\ -1 \in -1 .. Pages(MaxRows)
  <2>1. 0 \in 0 .. MaxRows BY PanelAssumption
  <2>2. Pages(MaxRows) \in Nat BY <2>1, PagesOf
  <2> QED BY <2>2
<1>e. <<>> \in Seq(0 .. Pages(MaxRows)) OBVIOUS
<1>1. CASE UNCHANGED panelVars
  <2>1. UNCHANGED <<rows, changes, currentPage, totalRows, body, pager, pagerPage, refreshBtn,
                    call, overlapped>>
    BY <1>1 DEF panelVars
  <2>2. PanelInv' BY <2>1, Zenon DEF PanelInv, PanelTypeOK, CurrentPageExists, ButtonComesBack,
                                     ShowsCurrentPage, LoneCall
  <2> QED BY <2>1, <2>2, Zenon DEF PagerOK
<1>2. CASE TableChanges
  <2>1. UNCHANGED <<currentPage, totalRows, body, pager, pagerPage, refreshBtn, call, overlapped>>
    BY <1>2 DEF TableChanges
  <2>2. rows' \in 0 .. MaxRows /\ changes' \in 0 .. MaxChanges
    BY <1>2, <1>v, PanelAssumption DEF TableChanges, PanelValues
  <2>3. PanelTypeOK' BY <2>1, <2>2, Zenon DEF PanelInv, PanelTypeOK
  <2> QED BY <2>1, <2>3, Zenon DEF PanelInv, CurrentPageExists, ButtonComesBack,
                                   ShowsCurrentPage, LoneCall, PagerOK
<1>3. ASSUME NEW c \in Calls, refresh(c) PROVE PanelInv' /\ PagerOK'
  <2>1. /\ Send(c, currentPage) /\ refreshBtn' = FALSE
        /\ UNCHANGED <<rows, changes, currentPage, totalRows, body, pager, pagerPage>>
    BY <1>3 DEF refresh, table
  <2>2. currentPage \in 1 .. Pages(MaxRows) BY <1>v DEF PanelValues
  <2>3. /\ call' \in [Calls -> Call] /\ overlapped' \in BOOLEAN
        /\ ButtonComesBack' /\ ShowsCurrentPage' /\ LoneCall'
    BY <2>1, <2>2, Sent
  <2>4. PanelValues' BY <1>v, <2>1, <2>3 DEF PanelValues
  <2>5. PanelTypeOK' BY <2>1, <2>3, <2>4, PanelTypeParts, Zenon DEF PanelTypeOK, PanelValues, Call
  <2>6. CurrentPageExists' BY <2>1 DEF PanelInv, CurrentPageExists
  <2> QED BY <2>1, <2>3, <2>5, <2>6 DEF PanelInv, PagerOK
<1>4. ASSUME NEW c \in Calls, setLang(c) PROVE PanelInv' /\ PagerOK'
  <2>1. /\ Send(c, currentPage) /\ refreshBtn' = FALSE /\ body' = 0 /\ pager' = <<>>
        /\ UNCHANGED <<rows, changes, currentPage, totalRows, pagerPage>>
    BY <1>4 DEF setLang, table
  <2>2. currentPage \in 1 .. Pages(MaxRows) BY <1>v DEF PanelValues
  <2>3. /\ call' \in [Calls -> Call] /\ overlapped' \in BOOLEAN
        /\ ButtonComesBack' /\ ShowsCurrentPage' /\ LoneCall'
    BY <2>1, <2>2, Sent
  <2>4. PanelValues' BY <1>v, <1>p, <1>e, <2>1, <2>3 DEF PanelValues
  <2>5. PanelTypeOK' BY <2>1, <2>3, <2>4, PanelTypeParts, Zenon DEF PanelTypeOK, PanelValues, Call
  <2>6. CurrentPageExists' BY <2>1 DEF PanelInv, CurrentPageExists
  <2> QED BY <2>1, <2>3, <2>5, <2>6 DEF PanelInv, PagerOK
<1>5. ASSUME NEW c \in Calls, NEW n \in 0 .. Pages(MaxRows) + 1, goToPage(c, n)
      PROVE  PanelInv' /\ PagerOK'
  <2> DEFINE target == AtMost(AtLeast(n, 1), Pages(totalRows))
  <2>1. /\ Send(c, target) /\ refreshBtn' = FALSE /\ currentPage' = target
        /\ UNCHANGED <<rows, changes, totalRows, body, pager, pagerPage>>
    BY <1>5 DEF goToPage, table
  <2>2. totalRows \in 0 .. MaxRows BY <1>v DEF PanelValues
  <2>3. target \in 1 .. Pages(totalRows) /\ target \in 1 .. Pages(MaxRows)
    <3>1. Pages(totalRows) \in 1 .. Pages(MaxRows) BY <2>2, PagesOf
    <3> QED BY <1>p, <3>1 DEF AtMost, AtLeast
  <2> HIDE DEF target
  <2>4. /\ call' \in [Calls -> Call] /\ overlapped' \in BOOLEAN
        /\ ButtonComesBack' /\ ShowsCurrentPage' /\ LoneCall'
    BY <2>1, <2>3, Sent
  <2>5. PanelValues' BY <1>v, <2>1, <2>3, <2>4 DEF PanelValues
  <2>6. PanelTypeOK' BY <2>1, <2>4, <2>5, PanelTypeParts, Zenon DEF PanelTypeOK, PanelValues, Call
  <2>7. CurrentPageExists' BY <2>1, <2>3 DEF CurrentPageExists
  <2> QED BY <2>1, <2>4, <2>6, <2>7 DEF PanelInv, PagerOK
<1>6. ASSUME NEW c \in Calls, Serve(c) PROVE PanelInv' /\ PagerOK'
  <2> DEFINE s == [call[c] EXCEPT !.pc = "served", !.total = rows]
  <2>1. /\ call[c].pc = "sent" /\ call' = [call EXCEPT ![c] = s]
        /\ UNCHANGED <<rows, changes, currentPage, totalRows, body, pager, pagerPage, refreshBtn,
                       overlapped>>
    BY <1>6 DEF Serve, table
  <2>2. call \in [Calls -> Call] /\ rows \in 0 .. MaxRows BY <1>v DEF PanelValues
  <2>3. s \in Call /\ s.pc = "served" /\ s.page = call[c].page BY <2>2 DEF Call
  <2> HIDE DEF s
  <2>4. call' \in [Calls -> Call] /\ call'[c] = s /\ \A d \in Calls \ {c} : call'[d] = call[d]
    BY <2>1, <2>2, <2>3
  <2>5. PanelTypeOK'
    <3>1. PanelValues' BY <1>v, <2>1, <2>4 DEF PanelValues
    <3> QED BY <1>v, <2>1, <3>1, Zenon DEF PanelTypeOK, PanelValues, Call
  <2>6. CurrentPageExists' BY <2>1 DEF PanelInv, CurrentPageExists
  <2>7. ~(\A d \in Calls : call'[d].pc = "idle") BY <2>3, <2>4
  <2>8. ButtonComesBack' /\ ShowsCurrentPage' BY <2>7 DEF ButtonComesBack, ShowsCurrentPage
  <2>9. LoneCall'
    <3> SUFFICES ASSUME ~overlapped' PROVE LoneCall' BY DEF LoneCall
    <3>1. ~overlapped BY <2>1
    <3>2. call[c].page = currentPage /\ \A d \in Calls \ {c} : call[d].pc = "idle"
      BY <2>1, <3>1 DEF PanelInv, LoneCall
    <3>3. call'[c].page = currentPage' /\ \A d \in Calls \ {c} : call'[d].pc = "idle"
      BY <2>1, <2>3, <2>4, <3>2
    <3> QED BY <3>3 DEF LoneCall
  <2> QED BY <2>1, <2>5, <2>6, <2>8, <2>9 DEF PanelInv, PagerOK
<1>7. ASSUME NEW c \in Calls, Fail(c) PROVE PanelInv' /\ PagerOK'
  <2>1. /\ call[c].pc # "idle" /\ Idle(c) /\ body' = -1 /\ pager' = <<>> /\ refreshBtn' = TRUE
        /\ UNCHANGED <<rows, changes, currentPage, totalRows, pagerPage, overlapped>>
    BY <1>7 DEF Fail, table
  <2>2. call' \in [Calls -> Call] /\ ButtonComesBack' /\ ShowsCurrentPage' /\ LoneCall'
    BY <2>1, Ended
  <2>3. PanelValues' BY <1>v, <1>p, <1>e, <2>1, <2>2 DEF PanelValues
  <2>4. PanelTypeOK' BY <1>v, <2>1, <2>3, Zenon DEF PanelTypeOK, PanelValues, Call
  <2>5. CurrentPageExists' BY <2>1 DEF PanelInv, CurrentPageExists
  <2> QED BY <2>1, <2>2, <2>4, <2>5 DEF PanelInv, PagerOK
<1>8. ASSUME NEW c \in Calls, Deliver(c) PROVE PanelInv' /\ PagerOK'
  <2> DEFINE t == call[c]
             k == Pages(t.total)
  <2>0. call \in [Calls -> Call] BY <1>v DEF PanelValues
  <2>1. t \in Call /\ t.pc = "served" /\ t.total \in 0 .. MaxRows BY <1>8, <2>0 DEF Deliver, Call
  <2>2. k \in 1 .. Pages(MaxRows) BY <2>1, PagesOf
  <2>3. /\ totalRows' = t.total /\ refreshBtn' = TRUE
        /\ UNCHANGED <<rows, changes, overlapped>>
    BY <1>8 DEF Deliver, table
  <2>4. \/ /\ currentPage > k /\ currentPage' = k
           /\ call' = [call EXCEPT ![c] = [pc |-> "sent", page |-> k, total |-> 0]]
           /\ UNCHANGED <<body, pager, pagerPage>>
        \/ /\ currentPage <= k /\ Idle(c) /\ Render(t) /\ UNCHANGED currentPage
    BY <1>8 DEF Deliver
  <2>5. CASE /\ currentPage > k /\ currentPage' = k
             /\ call' = [call EXCEPT ![c] = [pc |-> "sent", page |-> k, total |-> 0]]
             /\ UNCHANGED <<body, pager, pagerPage>>
    <3> DEFINE new == [pc |-> "sent", page |-> k, total |-> 0]
    <3>1. new \in Call /\ new.pc = "sent" /\ new.page = k
      <4> HIDE DEF k
      <4> QED BY <2>2, PanelAssumption DEF Call
    <3>2. call' = [call EXCEPT ![c] = new] BY <2>5
    <3> HIDE DEF new
    <3>3. call' \in [Calls -> Call] /\ call'[c] = new /\ \A d \in Calls \ {c} : call'[d] = call[d]
      BY <2>0, <3>1, <3>2
    <3>4. PanelValues' BY <1>v, <2>1, <2>2, <2>3, <2>5, <3>3 DEF PanelValues
    <3>5. PanelTypeOK' BY <1>v, <2>3, <3>4, Zenon DEF PanelTypeOK, PanelValues, Call
    <3>6. CurrentPageExists' BY <2>2, <2>3, <2>5 DEF CurrentPageExists
    <3>7. ~(\A d \in Calls : call'[d].pc = "idle") BY <3>1, <3>3
    <3>8. ButtonComesBack' /\ ShowsCurrentPage' BY <3>7 DEF ButtonComesBack, ShowsCurrentPage
    <3>9. LoneCall'
      <4> SUFFICES ASSUME ~overlapped' PROVE LoneCall' BY DEF LoneCall
      <4>1. ~overlapped BY <2>3
      <4>2. \A d \in Calls \ {c} : call[d].pc = "idle" BY <2>1, <4>1 DEF PanelInv, LoneCall
      <4>3. call'[c].page = currentPage' /\ \A d \in Calls \ {c} : call'[d].pc = "idle"
        BY <2>5, <3>1, <3>3, <4>2
      <4> QED BY <4>3 DEF LoneCall
    <3> QED BY <2>5, <3>5, <3>6, <3>8, <3>9 DEF PanelInv, PagerOK
  <2>6. CASE currentPage <= k /\ Idle(c) /\ Render(t) /\ UNCHANGED currentPage
    <3>1. /\ body' \in {0, t.page} /\ body' \in -1 .. Pages(MaxRows)
          /\ pager' \in Seq(0 .. Pages(MaxRows)) /\ pagerPage' \in 1 .. Pages(MaxRows)
          /\ pager' # <<>> => Complete(pager', pager'[Len(pager')], pagerPage')
      BY <2>1, <2>6, Rendered
    <3>2. call' \in [Calls -> Call] /\ ButtonComesBack' /\ ShowsCurrentPage' /\ LoneCall'
      BY <2>1, <2>3, <2>6, <3>1, Ended
    <3>3. PanelValues' BY <1>v, <2>1, <2>3, <2>6, <3>1, <3>2 DEF PanelValues
    <3>4. PanelTypeOK' BY <1>v, <2>3, <3>3, Zenon DEF PanelTypeOK, PanelValues, Call
    <3>5. CurrentPageExists' BY <1>v, <2>2, <2>3, <2>6 DEF CurrentPageExists, PanelValues
    <3> QED BY <3>1, <3>2, <3>4, <3>5 DEF PanelInv, PagerOK
  <2> QED BY <2>4, <2>5, <2>6
<1> QED BY <1>1, <1>2, <1>3, <1>4, <1>5, <1>6, <1>7, <1>8 DEF PanelNext

\* However the calls of refresh overlap, whatever fails and however the table
\* changes meanwhile: the current page exists for the total last seen, the Refresh
\* button is never left disabled with no call out, and a call that is alone leaves
\* its own page on display (refresh, goToPage, setLang of history.mjs).
THEOREM PanelStaysInOrder == PanelSpec => []PanelInv
<1>1. PanelInit => PanelInv /\ PagerOK BY InitPanel DEF PanelInit, PagerOK
<1>2. PanelInv /\ PagerOK /\ [PanelNext]_panelVars => (PanelInv /\ PagerOK)' BY NextPanel
<1> QED BY <1>1, <1>2, PTL DEF PanelSpec

\* The pager on display and every window computePageWindow can return offer the
\* first, the last and the current page and mark every gap with an ellipsis, for
\* any number of pages.
THEOREM PagerSkipsNothing == PanelSpec => []PagerIsComplete
<1>1. PanelInit => PanelInv /\ PagerOK BY InitPanel DEF PanelInit, PagerOK
<1>2. PanelInv /\ PagerOK /\ [PanelNext]_panelVars => (PanelInv /\ PagerOK)' BY NextPanel
<1>3. PagerOK => PagerIsComplete
  <2>1. ASSUME NEW total \in 1 .. MaxPager, NEW cur \in 1 .. total
        PROVE  Complete(computePageWindow(total, cur), total, cur)
    <3>1. total \in Nat BY PanelAssumption
    <3> QED BY <3>1, WindowComplete
  <2> QED BY <2>1 DEF PagerOK, PagerIsComplete
<1> QED BY <1>1, <1>2, <1>3, PTL DEF PanelSpec
=============================================================================
