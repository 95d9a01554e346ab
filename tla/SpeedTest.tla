------------------------------ MODULE SpeedTest ------------------------------
(***************************************************************************)
(* The speed-test endpoints of the server: admission through the           *)
(* semaphore (acquire, release), the streaming loops of DownloadHandler    *)
(* and UploadHandler, and the counters that /healthz and /metrics report   *)
(* (acceptedTotal, rejectedTotal, ObserveTest, ObserveRequest).            *)
(*                                                                         *)
(* Every request is a goroutine.  The client at the other end reads and    *)
(* sends when it likes, stalls, or goes away.  Bytes are counted in units; *)
(* Chunk units are written by one Write.                                   *)
(***************************************************************************)
EXTENDS Integers, FiniteSets, FiniteSetsExt

CONSTANTS
    Requests,       \* the requests of one behaviour
    MaxConcurrent,  \* capacity of the semaphore channel
    Chunk,          \* units per Write
    UploadCap,      \* maxUploadBytes, in units
    MaxUnits        \* bound on the units a request moves or asks for

ASSUME SpeedTestAssumption ==
    /\ IsFiniteSet(Requests)
    /\ MaxConcurrent \in Nat \ {0}
    /\ Chunk \in Nat \ {0}
    /\ UploadCap \in Nat
    /\ MaxUnits \in Nat

VARIABLES
    pc,          \* where each request's goroutine is
    kind,        \* "timed" or "sized" download, or "upload"
    total,       \* units asked for (sized download) or in the body (upload)
    moved,       \* units sent or received so far
    late,        \* timed download: "running", past "deadline", past "grace"
    status,      \* status code logged by loggingMiddleware, 0 before
    cut,         \* history: a Write of the download failed
    truncated,   \* the upload response's truncated flag
    sem,         \* len(h.sem)
    acceptedTotal, rejectedTotal,   \* the counters of /healthz
    totalTests,  \* speedtest_total_tests_total by label
    bytesTransferred,  \* speedtest_bytes_transferred_total by direction
    testDuration,      \* number of observations in the histogram
    httpRequests       \* speedtest_http_requests_total, all labels together

request == <<kind, total, late, cut>>
counters == <<acceptedTotal, rejectedTotal, totalTests>>
metrics == <<bytesTransferred, testDuration, httpRequests>>
vars == <<pc, kind, total, moved, late, cut, status, truncated, sem, acceptedTotal,
          rejectedTotal, totalTests, bytesTransferred, testDuration, httpRequests>>

Kinds == {"timed", "sized", "upload"}
Direction(q) == IF kind[q] = "upload" THEN "up" ELSE "down"

Init ==
    /\ pc = [q \in Requests |-> "new"]
    /\ kind = [q \in Requests |-> "timed"]
    /\ total = [q \in Requests |-> 0]
    /\ moved = [q \in Requests |-> 0]
    /\ late = [q \in Requests |-> "running"]
    /\ cut = [q \in Requests |-> FALSE]
    /\ status = [q \in Requests |-> 0]
    /\ truncated = [q \in Requests |-> FALSE]
    /\ sem = 0
    /\ acceptedTotal = 0 /\ rejectedTotal = 0
    /\ totalTests = [s \in {"accepted", "rejected"} |-> 0]
    /\ bytesTransferred = [d \in {"up", "down"} |-> 0]
    /\ testDuration = 0
    /\ httpRequests = 0

Goto(q, here, there) ==
    /\ pc[q] = here
    /\ pc' = [pc EXCEPT ![q] = there]

-----------------------------------------------------------------------------
(* Admission                                                               *)

\* A request arrives; a wrong method is answered 405 before admission.
Arrive(q, k, n) ==
    /\ \/ Goto(q, "new", "acquire") /\ UNCHANGED status
       \/ Goto(q, "new", "log") /\ status' = [status EXCEPT ![q] = 405]
    /\ kind' = [kind EXCEPT ![q] = k]
    /\ total' = [total EXCEPT ![q] = n]
    /\ UNCHANGED <<moved, late, cut, truncated, sem, counters, metrics>>

\* Mutant: the capacity is tested before the channel is used, and not by it.
acquireOffByOne(q) ==
    /\ \/ sem <= MaxConcurrent /\ sem' = sem + 1 /\ Goto(q, "acquire", "admitted")
       \/ sem > MaxConcurrent /\ UNCHANGED sem /\ Goto(q, "acquire", "refused")
    /\ UNCHANGED <<request, moved, status, truncated, counters, metrics>>

\* acquire: the non-blocking send into the semaphore channel.
acquire(q) ==
    /\ \/ sem < MaxConcurrent /\ sem' = sem + 1 /\ Goto(q, "acquire", "admitted")
       \/ sem = MaxConcurrent /\ UNCHANGED sem /\ Goto(q, "acquire", "refused")
    /\ UNCHANGED <<request, moved, status, truncated, counters, metrics>>

\* acquire, after the select: the handler's own counter, read by /healthz.
countAdmission(q) ==
    /\ \/ /\ Goto(q, "admitted", "accepted")
          /\ acceptedTotal' = acceptedTotal + 1 /\ UNCHANGED rejectedTotal
       \/ /\ Goto(q, "refused", "rejected")
          /\ rejectedTotal' = rejectedTotal + 1 /\ UNCHANGED acceptedTotal
    /\ UNCHANGED <<request, moved, status, truncated, sem, totalTests, metrics>>

\* Mutant: the deferred release is registered before acquire is tested.
recordAdmissionThenRelease(q) ==
    /\ \/ /\ Goto(q, "accepted", "loop")
          /\ totalTests' = [totalTests EXCEPT !["accepted"] = @ + 1]
          /\ UNCHANGED status
       \/ /\ Goto(q, "rejected", "release")
          /\ totalTests' = [totalTests EXCEPT !["rejected"] = @ + 1]
          /\ status' = [status EXCEPT ![q] = 503]
    /\ UNCHANGED <<request, moved, truncated, sem, acceptedTotal, rejectedTotal, metrics>>

\* acquire, at its end: the registry's counter, read by /metrics.  A refused
\* request is answered 503.
recordAdmission(q) ==
    /\ \/ /\ Goto(q, "accepted", "loop")
          /\ totalTests' = [totalTests EXCEPT !["accepted"] = @ + 1]
          /\ UNCHANGED status
       \/ /\ Goto(q, "rejected", "log")
          /\ totalTests' = [totalTests EXCEPT !["rejected"] = @ + 1]
          /\ status' = [status EXCEPT ![q] = 503]
    /\ UNCHANGED <<request, moved, truncated, sem, acceptedTotal, rejectedTotal, metrics>>

\* release, deferred: the slot goes back when the handler returns.
release(q) ==
    /\ Goto(q, "release", "log")
    /\ sem' = sem - 1
    /\ UNCHANGED <<request, moved, status, truncated, counters, metrics>>

-----------------------------------------------------------------------------
(* Streaming                                                               *)

\* The time passes a timed download's deadline, then its two seconds of grace.
TimePasses(q) ==
    /\ kind[q] = "timed"
    /\ pc[q] \in {"loop", "stream"}
    /\ \/ late[q] = "running" /\ late' = [late EXCEPT ![q] = "deadline"]
       \/ late[q] = "deadline" /\ late' = [late EXCEPT ![q] = "grace"]
    /\ UNCHANGED <<pc, kind, total, moved, cut, status, truncated, sem, counters, metrics>>

\* Mutant: the loop stops when less than a whole Write is left.
FinishedEarly(q) ==
    \/ kind[q] = "timed" /\ late[q] # "running"
    \/ kind[q] = "sized" /\ moved[q] + Chunk > total[q]

\* The loop condition of downloadByTime, downloadBySize and io.Copy.
Finished(q) ==
    \/ kind[q] = "timed" /\ late[q] # "running"
    \/ kind[q] = "sized" /\ moved[q] >= total[q]

\* Units of the Write in flight: a sized download trims the last one.
WriteLen(q) ==
    IF kind[q] = "sized" /\ moved[q] + Chunk > total[q]
      THEN total[q] - moved[q] ELSE Chunk

LoopTop(q) ==
    /\ \/ Finished(q) /\ Goto(q, "loop", "observe")
                      /\ status' = [status EXCEPT ![q] = 200]
       \/ ~Finished(q) /\ Goto(q, "loop", "stream") /\ UNCHANGED status
    /\ UNCHANGED <<request, moved, truncated, sem, counters, metrics>>

\* The client takes a whole chunk.
WriteChunk(q) ==
    /\ kind[q] # "upload"
    /\ moved[q] + WriteLen(q) <= MaxUnits
    /\ Goto(q, "stream", "loop")
    /\ moved' = [moved EXCEPT ![q] = @ + WriteLen(q)]
    /\ UNCHANGED <<request, status, truncated, sem, counters, metrics>>

\* A Write fails part-way: the units on the wire are the answer.
PartialWrite(q) ==
    /\ kind[q] # "upload"
    /\ Goto(q, "stream", "observe")
    /\ \E m \in 0 .. WriteLen(q) - 1 :
         /\ moved[q] + m <= MaxUnits
         /\ moved' = [moved EXCEPT ![q] = @ + m]
    /\ status' = [status EXCEPT ![q] = 200]
    /\ cut' = [cut EXCEPT ![q] = TRUE]
    /\ UNCHANGED <<kind, total, late, truncated, sem, counters, metrics>>

\* The client of a download goes away.
ClientGone(q) == PartialWrite(q)

\* Mutant: SetWriteDeadline is lost behind the middleware's ResponseWriter.
WriteTimeoutLost(q) == FALSE /\ UNCHANGED vars

\* SetWriteDeadline: past the grace a blocked Write returns.
WriteTimeout(q) ==
    /\ kind[q] = "timed" /\ late[q] = "grace"
    /\ PartialWrite(q)

\* Upload: one Read of the body, never past the cap.
ReadChunk(q) ==
    /\ kind[q] = "upload"
    /\ pc[q] = "stream"
    /\ \E m \in 1 .. Chunk :
         /\ moved[q] + m <= total[q] /\ moved[q] + m <= UploadCap
         /\ moved' = [moved EXCEPT ![q] = @ + m]
    /\ UNCHANGED <<pc, request, status, truncated, sem, counters, metrics>>

\* Mutant: a body of exactly the capped size is flagged as truncated.
ReadEndCapInclusive(q) ==
    /\ kind[q] = "upload"
    /\ Goto(q, "stream", "observe")
    /\ \/ /\ moved[q] = UploadCap
          /\ status' = [status EXCEPT ![q] = 200]
          /\ truncated' = [truncated EXCEPT ![q] = TRUE]
       \/ /\ moved[q] = total[q]
          /\ status' = [status EXCEPT ![q] = 200]
          /\ UNCHANGED truncated
    /\ UNCHANGED <<request, moved, sem, counters, metrics>>

\* The body ends, hits maxUploadBytes (MaxBytesError), or breaks off.
ReadEnd(q) ==
    /\ kind[q] = "upload"
    /\ Goto(q, "stream", "observe")
    /\ \/ /\ moved[q] = total[q]
          /\ status' = [status EXCEPT ![q] = 200]
          /\ UNCHANGED truncated
       \/ /\ moved[q] = UploadCap /\ total[q] > UploadCap
          /\ status' = [status EXCEPT ![q] = 200]
          /\ truncated' = [truncated EXCEPT ![q] = TRUE]
       \/ /\ moved[q] < total[q] /\ moved[q] <= UploadCap
          /\ status' = [status EXCEPT ![q] = 400]
          /\ UNCHANGED truncated
    /\ UNCHANGED <<request, moved, sem, counters, metrics>>

-----------------------------------------------------------------------------
(* Observation                                                             *)

\* Mutant: tests that moved no byte are not observed at all.
ObserveTestSkipsEmpty(q) ==
    /\ Goto(q, "observe", "release")
    /\ bytesTransferred' = [bytesTransferred EXCEPT ![Direction(q)] = @ + moved[q]]
    /\ testDuration' = testDuration + IF moved[q] > 0 THEN 1 ELSE 0
    /\ UNCHANGED <<request, moved, status, truncated, sem, counters, httpRequests>>

\* Mutant: uploads are booked as downloads.
ObserveTestWrongLabel(q) ==
    /\ Goto(q, "observe", "release")
    /\ bytesTransferred' = [bytesTransferred EXCEPT !["down"] = @ + moved[q]]
    /\ testDuration' = testDuration + 1
    /\ UNCHANGED <<request, moved, status, truncated, sem, counters, httpRequests>>

\* The deferred ObserveTest runs before the deferred release.
ObserveTest(q) ==
    /\ Goto(q, "observe", "release")
    /\ bytesTransferred' = [bytesTransferred EXCEPT ![Direction(q)] = @ + moved[q]]
    /\ testDuration' = testDuration + 1
    /\ UNCHANGED <<request, moved, status, truncated, sem, counters, httpRequests>>

\* loggingMiddleware, after the handler has returned.
ObserveRequest(q) ==
    /\ Goto(q, "log", "done")
    /\ httpRequests' = httpRequests + 1
    /\ UNCHANGED <<request, moved, status, truncated, sem, counters,
                   bytesTransferred, testDuration>>

-----------------------------------------------------------------------------
\* What the server does by itself, without the client's help.
ServerStep(q) ==
    \/ acquire(q) \/ countAdmission(q) \/ recordAdmission(q) \/ LoopTop(q) \/ WriteTimeout(q)
    \/ ObserveTest(q) \/ release(q) \/ ObserveRequest(q)

\* What needs the client.
ClientStep(q) ==
    \/ Arrive(q, "timed", 0)
    \/ \E n \in 1 .. MaxUnits : Arrive(q, "sized", n)
    \/ \E n \in 0 .. MaxUnits : Arrive(q, "upload", n)
    \/ WriteChunk(q) \/ ClientGone(q) \/ ReadChunk(q) \/ ReadEnd(q)

Next == \E q \in Requests : ServerStep(q) \/ ClientStep(q) \/ TimePasses(q)

Spec == Init /\ [][Next]_vars

(* Goroutines are scheduled and clocks advance; nothing is assumed of the  *)
(* client, which may stop reading or sending for ever.                     *)
FairSpec ==
    Spec /\ \A q \in Requests : WF_vars(ServerStep(q)) /\ WF_vars(TimePasses(q))

-----------------------------------------------------------------------------
Points == {"new", "acquire", "admitted", "refused", "accepted", "rejected", "loop", "stream", "observe",
           "release", "log", "done"}

TypeOK ==
    /\ pc \in [Requests -> Points]
    /\ kind \in [Requests -> Kinds]
    /\ total \in [Requests -> Nat]
    /\ moved \in [Requests -> Nat]
    /\ late \in [Requests -> {"running", "deadline", "grace"}]
    /\ cut \in [Requests -> BOOLEAN]
    /\ status \in [Requests -> {0, 200, 400, 405, 503}]
    /\ truncated \in [Requests -> BOOLEAN]
    /\ sem \in Nat
    /\ acceptedTotal \in Nat /\ rejectedTotal \in Nat
    /\ totalTests \in [{"accepted", "rejected"} -> Nat]
    /\ bytesTransferred \in [{"up", "down"} -> Nat]
    /\ testDuration \in Nat
    /\ httpRequests \in Nat

At(points) == {q \in Requests : pc[q] \in points}

Holders == At({"admitted", "accepted", "loop", "stream", "observe", "release"})

\* The semaphore holds exactly one token for every request between acquire and
\* release, and never more than its capacity: no return path of a handler
\* leaks or doubles a slot.
SlotsAccounted == sem = Cardinality(Holders) /\ sem <= MaxConcurrent

\* The requests that were admitted, and those that ended with some status.
Outcome(q, codes) == pc[q] \in {"log", "done"} /\ status[q] \in codes
Streamed == At({"loop", "stream", "observe", "release"})
               \cup {q \in Requests : Outcome(q, {200, 400})}
Refused == {q \in Requests : Outcome(q, {503})}

\* Every attempt is counted once as accepted or rejected, first for /healthz and
\* then for /metrics, which differ by the requests in between and no others; and
\* once in the histogram if it was accepted ("exactly once per acquire() call",
\* metrics_handler.go 122-124).
CountersAddUp ==
    /\ totalTests["accepted"] = Cardinality(Streamed)
    /\ totalTests["rejected"] = Cardinality(Refused)
    /\ acceptedTotal = Cardinality(Streamed \cup At({"accepted"}))
    /\ rejectedTotal = Cardinality(Refused \cup At({"rejected"}))
    /\ testDuration = Cardinality(Streamed \ At({"loop", "stream", "observe"}))
    /\ httpRequests = Cardinality(At({"done"}))

Observed(d) == {q \in Streamed \ At({"loop", "stream", "observe"}) : Direction(q) = d}

\* The bytes metric is the sum, by direction, of what the observed tests moved,
\* tests that were cut short included.
BytesExact ==
    \A d \in {"up", "down"} :
        bytesTransferred[d] = SumFunctionOnSet(moved, Observed(d))

\* A sized download that is over has written exactly the Content-Length it
\* announced, unless a Write failed because its client went away: then it has
\* written less.  However its length and the length of a Write relate, the loop
\* neither stops short nor overruns (handler.go 427-443).
SizedDownloadsExact ==
    \A q \in Requests :
        kind[q] = "sized" /\ status[q] = 200 =>
            IF cut[q] THEN moved[q] < total[q] ELSE moved[q] = total[q]

\* An upload answered 200 was either read to its end or is flagged as
\* truncated at the cap, never both and never neither (handler.go 509-513).
UploadAnswerHonest ==
    \A q \in Requests :
        kind[q] = "upload" /\ status[q] \in {200, 400} =>
            /\ moved[q] <= UploadCap
            /\ status[q] = 200 => (truncated[q] <=> moved[q] # total[q])
            /\ truncated[q] => moved[q] = UploadCap
            /\ status[q] = 400 => moved[q] < total[q]

\* How far each request has come bounds what it has moved and answered.
StreamInv ==
    \A q \in Requests :
        /\ pc[q] \in {"new", "acquire", "admitted", "refused", "accepted", "rejected"} =>
              moved[q] = 0
        /\ pc[q] \notin {"observe", "release", "log", "done"} =>
              status[q] = 0 /\ ~truncated[q]
        /\ pc[q] \in {"observe", "release"} => status[q] \in {200, 400}
        /\ kind[q] \in {"sized", "upload"} => moved[q] <= total[q]
        /\ kind[q] = "upload" => moved[q] <= UploadCap
        /\ pc[q] \notin {"observe", "release", "log", "done"} => ~cut[q]
        /\ kind[q] = "upload" /\ pc[q] = "loop" => moved[q] = 0

\* The inductive invariant: the slots held, what each request has moved and
\* what it has answered agree with how far its handler has come.
IInv == TypeOK /\ SlotsAccounted /\ StreamInv /\ UploadAnswerHonest /\ SizedDownloadsExact

\* A time-mode download ends although its client stalls for ever: the deadline
\* and the write deadline bound it (handler.go 446-471).
TimedDownloadsEnd ==
    \A q \in Requests :
        kind[q] = "timed" /\ pc[q] = "stream" ~> pc[q] = "done"
=============================================================================
