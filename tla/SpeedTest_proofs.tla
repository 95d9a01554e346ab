-------------------------- MODULE SpeedTest_proofs --------------------------
(***************************************************************************)
(* Proofs about SpeedTest for any number of requests and any capacity: the *)
(* semaphore never leaks or doubles a slot, and every counter says exactly  *)
(* what the requests did.                                                  *)
(***************************************************************************)
EXTENDS SpeedTest, Sums

HoldPoints == {"admitted", "accepted", "loop", "stream", "observe", "release"}

\* Moving one request's program counter changes the holders by that request.
LEMMA HoldersMove ==
    ASSUME TypeOK, NEW q \in Requests, NEW here, NEW there, Goto(q, here, there)
    PROVE  /\ here \in HoldPoints /\ there \in HoldPoints => Holders' = Holders
           /\ here \notin HoldPoints /\ there \notin HoldPoints => Holders' = Holders
           /\ here \notin HoldPoints /\ there \in HoldPoints =>
                Holders' = Holders \cup {q} /\ q \notin Holders
           /\ here \in HoldPoints /\ there \notin HoldPoints =>
                Holders' = Holders \ {q} /\ q \in Holders
BY DEF TypeOK, Goto, Holders, At, HoldPoints

\* The set of holders is finite, and its size follows one insertion or removal.
LEMMA HoldersFinite == ASSUME TypeOK PROVE IsFiniteSet(Holders) /\ Cardinality(Holders) \in Nat
<1>1. Holders \subseteq Requests BY DEF Holders, At
<1>2. IsFiniteSet(Holders) BY <1>1, SpeedTestAssumption, FS_Subset
<1> QED BY <1>2, FS_CardinalityType

\* Every initial state is well typed and has all slots free.
LEMMA InitSlots == Init => TypeOK /\ SlotsAccounted
<1> SUFFICES ASSUME Init PROVE TypeOK /\ SlotsAccounted OBVIOUS
<1>1. TypeOK BY DEF Init, TypeOK, Points, Kinds
<1>2. Holders = {} BY DEF Init, Holders, At
<1>3. SlotsAccounted BY <1>2, FS_EmptySet, SpeedTestAssumption DEF Init, SlotsAccounted
<1> QED BY <1>1, <1>3

\* acquire takes a slot exactly when it admits the request.
LEMMA AcquireSlots ==
    ASSUME TypeOK, SlotsAccounted, NEW q \in Requests, acquire(q)
    PROVE  SlotsAccounted'
<1> USE SpeedTestAssumption DEF SlotsAccounted
<1>1. CASE Goto(q, "acquire", "admitted") /\ sem < MaxConcurrent /\ sem' = sem + 1
  <2>1. Holders' = Holders \cup {q} /\ q \notin Holders
    BY <1>1, HoldersMove DEF HoldPoints
  <2>2. Cardinality(Holders') = Cardinality(Holders) + 1
    BY <2>1, HoldersFinite, FS_AddElement
  <2> QED BY <1>1, <2>2 DEF TypeOK
<1>2. CASE Goto(q, "acquire", "refused") /\ UNCHANGED sem
  BY <1>2, HoldersMove DEF HoldPoints
<1> QED BY <1>1, <1>2 DEF acquire

\* release gives the slot of a holder back.
LEMMA ReleaseSlots ==
    ASSUME TypeOK, SlotsAccounted, NEW q \in Requests, release(q)
    PROVE  SlotsAccounted' /\ sem' \in Nat
<1> USE SpeedTestAssumption DEF SlotsAccounted
<1>1. Goto(q, "release", "log") /\ sem' = sem - 1 BY DEF release
<1>2. Holders' = Holders \ {q} /\ q \in Holders
  BY <1>1, HoldersMove DEF HoldPoints
<1>3. Cardinality(Holders') = Cardinality(Holders) - 1
  BY <1>2, HoldersFinite, FS_RemoveElement
<1>4. Cardinality(Holders) # 0 BY <1>2, HoldersFinite, FS_EmptySet
<1> QED BY <1>1, <1>3, <1>4, HoldersFinite DEF TypeOK

Step(q) == ServerStep(q) \/ ClientStep(q) \/ TimePasses(q)

\* A Write in flight has a length, and a sized download's never overruns.
LEMMA WriteLenBound ==
    ASSUME TypeOK, StreamInv, NEW q \in Requests
    PROVE  /\ WriteLen(q) \in Nat
           /\ kind[q] = "sized" => moved[q] + WriteLen(q) <= total[q]
BY SpeedTestAssumption DEF TypeOK, StreamInv, WriteLen

\* Every step keeps the types, the slots and the streaming bounds.
LEMMA StepIInv == ASSUME IInv, NEW q \in Requests, Step(q) PROVE IInv'
<1> USE SpeedTestAssumption DEF IInv, request, counters, metrics
<1>1. CASE acquire(q)
  <2> USE <1>1 DEF acquire
  <2>1. TypeOK' BY DEF TypeOK, Points, Kinds, Goto
  <2>2. SlotsAccounted' BY AcquireSlots
  <2>3. StreamInv' BY DEF TypeOK, StreamInv, Goto
  <2>4. UploadAnswerHonest' BY DEF TypeOK, StreamInv, UploadAnswerHonest, Goto
  <2>5. SizedDownloadsExact' BY DEF TypeOK, StreamInv, SizedDownloadsExact, Goto
  <2> QED BY <2>1, <2>2, <2>3, <2>4, <2>5
<1>2. CASE recordAdmission(q)
  <2> USE <1>2 DEF recordAdmission
  <2>1. TypeOK' BY DEF TypeOK, Points, Kinds, Goto
  <2>2. SlotsAccounted' BY HoldersMove DEF SlotsAccounted, HoldPoints
  <2>3. StreamInv' BY DEF TypeOK, StreamInv, Goto
  <2>4. UploadAnswerHonest' BY DEF TypeOK, StreamInv, UploadAnswerHonest, Goto
  <2>5. SizedDownloadsExact' BY DEF TypeOK, StreamInv, SizedDownloadsExact, Goto
  <2> QED BY <2>1, <2>2, <2>3, <2>4, <2>5
<1>3. CASE LoopTop(q)
  <2> USE <1>3 DEF LoopTop
  <2>1. TypeOK' BY DEF TypeOK, Points, Kinds, Goto
  <2>2. SlotsAccounted' BY HoldersMove DEF SlotsAccounted, HoldPoints
  <2>3. StreamInv' BY DEF TypeOK, StreamInv, Goto
  <2>4. UploadAnswerHonest'
    <3>1. CASE Finished(q)
      BY <3>1 DEF Finished, TypeOK, StreamInv, UploadAnswerHonest, Goto
    <3>2. CASE ~Finished(q)
      BY <3>2 DEF TypeOK, StreamInv, UploadAnswerHonest, Goto
    <3> QED BY <3>1, <3>2
  <2>5. SizedDownloadsExact' BY DEF TypeOK, StreamInv, SizedDownloadsExact, Goto, Finished
  <2> QED BY <2>1, <2>2, <2>3, <2>4, <2>5
<1>4. CASE WriteTimeout(q)
  <2> USE <1>4 DEF WriteTimeout, PartialWrite
  <2>0. WriteLen(q) \in Nat BY WriteLenBound
  <2>1. TypeOK' BY <2>0 DEF TypeOK, Points, Kinds, Goto
  <2>2. SlotsAccounted' BY HoldersMove DEF SlotsAccounted, HoldPoints
  <2>3. StreamInv' BY DEF TypeOK, StreamInv, Goto
  <2>4. UploadAnswerHonest' BY DEF TypeOK, StreamInv, UploadAnswerHonest, Goto
  <2>5. SizedDownloadsExact' BY DEF TypeOK, StreamInv, SizedDownloadsExact, Goto
  <2> QED BY <2>1, <2>2, <2>3, <2>4, <2>5
<1>5. CASE ObserveTest(q)
  <2> USE <1>5 DEF ObserveTest, Direction
  <2>1. TypeOK' BY DEF TypeOK, Points, Kinds, Goto
  <2>2. SlotsAccounted' BY HoldersMove DEF SlotsAccounted, HoldPoints
  <2>3. StreamInv' BY DEF TypeOK, StreamInv, Goto
  <2>4. UploadAnswerHonest' BY DEF TypeOK, StreamInv, UploadAnswerHonest, Goto
  <2>5. SizedDownloadsExact' BY DEF TypeOK, StreamInv, SizedDownloadsExact, Goto
  <2> QED BY <2>1, <2>2, <2>3, <2>4, <2>5
<1>6. CASE release(q)
  <2> USE <1>6 DEF release
  <2>1. TypeOK' BY ReleaseSlots DEF TypeOK, Points, Goto
  <2>2. SlotsAccounted' BY ReleaseSlots
  <2>3. StreamInv' BY DEF TypeOK, StreamInv, Goto
  <2>4. UploadAnswerHonest' BY DEF TypeOK, StreamInv, UploadAnswerHonest, Goto
  <2>5. SizedDownloadsExact' BY DEF TypeOK, StreamInv, SizedDownloadsExact, Goto
  <2> QED BY <2>1, <2>2, <2>3, <2>4, <2>5
<1>7. CASE ObserveRequest(q)
  <2> USE <1>7 DEF ObserveRequest
  <2>1. TypeOK' BY DEF TypeOK, Points, Kinds, Goto
  <2>2. SlotsAccounted' BY HoldersMove DEF SlotsAccounted, HoldPoints
  <2>3. StreamInv' BY DEF TypeOK, StreamInv, Goto
  <2>4. UploadAnswerHonest' BY DEF TypeOK, StreamInv, UploadAnswerHonest, Goto
  <2>5. SizedDownloadsExact' BY DEF TypeOK, StreamInv, SizedDownloadsExact, Goto
  <2> QED BY <2>1, <2>2, <2>3, <2>4, <2>5
<1>8. ASSUME NEW k \in Kinds, NEW n \in Nat, Arrive(q, k, n) PROVE IInv'
  <2> USE <1>8 DEF Arrive
  <2>1. TypeOK' BY DEF TypeOK, Points, Kinds, Goto
  <2>2. SlotsAccounted' BY HoldersMove DEF SlotsAccounted, HoldPoints
  <2>3. StreamInv' BY DEF TypeOK, StreamInv, Goto
  <2>4. UploadAnswerHonest' BY DEF TypeOK, StreamInv, UploadAnswerHonest, Goto
  <2>5. SizedDownloadsExact' BY DEF TypeOK, StreamInv, SizedDownloadsExact, Goto
  <2> QED BY <2>1, <2>2, <2>3, <2>4, <2>5
<1>9. CASE WriteChunk(q)
  <2> USE <1>9 DEF WriteChunk
  <2>0. WriteLen(q) \in Nat /\ (kind[q] = "sized" => moved[q] + WriteLen(q) <= total[q])
    BY WriteLenBound
  <2>1. TypeOK' BY <2>0 DEF TypeOK, Points, Kinds, Goto
  <2>2. SlotsAccounted' BY HoldersMove DEF SlotsAccounted, HoldPoints
  <2>3. StreamInv' BY <2>0 DEF TypeOK, StreamInv, Goto
  <2>4. UploadAnswerHonest' BY DEF TypeOK, StreamInv, UploadAnswerHonest, Goto
  <2>5. SizedDownloadsExact' BY DEF TypeOK, StreamInv, SizedDownloadsExact, Goto
  <2> QED BY <2>1, <2>2, <2>3, <2>4, <2>5
<1>10. CASE ClientGone(q)
  <2> USE <1>10 DEF ClientGone, PartialWrite
  <2>0. WriteLen(q) \in Nat /\ (kind[q] = "sized" => moved[q] + WriteLen(q) <= total[q])
    BY WriteLenBound
  <2>1. TypeOK' BY <2>0 DEF TypeOK, Points, Kinds, Goto
  <2>2. SlotsAccounted' BY HoldersMove DEF SlotsAccounted, HoldPoints
  <2>3. StreamInv' BY <2>0 DEF TypeOK, StreamInv, Goto
  <2>4. UploadAnswerHonest' BY DEF TypeOK, StreamInv, UploadAnswerHonest, Goto
  <2>5. SizedDownloadsExact' BY <2>0 DEF TypeOK, StreamInv, SizedDownloadsExact, Goto
  <2> QED BY <2>1, <2>2, <2>3, <2>4, <2>5
<1>11. CASE ReadChunk(q)
  <2> USE <1>11 DEF ReadChunk
  <2>1. TypeOK' BY DEF TypeOK, Points, Kinds, Goto
  <2>2. SlotsAccounted' BY DEF SlotsAccounted, Holders, At
  <2>3. StreamInv' BY DEF TypeOK, StreamInv, Goto
  <2>4. UploadAnswerHonest' BY DEF TypeOK, StreamInv, UploadAnswerHonest, Goto
  <2>5. SizedDownloadsExact' BY DEF TypeOK, StreamInv, SizedDownloadsExact, Goto
  <2> QED BY <2>1, <2>2, <2>3, <2>4, <2>5
<1>12. CASE ReadEnd(q)
  <2> USE <1>12 DEF ReadEnd
  <2>1. TypeOK'
    <3>0. truncated' \in {truncated, [truncated EXCEPT ![q] = TRUE]} OBVIOUS
    <3>1. truncated' \in [Requests -> BOOLEAN]
      <4>1. truncated \in [Requests -> BOOLEAN] BY DEF TypeOK
      <4>2. [truncated EXCEPT ![q] = TRUE] \in [Requests -> BOOLEAN] BY <4>1
      <4>3. CASE truncated' = truncated BY <4>1, <4>3, Zenon
      <4>4. CASE truncated' = [truncated EXCEPT ![q] = TRUE] BY <4>2, <4>4, Zenon
      <4> QED BY <3>0, <4>3, <4>4
    <3>2. status' \in [Requests -> {0, 200, 400, 405, 503}] BY DEF TypeOK, Goto
    <3>3. pc' \in [Requests -> Points] BY DEF TypeOK, Points, Goto
    <3> QED BY <3>1, <3>2, <3>3 DEF TypeOK
  <2>2. SlotsAccounted' BY HoldersMove DEF SlotsAccounted, HoldPoints
  <2>3. StreamInv' BY DEF TypeOK, StreamInv, Goto
  <2>4. UploadAnswerHonest' BY DEF TypeOK, StreamInv, UploadAnswerHonest, Goto
  <2>5. SizedDownloadsExact' BY DEF TypeOK, StreamInv, SizedDownloadsExact, Goto
  <2> QED BY <2>1, <2>2, <2>3, <2>4, <2>5
<1>13. CASE TimePasses(q)
  <2> USE <1>13 DEF TimePasses
  <2>1. TypeOK' BY DEF TypeOK, Points, Kinds, Goto
  <2>2. SlotsAccounted' BY DEF SlotsAccounted, Holders, At
  <2>3. StreamInv' BY DEF TypeOK, StreamInv, Goto
  <2>4. UploadAnswerHonest' BY DEF TypeOK, StreamInv, UploadAnswerHonest, Goto
  <2>5. SizedDownloadsExact' BY DEF TypeOK, StreamInv, SizedDownloadsExact, Goto
  <2> QED BY <2>1, <2>2, <2>3, <2>4, <2>5
<1>14. CASE countAdmission(q)
  <2> USE <1>14 DEF countAdmission
  <2>1. TypeOK' BY DEF TypeOK, Points, Kinds, Goto
  <2>2. SlotsAccounted' BY HoldersMove DEF SlotsAccounted, HoldPoints
  <2>3. StreamInv' BY DEF TypeOK, StreamInv, Goto
  <2>4. UploadAnswerHonest' BY DEF TypeOK, StreamInv, UploadAnswerHonest, Goto
  <2>5. SizedDownloadsExact' BY DEF TypeOK, StreamInv, SizedDownloadsExact, Goto
  <2> QED BY <2>1, <2>2, <2>3, <2>4, <2>5
<1> QED BY <1>1, <1>2, <1>3, <1>4, <1>5, <1>6, <1>7, <1>8, <1>9, <1>10, <1>11,
       <1>12, <1>13, <1>14 DEF Step, ServerStep, ClientStep, Kinds

\* The inductive invariant holds in every reachable state.
THEOREM InductiveInvariant == Spec => []IInv
<1>1. Init => IInv
  <2> SUFFICES ASSUME Init PROVE IInv OBVIOUS
  <2>1. StreamInv BY SpeedTestAssumption DEF Init, StreamInv
  <2>2. UploadAnswerHonest BY DEF Init, UploadAnswerHonest
  <2>3. SizedDownloadsExact BY DEF Init, SizedDownloadsExact
  <2> QED BY <2>1, <2>2, <2>3, InitSlots DEF IInv
<1>2. IInv /\ [Next]_vars => IInv'
  <2> SUFFICES ASSUME IInv, [Next]_vars PROVE IInv' OBVIOUS
  <2>1. CASE Next BY <2>1, StepIInv DEF Next, Step
  <2>2. CASE UNCHANGED vars
    BY <2>2 DEF vars, IInv, TypeOK, SlotsAccounted, Holders, At, StreamInv,
         UploadAnswerHonest, SizedDownloadsExact
  <2> QED BY <2>1, <2>2
<1> QED BY <1>1, <1>2, PTL DEF Spec

\* No handler leaks a semaphore slot, releases one twice or exceeds the
\* configured concurrency, whatever the clients do.
THEOREM SlotsConserved == Spec => []SlotsAccounted
<1>1. IInv => SlotsAccounted BY DEF IInv
<1> QED BY <1>1, InductiveInvariant, PTL

\* A sized download ends with exactly the Content-Length it announced, or, if a
\* Write failed, with less.
THEOREM SizedDownloadsFit == Spec => []SizedDownloadsExact
<1>1. IInv => SizedDownloadsExact BY DEF IInv
<1> QED BY <1>1, InductiveInvariant, PTL

\* An upload's 200 answer says truthfully whether the body was cut at the cap.
THEOREM UploadsAnswerHonestly == Spec => []UploadAnswerHonest
<1>1. IInv => UploadAnswerHonest BY DEF IInv
<1> QED BY <1>1, InductiveInvariant, PTL

-----------------------------------------------------------------------------
(* The counters                                                            *)

Observable == Streamed \ At({"loop", "stream", "observe"})

\* From S and its count n to T and its count m: nothing, or q and one more.
Counts(q, S, n, T, m) == (T = S /\ m = n) \/ (T = S \cup {q} /\ q \notin S /\ m = n + 1)

\* A step of q books q once or not at all, in each of the counters.
Booked(q) ==
    /\ Counts(q, Streamed, totalTests["accepted"], Streamed', totalTests'["accepted"])
    /\ Counts(q, Refused, totalTests["rejected"], Refused', totalTests'["rejected"])
    /\ Counts(q, Streamed \cup At({"accepted"}), acceptedTotal,
              (Streamed \cup At({"accepted"}))', acceptedTotal')
    /\ Counts(q, Refused \cup At({"rejected"}), rejectedTotal,
              (Refused \cup At({"rejected"}))', rejectedTotal')
    /\ Counts(q, Observable, testDuration, Observable', testDuration')
    /\ Counts(q, At({"done"}), httpRequests, At({"done"})', httpRequests')

\* A count stays right when one element comes with it.
LEMMA CountKept ==
    ASSUME NEW q \in Requests, NEW S \in SUBSET Requests, NEW n, n = Cardinality(S),
           NEW T, NEW m, Counts(q, S, n, T, m)
    PROVE  m = Cardinality(T)
<1>1. IsFiniteSet(S) BY SpeedTestAssumption, FS_Subset
<1>2. q \notin S => Cardinality(S \cup {q}) = Cardinality(S) + 1 BY <1>1, FS_AddElement
<1> QED BY <1>2 DEF Counts

\* Every step of a request books it so.
LEMMA StepBooks == ASSUME IInv, NEW q \in Requests, Step(q) PROVE Booked(q)
<1> USE DEF IInv, TypeOK, StreamInv, Booked, Counts, Streamed, Refused, Observable, At, Outcome,
        Goto, request, counters, metrics
<1>1. CASE acquire(q) BY <1>1 DEF acquire
<1>2. CASE countAdmission(q) BY <1>2 DEF countAdmission
<1>3. CASE recordAdmission(q) BY <1>3 DEF recordAdmission
<1>4. CASE LoopTop(q) BY <1>4 DEF LoopTop
<1>5. CASE WriteTimeout(q) BY <1>5 DEF WriteTimeout, PartialWrite
<1>6. CASE ObserveTest(q) BY <1>6 DEF ObserveTest
<1>7. CASE release(q) BY <1>7 DEF release
<1>8. CASE ObserveRequest(q) BY <1>8 DEF ObserveRequest
<1>9. CASE WriteChunk(q) BY <1>9 DEF WriteChunk
<1>10. CASE ClientGone(q) BY <1>10 DEF ClientGone, PartialWrite
<1>11. CASE ReadChunk(q) BY <1>11 DEF ReadChunk
<1>12. CASE ReadEnd(q) BY <1>12 DEF ReadEnd
<1>13. CASE TimePasses(q) BY <1>13 DEF TimePasses
<1>14. ASSUME NEW k \in Kinds, NEW n \in Nat, Arrive(q, k, n) PROVE Booked(q) BY <1>14 DEF Arrive
<1> HIDE DEF IInv, Booked
<1> QED BY <1>1, <1>2, <1>3, <1>4, <1>5, <1>6, <1>7,
       <1>8, <1>9, <1>10, <1>11, <1>12, <1>13, <1>14 DEF Step, ServerStep, ClientStep, Kinds

\* The counters of /healthz and /metrics (acquire, ObserveTest, ObserveRequest) are
\* right in every state, for any number of requests.
THEOREM CountersAreExact == Spec => []CountersAddUp
<1>1. Init => CountersAddUp
  <2> SUFFICES ASSUME Init PROVE CountersAddUp OBVIOUS
  <2>1. Streamed = {} /\ Refused = {} /\ At({"accepted"}) = {} /\ At({"rejected"}) = {}
          /\ At({"done"}) = {}
    BY DEF Init, Streamed, Refused, At, Outcome
  <2>2. Cardinality({}) = 0 BY FS_EmptySet
  <2>3. Streamed \cup At({"accepted"}) = {} /\ Refused \cup At({"rejected"}) = {}
          /\ Streamed \ At({"loop", "stream", "observe"}) = {}
    BY <2>1
  <2> QED BY <2>1, <2>2, <2>3 DEF Init, CountersAddUp
<1>2. IInv /\ CountersAddUp /\ [Next]_vars => CountersAddUp'
  <2> SUFFICES ASSUME IInv, CountersAddUp, [Next]_vars PROVE CountersAddUp' OBVIOUS
  <2>1. ASSUME NEW q \in Requests, Step(q) PROVE CountersAddUp'
    <3>1. Booked(q) BY <2>1, StepBooks
    <3>2. Streamed \in SUBSET Requests /\ Refused \in SUBSET Requests
            /\ Streamed \cup At({"accepted"}) \in SUBSET Requests
            /\ Refused \cup At({"rejected"}) \in SUBSET Requests
            /\ Observable \in SUBSET Requests /\ At({"done"}) \in SUBSET Requests
      BY DEF Streamed, Refused, Observable, At
    <3>3. totalTests'["accepted"] = Cardinality(Streamed')
      BY <3>1, <3>2, CountKept DEF Booked, CountersAddUp
    <3>4. totalTests'["rejected"] = Cardinality(Refused')
      BY <3>1, <3>2, CountKept DEF Booked, CountersAddUp
    <3>5. acceptedTotal' = Cardinality((Streamed \cup At({"accepted"}))')
      BY <3>1, <3>2, CountKept DEF Booked, CountersAddUp
    <3>6. rejectedTotal' = Cardinality((Refused \cup At({"rejected"}))')
      BY <3>1, <3>2, CountKept DEF Booked, CountersAddUp
    <3>7. testDuration' = Cardinality(Observable')
      BY <3>1, <3>2, CountKept DEF Booked, CountersAddUp, Observable
    <3>8. httpRequests' = Cardinality(At({"done"})')
      BY <3>1, <3>2, CountKept DEF Booked, CountersAddUp
    <3> QED BY <3>3, <3>4, <3>5, <3>6, <3>7, <3>8 DEF CountersAddUp, Observable
  <2>2. CASE UNCHANGED vars
    BY <2>2 DEF vars, CountersAddUp, Streamed, Refused, At, Outcome
  <2> QED BY <2>1, <2>2 DEF Next, Step
<1> QED BY <1>1, <1>2, InductiveInvariant, PTL DEF Spec
-----------------------------------------------------------------------------
(* The bytes                                                               *)

\* A step of q leaves the observed tests of direction d, what they moved and
\* their total alone, or it observes q and adds what q moved.
BytesBooked(q, d) ==
    \/ /\ Observed(d)' = Observed(d) /\ bytesTransferred'[d] = bytesTransferred[d]
       /\ \A r \in Observed(d) : moved'[r] = moved[r]
    \/ /\ Observed(d)' = Observed(d) \cup {q} /\ q \notin Observed(d)
       /\ bytesTransferred'[d] = bytesTransferred[d] + moved[q] /\ moved' = moved

\* Every step of a request books its bytes so: no handler moves a byte after
\* ObserveTest, and a finished request never changes its direction.
LEMMA StepBooksBytes ==
    ASSUME IInv, NEW q \in Requests, Step(q), NEW d \in {"up", "down"} PROVE BytesBooked(q, d)
<1> USE DEF IInv, TypeOK, StreamInv, BytesBooked, Observed, Direction, Streamed, At, Outcome,
        Goto, request, counters, metrics
<1>1. CASE acquire(q) BY <1>1 DEF acquire
<1>2. CASE countAdmission(q) BY <1>2 DEF countAdmission
<1>3. CASE recordAdmission(q) BY <1>3 DEF recordAdmission
<1>4. CASE LoopTop(q) BY <1>4 DEF LoopTop
<1>5. CASE WriteTimeout(q) BY <1>5 DEF WriteTimeout, PartialWrite
<1>6. CASE ObserveTest(q) BY <1>6 DEF ObserveTest
<1>7. CASE release(q) BY <1>7 DEF release
<1>8. CASE ObserveRequest(q) BY <1>8 DEF ObserveRequest
<1>9. CASE WriteChunk(q) BY <1>9 DEF WriteChunk
<1>10. CASE ClientGone(q) BY <1>10 DEF ClientGone, PartialWrite
<1>11. CASE ReadChunk(q) BY <1>11 DEF ReadChunk
<1>12. CASE ReadEnd(q) BY <1>12 DEF ReadEnd
<1>13. CASE TimePasses(q) BY <1>13 DEF TimePasses
<1>14. ASSUME NEW k \in Kinds, NEW n \in Nat, Arrive(q, k, n) PROVE BytesBooked(q, d)
  BY <1>14 DEF Arrive
<1> HIDE DEF IInv, BytesBooked
<1> QED BY <1>1, <1>2, <1>3, <1>4, <1>5, <1>6, <1>7,
       <1>8, <1>9, <1>10, <1>11, <1>12, <1>13, <1>14 DEF Step, ServerStep, ClientStep, Kinds

\* The bytes metric is the sum of what the observed tests moved, in every state and
\* for any number of requests: a test cut short is booked with what it moved, in
\* its own direction, once.
THEOREM BytesAreExact == Spec => []BytesExact
<1>1. Init => BytesExact
  <2> SUFFICES ASSUME Init, NEW d \in {"up", "down"}
               PROVE  bytesTransferred[d] = SumFunctionOnSet(moved, Observed(d))
    BY DEF BytesExact
  <2>1. Observed(d) = {} BY DEF Init, Observed, Streamed, At, Outcome
  <2>2. bytesTransferred[d] = 0 BY DEF Init
  <2> QED BY <2>1, <2>2, SumEmpty
<1>2. IInv /\ BytesExact /\ [Next]_vars => BytesExact'
  <2> SUFFICES ASSUME IInv, BytesExact, [Next]_vars PROVE BytesExact' OBVIOUS
  <2>1. ASSUME NEW q \in Requests, Step(q), NEW d \in {"up", "down"}
        PROVE  bytesTransferred'[d] = SumFunctionOnSet(moved', Observed(d)')
    <3>1. BytesBooked(q, d) BY <2>1, StepBooksBytes
    <3>2. bytesTransferred[d] = SumFunctionOnSet(moved, Observed(d)) BY DEF BytesExact
    <3>3. Observed(d) \subseteq Requests BY DEF Observed, Streamed, At
    <3>4. IsFiniteSet(Observed(d)) BY <3>3, SpeedTestAssumption, FS_Subset
    <3>5. CASE /\ Observed(d)' = Observed(d) /\ bytesTransferred'[d] = bytesTransferred[d]
               /\ \A r \in Observed(d) : moved'[r] = moved[r]
      <4>1. SumFunctionOnSet(moved', Observed(d)) = SumFunctionOnSet(moved, Observed(d))
        BY <3>4, <3>5, SumSame
      <4> QED BY <3>2, <3>5, <4>1
    <3>6. CASE /\ Observed(d)' = Observed(d) \cup {q} /\ q \notin Observed(d)
               /\ bytesTransferred'[d] = bytesTransferred[d] + moved[q] /\ moved' = moved
      <4>1. moved[q] \in Int /\ \A r \in Observed(d) : moved[r] \in Int
        BY <3>3 DEF IInv, TypeOK
      <4>2. SumFunctionOnSet(moved, Observed(d) \cup {q})
              = SumFunctionOnSet(moved, Observed(d)) + moved[q]
        BY <3>4, <3>6, <4>1, SumAdd
      <4> QED BY <3>2, <3>6, <4>2
    <3> QED BY <3>1, <3>5, <3>6 DEF BytesBooked
  <2>2. CASE UNCHANGED vars
    BY <2>2 DEF vars, BytesExact, Observed, Direction, Streamed, At, Outcome
  <2>3. CASE Next
    <3>1. PICK q \in Requests : Step(q) BY <2>3 DEF Next, Step
    <3> QED BY <2>1, <3>1 DEF BytesExact
  <2> QED BY <2>2, <2>3
<1> QED BY <1>1, <1>2, InductiveInvariant, PTL DEF Spec
=============================================================================
