--------------------------- MODULE Updater_proofs ---------------------------
(***************************************************************************)
(* Proofs about Updater, for any bounds on the clock, the failures and the *)
(* restarts: what is on disk, in temporary files and served stays          *)
(* consistent through every failure, crash and restart.                    *)
(***************************************************************************)
EXTENDS Updater, TLAPS

\* Dates, the missing date, and the fields of the typed records.
LEMMA DateFacts ==
    /\ Dates \subseteq MaybeDate
    /\ NoDate \in MaybeDate
    /\ NoDate \notin Dates
BY UpdaterAssumption DEF NoDate, Dates, MaybeDate

LEMMA FieldTypes ==
    ASSUME TypeOK
    PROVE  /\ target.ver \in MaybeDate /\ target.mtime \in MaybeDate
           /\ target.data \in Quality
           /\ bundle.ver \in MaybeDate /\ bundle.data \in Quality
BY DEF TypeOK

\* Init establishes the inductive invariant.
LEMMA InitIInv == Init => IInv
<1> USE DateFacts DEF Init, NoFile
<1> SUFFICES ASSUME Init PROVE IInv OBVIOUS
<1>0. 0 \in Dates /\ 0 \in 0 .. MaxFaults /\ 0 \in 0 .. MaxBoots
  BY UpdaterAssumption DEF Dates
<1>1. TypeOK
  <2>1. CountersOK BY <1>0 DEF CountersOK
  <2>2. target \in [ver : MaybeDate, mtime : MaybeDate, data : Quality]
    BY <1>0 DEF Quality
  <2>3. bundle \in [ver : MaybeDate, data : Quality] BY DEF Quality
  <2> QED BY <2>1, <2>2, <2>3 DEF TypeOK
<1>2. TickInv BY DEF TickInv, TempsAt
<1>3. ServesWhatIsOnDisk BY DEF ServesWhatIsOnDisk
<1> QED BY <1>1, <1>2, <1>3 DEF IInv

\* The outside world and main() preserve it.
LEMMA ProcessIInv ==
    ASSUME IInv, ClockTick \/ Publish \/ Boot \/ Signal \/ CloseGeoIP \/ Exit \/ Crash
    PROVE  IInv'
<1> USE DateFacts, FieldTypes DEF IInv, procVars, hostVars, tickVars, ctlVars
<1>1. CASE ClockTick
  <2> USE <1>1 DEF ClockTick
  <2>0. CountersOK' BY UpdaterAssumption DEF CountersOK, TypeOK, Dates
  <2>1. TypeOK' BY <2>0 DEF TypeOK, Quality, CountersOK
  <2>2. TickInv' BY DEF TypeOK, CountersOK, TickInv, TempsAt
  <2>3. (ExplicitPath => ServesWhatIsOnDisk)'
    BY DEF TypeOK, TickInv, ServesWhatIsOnDisk
  <2> QED BY <2>1, <2>2, <2>3
<1>2. CASE Publish
  <2> USE <1>2 DEF Publish
  <2>0. CountersOK' BY UpdaterAssumption DEF CountersOK, TypeOK, Dates
  <2>1. TypeOK' BY <2>0 DEF TypeOK, Quality, CountersOK
  <2>2. TickInv' BY DEF TypeOK, CountersOK, TickInv, TempsAt
  <2>3. (ExplicitPath => ServesWhatIsOnDisk)'
    BY DEF TypeOK, TickInv, ServesWhatIsOnDisk
  <2> QED BY <2>1, <2>2, <2>3
<1>3. CASE Boot
  <2> USE <1>3 DEF Boot, openAtBoot, Fault
  <2>0. CountersOK' BY UpdaterAssumption DEF CountersOK, TypeOK, Dates
  <2>1. TypeOK' BY <2>0 DEF TypeOK, Quality, CountersOK
  <2>2. TickInv' BY DEF TypeOK, CountersOK, TickInv, TempsAt
  <2>3. (ExplicitPath => ServesWhatIsOnDisk)'
    BY DEF TypeOK, TickInv, ServesWhatIsOnDisk
  <2> QED BY <2>1, <2>2, <2>3
<1>4. CASE Signal
  <2> USE <1>4 DEF Signal
  <2>0. CountersOK' BY UpdaterAssumption DEF CountersOK, TypeOK, Dates
  <2>1. TypeOK' BY <2>0 DEF TypeOK, Quality, CountersOK
  <2>2. TickInv' BY DEF TypeOK, CountersOK, TickInv, TempsAt
  <2>3. (ExplicitPath => ServesWhatIsOnDisk)'
    BY DEF TypeOK, TickInv, ServesWhatIsOnDisk
  <2> QED BY <2>1, <2>2, <2>3
<1>5. CASE CloseGeoIP
  <2> USE <1>5 DEF CloseGeoIP
  <2>0. CountersOK' BY UpdaterAssumption DEF CountersOK, TypeOK, Dates
  <2>1. TypeOK' BY <2>0 DEF TypeOK, Quality, CountersOK
  <2>2. TickInv' BY DEF TypeOK, CountersOK, TickInv, TempsAt
  <2>3. (ExplicitPath => ServesWhatIsOnDisk)'
    BY DEF TypeOK, TickInv, ServesWhatIsOnDisk
  <2> QED BY <2>1, <2>2, <2>3
<1>6. CASE Exit
  <2> USE <1>6 DEF Exit, Gone
  <2>0. CountersOK' BY UpdaterAssumption DEF CountersOK, TypeOK, Dates
  <2>1. TypeOK' BY <2>0 DEF TypeOK, Quality, CountersOK
  <2>2. TickInv' BY DEF TypeOK, CountersOK, TickInv, TempsAt
  <2>3. (ExplicitPath => ServesWhatIsOnDisk)'
    BY DEF TypeOK, TickInv, ServesWhatIsOnDisk
  <2> QED BY <2>1, <2>2, <2>3
<1>7. CASE Crash
  <2> USE <1>7 DEF Crash, Gone
  <2>0. CountersOK' BY UpdaterAssumption DEF CountersOK, TypeOK, Dates
  <2>1. TypeOK' BY <2>0 DEF TypeOK, Quality, CountersOK
  <2>2. TickInv' BY DEF TypeOK, CountersOK, TickInv, TempsAt
  <2>3. (ExplicitPath => ServesWhatIsOnDisk)'
    BY DEF TypeOK, TickInv, ServesWhatIsOnDisk
  <2> QED BY <2>1, <2>2, <2>3
<1> QED BY <1>1, <1>2, <1>3, <1>4, <1>5, <1>6, <1>7

\* Every step of the updater goroutine preserves it.
LEMMA RunIInv == ASSUME IInv, Run PROVE IInv'
<1> USE DateFacts, FieldTypes DEF IInv, procVars, hostVars, tickVars, ctlVars, Fault, Return
<1>1. CASE tick
  <2> USE <1>1 DEF tick
  <2>0. CountersOK' BY UpdaterAssumption DEF CountersOK, TypeOK, Dates
  <2>1. TypeOK' BY <2>0 DEF TypeOK, Quality, CountersOK
  <2>2. TickInv' BY DEF TypeOK, CountersOK, TickInv, TempsAt
  <2>3. (ExplicitPath => ServesWhatIsOnDisk)'
    BY DEF TypeOK, TickInv, ServesWhatIsOnDisk
  <2> QED BY <2>1, <2>2, <2>3
<1>2. CASE response
  <2> USE <1>2 DEF response
  <2>0. CountersOK' BY UpdaterAssumption DEF CountersOK, TypeOK, Dates
  <2>1. TypeOK' BY <2>0 DEF TypeOK, Quality, CountersOK
  <2>2. TickInv' BY DEF TypeOK, CountersOK, TickInv, TempsAt
  <2>3. (ExplicitPath => ServesWhatIsOnDisk)'
    BY DEF TypeOK, TickInv, ServesWhatIsOnDisk
  <2> QED BY <2>1, <2>2, <2>3
<1>3. CASE copyBody
  <2> USE <1>3 DEF copyBody
  <2>0. CountersOK' BY UpdaterAssumption DEF CountersOK, TypeOK, Dates
  <2>1. TypeOK' BY <2>0 DEF TypeOK, Quality, CountersOK
  <2>2. TickInv' BY DEF TypeOK, CountersOK, TickInv, TempsAt
  <2>3. (ExplicitPath => ServesWhatIsOnDisk)'
    BY DEF TypeOK, TickInv, ServesWhatIsOnDisk
  <2> QED BY <2>1, <2>2, <2>3
<1>4. CASE panic
  <2> USE <1>4 DEF panic
  <2>0. CountersOK' BY UpdaterAssumption DEF CountersOK, TypeOK, Dates
  <2>1. TypeOK' BY <2>0 DEF TypeOK, Quality, CountersOK
  <2>2. TickInv' BY DEF TypeOK, CountersOK, TickInv, TempsAt
  <2>3. (ExplicitPath => ServesWhatIsOnDisk)'
    BY DEF TypeOK, TickInv, ServesWhatIsOnDisk
  <2> QED BY <2>1, <2>2, <2>3
<1>5. CASE extract
  <2> USE <1>5 DEF extract
  <2>0. CountersOK' BY UpdaterAssumption DEF CountersOK, TypeOK, Dates
  <2>1. TypeOK' BY <2>0 DEF TypeOK, Quality, CountersOK
  <2>2. TickInv' BY DEF TypeOK, CountersOK, TickInv, TempsAt
  <2>3. (ExplicitPath => ServesWhatIsOnDisk)'
    BY DEF TypeOK, TickInv, ServesWhatIsOnDisk
  <2> QED BY <2>1, <2>2, <2>3
<1>6. CASE verify
  <2> USE <1>6 DEF verify
  <2>0. CountersOK' BY UpdaterAssumption DEF CountersOK, TypeOK, Dates
  <2>1. TypeOK' BY <2>0 DEF TypeOK, Quality, CountersOK
  <2>2. TickInv' BY DEF TypeOK, CountersOK, TickInv, TempsAt
  <2>3. (ExplicitPath => ServesWhatIsOnDisk)'
    BY DEF TypeOK, TickInv, ServesWhatIsOnDisk
  <2> QED BY <2>1, <2>2, <2>3
<1>7. CASE rename
  <2> USE <1>7 DEF rename
  <2>0. CountersOK' BY UpdaterAssumption DEF CountersOK, TypeOK, Dates
  <2>1. CASE pc' = "swap"
    <3>1. /\ target'.ver = bundle.ver
          /\ target'.data = bundle.data
          /\ target' \in [ver : MaybeDate, mtime : MaybeDate, data : Quality]
      BY <2>1 DEF TypeOK, TickInv, Return
    <3>2. TypeOK' BY <2>0, <3>1 DEF TypeOK
    <3>3. TickInv' BY <3>1 DEF TypeOK, TickInv, TempsAt
    <3>4. (ExplicitPath => ServesWhatIsOnDisk)'
      BY <3>1 DEF TypeOK, TickInv, ServesWhatIsOnDisk
    <3> QED BY <3>2, <3>3, <3>4
  <2>2. CASE pc' # "swap"
    <3>1. TypeOK' BY <2>0, <2>2 DEF TypeOK
    <3>2. TickInv' BY <2>2 DEF TypeOK, TickInv, TempsAt
    <3>3. (ExplicitPath => ServesWhatIsOnDisk)'
      BY <2>2 DEF TypeOK, TickInv, ServesWhatIsOnDisk
    <3> QED BY <3>1, <3>2, <3>3
  <2> QED BY <2>1, <2>2
<1>8. CASE swap
  <2> USE <1>8 DEF swap
  <2>0. CountersOK' BY UpdaterAssumption DEF CountersOK, TypeOK, Dates
  <2>1. TypeOK' BY <2>0 DEF TypeOK, Quality, CountersOK
  <2>2. TickInv' BY DEF TypeOK, CountersOK, TickInv, TempsAt
  <2>3. (ExplicitPath => ServesWhatIsOnDisk)'
    BY DEF TypeOK, TickInv, ServesWhatIsOnDisk
  <2> QED BY <2>1, <2>2, <2>3
<1>9. CASE nextTick
  <2> USE <1>9 DEF nextTick
  <2>0. CountersOK' BY UpdaterAssumption DEF CountersOK, TypeOK, Dates
  <2>1. TypeOK' BY <2>0 DEF TypeOK, Quality, CountersOK
  <2>2. TickInv' BY DEF TypeOK, CountersOK, TickInv, TempsAt
  <2>3. (ExplicitPath => ServesWhatIsOnDisk)'
    BY DEF TypeOK, TickInv, ServesWhatIsOnDisk
  <2> QED BY <2>1, <2>2, <2>3
<1>10. CASE stop
  <2> USE <1>10 DEF stop
  <2>0. CountersOK' BY UpdaterAssumption DEF CountersOK, TypeOK, Dates
  <2>1. TypeOK' BY <2>0 DEF TypeOK, Quality, CountersOK
  <2>2. TickInv' BY DEF TypeOK, CountersOK, TickInv, TempsAt
  <2>3. (ExplicitPath => ServesWhatIsOnDisk)'
    BY DEF TypeOK, TickInv, ServesWhatIsOnDisk
  <2> QED BY <2>1, <2>2, <2>3
<1> QED BY <1>1, <1>2, <1>3, <1>4, <1>5, <1>6, <1>7, <1>8, <1>9, <1>10 DEF Run

\* Temporary files, the open Lookup, the file on disk and the served database
\* agree with the progress of the tick in every reachable state.
THEOREM InductiveInvariant == Spec => []IInv
<1>1. IInv /\ [Next]_vars => IInv'
  <2> SUFFICES ASSUME IInv, [Next]_vars PROVE IInv' OBVIOUS
  <2>1. CASE Next BY <2>1, ProcessIInv, RunIInv DEF Next
  <2>2. CASE UNCHANGED vars
    BY <2>2 DEF vars, IInv, TypeOK, CountersOK, TickInv, TempsAt,
         ServesWhatIsOnDisk
  <2> QED BY <2>1, <2>2
<1> QED BY <1>1, InitIInv, PTL DEF Spec

\* Whatever replaces the file at TargetPath opens as a database, whatever
\* fails and whenever the process dies.
THEOREM DiskStaysGood == Spec => GoodCopySurvives
<1>1. ASSUME IInv, [Next]_vars
      PROVE  [target' # target => target'.data = "intact"]_vars
  <2> USE <1>1
  <2>1. CASE rename
    <3>1. bundle.data = "intact" BY <2>1 DEF rename, IInv, TickInv
    <3>2. \/ target' = target
          \/ target' = [ver |-> bundle.ver, mtime |-> mtime, data |-> bundle.data]
      BY <2>1 DEF rename
    <3> QED BY <3>1, <3>2
  <2>2. CASE ~rename /\ Next
    BY <2>2 DEF Next, Run, ClockTick, Publish, Boot, Signal, CloseGeoIP, Exit, Crash, Gone,
         tick, response, copyBody, panic, extract, verify, swap, nextTick, stop
  <2>3. CASE UNCHANGED vars BY <2>3 DEF vars
  <2> QED BY <2>1, <2>2, <2>3
<1> QED BY <1>1, InductiveInvariant, PTL DEF Spec, GoodCopySurvives

\* No return path of tick leaves a temporary file or an open Lookup behind.
THEOREM TicksCleanUp == Spec => []AtRestClean
<1>1. IInv => AtRestClean BY DEF IInv, TickInv, TempsAt, AtRestClean
<1> QED BY <1>1, InductiveInvariant, PTL

\* With an explicit path the handler serves what is on disk, and nothing at all
\* from a start over a file geoip.Open rejects until the next swap.
THEOREM DiskAndServiceAgree == ASSUME ExplicitPath PROVE Spec => []ServesWhatIsOnDisk
<1>1. IInv => ServesWhatIsOnDisk BY DEF IInv
<1> QED BY <1>1, InductiveInvariant, PTL
=============================================================================
