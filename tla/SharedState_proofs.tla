--------------------------- MODULE SharedState_proofs ---------------------------
(***************************************************************************)
(* Proofs about SharedState, for any interval between samples, any number  *)
(* of Reads and any overlap of the copies. What a Read() returns may be    *)
(* torn; the invariant says how far. The energy of latest is never ahead   *)
(* of its time (LatestCorrect). A copy takes the time first, so its energy *)
(* may be newer than its time, but then latest has moved on by the end of  *)
(* the copy (Possible), the next Read() finds it newer and does not        *)
(* extrapolate (CopyCorrect).                                              *)
(***************************************************************************)
EXTENDS SharedState, TLAPS

-----------------------------------------------------------------------------
(* The inductive invariant. *)

Sample0 == [timestamp : Nat, joules : Int]

Typed ==
    /\ clock \in Nat /\ clock >= 1 /\ origin \in 0 .. clock /\ gap \in Nat
    /\ latest \in Sample0 /\ returned \in Sample0 /\ sample \in Sample0
    /\ local \in Sample0 /\ result \in Sample0
    /\ step \in 0 .. 4
    /\ publishing \in BOOLEAN

ThreadTyped ==
    /\ pc \in Thread!OwnerPC /\ tpc \in Thread!ThreadPC
    /\ locked \in BOOLEAN /\ joinable \in BOOLEAN
    /\ thread_started \in BOOLEAN /\ thread_stop \in BOOLEAN
    /\ state_latest \in Thread!Provenance /\ state_returned \in Thread!Provenance

\* Before the initial sample there is nothing, and only one Read() is the first.
Protocol ==
    /\ tpc \in {"none", "init"} => latest = DefaultState /\ origin = 0 /\ result = DefaultState
    /\ tpc \notin {"none", "init", "ended"} => origin >= 1
    /\ pc \in {"spawn", "wait", "first"} => result = DefaultState
    /\ result # DefaultState \/ pc = "first" =>
          thread_started \/ tpc = "ended" \/ (locked /\ tpc = "signal")
    /\ pc = "lock" /\ result # DefaultState => locked
    /\ pc \notin {"first", "copy", "ended"} => step = 0
    /\ pc = "copy" => step <= 2
    /\ result = DefaultState /\ pc # "ended" /\ ~(pc = "first" /\ step > 0) =>
          returned = DefaultState

\* The energy of m misses gap at most, and is not that of a later sample than latest.
Lags(m)     == m.timestamp - origin - m.joules <= gap
Possible(m) == m.joules <= m.timestamp - origin \/ m.joules <= latest.timestamp - origin

LatestCorrect ==
    /\ origin <= latest.timestamp /\ latest.timestamp <= clock
    /\ 0 <= latest.joules /\ latest.joules <= latest.timestamp - origin
    /\ Lags(latest)
    /\ ~publishing => latest.joules = latest.timestamp - origin
    /\ publishing => tpc \in {"publish", "ended"}

SampleCorrect ==
    tpc = "publish" =>
        /\ sample.timestamp <= clock /\ sample.joules = sample.timestamp - origin
        /\ publishing => latest.timestamp = sample.timestamp
        /\ ~publishing => latest.timestamp < sample.timestamp

\* The first Read() in the middle of its two copies.
FirstCorrect ==
    pc = "first" =>
        /\ step >= 1 => origin <= returned.timestamp /\ returned.timestamp <= latest.timestamp
        /\ step = 1 => returned.timestamp - origin - latest.joules <= gap
        /\ step >= 2 => returned.joules <= latest.timestamp - origin /\ Lags(returned)
        /\ step >= 3 => local.timestamp >= returned.timestamp

\* The local State while it is copied from latest.
LocalCorrect ==
    /\ (pc = "first" /\ step >= 3) \/ (pc = "copy" /\ step >= 1) =>
          origin <= local.timestamp /\ local.timestamp <= latest.timestamp
    /\ (pc = "first" /\ step = 3) \/ (pc = "copy" /\ step = 1) =>
          local.timestamp - origin - latest.joules <= gap
    /\ (pc = "first" /\ step = 4) \/ (pc = "copy" /\ step = 2) =>
          local.joules <= latest.timestamp - origin /\ Lags(local)

\* Once the time has been copied, it is decided whether returned is extrapolated.
CopyCorrect ==
    pc = "copy" /\ step >= 1 =>
        /\ local.timestamp <= returned.timestamp => returned.joules <= returned.timestamp - origin
        /\ result.timestamp <= returned.timestamp \/ result.timestamp <= local.timestamp

ResultCorrect ==
    result # DefaultState =>
        /\ origin <= returned.timestamp /\ returned.timestamp <= clock
        /\ Possible(returned) /\ Lags(returned)
        /\ origin <= result.timestamp /\ result.timestamp <= clock
        /\ result.joules <= clock - origin /\ Lags(result)
        /\ result.timestamp <= returned.timestamp \/ result.timestamp <= latest.timestamp

ControlInv == ThreadTyped /\ Thread!Handover
DataInv    == LatestCorrect /\ SampleCorrect /\ FirstCorrect /\ LocalCorrect /\ CopyCorrect
              /\ ResultCorrect
IInv       == Typed /\ ControlInv /\ Protocol /\ DataInv

-----------------------------------------------------------------------------
(* The control, which is that of MeasurementThread. *)

\* Every step of SharedState is a step of MeasurementThread or none.
LEMMA ThreadNext == [Next]_vars => [Thread!Next]_threadVars
<1> SUFFICES ASSUME [Next]_vars PROVE Thread!Next \/ UNCHANGED threadVars
  BY DEF threadVars
<1> USE DEF Thread!Next, Thread!ClientCall, Thread!OwnerStep, Thread!ThreadStep
<1>1. CASE Tick \/ PublishFirst \/ Store \/ CopyTimestamp \/ CopyJoules
  BY <1>1 DEF Tick, PublishFirst, Store, CopyTimestamp, CopyJoules
<1>2. CASE InitialState \/ Sample \/ PublishSecond \/ FirstRead \/ ReadLatest
  BY <1>2 DEF InitialState, Sample, PublishSecond, FirstRead, ReadLatest
<1>3. CASE Control
  BY <1>3 DEF Control
<1>4. CASE UNCHANGED vars
  BY <1>4 DEF vars
<1> QED BY <1>1, <1>2, <1>3, <1>4 DEF Next

\* The control invariant of MeasurementThread (MeasurementThread_proofs has the argument).
LEMMA ControlStep == ControlInv /\ [Thread!Next]_threadVars => ControlInv'
<1> SUFFICES ASSUME ThreadTyped, Thread!Handover, Thread!Next \/ UNCHANGED threadVars
             PROVE  ThreadTyped' /\ Thread!Handover'
  BY DEF ControlInv
<1> USE DEF ThreadTyped, Thread!OwnerPC, Thread!ThreadPC, Thread!Provenance,
            Thread!ownerVars, Thread!threadVars,
            Thread!Handover, Thread!ProcessEndsWhole, Thread!NoThreadYet, Thread!JoinableThread,
            Thread!StopMeansDestroy, Thread!MutexUntilMeasured, Thread!StartedIsMeasured,
            Thread!OwnerSeesMeasured
<1>1. CASE Thread!Read
  BY <1>1 DEF Thread!Read
<1>2. CASE Thread!Destroy
  BY <1>2 DEF Thread!Destroy
<1>3. CASE Thread!LockThreadMutex
  BY <1>3 DEF Thread!LockThreadMutex
<1>4. CASE Thread!SpawnThread
  BY <1>4 DEF Thread!SpawnThread
<1>5. CASE Thread!SpawnFailure
  BY <1>5 DEF Thread!SpawnFailure
<1>6. CASE Thread!SpawnOverThread \/ Thread!InitialFailure \/ Thread!SampleCrash
  <2>1. Thread!Terminate
    BY <1>6 DEF Thread!SpawnOverThread, Thread!InitialFailure, Thread!SampleCrash
  <2> QED BY <2>1 DEF Thread!Terminate
<1>7. CASE Thread!TryLock
  <2>1. ~locked => state_latest = "measured"
    BY <1>7 DEF Thread!TryLock
  <2> QED BY <1>7, <2>1 DEF Thread!TryLock
<1>8. CASE Thread!GiveUp
  BY <1>8 DEF Thread!GiveUp
<1>9. CASE Thread!FirstRead
  BY <1>9 DEF Thread!FirstRead
<1>10. CASE Thread!ReadLatest
  BY <1>10 DEF Thread!ReadLatest
<1>11. CASE Thread!Join
  BY <1>11 DEF Thread!Join
<1>12. CASE Thread!InitialState
  BY <1>12 DEF Thread!InitialState
<1>13. CASE Thread!TestStop
  BY <1>13 DEF Thread!TestStop
<1>14. CASE Thread!Sample
  BY <1>14 DEF Thread!Sample
<1>15. CASE Thread!SampleFailure
  BY <1>15 DEF Thread!SampleFailure
<1>16. CASE Thread!Publish
  BY <1>16 DEF Thread!Publish
<1>17. CASE Thread!UnlockThreadMutex
  BY <1>17 DEF Thread!UnlockThreadMutex
<1>18. CASE Thread!SignalStarted
  BY <1>18 DEF Thread!SignalStarted
<1>19. CASE UNCHANGED threadVars
  BY <1>19 DEF threadVars
<1> QED
  BY <1>1, <1>2, <1>3, <1>4, <1>5, <1>6, <1>7, <1>8, <1>9, <1>10, <1>11, <1>12, <1>13, <1>14,
     <1>15, <1>16, <1>17, <1>18, <1>19
  DEF Thread!Next, Thread!ClientCall, Thread!OwnerStep, Thread!ThreadStep

\* What the hand-over means for the places of the two threads in this module.
LEMMA Places ==
    ASSUME ControlInv
    PROVE  /\ tpc = "unlock" => ~thread_started
           /\ tpc = "init" => ~thread_started /\ pc \notin {"first", "copy"}
           /\ tpc = "none" => ~thread_started /\ ~joinable
           /\ pc = "copy" => thread_started
           /\ pc = "wait" => joinable
           /\ pc = "wait" /\ ~locked => thread_started \/ tpc \in {"signal", "ended"}
           /\ tpc = "ended" <=> pc = "ended"
           /\ pc = "first" => tpc \notin {"none", "init"}
           /\ pc = "spawn" => tpc \in {"none"} \/ joinable
  BY DEF ControlInv, ThreadTyped, Thread!OwnerPC, Thread!ThreadPC, Thread!Provenance,
         Thread!Handover, Thread!ProcessEndsWhole, Thread!NoThreadYet, Thread!JoinableThread,
         Thread!StopMeansDestroy, Thread!MutexUntilMeasured, Thread!StartedIsMeasured,
         Thread!OwnerSeesMeasured

-----------------------------------------------------------------------------
(* Steps of the clock and of the measurement thread. *)

LEMMA TickStep == IInv /\ Tick => Typed' /\ Protocol' /\ DataInv'
<1> SUFFICES ASSUME IInv, Tick PROVE Typed' /\ Protocol' /\ DataInv'
  OBVIOUS
<1> USE DEF IInv, Typed, DataInv, Tick, threadVars, readVars, loopVars
<1>1. Typed'
  BY DEF Sample0
<1>2. Protocol'
  BY DEF Protocol
<1>3. LatestCorrect' /\ SampleCorrect' /\ FirstCorrect' /\ LocalCorrect' /\ CopyCorrect'
  BY DEF LatestCorrect, SampleCorrect, FirstCorrect, LocalCorrect, CopyCorrect, Lags, Sample0
<1>4. ResultCorrect'
  BY DEF ResultCorrect, Possible, Lags, Sample0
<1> QED BY <1>1, <1>2, <1>3, <1>4

LEMMA InitialStateStep == IInv /\ InitialState => Typed' /\ Protocol' /\ DataInv'
<1> SUFFICES ASSUME IInv, InitialState PROVE Typed' /\ Protocol' /\ DataInv'
  OBVIOUS
<1> USE DEF IInv, Typed, DataInv, InitialState, readVars, Thread!InitialState, Thread!ownerVars
<1>1. Typed'
  BY DEF Sample0
<1>2. result = DefaultState /\ pc \notin {"first", "copy"} /\ ~publishing
  BY Places DEF Protocol, LatestCorrect
<1>3. Protocol'
  BY <1>2 DEF Protocol
<1>4. LatestCorrect' /\ SampleCorrect'
  BY <1>2 DEF LatestCorrect, SampleCorrect, Lags, Sample0
<1>5. FirstCorrect' /\ LocalCorrect' /\ CopyCorrect' /\ ResultCorrect'
  BY <1>2 DEF FirstCorrect, LocalCorrect, CopyCorrect, ResultCorrect
<1> QED BY <1>1, <1>3, <1>4, <1>5

LEMMA SampleStep == IInv /\ Sample => Typed' /\ Protocol' /\ DataInv'
<1> SUFFICES ASSUME IInv, Sample PROVE Typed' /\ Protocol' /\ DataInv'
  OBVIOUS
<1> USE DEF IInv, Typed, DataInv, Sample, readVars, Thread!Sample, Thread!ownerVars
<1>1. Typed'
  BY DEF Sample0
<1>2. Protocol'
  BY DEF Protocol
<1>3. LatestCorrect' /\ SampleCorrect'
  BY DEF LatestCorrect, SampleCorrect, Lags, Sample0
<1>4. FirstCorrect' /\ LocalCorrect' /\ CopyCorrect' /\ ResultCorrect'
  BY DEF FirstCorrect, LocalCorrect, CopyCorrect, ResultCorrect, Lags, Possible
<1> QED BY <1>1, <1>2, <1>3, <1>4

LEMMA PublishFirstStep == IInv /\ PublishFirst => Typed' /\ Protocol' /\ DataInv'
<1> SUFFICES ASSUME IInv, PublishFirst PROVE Typed' /\ Protocol' /\ DataInv'
  OBVIOUS
<1> USE DEF IInv, Typed, DataInv, PublishFirst, readVars, threadVars, Assign
<1>1. /\ latest'.timestamp = sample.timestamp /\ latest'.joules = latest.joules
      /\ latest'.timestamp > latest.timestamp
      /\ gap' \in Nat /\ gap' >= gap /\ gap' >= sample.timestamp - latest.timestamp
  BY DEF SampleCorrect, Sample0
<1>2. Typed'
  BY <1>1 DEF Sample0
<1>3. Protocol'
  BY DEF Protocol
<1>4. LatestCorrect' /\ SampleCorrect'
  BY <1>1 DEF LatestCorrect, SampleCorrect, Lags, Sample0
<1>5. FirstCorrect' /\ LocalCorrect' /\ CopyCorrect'
  BY <1>1 DEF FirstCorrect, LocalCorrect, CopyCorrect, Lags, Sample0
<1>6. ResultCorrect'
  BY <1>1 DEF ResultCorrect, Lags, Possible, Sample0
<1> QED BY <1>2, <1>3, <1>4, <1>5, <1>6

LEMMA PublishSecondStep == IInv /\ PublishSecond => Typed' /\ Protocol' /\ DataInv'
<1> SUFFICES ASSUME IInv, PublishSecond PROVE Typed' /\ Protocol' /\ DataInv'
  OBVIOUS
<1> USE DEF IInv, Typed, DataInv, PublishSecond, readVars, Assign, Thread!Publish, Thread!ownerVars
<1>1. /\ latest'.timestamp = latest.timestamp /\ latest'.joules = sample.joules
      /\ sample.joules = latest.timestamp - origin /\ latest'.joules >= latest.joules
  BY DEF SampleCorrect, LatestCorrect, Sample0
<1>2. Typed'
  BY <1>1 DEF Sample0
<1>3. Protocol'
  BY DEF Protocol
<1>4. LatestCorrect' /\ SampleCorrect'
  BY <1>1 DEF LatestCorrect, SampleCorrect, Lags, Sample0
<1>5. FirstCorrect' /\ LocalCorrect' /\ CopyCorrect'
  BY <1>1 DEF FirstCorrect, LocalCorrect, CopyCorrect, Lags, Sample0
<1>6. ResultCorrect'
  BY <1>1 DEF ResultCorrect, Lags, Possible, Sample0
<1> QED BY <1>2, <1>3, <1>4, <1>5, <1>6

-----------------------------------------------------------------------------
(* Steps of Read(). *)

LEMMA StoreStep == IInv /\ Store => Typed' /\ Protocol' /\ DataInv'
<1> SUFFICES ASSUME IInv, Store PROVE Typed' /\ Protocol' /\ DataInv'
  OBVIOUS
<1> USE DEF IInv, Typed, DataInv, Store, loopVars, threadVars, Assign
<1>1. result = DefaultState
  BY DEF Protocol
<1>2. /\ step = 0 => returned'.timestamp = latest.timestamp /\ returned'.joules = returned.joules
      /\ step = 1 => returned'.timestamp = returned.timestamp /\ returned'.joules = latest.joules
  BY DEF Sample0
<1>3. Typed'
  BY <1>2 DEF Sample0
<1>4. Protocol'
  BY <1>1 DEF Protocol
<1>5. LatestCorrect' /\ SampleCorrect'
  BY DEF LatestCorrect, SampleCorrect, Lags
<1>6. FirstCorrect'
  BY <1>2 DEF FirstCorrect, LatestCorrect, Lags, Sample0
<1>7. LocalCorrect' /\ CopyCorrect' /\ ResultCorrect'
  BY <1>1 DEF LocalCorrect, CopyCorrect, ResultCorrect, Lags
<1> QED BY <1>3, <1>4, <1>5, <1>6, <1>7

LEMMA CopyTimestampStep == IInv /\ CopyTimestamp => Typed' /\ Protocol' /\ DataInv'
<1> SUFFICES ASSUME IInv, CopyTimestamp PROVE Typed' /\ Protocol' /\ DataInv'
  OBVIOUS
<1> USE DEF IInv, Typed, DataInv, CopyTimestamp, loopVars, threadVars
<1>1. local'.timestamp = latest.timestamp /\ local'.joules = local.joules
  BY DEF Sample0
<1>2. Typed'
  BY <1>1 DEF Sample0
<1>3. Protocol'
  BY DEF Protocol
<1>4. LatestCorrect' /\ SampleCorrect' /\ ResultCorrect'
  BY DEF LatestCorrect, SampleCorrect, ResultCorrect, Lags, Possible
<1>5. FirstCorrect' /\ LocalCorrect'
  BY <1>1 DEF FirstCorrect, LocalCorrect, LatestCorrect, Lags, Sample0
<1>6. CopyCorrect'
  <2>1. CASE result = DefaultState
    BY <1>1, <2>1, Places DEF CopyCorrect, Protocol, LatestCorrect, DefaultState, Sample0,
                      ControlInv, ThreadTyped, Thread!OwnerPC
  <2>2. CASE result # DefaultState
    BY <1>1, <2>2 DEF CopyCorrect, ResultCorrect, Possible, Sample0
  <2> QED BY <2>1, <2>2
<1> QED BY <1>2, <1>3, <1>4, <1>5, <1>6

LEMMA CopyJoulesStep == IInv /\ CopyJoules => Typed' /\ Protocol' /\ DataInv'
<1> SUFFICES ASSUME IInv, CopyJoules PROVE Typed' /\ Protocol' /\ DataInv'
  OBVIOUS
<1> USE DEF IInv, Typed, DataInv, CopyJoules, loopVars, threadVars
<1>1. local'.timestamp = local.timestamp /\ local'.joules = latest.joules
  BY DEF Sample0
<1>2. Typed'
  BY <1>1 DEF Sample0
<1>3. Protocol'
  BY DEF Protocol
<1>4. LatestCorrect' /\ SampleCorrect' /\ ResultCorrect'
  BY DEF LatestCorrect, SampleCorrect, ResultCorrect, Lags, Possible
<1>5. FirstCorrect' /\ LocalCorrect' /\ CopyCorrect'
  BY <1>1 DEF FirstCorrect, LocalCorrect, LatestCorrect, CopyCorrect, Lags, Sample0
<1> QED BY <1>2, <1>3, <1>4, <1>5

LEMMA FirstReadStep == IInv /\ FirstRead => Typed' /\ Protocol' /\ DataInv'
<1> SUFFICES ASSUME IInv, FirstRead PROVE Typed' /\ Protocol' /\ DataInv'
  OBVIOUS
<1> USE DEF IInv, Typed, DataInv, FirstRead, loopVars, Thread!FirstRead, Thread!threadVars
<1>1. Typed'
  BY DEF Sample0
<1>2. Protocol'
  <2>1. origin >= 1 /\ tpc \notin {"none", "init", "ended"}
    BY Places DEF Protocol
  <2>2. result' # DefaultState
    BY <2>1 DEF LocalCorrect, DefaultState, Sample0
  <2> QED BY <2>1, <2>2, Places DEF Protocol
<1>3. LatestCorrect' /\ SampleCorrect'
  BY DEF LatestCorrect, SampleCorrect, Lags
<1>4. FirstCorrect' /\ LocalCorrect' /\ CopyCorrect'
  BY DEF FirstCorrect, LocalCorrect, CopyCorrect
<1>5. ResultCorrect'
  BY DEF ResultCorrect, FirstCorrect, LocalCorrect, LatestCorrect, Lags, Possible, Sample0
<1> QED BY <1>1, <1>2, <1>3, <1>4, <1>5

LEMMA ReadLatestStep == IInv /\ ReadLatest => Typed' /\ Protocol' /\ DataInv'
<1> SUFFICES ASSUME IInv, ReadLatest PROVE Typed' /\ Protocol' /\ DataInv'
  OBVIOUS
<1> USE DEF IInv, Typed, DataInv, ReadLatest, loopVars, Thread!ReadLatest, Thread!threadVars
<1>1. /\ pc = "copy" /\ step = 2 /\ pc' = "idle" /\ step' = 0 /\ returned' = result'
      /\ UNCHANGED <<tpc, locked, thread_started, joinable, clock, local, latest, sample,
                     publishing, origin, gap>>
  OBVIOUS
<1>2. CASE local.timestamp > returned.timestamp
  <2>1. result' = local
    BY <1>2
  <2>2. Typed' /\ Protocol'
    BY <1>1, <2>1, Places DEF Protocol, LocalCorrect, DefaultState, Sample0
  <2>3. LatestCorrect' /\ SampleCorrect' /\ FirstCorrect' /\ LocalCorrect' /\ CopyCorrect'
    BY <1>1 DEF LatestCorrect, SampleCorrect, FirstCorrect, LocalCorrect, CopyCorrect, Lags
  <2>4. ResultCorrect'
    BY <1>1, <2>1 DEF ResultCorrect, LocalCorrect, LatestCorrect, Lags, Possible, Sample0
  <2> QED BY <2>2, <2>3, <2>4
<1>3. CASE ~(local.timestamp > returned.timestamp)
  <2>1. /\ result'.timestamp = clock
        /\ result'.joules = returned.joules + (clock - returned.timestamp)
        /\ result' \in Sample0
    BY <1>3 DEF Extrapolate, Sample0
  <2>2. origin >= 1 /\ returned # DefaultState /\ result # DefaultState
    <3>1. origin >= 1
      BY <1>1, Places DEF Protocol
    <3> QED BY <1>1, <1>3, <3>1, Places DEF Protocol, LocalCorrect, DefaultState, Sample0
  <2>3. Typed' /\ Protocol'
    BY <1>1, <2>1, <2>2, Places DEF Protocol, DefaultState, Sample0
  <2>4. LatestCorrect' /\ SampleCorrect' /\ FirstCorrect' /\ LocalCorrect' /\ CopyCorrect'
    BY <1>1 DEF LatestCorrect, SampleCorrect, FirstCorrect, LocalCorrect, CopyCorrect, Lags
  <2>5. ResultCorrect'
    BY <1>1, <1>3, <2>1, <2>2 DEF ResultCorrect, CopyCorrect, Lags, Possible, Sample0
  <2> QED BY <2>3, <2>4, <2>5
<1> QED BY <1>2, <1>3

-----------------------------------------------------------------------------
(* Steps that touch neither state. *)

LEMMA ControlDataStep == IInv /\ Control => Typed' /\ Protocol' /\ DataInv'
<1> SUFFICES ASSUME IInv, Control PROVE Typed' /\ Protocol' /\ DataInv'
  OBVIOUS
<1>1. UNCHANGED <<clock, latest, returned, sample, local, result, step, publishing, origin, gap>>
  BY DEF Control, readVars, loopVars
<1>2. Typed'
  BY <1>1 DEF IInv, Typed
<1>3. /\ pc' # pc => pc' \notin {"copy", "first"} \/ step = 0
      /\ tpc' = "publish" => tpc = "publish"
      /\ tpc = "publish" => tpc' \in {"publish", "ended"}
      /\ tpc = "ended" => tpc' = "ended"
      /\ tpc \in {"none", "init"} => tpc' \in {"none", "init", "ended"}
      /\ tpc' \in {"none", "init"} => tpc \in {"none", "init"}
  <2> USE DEF Thread!ownerVars, Thread!threadVars
  <2>1. CASE Thread!Read \/ Thread!Destroy \/ Thread!LockThreadMutex \/ Thread!SpawnFailure
             \/ Thread!TryLock \/ Thread!GiveUp \/ Thread!Join
    BY <2>1 DEF Thread!Read, Thread!Destroy, Thread!LockThreadMutex, Thread!SpawnFailure,
                Thread!TryLock, Thread!GiveUp, Thread!Join, IInv, Protocol
  <2>2. CASE Thread!SpawnThread
    BY <2>2, Places DEF Thread!SpawnThread, IInv
  <2>3. CASE Thread!SpawnOverThread \/ Thread!InitialFailure \/ Thread!SampleCrash
    BY <2>3 DEF Thread!SpawnOverThread, Thread!InitialFailure, Thread!SampleCrash, Thread!Terminate
  <2>4. CASE Thread!TestStop \/ Thread!SampleFailure \/ Thread!UnlockThreadMutex \/ Thread!SignalStarted
    BY <2>4 DEF Thread!TestStop, Thread!SampleFailure, Thread!UnlockThreadMutex, Thread!SignalStarted
  <2> QED BY <2>1, <2>2, <2>3, <2>4 DEF Control
<1>4. LatestCorrect' /\ SampleCorrect'
  BY <1>1, <1>3 DEF IInv, DataInv, LatestCorrect, SampleCorrect, Lags
<1>5. FirstCorrect' /\ LocalCorrect' /\ CopyCorrect'
  BY <1>1, <1>3 DEF IInv, DataInv, Typed, FirstCorrect, LocalCorrect, CopyCorrect, Lags
<1>6. ResultCorrect'
  BY <1>1 DEF IInv, DataInv, ResultCorrect, Lags, Possible
<1>7. Protocol'
  <2> USE <1>1 DEF IInv, Protocol, Thread!ownerVars, Thread!threadVars
  <2>1. CASE Thread!Read
    BY <2>1, Places DEF Thread!Read
  <2>2. CASE Thread!Destroy \/ Thread!Join
    BY <2>2 DEF Thread!Destroy, Thread!Join
  <2>3. CASE Thread!LockThreadMutex
    BY <2>3 DEF Thread!LockThreadMutex
  <2>4. CASE Thread!SpawnThread
    BY <2>4, Places DEF Thread!SpawnThread
  <2>5. CASE Thread!SpawnFailure
    BY <2>5 DEF Thread!SpawnFailure
  <2>6. CASE Thread!TryLock
    BY <2>6, Places DEF Thread!TryLock
  <2>7. CASE Thread!GiveUp
    BY <2>7 DEF Thread!GiveUp
  <2>8. CASE Thread!SpawnOverThread \/ Thread!InitialFailure \/ Thread!SampleCrash
    BY <2>8 DEF Thread!SpawnOverThread, Thread!InitialFailure, Thread!SampleCrash, Thread!Terminate
  <2>9. CASE Thread!TestStop
    BY <2>9 DEF Thread!TestStop
  <2>10. CASE Thread!SampleFailure
    BY <2>10 DEF Thread!SampleFailure
  <2>11. CASE Thread!UnlockThreadMutex
    BY <2>11, Places DEF Thread!UnlockThreadMutex
  <2>12. CASE Thread!SignalStarted
    BY <2>12 DEF Thread!SignalStarted
  <2> QED BY <2>1, <2>2, <2>3, <2>4, <2>5, <2>6, <2>7, <2>8, <2>9, <2>10, <2>11, <2>12 DEF Control
<1> QED BY <1>2, <1>4, <1>5, <1>6, <1>7 DEF DataInv

-----------------------------------------------------------------------------
\* The invariant is inductive: the control of the two threads, what their local
\* variables hold at each place, and how the two States compare with the present.
THEOREM Inductive == Spec => []IInv
<1>1. Init => IInv
  <2> SUFFICES ASSUME Init PROVE IInv
    OBVIOUS
  <2>1. ControlInv
    BY DEF Init, Thread!Init, ControlInv, ThreadTyped, Thread!OwnerPC, Thread!ThreadPC,
           Thread!Provenance, Thread!Handover, Thread!ProcessEndsWhole, Thread!NoThreadYet,
           Thread!JoinableThread, Thread!StopMeansDestroy, Thread!MutexUntilMeasured,
           Thread!StartedIsMeasured, Thread!OwnerSeesMeasured
  <2>2. Typed
    <3>1. DefaultState \in Sample0
      BY DEF DefaultState, Sample0
    <3>2. clock \in Nat /\ clock >= 1 /\ origin \in 0 .. clock /\ gap \in Nat /\ step \in 0 .. 4
      BY DEF Init
    <3>3. publishing \in BOOLEAN
      BY DEF Init
    <3> QED BY <3>1, <3>2, <3>3 DEF Init, Typed
  <2>3. Protocol /\ DataInv
    BY DEF Init, Thread!Init, Protocol, DataInv, LatestCorrect, SampleCorrect, FirstCorrect,
           LocalCorrect, CopyCorrect, ResultCorrect, Lags, DefaultState
  <2> QED BY <2>1, <2>2, <2>3 DEF IInv
<1>2. IInv /\ [Next]_vars => IInv'
  <2> SUFFICES ASSUME IInv, [Next]_vars PROVE IInv'
    OBVIOUS
  <2>1. ControlInv'
    BY ThreadNext, ControlStep DEF IInv
  <2>2. CASE Next
    BY <2>1, <2>2, TickStep, InitialStateStep, SampleStep, PublishFirstStep, PublishSecondStep,
       StoreStep, CopyTimestampStep, CopyJoulesStep, FirstReadStep, ReadLatestStep, ControlDataStep
    DEF Next, IInv
  <2>3. CASE UNCHANGED vars
    BY <2>3, <2>1 DEF vars, threadVars, readVars, loopVars, IInv, Typed, Protocol, DataInv,
       LatestCorrect, SampleCorrect, FirstCorrect, LocalCorrect, CopyCorrect, ResultCorrect,
       Lags, Possible
  <2> QED BY <2>2, <2>3
<1> QED BY <1>1, <1>2, PTL DEF Spec

\* No Read() returns energy that has not been drawn yet, for any overlap of copies
\* and assignments and any number of extrapolations (State.h:14-21, PMT.cpp:201-215).
THEOREM EnergyNeverAheadCorrect == Spec => []EnergyNeverAhead
<1>1. IInv => EnergyNeverAhead
  BY DEF IInv, DataInv, ResultCorrect, EnergyNeverAhead
<1> QED BY <1>1, Inductive, PTL

\* What a torn copy misses is the energy between two samples at most, and no number
\* of extrapolations adds to it (PMT.cpp:205-215).
THEOREM LagBoundedCorrect == Spec => []LagBounded
<1>1. IInv => LagBounded
  BY DEF IInv, DataInv, ResultCorrect, LagBounded, Lags
<1> QED BY <1>1, Inductive, PTL

\* The time of a returned State lies between that of the one before and the present.
LEMMA ReadTimes ==
    ASSUME IInv, ReadReturns
    PROVE  result'.timestamp \in result.timestamp .. clock
<1> USE DEF IInv, Typed, DataInv
<1>1. CASE FirstRead
  <2>1. result = DefaultState /\ result' = local
    BY <1>1 DEF FirstRead, Thread!FirstRead, Protocol
  <2>2. local.timestamp <= clock
    BY <1>1 DEF FirstRead, Thread!FirstRead, LocalCorrect, LatestCorrect, Sample0
  <2> QED BY <2>1, <2>2 DEF DefaultState, Sample0
<1>2. CASE ReadLatest
  <2>1. pc = "copy" /\ step = 2
    BY <1>2 DEF ReadLatest, Thread!ReadLatest
  <2>2. /\ result.timestamp <= returned.timestamp \/ result.timestamp <= local.timestamp
        /\ local.timestamp <= clock
    BY <2>1 DEF CopyCorrect, LocalCorrect, LatestCorrect, Sample0
  <2>3. result.timestamp <= clock
    BY DEF ResultCorrect, DefaultState
  <2>4. CASE local.timestamp > returned.timestamp
    <3>1. result' = local
      BY <1>2, <2>4 DEF ReadLatest
    <3> QED BY <2>2, <2>4, <3>1 DEF Sample0
  <2>5. CASE ~(local.timestamp > returned.timestamp)
    <3>1. result'.timestamp = clock
      BY <1>2, <2>5 DEF ReadLatest, Extrapolate
    <3> QED BY <2>3, <3>1 DEF Sample0
  <2> QED BY <2>4, <2>5
<1> QED BY <1>1, <1>2 DEF ReadReturns

\* Time never falls back between two Reads, although the first one copies twice and
\* the later ones choose between two States (PMT.cpp:201-215).
THEOREM NeverBackInTimeCorrect == Spec => NeverBackInTime
<1>1. IInv /\ [Next]_vars => [ReadReturns => result'.timestamp >= result.timestamp]_vars
  <2> SUFFICES ASSUME IInv, ReadReturns PROVE result'.timestamp >= result.timestamp
    OBVIOUS
  <2> QED BY ReadTimes DEF IInv, Typed, Sample0
<1> QED BY <1>1, Inductive, PTL DEF Spec, NeverBackInTime

\* What a Read() returns is a State of the device, and is told from that of none.
LEMMA ReadIsPlausible ==
    ASSUME IInv, IInv', ReadReturns
    PROVE  /\ clock' = clock /\ gap' = gap /\ origin' = origin
           /\ result' # DefaultState
           /\ result' \in Sample0 /\ origin \in 0 .. result'.timestamp
           /\ (result'.timestamp - origin) - result'.joules <= gap
           /\ result'.joules <= clock - origin
<1>1. UNCHANGED loopVars /\ clock' = clock
  BY DEF ReadReturns, FirstRead, ReadLatest
<1>2. origin >= 1 /\ clock >= 1
  <2>1. pc \in {"first", "copy"} /\ pc # "ended"
    BY DEF ReadReturns, FirstRead, ReadLatest, Thread!FirstRead, Thread!ReadLatest
  <2>2. tpc \notin {"none", "init", "ended"}
    BY <2>1, Places DEF IInv
  <2> QED BY <2>2 DEF IInv, Typed, Protocol
<1>3. result'.timestamp = clock \/ result'.timestamp >= origin
  <2>1. CASE FirstRead
    BY <2>1 DEF FirstRead, Thread!FirstRead, IInv, DataInv, LocalCorrect, Typed, Sample0
  <2>2. CASE ReadLatest
    <3>1. origin <= local.timestamp
      BY <2>2 DEF ReadLatest, Thread!ReadLatest, IInv, DataInv, LocalCorrect
    <3>2. result' = local \/ result'.timestamp = clock
      BY <2>2 DEF ReadLatest, Extrapolate
    <3> QED BY <3>1, <3>2 DEF IInv, Typed, Sample0
  <2> QED BY <2>1, <2>2 DEF ReadReturns
<1>4. result' # DefaultState
  BY <1>2, <1>3 DEF DefaultState, IInv, Typed
<1> QED BY <1>1, <1>4 DEF loopVars, IInv, Typed, DataInv, ResultCorrect, Lags, Sample0

\* Two threads that copy two members one after the other are a meter to the client
\* (State.h:14-21, PMT.cpp:201-215): every return of Read() is a Report of Meter with
\* torn States, and every other step a Pass.
THEOREM MeterCorrect == Spec => ImplementsMeter
<1>1. Init => PublicMeter!Init
  BY DEF Init, PublicMeter!Init, PublicMeter!NoReport, DefaultState
<1>2. IInv /\ IInv' /\ [Next]_vars => [PublicMeter!Next]_(PublicMeter!vars)
  <2> SUFFICES ASSUME IInv, IInv', [Next]_vars PROVE [PublicMeter!Next]_(PublicMeter!vars)
    OBVIOUS
  <2>1. CASE ReadReturns
    <3>1. PublicMeter!Plausible([timestamp |-> origin', joules |-> 0],
             [timestamp |-> result'.timestamp, joules |-> 2 * result'.joules])
      <4> DEFINE time == result'.timestamp
                 energy == result'.joules
      <4>1. /\ time \in Int /\ energy \in Int /\ origin \in Int /\ gap \in Int /\ clock \in Int
            /\ time - origin - energy <= gap /\ energy <= clock - origin /\ origin' = origin
        BY <2>1, ReadIsPlausible DEF IInv, Typed, Sample0
      <4> HIDE DEF time, energy
      <4>2. /\ 2 * energy - 0 >= 2 * 1 * ((time - origin) - gap)
            /\ 2 * energy - 0 <= 2 * 1 * (clock - origin)
        BY <4>1
      <4> QED BY <4>1, <4>2 DEF PublicMeter!Plausible, time, energy
    <3>2. /\ result'.timestamp \in result.timestamp .. clock
          /\ origin' \in (IF result = DefaultState THEN 0 ELSE origin) .. result'.timestamp
      BY <2>1, ReadIsPlausible, ReadTimes DEF IInv, Typed, Sample0
    <3>3. result' # DefaultState /\ UNCHANGED <<clock, gap>>
      BY <2>1, ReadIsPlausible
    <3>4. PublicMeter!Report
      BY <3>1, <3>2, <3>3 DEF PublicMeter!Report
    <3> QED BY <3>4 DEF PublicMeter!Next
  <2>2. CASE Next /\ ~ReadReturns
    <3>1. result' = result
      BY <2>2 DEF Next, ReadReturns, Tick, InitialState, Sample, PublishFirst, PublishSecond,
                  Store, CopyTimestamp, CopyJoules, Control, readVars
    <3>2. result = DefaultState \/ origin' = origin
      <4>1. CASE InitialState
        BY <4>1 DEF InitialState, Thread!InitialState, IInv, Protocol
      <4>2. CASE ~InitialState
        BY <2>2, <4>2 DEF Next, ReadReturns, Tick, Sample, PublishFirst, PublishSecond,
                  Store, CopyTimestamp, CopyJoules, Control, loopVars
      <4> QED BY <4>1, <4>2
    <3>3. clock' >= clock
      BY <2>2 DEF Next, ReadReturns, Tick, InitialState, Sample, PublishFirst, PublishSecond,
                  Store, CopyTimestamp, CopyJoules, Control, IInv, Typed
    <3>4. gap' >= gap
      <4>1. CASE PublishFirst
        BY <4>1 DEF PublishFirst, IInv, Typed, Sample0
      <4>2. CASE ~PublishFirst
        BY <2>2, <4>2 DEF Next, ReadReturns, Tick, InitialState, Sample, PublishSecond,
                  Store, CopyTimestamp, CopyJoules, Control, loopVars, IInv, Typed
      <4> QED BY <4>1, <4>2
    <3>5. PublicMeter!Pass
      BY <3>1, <3>2, <3>3, <3>4 DEF PublicMeter!Pass
    <3> QED BY <3>5 DEF PublicMeter!Next
  <2>3. CASE UNCHANGED vars
    BY <2>3 DEF vars, readVars, loopVars, PublicMeter!vars
  <2> QED BY <2>1, <2>2, <2>3
<1> QED BY <1>1, <1>2, Inductive, PTL DEF Spec, PublicMeter!Spec, ImplementsMeter

\* Splitting the copies of the states leaves the protocol of the threads as it is
\* (PMT.cpp:87-135, 167-216): every step is one of MeasurementThread or none of it.
THEOREM ThreadCorrect == Spec => ImplementsThread
<1>1. Init => Thread!Init
  BY DEF Init
<1>2. [Next]_vars => [Thread!Next]_(Thread!vars)
  BY ThreadNext DEF threadVars, Thread!vars
<1> QED BY <1>1, <1>2, PTL DEF Spec, Thread!Spec, ImplementsThread

\* The theorems of MeasurementThread are about its own specification, which is spelled
\* out twice here: as the Thread of SharedState, and as the module they are proved about.
ThreadProofs == INSTANCE MeasurementThread_proofs

LEMMA SameThread ==
    /\ Thread!Init => ThreadProofs!Init
    /\ [Thread!Next]_(Thread!vars) => [ThreadProofs!Next]_(ThreadProofs!vars)
<1> USE DEF Thread!vars, ThreadProofs!vars, Thread!ownerVars, ThreadProofs!ownerVars,
            Thread!threadVars, ThreadProofs!threadVars, Thread!Terminate, ThreadProofs!Terminate
<1>1. Thread!Init => ThreadProofs!Init
  BY DEF Thread!Init, ThreadProofs!Init
<1>2. Thread!ClientCall => ThreadProofs!ClientCall
  BY DEF
     Thread!ClientCall, ThreadProofs!ClientCall, Thread!Read, ThreadProofs!Read,
     Thread!Destroy, ThreadProofs!Destroy
<1>3. Thread!OwnerStep => ThreadProofs!OwnerStep
  BY DEF
     Thread!OwnerStep, ThreadProofs!OwnerStep, Thread!LockThreadMutex,
     ThreadProofs!LockThreadMutex, Thread!SpawnThread, ThreadProofs!SpawnThread,
     Thread!SpawnOverThread, ThreadProofs!SpawnOverThread, Thread!SpawnFailure,
     ThreadProofs!SpawnFailure, Thread!TryLock, ThreadProofs!TryLock, Thread!GiveUp,
     ThreadProofs!GiveUp, Thread!FirstRead, ThreadProofs!FirstRead, Thread!ReadLatest,
     ThreadProofs!ReadLatest, Thread!Join, ThreadProofs!Join
<1>4. Thread!ThreadStep => ThreadProofs!ThreadStep
  BY DEF
     Thread!ThreadStep, ThreadProofs!ThreadStep, Thread!InitialState,
     ThreadProofs!InitialState, Thread!InitialFailure, ThreadProofs!InitialFailure,
     Thread!TestStop, ThreadProofs!TestStop, Thread!Sample, ThreadProofs!Sample,
     Thread!SampleFailure, ThreadProofs!SampleFailure, Thread!SampleCrash,
     ThreadProofs!SampleCrash, Thread!Publish, ThreadProofs!Publish, Thread!UnlockThreadMutex,
     ThreadProofs!UnlockThreadMutex, Thread!SignalStarted, ThreadProofs!SignalStarted
<1> QED BY <1>1, <1>2, <1>3, <1>4 DEF Thread!Next, ThreadProofs!Next

\* What the hand-over guarantees while the States are copied at once, it guarantees while
\* their members are copied one by one (PMT.cpp:87-135, 186-216): its parts hold, a Read()
\* returns a measured state, the thread unlocks a mutex that is held, and is gone when the
\* object is.
THEOREM HandoverCorrect ==
    Spec => /\ [](ThreadProofs!Handover /\ ThreadProofs!UnlockIsMatched
                  /\ ThreadProofs!ThreadEndsBeforeObject)
            /\ ThreadProofs!ReadIsMeasured
<1>1. ThreadProofs!RetriesAssumption /\ ThreadProofs!FaultsAssumption
  BY SizesAssumption, FaultsAssumption
     DEF Thread!AllFaults, ThreadProofs!AllFaults, ThreadProofs!RetriesAssumption,
         ThreadProofs!FaultsAssumption
<1>2. ThreadProofs!Spec => []ThreadProofs!Handover
  BY <1>1, ThreadProofs!HandoverCorrect
<1>3. ThreadProofs!Spec => []ThreadProofs!UnlockIsMatched
  BY <1>1, ThreadProofs!UnlockIsMatchedCorrect
<1>4. ThreadProofs!Spec => []ThreadProofs!ThreadEndsBeforeObject
  BY <1>1, ThreadProofs!ThreadEndsBeforeObjectCorrect
<1>5. ThreadProofs!Spec => ThreadProofs!ReadIsMeasured
  BY <1>1, ThreadProofs!ReadIsMeasuredCorrect
<1>6. Thread!Spec => ThreadProofs!Spec
  BY SameThread, PTL DEF Thread!Spec, ThreadProofs!Spec
<1> QED BY <1>2, <1>3, <1>4, <1>5, <1>6, ThreadCorrect, PTL DEF ImplementsThread

-----------------------------------------------------------------------------
(* Types: no copy, torn or whole, and no sum of energies leaves its range. *)

RetriesTyped ==
    /\ retries \in 0 .. (kNrRetriesInitialization + 2)
    /\ pc = "wait" => retries <= kNrRetriesInitialization + 1

StatesTyped == clock \in Time /\ gap \in Time
               /\ {latest, returned, sample, local, result} \subseteq Members

LEMMA RetriesStep == RetriesTyped /\ [Thread!Next]_threadVars => RetriesTyped'
<1> SUFFICES ASSUME RetriesTyped, Thread!Next \/ UNCHANGED threadVars PROVE RetriesTyped'
  OBVIOUS
<1> USE SizesAssumption DEF RetriesTyped, Thread!ownerVars
<1>1. CASE Thread!SpawnThread
  BY <1>1 DEF Thread!SpawnThread
<1>2. CASE Thread!TryLock
  BY <1>2 DEF Thread!TryLock
<1>3. CASE Thread!GiveUp
  BY <1>3 DEF Thread!GiveUp
<1>4. CASE Thread!SpawnOverThread \/ Thread!InitialFailure \/ Thread!SampleCrash
  BY <1>4 DEF Thread!SpawnOverThread, Thread!InitialFailure, Thread!SampleCrash, Thread!Terminate
<1>5. CASE Thread!ClientCall \/ Thread!LockThreadMutex \/ Thread!SpawnFailure \/ Thread!FirstRead
           \/ Thread!ReadLatest \/ Thread!Join
  BY <1>5 DEF Thread!ClientCall, Thread!Read, Thread!Destroy, Thread!LockThreadMutex,
              Thread!SpawnFailure, Thread!FirstRead, Thread!ReadLatest, Thread!Join
<1>6. CASE Thread!InitialState \/ Thread!TestStop \/ Thread!Sample \/ Thread!SampleFailure
           \/ Thread!Publish \/ Thread!UnlockThreadMutex \/ Thread!SignalStarted
  BY <1>6 DEF Thread!InitialState, Thread!TestStop, Thread!Sample, Thread!SampleFailure,
              Thread!Publish, Thread!UnlockThreadMutex, Thread!SignalStarted
<1>7. CASE UNCHANGED threadVars
  BY <1>7 DEF threadVars
<1> QED
  BY <1>1, <1>2, <1>3, <1>4, <1>5, <1>6, <1>7 DEF Thread!Next, Thread!OwnerStep, Thread!ThreadStep

LEMMA StatesStep == IInv /\ IInv' /\ StatesTyped /\ [Next]_vars => StatesTyped'
<1> SUFFICES ASSUME IInv, IInv', StatesTyped, [Next]_vars PROVE StatesTyped'
  OBVIOUS
<1> USE SizesAssumption DEF StatesTyped, Members, Time
<1>1. latest \in Members /\ returned \in Members /\ sample \in Members /\ local \in Members
      /\ result \in Members /\ clock \in 0 .. MaxTime
  OBVIOUS
<1>2. CASE Tick
  BY <1>2 DEF Tick, readVars, loopVars, IInv, Typed
<1>3. CASE InitialState
  BY <1>3 DEF InitialState, readVars
<1>4. CASE Sample
  <2>1. latest.timestamp - origin >= 0 /\ latest.joules <= latest.timestamp - origin /\ origin \in Nat
    BY DEF IInv, Typed, DataInv, LatestCorrect, Sample0
  <2>2. sample' \in Members
    BY <1>1, <1>4, <2>1 DEF Sample
  <2> QED BY <1>4, <2>2 DEF Sample, readVars
<1>5. CASE PublishFirst \/ PublishSecond
  <2>1. latest' \in Members /\ gap' \in Time
    BY <1>1, <1>5 DEF PublishFirst, PublishSecond, Assign, IInv, DataInv, SampleCorrect, Typed
  <2> QED BY <1>5, <2>1 DEF PublishFirst, PublishSecond, readVars
<1>6. CASE Store
  <2>1. returned' \in Members
    BY <1>1, <1>6 DEF Store, Assign
  <2> QED BY <1>6, <2>1 DEF Store, loopVars
<1>7. CASE CopyTimestamp \/ CopyJoules
  <2>1. local' \in Members
    BY <1>1, <1>7 DEF CopyTimestamp, CopyJoules
  <2> QED BY <1>7, <2>1 DEF CopyTimestamp, CopyJoules, loopVars
<1>8. CASE FirstRead
  BY <1>8 DEF FirstRead, loopVars
<1>9. CASE ReadLatest
  <2>1. CASE local.timestamp > returned.timestamp
    BY <1>9, <2>1 DEF ReadLatest, loopVars
  <2>2. CASE ~(local.timestamp > returned.timestamp)
    <3>1. result' = Extrapolate(returned) /\ returned' = result'
      BY <1>9, <2>2 DEF ReadLatest
    <3>2. returned.timestamp <= clock /\ result'.joules <= clock' - origin'
          /\ clock' = clock /\ origin' \in Nat
      <4>1. result' # DefaultState /\ result'.joules <= clock' - origin'
        BY <1>9, ReadIsPlausible DEF ReadReturns
      <4>2. returned.timestamp <= clock
        <5>1. pc = "copy"
          BY <1>9 DEF ReadLatest, Thread!ReadLatest
        <5> QED BY <5>1 DEF IInv, DataInv, ResultCorrect, Protocol, DefaultState, Typed
      <4> QED BY <1>9, <4>1, <4>2 DEF ReadLatest, IInv, Typed
    <3>3. result'.timestamp = clock /\ result'.joules = returned.joules + (clock - returned.timestamp)
      BY <3>1 DEF Extrapolate
    <3>4. result' \in Members
      BY <1>1, <3>1, <3>2, <3>3 DEF Extrapolate
    <3> QED BY <1>9, <3>1, <3>4 DEF ReadLatest, loopVars
  <2> QED BY <2>1, <2>2
<1>10. CASE Control \/ UNCHANGED vars
  BY <1>10 DEF Control, vars, readVars, loopVars
<1> QED BY <1>2, <1>3, <1>4, <1>5, <1>6, <1>7, <1>8, <1>9, <1>10 DEF Next

\* For any number of samples and Reads: what the threads copy are times and energies
\* of the run, never negative, and the wait of the first Read() counts to its bound.
THEOREM TypeCorrect == Spec => []TypeOK
<1>1. Init => RetriesTyped /\ StatesTyped
  <2> SUFFICES ASSUME Init PROVE RetriesTyped /\ StatesTyped
    OBVIOUS
  <2>1. RetriesTyped
    BY SizesAssumption DEF Init, Thread!Init, RetriesTyped
  <2>2. DefaultState \in Members
    BY SizesAssumption DEF DefaultState, Members, Time
  <2>3. clock \in Time /\ gap \in Time
    BY SizesAssumption DEF Init, Time
  <2>4. latest \in Members /\ returned \in Members /\ sample \in Members /\ local \in Members
        /\ result \in Members
    BY <2>2 DEF Init
  <2> QED BY <2>1, <2>3, <2>4 DEF StatesTyped
<1>2. IInv /\ IInv' /\ RetriesTyped /\ StatesTyped /\ [Next]_vars => RetriesTyped' /\ StatesTyped'
  BY ThreadNext, RetriesStep, StatesStep
<1>3. IInv /\ RetriesTyped /\ StatesTyped => TypeOK
  <2> SUFFICES ASSUME IInv, RetriesTyped, StatesTyped PROVE TypeOK
    OBVIOUS
  <2>1. Thread!TypeOK
    BY DEF IInv, ControlInv, ThreadTyped, RetriesTyped, Thread!TypeOK
  <2>2. origin \in Time
    BY SizesAssumption DEF IInv, Typed, StatesTyped, Time
  <2> QED BY <2>1, <2>2 DEF TypeOK, StatesTyped, IInv, Typed
<1> QED BY <1>1, <1>2, <1>3, Inductive, PTL DEF Spec

=============================================================================
