----------------------- MODULE MeasurementThread_proofs -----------------------
(***************************************************************************)
(* Proofs about MeasurementThread for every number of retries and every    *)
(* set of faults. The inductive invariant is TypeOK /\ Handover: that a    *)
(* Read() only returns measured states depends on the mutex being held     *)
(* until the first sample is published, which in turn depends on which of  *)
(* the two program counters may be where while the flags are not yet set.  *)
(***************************************************************************)
EXTENDS MeasurementThread, TLAPS

\* The protocol in a process that something else may end at any step, as a write
\* to the dump file can.
EndingSpec == Init /\ [][Next \/ Terminate]_vars

OwnerAction ==
    \/ Read \/ Destroy \/ LockThreadMutex \/ SpawnThread \/ SpawnOverThread \/ SpawnFailure
    \/ TryLock \/ GiveUp \/ FirstRead \/ ReadLatest \/ Join

\* The next-state relation as one action of the owner or one of the thread.
LEMMA NextIsActions == Next <=> OwnerAction \/ ThreadStep
  BY DEF Next, ClientCall, OwnerStep, OwnerAction

-----------------------------------------------------------------------------
LEMMA TypeInit == Init => TypeOK
<1>1. 0 \in 0 .. (kNrRetriesInitialization + 2)
  BY RetriesAssumption DEF RetriesAssumption
<1>. QED
  BY <1>1 DEF Init, TypeOK, OwnerPC, ThreadPC, Provenance

LEMMA TypeStep == TypeOK /\ [Next \/ Terminate]_vars => TypeOK'
<1>. SUFFICES ASSUME TypeOK, [Next \/ Terminate]_vars
              PROVE  TypeOK'
  OBVIOUS
<1>. USE DEF TypeOK, OwnerPC, ThreadPC, Provenance, ownerVars, threadVars
<1>1. CASE Read
  BY <1>1 DEF Read
<1>2. CASE Destroy
  BY <1>2 DEF Destroy
<1>3. CASE LockThreadMutex
  BY <1>3 DEF LockThreadMutex
<1>4. CASE SpawnThread
  BY <1>4, RetriesAssumption DEF SpawnThread, RetriesAssumption
<1>5. CASE SpawnOverThread
  BY <1>5 DEF SpawnOverThread, Terminate
<1>6. CASE SpawnFailure
  BY <1>6 DEF SpawnFailure
<1>7. CASE TryLock
  <2>1. retries' \in 0 .. (kNrRetriesInitialization + 2)
    BY <1>7, RetriesAssumption DEF TryLock, RetriesAssumption
  <2>2. pc' = "wait" => retries' <= kNrRetriesInitialization + 1
    BY <1>7, RetriesAssumption DEF TryLock, RetriesAssumption
  <2>. QED
    BY <1>7, <2>1, <2>2 DEF TryLock
<1>8. CASE GiveUp
  <2>1. retries' \in 0 .. (kNrRetriesInitialization + 2)
    BY <1>8, RetriesAssumption DEF GiveUp, RetriesAssumption
  <2>. QED
    BY <1>8, <2>1 DEF GiveUp
<1>9. CASE FirstRead
  BY <1>9 DEF FirstRead
<1>10. CASE ReadLatest
  BY <1>10 DEF ReadLatest
<1>11. CASE Join
  BY <1>11 DEF Join
<1>12. CASE ThreadStep
  <2>1. CASE InitialFailure \/ SampleCrash
    <3>1. Terminate
      BY <2>1 DEF InitialFailure, SampleCrash
    <3>. QED
      BY <3>1 DEF Terminate
  <2>2. CASE InitialState \/ TestStop \/ Publish
    BY <2>2 DEF InitialState, TestStop, Publish
  <2>3. CASE Sample \/ SampleFailure
    BY <2>3 DEF Sample, SampleFailure
  <2>4. CASE UnlockThreadMutex \/ SignalStarted
    BY <2>4 DEF UnlockThreadMutex, SignalStarted
  <2>. QED
    BY <1>12, <2>1, <2>2, <2>3, <2>4 DEF ThreadStep
<1>13. CASE UNCHANGED vars
  BY <1>13 DEF vars
<1>14. CASE Terminate
  BY <1>14 DEF Terminate
<1>. QED
  BY <1>1, <1>2, <1>3, <1>4, <1>5, <1>6, <1>7, <1>8, <1>9, <1>10, <1>11, <1>12, <1>13, <1>14,
     NextIsActions DEF OwnerAction

\* Every variable keeps its type; the wait loop ends at kNrRetries... + 2, so the
\* counter of Read() cannot overflow (PMT.cpp:191-199).
THEOREM TypeCorrect == Spec => []TypeOK
<1>1. TypeOK /\ [Next]_vars => TypeOK'
  BY TypeStep
<1>. QED
  BY <1>1, TypeInit, PTL DEF Spec

-----------------------------------------------------------------------------
LEMMA HandoverInit == Init => Handover
  BY DEF Init, Handover, ProcessEndsWhole, NoThreadYet, JoinableThread, StopMeansDestroy,
         MutexUntilMeasured, StartedIsMeasured, OwnerSeesMeasured

LEMMA HandoverStep == TypeOK /\ Handover /\ [Next \/ Terminate]_vars => Handover'
<1>. SUFFICES ASSUME TypeOK, Handover, [Next \/ Terminate]_vars
              PROVE  Handover'
  OBVIOUS
<1>. USE DEF Handover, ProcessEndsWhole, NoThreadYet, JoinableThread, StopMeansDestroy,
             MutexUntilMeasured, StartedIsMeasured, OwnerSeesMeasured
<1>. USE DEF TypeOK, OwnerPC, ThreadPC, Provenance, ownerVars, threadVars
<1>1. CASE Read
  BY <1>1 DEF Read
<1>2. CASE Destroy
  BY <1>2 DEF Destroy
<1>3. CASE LockThreadMutex
  BY <1>3 DEF LockThreadMutex
<1>4. CASE SpawnThread
  BY <1>4 DEF SpawnThread
<1>5. CASE SpawnOverThread
  BY <1>5 DEF SpawnOverThread, Terminate
<1>6. CASE SpawnFailure
  BY <1>6 DEF SpawnFailure
<1>7. CASE TryLock
  \* try_lock succeeds only after the thread has unlocked, hence published.
  <2>1. ~locked => state_latest = "measured"
    BY <1>7 DEF TryLock
  <2>. QED
    BY <1>7, <2>1 DEF TryLock
<1>8. CASE GiveUp
  BY <1>8 DEF GiveUp
<1>9. CASE FirstRead
  BY <1>9 DEF FirstRead
<1>10. CASE ReadLatest
  BY <1>10 DEF ReadLatest
<1>11. CASE Join
  BY <1>11 DEF Join
<1>12. CASE InitialState
  BY <1>12 DEF InitialState
<1>13. CASE InitialFailure \/ SampleCrash
  <2>1. Terminate
    BY <1>13 DEF InitialFailure, SampleCrash
  <2>. QED
    BY <2>1 DEF Terminate
<1>14. CASE TestStop
  BY <1>14 DEF TestStop
<1>15. CASE Sample \/ SampleFailure
  <2>1. CASE Sample
    BY <2>1 DEF Sample
  <2>2. CASE SampleFailure
    BY <2>2 DEF SampleFailure
  <2>. QED
    BY <1>15, <2>1, <2>2
<1>16. CASE Publish
  BY <1>16 DEF Publish
<1>17. CASE UnlockThreadMutex
  BY <1>17 DEF UnlockThreadMutex
<1>18. CASE SignalStarted
  BY <1>18 DEF SignalStarted
<1>19. CASE UNCHANGED vars
  BY <1>19 DEF vars
<1>20. CASE Terminate
  BY <1>20 DEF Terminate
<1>. QED
  BY <1>1, <1>2, <1>3, <1>4, <1>5, <1>6, <1>7, <1>8, <1>9, <1>10, <1>11, <1>12, <1>13, <1>14,
     <1>15, <1>16, <1>17, <1>18, <1>19, <1>20, NextIsActions
     DEF OwnerAction, ThreadStep

\* The parts of Handover hold together at every step of both threads.
THEOREM HandoverCorrect == Spec => []Handover
<1>1. TypeOK /\ Handover /\ [Next]_vars => Handover'
  BY HandoverStep
<1>. QED
  BY <1>1, HandoverInit, TypeCorrect, PTL DEF Spec

-----------------------------------------------------------------------------
LEMMA ReadStep == TypeOK /\ Handover => (FirstRead \/ ReadLatest => state_returned' = "measured")
<1>. SUFFICES ASSUME TypeOK, Handover, FirstRead \/ ReadLatest
              PROVE  state_returned' = "measured"
  OBVIOUS
<1>. USE DEF Handover, StartedIsMeasured, OwnerSeesMeasured
<1>1. CASE FirstRead
  BY <1>1 DEF FirstRead
<1>2. CASE ReadLatest
  <2>1. state_latest = "measured"
    BY <1>2 DEF ReadLatest
  <2>2. PICK s \in {state_latest, state_returned} :
                  /\ s = "default" => state_latest = "default"
                  /\ state_returned' = s
    BY <1>2 DEF ReadLatest
  <2>3. s = "measured"
    BY <2>1, <2>2 DEF TypeOK, Provenance
  <2>. QED
    BY <2>2, <2>3
<1>. QED
  BY <1>1, <1>2

\* A Read() that returns a State returns a measured one (PMT.cpp:186-216).
THEOREM ReadIsMeasuredCorrect == Spec => ReadIsMeasured
<1>1. TypeOK /\ Handover => [FirstRead \/ ReadLatest => state_returned' = "measured"]_vars
  BY ReadStep
<1>. QED
  BY <1>1, TypeCorrect, HandoverCorrect, PTL DEF ReadIsMeasured

LEMMA UnlockStep == Handover => UnlockIsMatched
  BY DEF Handover, MutexUntilMeasured, StartedIsMeasured, UnlockIsMatched

\* The mutex is unlocked only while it is held (PMT.cpp:122-125).
THEOREM UnlockIsMatchedCorrect == Spec => []UnlockIsMatched
  BY UnlockStep, HandoverCorrect, PTL

-----------------------------------------------------------------------------
LEMMA EndsBeforeInit == Init => ThreadEndsBeforeObject
  BY DEF Init, ThreadEndsBeforeObject

LEMMA EndsBeforeStep ==
    TypeOK /\ Handover /\ ThreadEndsBeforeObject /\ [Next \/ Terminate]_vars
        => ThreadEndsBeforeObject'
<1>. SUFFICES ASSUME TypeOK, Handover, ThreadEndsBeforeObject, [Next \/ Terminate]_vars,
                     pc' = "gone"
              PROVE  tpc' \in {"none", "done"} /\ ~joinable'
  BY DEF ThreadEndsBeforeObject
<1>. USE DEF ThreadEndsBeforeObject, ownerVars, threadVars
<1>1. CASE Destroy
  BY <1>1 DEF Destroy, Handover, JoinableThread
<1>2. CASE Join
  BY <1>2 DEF Join
<1>3. CASE ThreadStep
  BY <1>3 DEF ThreadStep, InitialState, InitialFailure, Terminate, TestStop, Sample,
              SampleFailure, SampleCrash, Publish, UnlockThreadMutex, SignalStarted
<1>4. CASE UNCHANGED vars
  BY <1>4 DEF vars
<1>5. CASE \/ Read \/ LockThreadMutex \/ SpawnThread \/ SpawnOverThread \/ SpawnFailure
           \/ TryLock \/ GiveUp \/ FirstRead \/ ReadLatest
  BY <1>5 DEF Read, LockThreadMutex, SpawnThread, SpawnOverThread, SpawnFailure, Terminate,
              TryLock, GiveUp, FirstRead, ReadLatest
<1>6. CASE Terminate
  BY <1>6 DEF Terminate
<1>. QED
  BY <1>1, <1>2, <1>3, <1>4, <1>5, <1>6, NextIsActions DEF OwnerAction

\* No thread outlives the object (PMT.cpp:29-32, 130-135).
THEOREM ThreadEndsBeforeObjectCorrect == Spec => []ThreadEndsBeforeObject
<1>1. TypeOK /\ Handover /\ ThreadEndsBeforeObject /\ [Next]_vars => ThreadEndsBeforeObject'
  BY EndsBeforeStep
<1>. QED
  BY <1>1, EndsBeforeInit, TypeCorrect, HandoverCorrect, PTL DEF Spec

-----------------------------------------------------------------------------
\* All of it also holds in a process that something else may end at any step: nothing
\* that the two threads rely on is left half done (PMT.cpp:87-135, 186-216).
THEOREM EndingCorrect ==
    EndingSpec => [](Handover /\ UnlockIsMatched /\ ThreadEndsBeforeObject) /\ ReadIsMeasured
<1>1. EndingSpec => []TypeOK
  BY TypeInit, TypeStep, PTL DEF EndingSpec
<1>2. EndingSpec => []Handover
  BY <1>1, HandoverInit, HandoverStep, PTL DEF EndingSpec
<1>3. EndingSpec => []ThreadEndsBeforeObject
  BY <1>1, <1>2, EndsBeforeInit, EndsBeforeStep, PTL DEF EndingSpec
<1>4. TypeOK /\ Handover => [FirstRead \/ ReadLatest => state_returned' = "measured"]_vars
  BY ReadStep
<1>. QED
  BY <1>1, <1>2, <1>3, <1>4, UnlockStep, PTL DEF ReadIsMeasured

-----------------------------------------------------------------------------
(* What keeps PMT.h's promise that the first Read() starts the thread.      *)

\* No Read() gives up waiting.
PatientSpec == Init /\ [][Next /\ ~GiveUp]_vars

\* Once the owner has left the wait loop, the mutex is its own for good.
MutexKept ==
    joinable /\ pc \in {"idle", "lock", "first", "copy"} =>
        /\ locked
        /\ tpc \in {"init", "test", "sample", "publish", "unlock"} => thread_started

LEMMA MutexKeptStep ==
    TypeOK /\ Handover /\ StartedByFirstRead /\ MutexKept /\ [Next /\ ~GiveUp]_vars
        => StartedByFirstRead' /\ MutexKept'
<1>. SUFFICES ASSUME TypeOK, Handover, StartedByFirstRead, MutexKept, [Next /\ ~GiveUp]_vars
              PROVE  StartedByFirstRead' /\ MutexKept'
  OBVIOUS
<1>. USE DEF StartedByFirstRead, MutexKept, ownerVars, threadVars
<1>1. CASE Read
  BY <1>1 DEF Read
<1>2. CASE Destroy
  BY <1>2 DEF Destroy
<1>3. CASE LockThreadMutex
  BY <1>3 DEF LockThreadMutex
<1>4. CASE SpawnThread
  BY <1>4 DEF SpawnThread
<1>5. CASE SpawnOverThread \/ InitialFailure \/ SampleCrash
  BY <1>5 DEF SpawnOverThread, InitialFailure, SampleCrash, Terminate
<1>6. CASE SpawnFailure
  BY <1>6 DEF SpawnFailure
<1>7. CASE TryLock
  \* It succeeds only after the thread has unlocked, which happens once.
  <2>1. ~locked => (tpc \in {"init", "test", "sample", "publish", "unlock"} => thread_started)
    BY DEF Handover, MutexUntilMeasured
  <2>. QED
    BY <1>7, <2>1 DEF TryLock
<1>8. CASE FirstRead \/ ReadLatest
  BY <1>8 DEF FirstRead, ReadLatest
<1>9. CASE Join
  BY <1>9 DEF Join
<1>10. CASE InitialState
  BY <1>10 DEF InitialState, Handover, StartedIsMeasured
<1>11. CASE TestStop \/ Sample \/ SampleFailure
  BY <1>11 DEF TestStop, Sample, SampleFailure
<1>12. CASE Publish
  BY <1>12 DEF Publish
<1>13. CASE UnlockThreadMutex
  BY <1>13 DEF UnlockThreadMutex, Handover, StartedIsMeasured
<1>14. CASE SignalStarted
  BY <1>14 DEF SignalStarted
<1>15. CASE UNCHANGED vars
  BY <1>15 DEF vars
<1>. QED
  BY <1>1, <1>2, <1>3, <1>4, <1>5, <1>6, <1>7, <1>8, <1>9, <1>10, <1>11, <1>12, <1>13, <1>14,
     <1>15, NextIsActions DEF OwnerAction, ThreadStep

\* Giving up is the only way to a second thread: as long as no Read() gives up waiting,
\* none assigns to a std::thread that runs, whatever fails and however Reads and samples
\* fall (PMT.h:70-71, PMT.cpp:72-75, 186-202).
THEOREM OneThreadCorrect == PatientSpec => []StartedByFirstRead /\ [][~SpawnOverThread]_vars
<1>1. Init => StartedByFirstRead /\ MutexKept
  BY DEF Init, StartedByFirstRead, MutexKept
<1>2. [Next /\ ~GiveUp]_vars => [Next \/ Terminate]_vars
  OBVIOUS
<1>3. PatientSpec => []TypeOK
  BY <1>2, TypeInit, TypeStep, PTL DEF PatientSpec
<1>4. PatientSpec => []Handover
  BY <1>2, <1>3, HandoverInit, HandoverStep, PTL DEF PatientSpec
<1>5. PatientSpec => [](StartedByFirstRead /\ MutexKept)
  BY <1>1, <1>3, <1>4, MutexKeptStep, PTL DEF PatientSpec
<1>6. StartedByFirstRead => [~SpawnOverThread]_vars
  BY DEF StartedByFirstRead, SpawnOverThread
<1>. QED
  BY <1>5, <1>6, PTL

=============================================================================
