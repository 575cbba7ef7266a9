-------------------------- MODULE MeasurementThread --------------------------
(***************************************************************************)
(* The life cycle of the measurement thread of a pmt::PMT object           *)
(* (common/PMT.cpp, common/PMT.h): the owner of the object calls Read()    *)
(* and finally the destructor; the first Read() starts the thread and      *)
(* waits until the thread hands over its first sample by unlocking         *)
(* thread_mutex_; the thread then samples the backend until thread_stop_.  *)
(*                                                                         *)
(* Data is reduced to where it comes from: a State is "default" (as the    *)
(* constructor of PMT leaves it), "initial" (the GetState() before the     *)
(* loop, not yet accumulated) or "measured" (published by the loop).       *)
(* Accounting.tla gives the numbers and SharedState.tla the single-field   *)
(* copies that this module takes as one step.                              *)
(***************************************************************************)
EXTENDS Naturals

CONSTANTS
    kNrRetriesInitialization,  \* PMT.h:68
    Faults                     \* what may go wrong, a subset of AllFaults

\* "pmt::Exception": GetState() throws the library's own exception type.
\* "std::exception": GetState() throws any other type, which nothing catches.
\* "system_error":   the constructor of std::thread cannot create a thread.
AllFaults == {"pmt::Exception", "std::exception", "system_error"}

ASSUME RetriesAssumption == kNrRetriesInitialization \in Nat
ASSUME FaultsAssumption  == Faults \subseteq AllFaults

VARIABLES
    pc,              \* where the owner is: "idle" between calls, "ended" after std::terminate()
    tpc,             \* where the measurement thread is: "none" before it exists
    retries,         \* the local of Read(), PMT.cpp:191
    joinable,        \* thread_.joinable()
    locked,          \* thread_mutex_ is held (by whichever thread locked it)
    thread_started,
    thread_stop,
    state_latest,
    state_returned

vars == <<pc, tpc, retries, joinable, locked, thread_started, thread_stop,
          state_latest, state_returned>>

\* What only the owner writes, and what only the thread writes.
ownerVars  == <<pc, retries, joinable, thread_stop, state_returned>>
threadVars == <<tpc, thread_started, state_latest>>

Provenance == {"default", "initial", "measured"}
OwnerPC    == {"idle", "lock", "spawn", "wait", "first", "copy", "join", "gone", "ended"}
ThreadPC   == {"none", "init", "test", "sample", "publish", "unlock", "signal", "done",
               "ended"}

TypeOK ==
    /\ pc \in OwnerPC
    /\ tpc \in ThreadPC
    /\ retries \in 0 .. (kNrRetriesInitialization + 2)
    /\ pc = "wait" => retries <= kNrRetriesInitialization + 1
    /\ joinable \in BOOLEAN
    /\ locked \in BOOLEAN
    /\ thread_started \in BOOLEAN
    /\ thread_stop \in BOOLEAN
    /\ state_latest \in Provenance
    /\ state_returned \in Provenance

Init ==
    /\ pc = "idle"
    /\ tpc = "none"
    /\ retries = 0
    /\ joinable = FALSE
    /\ locked = FALSE
    /\ thread_started = FALSE
    /\ thread_stop = FALSE
    /\ state_latest = "default"
    /\ state_returned = "default"

\* std::terminate(): the process ends, with both of its threads.
Terminate ==
    /\ pc' = "ended"
    /\ tpc' = "ended"
    /\ UNCHANGED <<retries, joinable, locked, thread_started, thread_stop,
                   state_latest, state_returned>>

-----------------------------------------------------------------------------
(* The owner: Read() and the destructor. *)

\* Read() looks at thread_started_ and takes one of its two paths.
Read ==
    /\ pc = "idle"
    /\ pc' = IF thread_started THEN "copy" ELSE "lock"
    /\ UNCHANGED <<threadVars, retries, joinable, locked, thread_stop, state_returned>>

\* Variant: StartThread() without thread_mutex_.lock().
StartWithoutLock ==
    /\ pc = "lock"
    /\ pc' = "spawn"
    /\ UNCHANGED <<threadVars, retries, joinable, locked, thread_stop, state_returned>>

\* thread_mutex_.lock() in StartThread(): blocks while anybody holds the mutex.
LockThreadMutex ==
    /\ pc = "lock"
    /\ ~locked
    /\ locked' = TRUE
    /\ pc' = "spawn"
    /\ UNCHANGED <<threadVars, retries, joinable, thread_stop, state_returned>>

\* thread_ = std::thread(...): the thread exists from here on.
SpawnThread ==
    /\ pc = "spawn"
    /\ ~joinable
    /\ joinable' = TRUE
    /\ tpc' = "init"
    /\ retries' = 0
    /\ pc' = "wait"
    /\ UNCHANGED <<locked, thread_started, thread_stop, state_latest, state_returned>>

\* The same assignment onto a std::thread that is joinable: std::terminate().
SpawnOverThread ==
    /\ pc = "spawn"
    /\ joinable
    /\ Terminate

\* std::thread throws std::system_error, which leaves Read() and the mutex locked.
SpawnFailure ==
    /\ pc = "spawn"
    /\ "system_error" \in Faults
    /\ pc' = "idle"
    /\ UNCHANGED <<threadVars, retries, joinable, locked, thread_stop, state_returned>>

\* Variant: the wait loop without its counter.
TryLockForEver ==
    /\ pc = "wait"
    /\ locked' = TRUE
    /\ pc' = IF locked THEN "wait" ELSE "first"
    /\ UNCHANGED <<threadVars, retries, joinable, thread_stop, state_returned>>

\* One turn of the wait loop: sleep, count, try_lock.
TryLock ==
    /\ pc = "wait"
    /\ retries <= kNrRetriesInitialization
    /\ retries' = retries + 1
    /\ locked' = TRUE
    /\ pc' = IF locked THEN "wait" ELSE "first"
    /\ UNCHANGED <<threadVars, joinable, thread_stop, state_returned>>

\* Variant: the last turn does not throw.
WaitOn ==
    /\ pc = "wait"
    /\ retries > kNrRetriesInitialization
    /\ retries' = retries + 1
    /\ UNCHANGED <<threadVars, pc, joinable, locked, thread_stop, state_returned>>

\* The last turn: Read() throws "Measurement thread failed to start".
GiveUp ==
    /\ pc = "wait"
    /\ retries > kNrRetriesInitialization
    /\ retries' = retries + 1
    /\ pc' = "idle"
    /\ UNCHANGED <<threadVars, joinable, locked, thread_stop, state_returned>>

\* The first Read() stores and returns the latest state as it is.
FirstRead ==
    /\ pc = "first"
    /\ state_returned' = state_latest
    /\ pc' = "idle"
    /\ UNCHANGED <<threadVars, retries, joinable, locked, thread_stop>>

\* Later calls return the latest state or, when it is not newer than the
\* returned one, the returned state extrapolated. A default state has the
\* timestamp of the epoch, so anything is newer.
ReadLatest ==
    /\ pc = "copy"
    /\ \E s \in {state_latest, state_returned} :
          /\ s = "default" => state_latest = "default"
          /\ state_returned' = s
    /\ pc' = "idle"
    /\ UNCHANGED <<threadVars, retries, joinable, locked, thread_stop>>

\* Variant: the destructor sets thread_stop_ and does not join.
DestroyWithoutJoin ==
    /\ pc = "idle"
    /\ thread_stop' = TRUE
    /\ pc' = "gone"
    /\ UNCHANGED <<threadVars, retries, joinable, locked, state_returned>>

\* ~PMT() up to the join: thread_stop_ is set.
Destroy ==
    /\ pc = "idle"
    /\ thread_stop' = TRUE
    /\ pc' = IF joinable THEN "join" ELSE "gone"
    /\ UNCHANGED <<threadVars, retries, joinable, locked, state_returned>>

\* thread_.join() returns when the thread has ended.
Join ==
    /\ pc = "join"
    /\ tpc = "done"
    /\ joinable' = FALSE
    /\ pc' = "gone"
    /\ UNCHANGED <<threadVars, retries, locked, thread_stop, state_returned>>

-----------------------------------------------------------------------------
(* The measurement thread. *)

InitialState ==
    /\ tpc = "init"
    /\ state_latest' = "initial"
    /\ tpc' = "test"
    /\ UNCHANGED <<ownerVars, locked, thread_started>>

\* The exception of the first GetState() leaves the thread: std::terminate().
InitialFailure ==
    /\ tpc = "init"
    /\ Faults \cap {"pmt::Exception", "std::exception"} # {}
    /\ Terminate

\* Variant: while (true).
TestNothing ==
    /\ tpc = "test"
    /\ tpc' = "sample"
    /\ UNCHANGED <<ownerVars, locked, thread_started, state_latest>>

TestStop ==
    /\ tpc = "test"
    /\ tpc' = IF thread_stop THEN "done" ELSE "sample"
    /\ UNCHANGED <<ownerVars, locked, thread_started, state_latest>>

\* Sleep for one measurement interval, then GetState() into a local.
Sample ==
    /\ tpc = "sample"
    /\ tpc' = "publish"
    /\ UNCHANGED <<ownerVars, locked, thread_started, state_latest>>

\* Variant: break where the code has continue.
BreakOnFailure ==
    /\ tpc = "sample"
    /\ "pmt::Exception" \in Faults
    /\ tpc' = "done"
    /\ UNCHANGED <<ownerVars, locked, thread_started, state_latest>>

\* A pmt::Exception skips the rest of the loop body.
SampleFailure ==
    /\ tpc = "sample"
    /\ "pmt::Exception" \in Faults
    /\ tpc' = "test"
    /\ UNCHANGED <<ownerVars, locked, thread_started, state_latest>>

\* Nothing catches another exception: std::terminate().
SampleCrash ==
    /\ tpc = "sample"
    /\ "std::exception" \in Faults
    /\ Terminate

\* Variant: the mutex is unlocked after every sample.
PublishAndUnlock ==
    /\ tpc = "publish"
    /\ state_latest' = "measured"
    /\ tpc' = "unlock"
    /\ UNCHANGED <<ownerVars, locked, thread_started>>

\* Derive power or energy, store the sample in state_latest_, look at thread_started_.
Publish ==
    /\ tpc = "publish"
    /\ state_latest' = "measured"
    /\ tpc' = IF thread_started THEN "test" ELSE "unlock"
    /\ UNCHANGED <<ownerVars, locked, thread_started>>

UnlockThreadMutex ==
    /\ tpc = "unlock"
    /\ locked' = FALSE
    /\ tpc' = "signal"
    /\ UNCHANGED <<ownerVars, thread_started, state_latest>>

\* thread_started_ = true, only after the mutex has been released.
SignalStarted ==
    /\ tpc = "signal"
    /\ thread_started' = TRUE
    /\ tpc' = "test"
    /\ UNCHANGED <<ownerVars, locked, state_latest>>

-----------------------------------------------------------------------------
(* The calls the client chooses to make, the steps inside a call, the thread. *)

ClientCall == Read \/ Destroy

OwnerStep ==
    \/ LockThreadMutex
    \/ SpawnThread \/ SpawnOverThread \/ SpawnFailure
    \/ TryLock \/ GiveUp
    \/ FirstRead \/ ReadLatest
    \/ Join

ThreadStep ==
    \/ InitialState \/ InitialFailure
    \/ TestStop
    \/ Sample \/ SampleFailure \/ SampleCrash
    \/ Publish \/ UnlockThreadMutex \/ SignalStarted

Next == ClientCall \/ OwnerStep \/ ThreadStep

Spec == Init /\ [][Next]_vars

\* The scheduler runs both threads; nothing obliges the client to make a call.
FairSpec == Spec /\ WF_vars(OwnerStep) /\ WF_vars(ThreadStep)

-----------------------------------------------------------------------------
(* What the protocol promises. *)

\* A Read() that returns a State returns one that the loop has measured and
\* accumulated: the mutex hand-over keeps the state of the constructor and the
\* initial sample from the client (PMT.cpp:120-124, 199-202).
ReadIsMeasured == [][FirstRead \/ ReadLatest => state_returned' = "measured"]_vars

\* The thread unlocks thread_mutex_ only while it is held, so the hand-over
\* happens once and the mutex is never released a second time (PMT.cpp:122-125).
UnlockIsMatched == tpc = "unlock" => locked

\* The hand-over, part by part: what holds between the two program counters,
\* the mutex, the two flags and the two states at every step of both threads.
ProcessEndsWhole   == (pc = "ended") <=> (tpc = "ended")
NoThreadYet        == tpc = "none" => ~joinable /\ ~thread_started /\ state_latest = "default"
JoinableThread     == /\ ~joinable /\ pc \notin {"gone", "ended"} => tpc = "none"
                      /\ pc \in {"wait", "join"} => joinable
StopMeansDestroy   == /\ thread_stop => pc \in {"join", "gone", "ended"}
                      /\ tpc = "done" => thread_stop
MutexUntilMeasured == /\ tpc \in {"init", "test", "sample", "publish", "unlock"} /\ ~thread_started
                            => locked
                      /\ pc = "spawn" /\ ~joinable => locked
StartedIsMeasured  == /\ thread_started \/ tpc \in {"unlock", "signal"} => state_latest = "measured"
                      /\ tpc \in {"init", "unlock", "signal"} => ~thread_started
                      /\ tpc = "init" => state_latest = "default"
OwnerSeesMeasured  == /\ pc = "copy" => thread_started
                      /\ pc = "first" => state_latest = "measured"
                      /\ state_returned # "initial"

Handover ==
    /\ ProcessEndsWhole
    /\ NoThreadYet
    /\ JoinableThread
    /\ StopMeansDestroy
    /\ MutexUntilMeasured
    /\ StartedIsMeasured
    /\ OwnerSeesMeasured

\* When ~PMT() has returned, no thread uses the object any more: it was never
\* started, or it has ended and been joined (PMT.cpp:130-135).
ThreadEndsBeforeObject == pc = "gone" => tpc \in {"none", "done"} /\ ~joinable

\* The wait of the first Read() ends, even when no GetState() ever succeeds:
\* the retries are bounded (PMT.cpp:193-199).
WaitEnds == (pc = "wait") ~> (pc # "wait")

\* The destructor ends: the thread sees thread_stop_ and the join returns,
\* whatever the thread was doing and however often GetState() fails.
DestructorEnds == (pc = "join") ~> (pc = "gone" \/ pc = "ended")

\* Once the thread exists it reports that it started, unless it is stopped or
\* from some time on every single GetState() fails: a failed sample skips a turn
\* of the loop and nothing more (PMT.cpp:93-99).
ThreadStarts ==
    (tpc = "init") ~> \/ thread_started \/ thread_stop \/ pc = "ended"
                      \/ [](tpc \in {"test", "sample"})

-----------------------------------------------------------------------------
(* What comments of PMT.h say, which the code does not keep. *)

\* "It is started automatically upon the first Read() call" (PMT.h:70-71): a
\* later Read() finds a thread and does not try to start another.
StartedByFirstRead == pc = "spawn" => ~joinable

\* A Read() waits for the backend to initialize at most a bounded time
\* (PMT.h:66-67): it returns or throws.
ReadEnds == (pc \in {"lock", "spawn", "wait", "first", "copy"}) ~> (pc = "idle" \/ pc = "ended")

=============================================================================
