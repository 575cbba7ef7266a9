------------------------------ MODULE SharedState ------------------------------
(***************************************************************************)
(* state_latest_ and state_returned_ as the two threads really share them: *)
(* State::operator= assigns one member after the other (common/State.h),   *)
(* and once the thread has started nothing keeps Read() from copying while *)
(* the measurement thread assigns. The control of both threads is that of  *)
(* MeasurementThread; this module adds the clock and the members to it.    *)
(*                                                                         *)
(* Of the members, timestamp_ and joules_ are modelled, in the order of    *)
(* their assignment; each is read and written at once, which a vector of   *)
(* floats that keeps its size comes down to on the supported processors.   *)
(* The device draws one watt all the time, so that the energy of a State   *)
(* ought to be its time since the initial sample.                          *)
(***************************************************************************)
EXTENDS Integers

CONSTANTS
    kNrRetriesInitialization, Faults,  \* as in MeasurementThread
    MaxTime                            \* the clock stops here: a bound for TLC only

ASSUME SizesAssumption == kNrRetriesInitialization \in Nat /\ MaxTime \in Nat \ {0}

VARIABLES
    pc, tpc, retries, joinable, locked, thread_started, thread_stop,
    state_latest, state_returned,  \* of MeasurementThread: where the two states come from
    clock,
    latest,       \* the members of state_latest_
    returned,     \* the members of state_returned_
    sample,       \* the local State of the measurement loop
    local,        \* the local State of Read()
    result,       \* what the last Read() returned
    step,         \* how far the owner is with copying
    publishing,   \* the thread has made the first assignment and not the second
    origin, gap   \* the initial time, and the longest time between two samples

threadVars == <<pc, tpc, retries, joinable, locked, thread_started, thread_stop,
                state_latest, state_returned>>
readVars   == <<returned, local, result, step>>
loopVars   == <<latest, sample, publishing, origin, gap>>
vars       == <<threadVars, clock, readVars, loopVars>>

Thread == INSTANCE MeasurementThread

ASSUME FaultsAssumption == Faults \subseteq Thread!AllFaults

Time    == 0 .. MaxTime
Members == [timestamp : Time, joules : Time]

DefaultState == [timestamp |-> 0, joules |-> 0]

Init ==
    /\ Thread!Init
    /\ clock = 1
    /\ latest = DefaultState
    /\ returned = DefaultState
    /\ sample = DefaultState
    /\ local = DefaultState
    /\ result = DefaultState
    /\ step = 0
    /\ publishing = FALSE
    /\ origin = 0
    /\ gap = 0

Tick ==
    /\ clock < MaxTime
    /\ clock' = clock + 1
    /\ UNCHANGED <<threadVars, readVars, loopVars>>

\* Variant: the members the other way round.
AssignBackwards(n, to, from) ==
    IF n = 1 THEN [to EXCEPT !.joules = from.joules]
             ELSE [to EXCEPT !.timestamp = from.timestamp]

\* The n-th assignment of State::operator=.
Assign(n, to, from) ==
    IF n = 1 THEN [to EXCEPT !.timestamp = from.timestamp]
             ELSE [to EXCEPT !.joules = from.joules]

-----------------------------------------------------------------------------
(* The measurement thread. *)

\* The assignment of the initial state. Nobody reads state_latest_ before the
\* hand-over (MeasurementThread!ReadIsMeasured), so it is one step.
InitialState ==
    /\ Thread!InitialState
    /\ latest' = [timestamp |-> clock, joules |-> 0]
    /\ origin' = clock
    /\ UNCHANGED <<clock, readVars, sample, publishing, gap>>

\* After the sleep: GetState() and the accumulation, on the local State.
Sample ==
    /\ Thread!Sample
    /\ clock > latest.timestamp
    /\ sample' = [timestamp |-> clock,
                  joules    |-> latest.joules + (clock - latest.timestamp)]
    /\ UNCHANGED <<clock, readVars, latest, publishing, origin, gap>>

\* state_latest_ = state, in two assignments.
PublishFirst ==
    /\ tpc = "publish"
    /\ ~publishing
    /\ latest' = Assign(1, latest, sample)
    /\ gap' = IF sample.timestamp - latest.timestamp > gap
              THEN sample.timestamp - latest.timestamp ELSE gap
    /\ publishing' = TRUE
    /\ UNCHANGED <<threadVars, clock, readVars, sample, origin>>

PublishSecond ==
    /\ Thread!Publish
    /\ publishing
    /\ latest' = Assign(2, latest, sample)
    /\ publishing' = FALSE
    /\ UNCHANGED <<clock, readVars, sample, origin, gap>>

-----------------------------------------------------------------------------
(* The owner in Read(). *)

\* state_returned_ = state_latest_, in two assignments.
Store ==
    /\ pc = "first" /\ step < 2
    /\ returned' = Assign(step + 1, returned, latest)
    /\ step' = step + 1
    /\ UNCHANGED <<threadVars, clock, local, result, loopVars>>

\* The copy constructor of State, for the result of the first Read() and for the
\* local State of the later ones. It copies the members as they are declared.
CopyTimestamp ==
    /\ \/ pc = "first" /\ step = 2
       \/ pc = "copy" /\ step = 0
    /\ local' = [local EXCEPT !.timestamp = latest.timestamp]
    /\ step' = step + 1
    /\ UNCHANGED <<threadVars, clock, returned, result, loopVars>>

CopyJoules ==
    /\ \/ pc = "first" /\ step = 3
       \/ pc = "copy" /\ step = 1
    /\ local' = [local EXCEPT !.joules = latest.joules]
    /\ step' = step + 1
    /\ UNCHANGED <<threadVars, clock, returned, result, loopVars>>

FirstRead ==
    /\ Thread!FirstRead
    /\ step = 4
    /\ result' = local
    /\ step' = 0
    /\ UNCHANGED <<clock, returned, local, loopVars>>

\* Variant: the duration is taken since the epoch.
ExtrapolateFromEpoch(state) ==
    [timestamp |-> clock, joules |-> state.joules + clock]

\* Variant: without the energy of the time that is added.
MoveOn(state) ==
    [timestamp |-> clock, joules |-> state.joules]

Extrapolate(state) ==
    [timestamp |-> clock,
     joules    |-> state.joules + (clock - state.timestamp)]

\* Variant: the State that is returned is not stored.
ReadWithoutStore ==
    /\ Thread!ReadLatest
    /\ step = 2
    /\ result' = IF local.timestamp > returned.timestamp THEN local ELSE Extrapolate(returned)
    /\ step' = 0
    /\ UNCHANGED <<clock, returned, local, loopVars>>

\* The comparison, the extrapolation, and the State that is stored and returned.
ReadLatest ==
    /\ Thread!ReadLatest
    /\ step = 2
    /\ result' = IF local.timestamp > returned.timestamp THEN local ELSE Extrapolate(returned)
    /\ returned' = result'
    /\ step' = 0
    /\ UNCHANGED <<clock, local, loopVars>>

-----------------------------------------------------------------------------
\* The steps of MeasurementThread that touch neither state.
Control ==
    /\ \/ Thread!Read \/ Thread!Destroy
       \/ Thread!LockThreadMutex
       \/ Thread!SpawnThread \/ Thread!SpawnOverThread \/ Thread!SpawnFailure
       \/ Thread!TryLock \/ Thread!GiveUp
       \/ Thread!Join
       \/ Thread!InitialFailure
       \/ Thread!TestStop
       \/ Thread!SampleFailure \/ Thread!SampleCrash
       \/ Thread!UnlockThreadMutex \/ Thread!SignalStarted
    /\ UNCHANGED <<clock, readVars, loopVars>>

Next ==
    \/ Tick
    \/ InitialState \/ Sample \/ PublishFirst \/ PublishSecond
    \/ Store \/ CopyTimestamp \/ CopyJoules \/ FirstRead \/ ReadLatest
    \/ Control

Spec == Init /\ [][Next]_vars

-----------------------------------------------------------------------------
TypeOK ==
    /\ Thread!TypeOK
    /\ clock \in Time
    /\ {latest, returned, sample, local, result} \subseteq Members
    /\ step \in 0 .. 4
    /\ publishing \in BOOLEAN
    /\ origin \in Time
    /\ gap \in Time

ReadReturns == FirstRead \/ ReadLatest

\* However the copies of the two threads overlap, the time that Read() returns
\* never falls back (PMT.cpp:201-215).
NeverBackInTime == [][ReadReturns => result'.timestamp >= result.timestamp]_vars

\* A copy may be torn, but no Read() ever returns energy that the device has not
\* drawn yet. This rests on the order of State.h:15-19: whoever sees the energy of
\* a sample also sees its time, so that no extrapolation starts from a state whose
\* energy is ahead of its time.
EnergyNeverAhead == result # DefaultState => result.joules <= clock - origin

\* A torn copy lags by the energy of one measurement interval at most, and the
\* lag does not grow over any number of extrapolations (PMT.cpp:205-215).
LagBounded ==
    result # DefaultState => (result.timestamp - origin) - result.joules <= gap

\* To the client of both threads this is a meter, of a device that draws one watt,
\* whose reports may be torn.
PublicMeter == INSTANCE Meter WITH
    MinPower <- 1, MaxPower <- 1, Torn <- TRUE, now <- clock, lag <- gap, trusted <- TRUE,
    base <- [timestamp |-> IF result = DefaultState THEN 0 ELSE origin, joules |-> 0],
    reported <- [timestamp |-> result.timestamp, joules |-> 2 * result.joules]

ImplementsMeter == PublicMeter!Spec

\* Splitting the assignments and the copies into their members takes nothing from
\* the protocol of the threads: it is still that of MeasurementThread.
ImplementsThread == Thread!Spec

=============================================================================
