------------------------------ MODULE Accounting ------------------------------
(***************************************************************************)
(* The numbers of a pmt::PMT object: how the measurement loop turns what a *)
(* backend reports into accumulated energy and average power               *)
(* (PMT.cpp:106-120), and how Read() extrapolates when no newer sample is  *)
(* available (PMT.cpp:205-215). One entry of the measurement vectors is    *)
(* modelled; the loops treat every entry alike.                            *)
(*                                                                         *)
(* Time is in ticks and energy in half watt-ticks, so that the mean of two *)
(* powers needs no fraction; a power derived from energy is rounded down   *)
(* where the code has the nearest float. A turn of the loop is one step,   *)
(* a Read() is one or, when it started the thread, two (SharedState.tla    *)
(* takes them apart further). Every timestamp is one of the host's clock;  *)
(* PowerSensor2 counts its own from its first state, which is left out.    *)
(***************************************************************************)
EXTENDS Integers

CONSTANTS
    MinPower, MaxPower,  \* the powers between which the measured device stays
    MaxTime              \* the clock stops here: a bound for TLC only

ASSUME PowerAssumption == MinPower \in Nat /\ MaxPower \in Nat /\ MinPower <= MaxPower
ASSUME TimeAssumption  == MaxTime \in Nat

VARIABLES
    reports,         \* which of "joules" and "watt" the backend's GetState() fills in
    clock,           \* std::chrono::system_clock, which here only moves forward
    power,           \* what the device draws now
    energy,          \* what the device has drawn since it exists
    samples,         \* samples in state_latest: 0, 1 (initial), 2 (and more)
    state_latest,
    state_returned,
    client,          \* the Reads: none, the first between its two copies, one, or more
    received,        \* what the last Read() returned
    latest_base,     \* history: the sample from which the energy of state_latest counts,
    returned_base,   \*   that of state_returned,
    received_base,   \*   and that of received
    mixed            \* history: a power of 0 W was replaced by one derived from energies

vars == <<reports, clock, power, energy, samples, state_latest, state_returned, client,
          received, latest_base, returned_base, received_base, mixed>>
device == <<reports, clock, power, energy>>
loopVars == <<samples, state_latest, latest_base, mixed>>
readVars == <<state_returned, client, received, returned_base, received_base>>

Powers  == MinPower .. MaxPower
Backend == {{"watt"}, {"joules"}, {"joules", "watt"}}
State   == [timestamp : Nat, joules : Int, watt : Int]

\* State(): the timestamp is the epoch, before any time of the clock.
DefaultState == [timestamp |-> 0, joules |-> 0, watt |-> 0]

TypeOK ==
    /\ reports \in Backend
    /\ clock \in Nat \ {0}
    /\ power \in Powers
    /\ energy \in Nat
    /\ samples \in 0 .. 2
    /\ client \in {"new", "returning", "once", "again"}
    /\ {state_latest, state_returned, received} \subseteq State
    /\ {latest_base, returned_base, received_base} \subseteq State
    /\ mixed \in BOOLEAN

\* A sample as the backend returns it: what it does not report stays 0.
GetState ==
    [timestamp |-> clock,
     joules    |-> IF "joules" \in reports THEN energy ELSE 0,
     watt      |-> IF "watt" \in reports THEN power ELSE 0]

-----------------------------------------------------------------------------
(* The arithmetic. *)

\* Variant: the power is the energy since the first sample over the last interval.
DeriveFromTotal(latest, state) ==
    LET ticks == state.timestamp - latest.timestamp
    IN  IF state.watt > 0
        THEN [state EXCEPT !.joules = latest.joules + (latest.watt + state.watt) * ticks]
        ELSE IF state.joules > 0
        THEN [state EXCEPT !.watt = state.joules \div (2 * ticks)]
        ELSE state

\* What the loop makes of a sample, given the one before: energy is accumulated
\* from the mean power, or power is derived from the energy, or neither.
Derive(latest, state) ==
    LET ticks == state.timestamp - latest.timestamp
    IN  IF state.watt > 0
        THEN [state EXCEPT !.joules = latest.joules + (latest.watt + state.watt) * ticks]
        ELSE IF state.joules > 0
        THEN [state EXCEPT !.watt = (state.joules - latest.joules) \div (2 * ticks)]
        ELSE state

\* Variant: the timestamp of the extrapolated state is not moved on.
ExtrapolateInPlace(returned, now) ==
    [returned EXCEPT !.joules = @ + 2 * returned.watt * (now - returned.timestamp)]

\* The returned state moved to the present, at the power it had.
Extrapolate(returned, now) ==
    [timestamp |-> now,
     joules    |-> returned.joules + 2 * returned.watt * (now - returned.timestamp),
     watt      |-> returned.watt]

-----------------------------------------------------------------------------
(* The device, the loop and the client. *)

Init ==
    /\ reports \in Backend
    /\ clock = 1
    /\ power \in Powers
    /\ energy = 0
    /\ samples = 0
    /\ state_latest = DefaultState
    /\ state_returned = DefaultState
    /\ client = "new"
    /\ received = DefaultState
    /\ latest_base = DefaultState
    /\ returned_base = DefaultState
    /\ received_base = DefaultState
    /\ mixed = FALSE

\* A tick passes, during which the device draws p.
Tick ==
    /\ clock < MaxTime
    /\ clock' = clock + 1
    /\ \E p \in Powers :
          /\ power' = p
          /\ energy' = energy + 2 * p
    /\ UNCHANGED <<reports, loopVars, readVars>>

\* The GetState() before the loop is stored as it is.
InitialSample ==
    /\ samples = 0
    /\ samples' = 1
    /\ state_latest' = GetState
    /\ latest_base' = GetState
    /\ UNCHANGED <<device, readVars, mixed>>

\* The backend reports a power, and it is 0 W.
NoPower(state) == "watt" \in reports /\ state.watt = 0

\* One turn of the loop. It sleeps first, so time has passed since the last one. A
\* sample of 0 W does not take the branch that accumulates: its own energy remains.
Measure ==
    /\ samples > 0
    /\ clock > state_latest.timestamp
    /\ samples' = 2
    /\ state_latest' = Derive(state_latest, GetState)
    /\ latest_base' = IF NoPower(GetState) THEN GetState ELSE latest_base
    /\ mixed' = (mixed \/ (NoPower(GetState) /\ GetState.joules > 0))
    /\ UNCHANGED <<device, readVars>>

\* The Read() that started the thread stores the latest state ...
FirstReadStores ==
    /\ samples = 2
    /\ client = "new"
    /\ state_returned' = state_latest
    /\ returned_base' = latest_base
    /\ client' = "returning"
    /\ UNCHANGED <<device, loopVars, received, received_base>>

\* ... and copies it once more to return it. The thread may have published a later one
\* in between.
FirstReadReturns ==
    /\ client = "returning"
    /\ received' = state_latest
    /\ received_base' = latest_base
    /\ client' = "once"
    /\ UNCHANGED <<device, loopVars, state_returned, returned_base>>

\* Variant: the comparison of the timestamps is the other way round.
ReadStale ==
    /\ samples = 2
    /\ client # "returning"
    /\ state_returned' = IF state_latest.timestamp < state_returned.timestamp
                         THEN state_latest
                         ELSE Extrapolate(state_returned, clock)
    /\ returned_base' = IF state_returned' = state_latest THEN latest_base ELSE returned_base
    /\ received' = state_returned'
    /\ received_base' = returned_base'
    /\ client' = "again"
    /\ UNCHANGED <<device, loopVars>>

\* Any Read() once the thread has started; it is the first to return when the one that
\* started the thread gave up.
Read ==
    /\ samples = 2
    /\ client # "returning"
    /\ state_returned' = IF state_latest.timestamp > state_returned.timestamp
                         THEN state_latest
                         ELSE Extrapolate(state_returned, clock)
    /\ returned_base' = IF state_returned' = state_latest THEN latest_base ELSE returned_base
    /\ received' = state_returned'
    /\ received_base' = returned_base'
    /\ client' = "again"
    /\ UNCHANGED <<device, loopVars>>

Next == Tick \/ InitialSample \/ Measure \/ FirstReadStores \/ FirstReadReturns \/ Read

Spec == Init /\ [][Next]_vars

-----------------------------------------------------------------------------
(* What the numbers mean. *)

\* The energy from state s to state t lies between what the device draws at least
\* and at most in that time.
WithinPower(s, t) ==
    /\ t.joules - s.joules >= 2 * MinPower * (t.timestamp - s.timestamp)
    /\ t.joules - s.joules <= 2 * MaxPower * (t.timestamp - s.timestamp)

\* However many samples were accumulated or differentiated, the energy of the
\* latest state stays within the device's powers, and so does its power
\* (PMT.cpp:106-120). A sample of 0 W starts the count anew; when the backend
\* counts energy as well, the power derived in its place may be anything.
LatestWithinPower ==
    samples = 2 /\ ~mixed =>
        WithinPower(latest_base, state_latest) /\ state_latest.watt \in Powers

\* The same holds for what Read() stores and returns, after any chain of
\* extrapolations from extrapolated states (PMT.cpp:201-215).
ReturnedWithinPower ==
    ~mixed =>
        /\ client # "new" => /\ WithinPower(returned_base, state_returned)
                             /\ state_returned.watt \in Powers
        /\ received # DefaultState => /\ WithinPower(received_base, received)
                                      /\ received.watt \in Powers

\* The order of the timestamps, and the part of LatestWithinPower that makes it
\* inductive: a counter that only reports energy agrees with the device at any
\* time after the sample, not only at the sample.
Present == [timestamp |-> clock, joules |-> energy, watt |-> power]

Timeline ==
    /\ samples < 2 => client = "new"
    /\ samples = 1 => state_latest = latest_base
    /\ samples > 0 => /\ latest_base.timestamp > 0
                      /\ latest_base.timestamp <= state_latest.timestamp
                      /\ state_latest.timestamp <= clock
    /\ client = "new" => state_returned = DefaultState /\ returned_base = DefaultState
    /\ client \in {"new", "returning"} =>
          received = DefaultState /\ received_base = DefaultState
    /\ client # "new" => /\ returned_base.timestamp <= latest_base.timestamp
                         /\ returned_base.timestamp <= state_returned.timestamp
                         /\ state_returned.timestamp > 0
                         /\ state_returned.timestamp <= clock
    /\ client = "again" => received = state_returned /\ received_base = returned_base

\* Between its two copies, and after it, the first Read() has stored the latest state
\* or an earlier one; what it returned is one of the two, or was published in between.
FirstCopies ==
    /\ client \in {"returning", "once"} =>
          \/ state_returned = state_latest /\ returned_base = latest_base
          \/ state_returned.timestamp < state_latest.timestamp
    /\ client = "once" =>
          /\ received.timestamp > 0
          /\ received.timestamp <= state_latest.timestamp
          /\ received_base.timestamp <= latest_base.timestamp
          /\ received_base.timestamp <= received.timestamp
          /\ \/ received = state_returned /\ received_base = returned_base
             \/ state_returned.timestamp < state_latest.timestamp

ReportsWithinPower ==
    samples > 0 /\ ~mixed =>
        /\ reports = {"joules"} => state_latest.joules >= 0 /\ WithinPower(state_latest, Present)
        /\ "watt" \in reports => state_latest.watt \in Powers

\* The time that the client receives is never in the future and never before that of
\* an earlier Read(), and it is a later one when time has passed. The exception is the
\* Read() after the first one, when the thread published between the two copies of
\* that (PMT.cpp:201-202): it may return what the client has already, where a test
\* expects that time advances (test-dummy.cpp:39).
ReadAdvances ==
    [][FirstReadReturns \/ Read =>
          /\ received'.timestamp <= clock
          /\ received'.timestamp >= received.timestamp
          /\ \/ received'.timestamp > received.timestamp
             \/ received'.timestamp = clock
             \/ client = "once" /\ received # state_returned]_vars

\* To its client the loop and Read() are a meter that lacks no energy.
EnergyOf(state) == [timestamp |-> state.timestamp, joules |-> state.joules]

PublicMeter == INSTANCE Meter WITH
    Torn <- FALSE, now <- clock, base <- EnergyOf(received_base), lag <- 0,
    trusted <- ~mixed, reported <- EnergyOf(received)

ImplementsMeter == PublicMeter!Spec

=============================================================================
