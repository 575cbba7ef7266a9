-------------------------------- MODULE Sensors --------------------------------
(***************************************************************************)
(* The entries of a State: backends that measure several sensors report    *)
(* each of them and, as the first entry, their total, and the measurement  *)
(* loop and Read() then treat the entries one by one (PMT.cpp:106-118,     *)
(* 205-213). Entry 0 is the total, entry i the i-th sensor. What a sensor  *)
(* reports is modelled for each way in which a backend of the repository   *)
(* reports it; Accounting.tla is about a single entry. A sensor may stop   *)
(* to draw anything and start again; 0 W is also what Powermon::read()     *)
(* gives for a sensor of Tegra that cannot be read. The system clock is    *)
(* set back once, at any time: durations become negative, and are never 0. *)
(*                                                                         *)
(* Powers are in units of 1 / Scale watt and energies in half of them per  *)
(* tick; Scale is a common multiple of all durations, so every quotient of *)
(* the code is exact.                                                      *)
(***************************************************************************)
EXTENDS FiniteSetsExt, Functions, Integers

CONSTANTS
    NrSensors,
    Powers,     \* the watts that a sensor may draw
    Scale,
    MaxTime     \* the clock stops here: a bound for TLC only

ASSUME SizesAssumption == NrSensors \in Nat /\ MaxTime \in Nat \ {0}
ASSUME PowersAssumption == Powers \subseteq Nat
ASSUME ScaleAssumption ==
    Scale \in Nat \ {0} /\ \A t \in 1 .. MaxTime : \E q \in 1 .. Scale : Scale = t * q

VARIABLES
    backend,
    clock,
    set_back,        \* the clock was set back
    power,           \* what each sensor draws now
    energy,          \* what each sensor has counted since the backend was created
    group,           \* and since it was read last, which Likwid reports
    samples,         \* samples in state_latest: 0, 1 (initial), 2 (and more)
    state_latest,
    state_returned,
    stopped          \* history: a sensor with a count reported 0 W to the loop

vars == <<backend, clock, set_back, power, energy, group, samples, state_latest, state_returned,
          stopped>>

Ids     == 1 .. NrSensors
Entries == {0} \cup Ids

Zero  == [i \in Entries |-> 0]
DefaultState == [timestamp |-> 0, joules |-> Zero, watt |-> Zero]

\* Division by a duration that may be negative.
Quotient(value, ticks) == IF ticks > 0 THEN value \div ticks ELSE (-value) \div (-ticks)

\* A vector of the sensors' values behind their sum.
WithTotal(f) == [i \in Entries |-> IF i = 0 THEN SumFunction(f) ELSE f[i]]

-----------------------------------------------------------------------------
(* What the backends report. *)

\* TegraImpl::GetState(), and DummyImpl::GetState() after UseFixedWatts().
TegraState ==
    [timestamp |-> clock, joules |-> Zero,
     watt      |-> WithTotal([i \in Ids |-> Scale * power[i]])]

\* RaplImpl::GetState(), for the counters of packages.
RaplState ==
    [timestamp |-> clock, joules |-> WithTotal(energy), watt |-> Zero]

\* PowerSensor3Impl::GetState().
PowerSensor3State ==
    [timestamp |-> clock, joules |-> WithTotal(energy),
     watt      |-> WithTotal([i \in Ids |-> Scale * power[i]])]

\* DummyImpl::GetState() after UseFixedJoules(), whose energies build on state_latest_.
DummyState ==
    LET ticks == clock - state_latest.timestamp
    IN  [timestamp |-> clock,
         joules    |-> IF state_latest.timestamp = 0 THEN Zero
                       ELSE WithTotal([i \in Ids |-> state_latest.joules[i]
                                                     + 2 * Scale * power[i] * ticks]),
         watt      |-> Zero]

\* LikwidImpl::GetState(): the power since state_latest_, which is since the epoch at first.
LikwidState ==
    LET ticks == clock - state_latest.timestamp
    IN  [timestamp |-> clock, joules |-> Zero,
         watt      |-> WithTotal([i \in Ids |-> Quotient(group[i], 2 * ticks)])]

Backends == {"tegra", "rapl", "powersensor3", "dummy", "likwid"}

GetState ==
    CASE backend = "tegra"        -> TegraState
      [] backend = "rapl"         -> RaplState
      [] backend = "powersensor3" -> PowerSensor3State
      [] backend = "dummy"        -> DummyState
      [] backend = "likwid"       -> LikwidState

-----------------------------------------------------------------------------
(* The measurement loop and Read(). *)

\* The body of the loop over the entries.
DeriveEntry(latest, state, i) ==
    LET ticks == state.timestamp - latest.timestamp
    IN  IF state.watt[i] > 0
        THEN [joules |-> latest.joules[i] + (latest.watt[i] + state.watt[i]) * ticks,
              watt   |-> state.watt[i]]
        ELSE IF state.joules[i] > 0
        THEN [joules |-> state.joules[i],
              watt   |-> Quotient(state.joules[i] - latest.joules[i], 2 * ticks)]
        ELSE [joules |-> state.joules[i], watt |-> state.watt[i]]

\* Variant: the loop starts with the first sensor.
DeriveSensors(latest, state) ==
    [timestamp |-> state.timestamp,
     joules    |-> [i \in Entries |-> IF i = 0 THEN state.joules[i]
                                      ELSE DeriveEntry(latest, state, i).joules],
     watt      |-> [i \in Entries |-> IF i = 0 THEN state.watt[i]
                                      ELSE DeriveEntry(latest, state, i).watt]]

\* A sensor whose power is reported, and whose entry or counter is not 0, reports 0 W: its
\* entry starts anew with what the backend counted, mostly 0 J, while that of the total
\* goes on, unless that takes the same branch.
Stops(latest, state) ==
    /\ backend \in {"tegra", "powersensor3", "likwid"}
    /\ state.watt[0] > 0 \/ backend = "powersensor3"
    /\ \E i \in Ids :
          /\ state.watt[i] = 0
          /\ latest.joules[i] # 0 \/ latest.watt[i] # 0 \/ state.joules[i] # 0

Derive(latest, state) ==
    [timestamp |-> state.timestamp,
     joules    |-> [i \in Entries |-> DeriveEntry(latest, state, i).joules],
     watt      |-> [i \in Entries |-> DeriveEntry(latest, state, i).watt]]

\* Variant: the total is extrapolated once more for every sensor.
ExtrapolateTotal(returned, now) ==
    [returned EXCEPT !.timestamp = now,
                     !.joules = [i \in Entries |->
                        @[i] + 2 * returned.watt[0] * (now - returned.timestamp)]]

Extrapolate(returned, now) ==
    [returned EXCEPT !.timestamp = now,
                     !.joules = [i \in Entries |->
                        @[i] + 2 * returned.watt[i] * (now - returned.timestamp)]]

Init ==
    /\ backend \in Backends
    /\ clock = 1
    /\ set_back = FALSE
    /\ power \in [Ids -> Powers]
    /\ energy = [i \in Ids |-> 0]
    /\ group = [i \in Ids |-> 0]
    /\ samples = 0
    /\ state_latest = DefaultState
    /\ state_returned = DefaultState
    /\ stopped = FALSE

\* A tick passes, at the power that the sensors were measured with, and the power of any
\* of them may change after it. The dummy's is fixed.
Tick ==
    /\ clock < MaxTime
    /\ clock' = clock + 1
    /\ energy' = [i \in Ids |-> energy[i] + 2 * Scale * power[i]]
    /\ group' = [i \in Ids |-> group[i] + 2 * Scale * power[i]]
    /\ power' \in [Ids -> Powers]
    /\ backend = "dummy" => power' = power
    /\ UNCHANGED <<backend, set_back, samples, state_latest, state_returned, stopped>>

SetBack ==
    /\ ~set_back
    /\ set_back' = TRUE
    /\ clock' \in 1 .. (clock - 1)
    /\ UNCHANGED <<backend, power, energy, group, samples, state_latest, state_returned, stopped>>

\* Every GetState() starts the counting of the Likwid groups anew.
InitialSample ==
    /\ samples = 0
    /\ samples' = 1
    /\ state_latest' = GetState
    /\ group' = [i \in Ids |-> 0]
    /\ UNCHANGED <<backend, clock, set_back, power, energy, state_returned, stopped>>

Measure ==
    /\ samples > 0
    /\ clock # state_latest.timestamp
    /\ samples' = 2
    /\ state_latest' = Derive(state_latest, GetState)
    /\ group' = [i \in Ids |-> 0]
    /\ stopped' = (stopped \/ Stops(state_latest, GetState))
    /\ UNCHANGED <<backend, clock, set_back, power, energy, state_returned>>

\* Read(); the first one, which finds the default state_returned_, returns state_latest_.
Read ==
    /\ samples = 2
    /\ state_returned' = IF state_latest.timestamp > state_returned.timestamp
                         THEN state_latest
                         ELSE Extrapolate(state_returned, clock)
    /\ UNCHANGED <<backend, clock, set_back, power, energy, group, samples, state_latest, stopped>>

Next == Tick \/ SetBack \/ InitialSample \/ Measure \/ Read

Spec == Init /\ [][Next]_vars

-----------------------------------------------------------------------------
PowerIsSum(state)  == state.watt[0] = SumFunctionOnSet(state.watt, Ids)
EnergyIsSum(state) == state.joules[0] = SumFunctionOnSet(state.joules, Ids)
TotalIsSum(state)  == EnergyIsSum(state) /\ PowerIsSum(state)

\* What remains of that after a sensor with a count reported 0 W. A PowerSensor3 whose own
\* count takes the place of the accumulated one is not included.
TotalKeeps(state) ==
    backend # "powersensor3" =>
        /\ PowerIsSum(state)
        /\ ~set_back => state.joules[0] >= SumFunctionOnSet(state.joules, Ids)

\* The total of the latest state is the sum of its sensors, although each entry takes its
\* own branch of the loop (PMT.cpp:106-118), until a sensor that has counted anything
\* reports 0 W: its energy is lost to the sensor but not to the total, which is never
\* less than the sum from then on. Before that, not even a clock that is set back, which
\* turns powers negative and loses energy, sets them apart.
LatestTotal ==
    /\ ~stopped => TotalIsSum(state_latest)
    /\ TotalKeeps(state_latest)

\* So it is with what Read() returns, however often it was extrapolated, also between two
\* samples (PMT.cpp:205-213).
ReturnedTotal ==
    /\ ~stopped => TotalIsSum(state_returned)
    /\ TotalKeeps(state_returned)

=============================================================================
