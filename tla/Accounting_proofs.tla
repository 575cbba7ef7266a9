-------------------------- MODULE Accounting_proofs --------------------------
(***************************************************************************)
(* Proofs about Accounting for all powers of the device and any time. The  *)
(* inductive invariant adds to the two range properties the order of the   *)
(* timestamps and ReportsWithinPower, without which a power derived from   *)
(* two energy readings could lie anywhere.                                 *)
(***************************************************************************)
EXTENDS Accounting, TLAPS

-----------------------------------------------------------------------------
(* Lemmas about the arithmetic. *)

\* The trapezoid of two powers over n ticks lies between the extreme ones.
LEMMA MeanWithinPower ==
    ASSUME NEW a \in Powers, NEW b \in Powers, NEW n \in Nat
    PROVE  /\ (a + b) * n >= 2 * MinPower * n
           /\ (a + b) * n <= 2 * MaxPower * n
<1>. USE PowerAssumption DEF PowerAssumption, Powers
<1>1. a + b >= 2 * MinPower /\ a + b <= 2 * MaxPower
  OBVIOUS
<1>2. ASSUME NEW x \in Int, NEW y \in Int, x <= y
      PROVE  x * n <= y * n
  BY <1>2
<1>. QED
  BY <1>1, <1>2

\* A power held for n ticks lies between the extreme ones.
LEMMA ConstantWithinPower ==
    ASSUME NEW a \in Powers, NEW n \in Nat
    PROVE  /\ 2 * a * n >= 2 * MinPower * n
           /\ 2 * a * n <= 2 * MaxPower * n
<1>1. (a + a) * n = 2 * a * n
  BY PowerAssumption DEF PowerAssumption, Powers
<1>. QED
  BY <1>1, MeanWithinPower

\* The mean power over n > 0 ticks, rounded down, is a power of the device.
LEMMA QuotientWithinPower ==
    ASSUME NEW d \in Int, NEW n \in Nat, n > 0,
           d >= 2 * MinPower * n, d <= 2 * MaxPower * n
    PROVE  d \div (2 * n) \in Powers
<1>. DEFINE q == d \div (2 * n)
            m == 2 * n
<1>1. m \in Nat /\ m > 0
  OBVIOUS
<1>2. q \in Int /\ m * q <= d /\ d < m * (q + 1)
  BY <1>1
<1>3. MinPower * m <= d /\ d <= MaxPower * m
  BY PowerAssumption DEF PowerAssumption
<1>4. ASSUME NEW x \in Int, NEW y \in Int, x < y
      PROVE  x * m < y * m
  BY <1>1, <1>4
<1>. HIDE DEF q, m
<1>5. q <= MaxPower
  BY <1>1, <1>2, <1>3, <1>4, PowerAssumption DEF PowerAssumption
<1>6. q >= MinPower
  <2>1. ~ (q + 1 <= MinPower)
    <3>. SUFFICES ASSUME q + 1 <= MinPower
                  PROVE  FALSE
      OBVIOUS
    <3>1. (q + 1) * m <= MinPower * m
      BY <1>1, <1>2, <1>4, PowerAssumption DEF PowerAssumption
    <3>2. (q + 1) * m = m * (q + 1)
      BY <1>1, <1>2
    <3>. QED
      BY <1>1, <1>2, <1>3, <3>1, <3>2, PowerAssumption DEF PowerAssumption
  <2>. QED
    BY <2>1, <1>2, PowerAssumption DEF PowerAssumption
<1>7. q \in Powers
  BY <1>2, <1>5, <1>6, PowerAssumption DEF PowerAssumption, Powers
<1>. QED
  BY <1>7 DEF q, m

\* Stretches of time within the device's powers add up.
LEMMA WithinPowerAddsUp ==
    ASSUME NEW r \in State, NEW s \in State, NEW t \in State,
           WithinPower(r, s), WithinPower(s, t)
    PROVE  WithinPower(r, t)
<1>. DEFINE a == s.timestamp - r.timestamp
            b == t.timestamp - s.timestamp
<1>1. a \in Int /\ b \in Int /\ t.timestamp - r.timestamp = a + b
  BY DEF State
<1>2. \A p \in Nat : 2 * p * (a + b) = 2 * p * a + 2 * p * b
  BY <1>1
<1>3. /\ 2 * MinPower * a \in Int /\ 2 * MinPower * b \in Int
      /\ 2 * MaxPower * a \in Int /\ 2 * MaxPower * b \in Int
  BY <1>1, PowerAssumption DEF PowerAssumption
<1>4. /\ s.joules - r.joules >= 2 * MinPower * a /\ s.joules - r.joules <= 2 * MaxPower * a
      /\ t.joules - s.joules >= 2 * MinPower * b /\ t.joules - s.joules <= 2 * MaxPower * b
  BY DEF WithinPower
<1>5. r.joules \in Int /\ s.joules \in Int /\ t.joules \in Int
  BY DEF State
<1>. HIDE DEF a, b
<1>6. /\ t.joules - r.joules >= 2 * MinPower * a + 2 * MinPower * b
      /\ t.joules - r.joules <= 2 * MaxPower * a + 2 * MaxPower * b
  BY <1>3, <1>4, <1>5
<1>7. /\ t.joules - r.joules >= 2 * MinPower * (a + b)
      /\ t.joules - r.joules <= 2 * MaxPower * (a + b)
  BY <1>2, <1>6, PowerAssumption DEF PowerAssumption
<1>. QED
  BY <1>1, <1>7 DEF WithinPower

-----------------------------------------------------------------------------
(* What the two helpers return. *)

\* A derived state is a state again, at the time of the sample.
LEMMA DeriveType ==
    ASSUME NEW latest \in State, NEW state \in State, state.timestamp > latest.timestamp
    PROVE  /\ Derive(latest, state) \in State
           /\ Derive(latest, state).timestamp = state.timestamp
<1>. DEFINE ticks == state.timestamp - latest.timestamp
<1>1. ticks \in Nat /\ ticks > 0
  BY DEF State
<1>2. latest.joules + (latest.watt + state.watt) * ticks \in Int
  BY <1>1 DEF State
<1>3. (state.joules - latest.joules) \div (2 * ticks) \in Int
  BY <1>1 DEF State
<1>. QED
  BY <1>2, <1>3 DEF Derive, State

\* An extrapolated state is a state again.
LEMMA ExtrapolateType ==
    ASSUME NEW returned \in State, NEW now \in Nat
    PROVE  /\ Extrapolate(returned, now) \in State
           /\ Extrapolate(returned, now).timestamp = now
<1>1. returned.joules + 2 * returned.watt * (now - returned.timestamp) \in Int
  BY DEF State
<1>. QED
  BY <1>1 DEF Extrapolate, State

\* A sample is a state, taken now.
LEMMA GetStateType ==
    ASSUME TypeOK
    PROVE  GetState \in State /\ GetState.timestamp = clock
BY PowerAssumption DEF TypeOK, GetState, State, Powers, PowerAssumption

\* Every variable keeps its type.
THEOREM TypeCorrect == Spec => []TypeOK
<1>1. Init => TypeOK
  <2>1. DefaultState \in State
    BY DEF State, DefaultState
  <2>2. Init => clock \in Nat \ {0} /\ energy \in Nat /\ samples \in 0 .. 2
    BY DEF Init
  <2>. QED
    BY <2>1, <2>2, Zenon DEF Init, TypeOK
<1>2. TypeOK /\ [Next]_vars => TypeOK'
  <2>. SUFFICES ASSUME TypeOK, [Next]_vars
                PROVE  TypeOK'
    OBVIOUS
  <2>1. CASE Tick
    BY <2>1, PowerAssumption DEF Tick, TypeOK, Powers, PowerAssumption, loopVars, readVars
  <2>2. CASE InitialSample
    BY <2>2, GetStateType DEF InitialSample, TypeOK, device, readVars
  <2>3. CASE Measure
    <3>1. Derive(state_latest, GetState) \in State /\ GetState \in State
      BY <2>3, GetStateType, DeriveType DEF Measure, TypeOK
    <3>2. mixed' \in BOOLEAN
      BY <2>3 DEF Measure
    <3>. QED
      BY <2>3, <3>1, <3>2 DEF Measure, TypeOK, device, readVars
  <2>4. CASE FirstReadStores
    BY <2>4 DEF FirstReadStores, TypeOK, device, loopVars
  <2>5. CASE FirstReadReturns
    BY <2>5 DEF FirstReadReturns, TypeOK, device, loopVars
  <2>7. CASE Read
    <3>1. Extrapolate(state_returned, clock) \in State
      BY ExtrapolateType DEF TypeOK
    <3>2. state_returned' \in State /\ returned_base' \in State
      BY <2>7, <3>1 DEF Read, TypeOK
    <3>3. /\ received' = state_returned' /\ received_base' = returned_base'
          /\ client' = "again" /\ UNCHANGED <<device, loopVars>>
      BY <2>7 DEF Read
    <3>. QED
      BY <3>2, <3>3 DEF TypeOK, device, loopVars
  <2>6. CASE UNCHANGED vars
    BY <2>6 DEF vars, TypeOK
  <2>. QED
    BY <2>1, <2>2, <2>3, <2>4, <2>5, <2>6, <2>7 DEF Next
<1>. QED
  BY <1>1, <1>2, PTL DEF Spec

\* What a Read() stores is the latest state with its base, or it is extrapolated from
\* a state that is at least as late; either way time and base move forwards.
LEMMA ReadStep ==
    ASSUME TypeOK, Timeline, FirstReadStores \/ Read
    PROVE  /\ \/ /\ state_returned' = state_latest
                 /\ returned_base' = latest_base
              \/ /\ state_returned' = Extrapolate(state_returned, clock)
                 /\ returned_base' = returned_base
                 /\ client # "new"
                 /\ Read
                 /\ ~ (state_latest.timestamp > state_returned.timestamp)
           /\ state_returned'.timestamp >= state_returned.timestamp
           /\ state_returned'.timestamp <= clock
           /\ state_returned'.timestamp > 0
           /\ returned_base'.timestamp >= returned_base.timestamp
           /\ returned_base'.timestamp <= latest_base.timestamp
           /\ returned_base'.timestamp <= state_returned'.timestamp
<1>0. /\ clock \in Nat /\ clock > 0 /\ samples = 2
      /\ state_latest.timestamp \in Nat /\ latest_base.timestamp \in Nat
      /\ state_returned.timestamp \in Nat /\ returned_base.timestamp \in Nat
  BY DEF TypeOK, State, FirstReadStores, Read
<1>. USE DEF Timeline
<1>1. Extrapolate(state_returned, clock).timestamp = clock
  BY ExtrapolateType DEF TypeOK
<1>2. CASE state_returned' = state_latest
  <2>1. returned_base' = latest_base
    BY <1>2 DEF FirstReadStores, Read
  <2>2. state_returned.timestamp <= state_latest.timestamp
    BY <1>0, <1>1, <1>2 DEF FirstReadStores, Read, DefaultState
  <2>3. returned_base.timestamp <= latest_base.timestamp
    BY <1>0 DEF DefaultState
  <2>. QED
    BY <1>0, <1>2, <2>1, <2>2, <2>3
<1>3. CASE state_returned' # state_latest
  <2>1. /\ returned_base' = returned_base
        /\ state_returned' = Extrapolate(state_returned, clock)
        /\ ~ (state_latest.timestamp > state_returned.timestamp)
        /\ Read
    BY <1>3 DEF FirstReadStores, Read
  <2>2. client # "new"
    BY <1>0, <2>1 DEF DefaultState
  <2>3. returned_base.timestamp <= latest_base.timestamp
    BY <2>2
  <2>. QED
    BY <1>0, <1>1, <2>1, <2>2, <2>3
<1>. QED
  BY <1>2, <1>3

\* The timestamps stay in order, also those from which the energies count, and the two
\* copies of the first Read() part only when a later state has been published.
THEOREM TimelineCorrect == Spec => [](Timeline /\ FirstCopies)
<1>1. Init => Timeline /\ FirstCopies
  BY DEF Init, Timeline, FirstCopies
<1>2. TypeOK /\ Timeline /\ FirstCopies /\ [Next]_vars => (Timeline /\ FirstCopies)'
  <2>. SUFFICES ASSUME TypeOK, Timeline, FirstCopies, [Next]_vars
                PROVE  Timeline' /\ FirstCopies'
    OBVIOUS
  <2>. USE DEF Timeline, FirstCopies
  <2>0. /\ clock \in Nat /\ clock > 0 /\ samples \in 0 .. 2
        /\ client \in {"new", "returning", "once", "again"}
        /\ state_latest.timestamp \in Nat /\ latest_base.timestamp \in Nat
        /\ state_returned.timestamp \in Nat /\ returned_base.timestamp \in Nat
        /\ received.timestamp \in Nat /\ received_base.timestamp \in Nat
    BY DEF TypeOK, State
  <2>1. CASE Tick
    <3>1. clock' = clock + 1 /\ UNCHANGED <<loopVars, readVars>>
      BY <2>1 DEF Tick
    <3>. QED
      BY <2>0, <3>1 DEF loopVars, readVars
  <2>2. CASE InitialSample
    <3>1. /\ samples = 0 /\ samples' = 1 /\ clock' = clock /\ UNCHANGED readVars
          /\ state_latest' = GetState /\ latest_base' = GetState /\ GetState.timestamp = clock
      BY <2>2, GetStateType DEF InitialSample, device
    <3>2. client = "new"
      BY <3>1
    <3>. QED
      BY <2>0, <3>1, <3>2 DEF readVars
  <2>3. CASE Measure
    <3>1. Derive(state_latest, GetState).timestamp = clock /\ GetState.timestamp = clock
      BY <2>3, GetStateType, DeriveType DEF Measure, TypeOK
    <3>2. latest_base'.timestamp >= latest_base.timestamp /\ latest_base'.timestamp <= clock
      BY <2>0, <2>3, <3>1 DEF Measure
    <3>3. latest_base'.timestamp > 0
      BY <2>0, <2>3, <3>1 DEF Measure
    <3>4. latest_base'.timestamp \in Nat
      BY <2>0, <2>3, <3>1 DEF Measure
    <3>5. /\ samples' = 2 /\ clock' = clock /\ state_latest'.timestamp = clock
          /\ clock > state_latest.timestamp
          /\ client' = client
          /\ state_returned' = state_returned /\ returned_base' = returned_base
          /\ received' = received /\ received_base' = received_base
      BY <2>3, <3>1 DEF Measure, device, readVars
    <3>6. Timeline'
      BY <2>0, <3>2, <3>3, <3>4, <3>5
    <3>7. FirstCopies'
      BY <2>0, <3>2, <3>3, <3>4, <3>5
    <3>. QED
      BY <3>6, <3>7
  <2>4. CASE FirstReadStores
    <3>1. /\ UNCHANGED <<device, loopVars>> /\ samples = 2 /\ client = "new"
          /\ client' = "returning" /\ received' = received /\ received_base' = received_base
          /\ state_returned' = state_latest /\ returned_base' = latest_base
      BY <2>4 DEF FirstReadStores
    <3>. QED
      BY <2>0, <3>1 DEF device, loopVars
  <2>5. CASE FirstReadReturns
    <3>1. /\ UNCHANGED <<device, loopVars>> /\ client = "returning" /\ client' = "once"
          /\ received' = state_latest /\ received_base' = latest_base
          /\ state_returned' = state_returned /\ returned_base' = returned_base
      BY <2>5 DEF FirstReadReturns
    <3>2. samples = 2
      BY <2>0, <3>1
    <3>. QED
      BY <2>0, <3>1, <3>2 DEF device, loopVars
  <2>6. CASE Read
    <3>1. /\ UNCHANGED <<device, loopVars>> /\ samples = 2 /\ client' = "again"
          /\ received' = state_returned' /\ received_base' = returned_base'
      BY <2>6 DEF Read
    <3>. QED
      BY <2>0, <2>6, <3>1, ReadStep DEF device, loopVars
  <2>7. CASE UNCHANGED vars
    BY <2>7 DEF vars
  <2>. QED
    BY <2>1, <2>2, <2>3, <2>4, <2>5, <2>6, <2>7 DEF Next
<1>. QED
  BY <1>1, <1>2, TypeCorrect, PTL DEF Spec

\* What the client receives is never before what it received, nor is its base, and
\* never in the future; it is a State of the past only when the thread published it
\* after what the client received, or between the copies of the first Read().
LEMMA ReceiveStep ==
    ASSUME TypeOK, Timeline, FirstCopies, FirstReadReturns \/ Read
    PROVE  /\ received'.timestamp <= clock
           /\ received'.timestamp >= received.timestamp
           /\ received'.timestamp > 0
           /\ received_base'.timestamp >= received_base.timestamp
           /\ received_base'.timestamp <= received'.timestamp
           /\ \/ received'.timestamp > received.timestamp
              \/ received'.timestamp = clock
              \/ client = "once" /\ received # state_returned
<1>. USE DEF Timeline, FirstCopies
<1>0. /\ clock \in Nat /\ clock > 0 /\ samples \in 0 .. 2
      /\ client \in {"new", "returning", "once", "again"}
      /\ state_latest.timestamp \in Nat /\ latest_base.timestamp \in Nat
      /\ state_returned.timestamp \in Nat /\ returned_base.timestamp \in Nat
      /\ received.timestamp \in Nat /\ received_base.timestamp \in Nat
  BY DEF TypeOK, State
<1>1. CASE FirstReadReturns
  <2>1. client = "returning" /\ received' = state_latest /\ received_base' = latest_base
    BY <1>1 DEF FirstReadReturns
  <2>2. /\ samples > 0 /\ received.timestamp = 0 /\ received_base.timestamp = 0
    BY <1>0, <2>1 DEF DefaultState
  <2>. QED
    BY <1>0, <2>1, <2>2
<1>2. CASE Read
  <2>1. /\ client # "returning" /\ samples = 2
        /\ received' = state_returned' /\ received_base' = returned_base'
    BY <1>2 DEF Read
  <2>2. CASE client = "new"
    <3>1. received.timestamp = 0 /\ received_base.timestamp = 0
      BY <2>2 DEF DefaultState
    <3>. QED
      BY <1>0, <1>2, <2>1, <3>1, ReadStep
  <2>3. CASE client # "new" /\ received = state_returned /\ received_base = returned_base
    <3>1. received'.timestamp > received.timestamp \/ received'.timestamp = clock
      <4>1. CASE state_latest.timestamp > state_returned.timestamp
        <5>1. received' = state_latest
          BY <1>2, <2>1, <4>1 DEF Read
        <5>. QED
          BY <2>3, <4>1, <5>1
      <4>2. CASE ~ (state_latest.timestamp > state_returned.timestamp)
        <5>1. received' = Extrapolate(state_returned, clock)
          BY <1>2, <2>1, <4>2 DEF Read
        <5>. QED
          BY <5>1, ExtrapolateType DEF TypeOK
      <4>. QED
        BY <4>1, <4>2
    <3>. QED
      BY <1>0, <1>2, <2>1, <2>3, <3>1, ReadStep
  <2>4. CASE client = "once" /\ state_returned.timestamp < state_latest.timestamp
    <3>1. received' = state_latest /\ received_base' = latest_base
      BY <1>0, <1>2, <2>1, <2>4 DEF Read
    <3>2. received = state_returned => received'.timestamp > received.timestamp
      BY <2>4, <3>1
    <3>. QED
      BY <1>0, <2>1, <2>4, <3>1, <3>2
  <2>. QED
    BY <1>0, <2>1, <2>2, <2>3, <2>4
<1>. QED
  BY <1>1, <1>2

\* The client receives times that advance and are never in the future, save for the
\* Read() after a first one whose two copies parted (PMT.cpp:201-215).
THEOREM ReadAdvancesCorrect == Spec => ReadAdvances
<1>1. TypeOK /\ Timeline /\ FirstCopies =>
        [FirstReadReturns \/ Read =>
            /\ received'.timestamp <= clock
            /\ received'.timestamp >= received.timestamp
            /\ \/ received'.timestamp > received.timestamp
               \/ received'.timestamp = clock
               \/ client = "once" /\ received # state_returned]_vars
  BY ReceiveStep
<1>. QED
  BY <1>1, TypeCorrect, TimelineCorrect, PTL DEF ReadAdvances

-----------------------------------------------------------------------------
(* Energy and power stay within those of the device. *)

\* A sample of positive power accumulates the trapezoid.
LEMMA DeriveJoules ==
    ASSUME NEW latest \in State, NEW state \in State, state.timestamp > latest.timestamp,
           latest.watt \in Powers, state.watt \in Powers, state.watt > 0
    PROVE  /\ WithinPower(latest, Derive(latest, state))
           /\ Derive(latest, state).watt = state.watt
<1>. DEFINE ticks == state.timestamp - latest.timestamp
            e == (latest.watt + state.watt) * ticks
<1>1. ticks \in Nat /\ ticks > 0
  BY DEF State
<1>2. e >= 2 * MinPower * ticks /\ e <= 2 * MaxPower * ticks
  BY <1>1, MeanWithinPower
<1>3. e \in Int
  BY <1>1 DEF State
<1>4. /\ Derive(latest, state).joules = latest.joules + e
      /\ Derive(latest, state).timestamp = state.timestamp
      /\ Derive(latest, state).watt = state.watt
  BY DEF Derive, State
<1>5. latest.joules \in Int
  BY DEF State
<1>. HIDE DEF e
<1>6. Derive(latest, state).joules - latest.joules = e
  BY <1>3, <1>4, <1>5
<1>. QED
  BY <1>2, <1>4, <1>6 DEF WithinPower

\* A counter that advanced within the device's powers yields one of them as power.
LEMMA DeriveWatt ==
    ASSUME NEW latest \in State, NEW state \in State, state.timestamp > latest.timestamp,
           state.watt = 0, latest.joules >= 0, WithinPower(latest, state)
    PROVE  /\ Derive(latest, state).joules = state.joules
           /\ Derive(latest, state).timestamp = state.timestamp
           /\ Derive(latest, state).watt \in Powers
<1>. DEFINE ticks == state.timestamp - latest.timestamp
            d == state.joules - latest.joules
<1>1. ticks \in Nat /\ ticks > 0 /\ d \in Int
  BY DEF State
<1>2. d >= 2 * MinPower * ticks /\ d <= 2 * MaxPower * ticks
  BY DEF WithinPower
<1>3. d \div (2 * ticks) \in Powers
  BY <1>1, <1>2, QuotientWithinPower
<1>4. CASE state.joules > 0
  BY <1>3, <1>4 DEF Derive, State
<1>5. CASE ~ (state.joules > 0)
  <2>1. d <= 0
    BY <1>5 DEF State
  <2>2. 2 * MinPower * ticks <= 0
    BY <1>1, <1>2, <2>1, PowerAssumption DEF PowerAssumption
  <2>3. MinPower = 0
    <3>1. MinPower > 0 => MinPower * ticks > 0
      BY <1>1, PowerAssumption DEF PowerAssumption
    <3>. QED
      BY <1>1, <2>2, <3>1, PowerAssumption DEF PowerAssumption
  <2>4. Derive(latest, state) = state
    BY <1>5 DEF Derive
  <2>. QED
    BY <2>3, <2>4, PowerAssumption DEF PowerAssumption, Powers
<1>. QED
  BY <1>4, <1>5

\* Extrapolating at a power of the device stays within its powers.
LEMMA ExtrapolateWithinPower ==
    ASSUME NEW returned \in State, NEW now \in Nat, now >= returned.timestamp,
           returned.watt \in Powers
    PROVE  /\ WithinPower(returned, Extrapolate(returned, now))
           /\ Extrapolate(returned, now).watt = returned.watt
<1>. DEFINE n == now - returned.timestamp
            e == 2 * returned.watt * n
<1>1. n \in Nat
  BY DEF State
<1>2. e >= 2 * MinPower * n /\ e <= 2 * MaxPower * n
  BY <1>1, ConstantWithinPower
<1>3. e \in Int /\ returned.joules \in Int
  BY <1>1 DEF State
<1>4. /\ Extrapolate(returned, now).joules = returned.joules + e
      /\ Extrapolate(returned, now).timestamp = now
      /\ Extrapolate(returned, now).watt = returned.watt
  BY DEF Extrapolate
<1>. HIDE DEF e
<1>5. Extrapolate(returned, now).joules - returned.joules = e
  BY <1>3, <1>4
<1>. QED
  BY <1>2, <1>4, <1>5 DEF WithinPower

\* Nothing has been drawn between a state and itself.
LEMMA WithinPowerReflexive ==
    ASSUME NEW s \in State, NEW t \in State, t.timestamp = s.timestamp, t.joules = s.joules
    PROVE  WithinPower(s, t)
<1>1. s.joules \in Int /\ s.timestamp \in Int
  BY DEF State
<1>2. t.joules - s.joules = 0 /\ t.timestamp - s.timestamp = 0
  BY <1>1
<1>. QED
  BY <1>2, PowerAssumption DEF WithinPower, PowerAssumption

WithinPowerInv == ReportsWithinPower /\ LatestWithinPower /\ ReturnedWithinPower

\* One turn of the loop that does not mix: the energy goes on from the previous
\* state, or it is that of a sample of 0 W and counts from there.
LEMMA MeasureWithinPower ==
    ASSUME TypeOK, Timeline, WithinPowerInv, Measure, ~mixed'
    PROVE  /\ \/ WithinPower(state_latest, state_latest') /\ latest_base' = latest_base
              \/ WithinPower(latest_base', state_latest')
           /\ state_latest'.watt \in Powers
           /\ reports = {"joules"} => /\ state_latest'.joules = energy
                                     /\ state_latest'.timestamp = clock
                                     /\ latest_base' = latest_base
<1>1. /\ state_latest \in State /\ GetState \in State /\ GetState.timestamp = clock
      /\ state_latest.timestamp < GetState.timestamp
      /\ state_latest' = Derive(state_latest, GetState)
      /\ latest_base' = IF NoPower(GetState) THEN GetState ELSE latest_base
  BY GetStateType DEF TypeOK, State, Measure
<1>2. ~mixed /\ ~(NoPower(GetState) /\ GetState.joules > 0)
  BY DEF Measure
<1>3. CASE "watt" \in reports /\ GetState.watt = 0
  <2>1. NoPower(GetState) /\ ~(GetState.joules > 0)
    BY <1>2, <1>3 DEF NoPower
  <2>2. state_latest' = GetState /\ latest_base' = GetState
    BY <1>1, <1>3, <2>1 DEF Derive, State
  <2>3. GetState.watt \in Powers /\ reports # {"joules"}
    BY <1>3 DEF GetState, TypeOK
  <2>. QED
    BY <1>1, <2>2, <2>3, WithinPowerReflexive
<1>4. CASE "watt" \in reports /\ GetState.watt # 0
  <2>1. state_latest.watt \in Powers /\ reports # {"joules"}
    BY <1>2, <1>4 DEF WithinPowerInv, ReportsWithinPower, Measure
  <2>2. GetState.watt \in Powers /\ GetState.watt > 0
    BY <1>4, PowerAssumption DEF GetState, TypeOK, Powers, PowerAssumption
  <2>3. latest_base' = latest_base
    BY <1>1, <1>4 DEF NoPower
  <2>. QED
    BY <1>1, <2>1, <2>2, <2>3, DeriveJoules
<1>5. CASE "watt" \notin reports
  <2>1. reports = {"joules"} /\ latest_base' = latest_base
    BY <1>1, <1>5 DEF TypeOK, Backend, NoPower
  <2>2. GetState.watt = 0 /\ GetState.joules = energy
    BY <1>5, <2>1 DEF GetState
  <2>3. state_latest.joules >= 0 /\ WithinPower(state_latest, Present)
    BY <2>1 DEF WithinPowerInv, ReportsWithinPower, Measure
  <2>4. WithinPower(state_latest, GetState)
    BY <1>1, <2>2, <2>3 DEF WithinPower, Present
  <2>5. /\ Derive(state_latest, GetState).joules = energy
        /\ Derive(state_latest, GetState).timestamp = clock
        /\ Derive(state_latest, GetState).watt \in Powers
    BY <1>1, <2>2, <2>3, <2>4, DeriveWatt
  <2>6. WithinPower(state_latest, state_latest')
    BY <1>1, <2>2, <2>4, <2>5 DEF WithinPower
  <2>. QED
    BY <1>1, <2>1, <2>5, <2>6
<1>. QED
  BY <1>3, <1>4, <1>5

\* WithinPowerInv is inductive, given the types and the order of the timestamps.
LEMMA WithinPowerInductive ==
    ASSUME TypeOK, TypeOK', Timeline, FirstCopies, WithinPowerInv, [Next]_vars
    PROVE  WithinPowerInv'
<1>0. reports' = reports /\ (~mixed' => ~mixed)
  <2>1. CASE Measure
    BY <2>1 DEF Measure, device
  <2>2. CASE ~Measure
    BY <2>2 DEF Next, vars, device, readVars, loopVars, Tick, InitialSample, FirstReadStores,
                FirstReadReturns, Read
  <2>. QED
    BY <2>1, <2>2
<1>. SUFFICES ASSUME ~mixed'
              PROVE  WithinPowerInv'
  BY DEF WithinPowerInv, ReportsWithinPower, LatestWithinPower, ReturnedWithinPower
<1>. ~mixed
  BY <1>0
<1>1. /\ {state_latest, state_latest', state_returned, state_returned'} \subseteq State
      /\ {received, received', received_base, received_base'} \subseteq State
      /\ {latest_base, latest_base', returned_base, returned_base'} \subseteq State
      /\ Present \in State /\ Present' \in State /\ clock \in Nat
  BY PowerAssumption DEF TypeOK, Present, State, Powers, PowerAssumption
<1>2. CASE Tick
  <2>1. PICK p \in Powers : power' = p /\ energy' = energy + 2 * p
    BY <1>2 DEF Tick
  <2>2. clock' = clock + 1 /\ UNCHANGED <<reports, loopVars, readVars>>
    BY <1>2 DEF Tick
  <2>3. WithinPower(Present, Present')
    <3>1. Present'.joules - Present.joules = 2 * p /\ Present'.timestamp - Present.timestamp = 1
      BY <2>1, <2>2, PowerAssumption DEF Present, TypeOK, Powers, PowerAssumption
    <3>. QED
      BY <3>1, PowerAssumption DEF WithinPower, Powers, PowerAssumption
  <2>4. reports = {"joules"} /\ samples > 0 => WithinPower(state_latest, Present')
    BY <1>1, <2>3, WithinPowerAddsUp DEF WithinPowerInv, ReportsWithinPower
  <2>5. ReportsWithinPower'
    BY <2>2, <2>4 DEF WithinPowerInv, ReportsWithinPower, WithinPower, loopVars
  <2>. QED
    BY <2>2, <2>5 DEF WithinPowerInv, LatestWithinPower, ReturnedWithinPower, WithinPower,
                      loopVars, readVars
<1>3. CASE InitialSample
  <2>1. /\ samples' = 1 /\ state_latest' = GetState /\ UNCHANGED device
        /\ client' = "new" /\ received' = DefaultState
    BY <1>3 DEF InitialSample, Timeline, readVars
  <2>2. reports = {"joules"} => state_latest'.joules = energy /\ state_latest'.timestamp = clock
    BY <2>1 DEF GetState
  <2>3. Present' = Present
    BY <2>1 DEF device, Present
  <2>4. reports = {"joules"} => WithinPower(state_latest', Present')
    BY <1>1, <2>2, <2>3, WithinPowerReflexive DEF Present
  <2>5. "watt" \in reports => state_latest'.watt \in Powers
    BY <2>1 DEF GetState, TypeOK
  <2>6. energy >= 0
    BY DEF TypeOK
  <2>7. ReportsWithinPower'
    BY <1>0, <2>2, <2>4, <2>5, <2>6 DEF ReportsWithinPower, WithinPower
  <2>. QED
    BY <2>1, <2>7 DEF WithinPowerInv, LatestWithinPower, ReturnedWithinPower
<1>4. CASE Measure
  <2>1. /\ samples > 0 /\ samples' = 2 /\ UNCHANGED <<device, readVars>>
    BY <1>4 DEF Measure
  <2>2. /\ \/ WithinPower(state_latest, state_latest') /\ latest_base' = latest_base
           \/ WithinPower(latest_base', state_latest')
        /\ state_latest'.watt \in Powers
        /\ reports = {"joules"} => /\ state_latest'.joules = energy
                                  /\ state_latest'.timestamp = clock
    BY <1>4, MeasureWithinPower
  <2>3. WithinPower(latest_base, state_latest)
    BY <1>1, <2>1, WithinPowerReflexive DEF Timeline, WithinPowerInv, LatestWithinPower, TypeOK
  <2>4. WithinPower(latest_base', state_latest')
    BY <1>1, <2>2, <2>3, WithinPowerAddsUp
  <2>5. Present' = Present
    BY <2>1 DEF device, Present
  <2>6. reports = {"joules"} => WithinPower(state_latest', Present')
    BY <1>1, <2>2, <2>5, WithinPowerReflexive DEF Present
  <2>7. energy >= 0
    BY DEF TypeOK
  <2>8. ReportsWithinPower'
    BY <1>0, <2>2, <2>6, <2>7 DEF ReportsWithinPower, WithinPower
  <2>9. LatestWithinPower'
    BY <2>1, <2>2, <2>4 DEF LatestWithinPower, WithinPower
  <2>10. ReturnedWithinPower'
    BY <2>1 DEF WithinPowerInv, ReturnedWithinPower, WithinPower, readVars
  <2>. QED
    BY <2>8, <2>9, <2>10 DEF WithinPowerInv
<1>5. CASE FirstReadStores \/ Read
  <2>1. UNCHANGED <<device, loopVars>> /\ samples = 2
    BY <1>5 DEF FirstReadStores, Read
  <2>2. WithinPower(latest_base, state_latest) /\ state_latest.watt \in Powers
    BY <2>1 DEF WithinPowerInv, LatestWithinPower
  <2>3. WithinPower(returned_base', state_returned') /\ state_returned'.watt \in Powers
    <3>1. CASE state_returned' = state_latest /\ returned_base' = latest_base
      BY <2>2, <3>1
    <3>2. CASE /\ state_returned' = Extrapolate(state_returned, clock)
               /\ returned_base' = returned_base
               /\ client # "new"
      <4>3. WithinPower(returned_base, state_returned) /\ state_returned.watt \in Powers
        BY <3>2 DEF WithinPowerInv, ReturnedWithinPower
      <4>4. clock >= state_returned.timestamp
        BY <1>1, <3>2 DEF Timeline, State
      <4>5. /\ WithinPower(state_returned, Extrapolate(state_returned, clock))
            /\ Extrapolate(state_returned, clock).watt = state_returned.watt
            /\ Extrapolate(state_returned, clock) \in State
        BY <1>1, <4>3, <4>4, ExtrapolateWithinPower, ExtrapolateType
      <4>. QED
        BY <1>1, <3>2, <4>3, <4>5, WithinPowerAddsUp
    <3>. QED
      BY <1>5, <3>1, <3>2, ReadStep
  <2>4. \/ received' = received /\ received_base' = received_base
        \/ received' = state_returned' /\ received_base' = returned_base'
    BY <1>5 DEF FirstReadStores, Read
  <2>5. ReturnedWithinPower'
    BY <2>3, <2>4 DEF ReturnedWithinPower, WithinPowerInv, WithinPower
  <2>6. ReportsWithinPower' /\ LatestWithinPower'
    BY <2>1 DEF WithinPowerInv, ReportsWithinPower, LatestWithinPower, WithinPower, device,
                loopVars, Present
  <2>. QED
    BY <2>5, <2>6 DEF WithinPowerInv
<1>7. CASE FirstReadReturns
  <2>1. /\ UNCHANGED <<device, loopVars>> /\ client = "returning" /\ client' = "once"
        /\ received' = state_latest /\ received_base' = latest_base
        /\ state_returned' = state_returned /\ returned_base' = returned_base
    BY <1>7 DEF FirstReadReturns
  <2>2. samples = 2
    BY <2>1 DEF TypeOK, Timeline
  <2>3. WithinPower(latest_base, state_latest) /\ state_latest.watt \in Powers
    BY <2>2 DEF WithinPowerInv, LatestWithinPower
  <2>4. ReturnedWithinPower'
    BY <2>1, <2>3 DEF ReturnedWithinPower, WithinPowerInv, WithinPower
  <2>5. ReportsWithinPower' /\ LatestWithinPower'
    BY <2>1 DEF WithinPowerInv, ReportsWithinPower, LatestWithinPower, WithinPower, device,
                loopVars, Present
  <2>. QED
    BY <2>4, <2>5 DEF WithinPowerInv
<1>6. CASE UNCHANGED vars
  BY <1>6 DEF vars, WithinPowerInv, ReportsWithinPower, LatestWithinPower, ReturnedWithinPower,
              WithinPower, Present
<1>. QED
  BY <1>2, <1>3, <1>4, <1>5, <1>6, <1>7 DEF Next

\* The energy and the power of the latest state, of the returned state and of the
\* counter behind them lie within the device's powers.
THEOREM WithinPowerCorrect == Spec => [](LatestWithinPower /\ ReturnedWithinPower)
<1>1. Init => WithinPowerInv
  BY DEF Init, WithinPowerInv, ReportsWithinPower, LatestWithinPower, ReturnedWithinPower
<1>2. WithinPowerInv => LatestWithinPower /\ ReturnedWithinPower
  BY DEF WithinPowerInv
<1>. QED
  BY <1>1, <1>2, WithinPowerInductive, TypeCorrect, TimelineCorrect, PTL DEF Spec

-----------------------------------------------------------------------------
(* The refinement. *)

\* A report that is a State within the device's powers is plausible without a lag.
LEMMA PlausibleReport ==
    ASSUME NEW b \in State, NEW r \in State, WithinPower(b, r)
    PROVE  /\ EnergyOf(r).joules - EnergyOf(b).joules
                 >= 2 * MinPower * ((EnergyOf(r).timestamp - EnergyOf(b).timestamp) - 0)
           /\ EnergyOf(r).joules - EnergyOf(b).joules
                 <= 2 * MaxPower * (EnergyOf(r).timestamp - EnergyOf(b).timestamp)
<1>1. (r.timestamp - b.timestamp) - 0 = r.timestamp - b.timestamp
  BY DEF State
<1>. QED
  BY <1>1 DEF WithinPower, EnergyOf

\* Whatever the samples and the Reads, the client sees a meter (PMT.cpp:87-120,
\* 186-215): the initial states are initial states of Meter and every step is a
\* Report, a Pass or no step of it.
THEOREM MeterCorrect == Spec => ImplementsMeter
<1>1. Init => PublicMeter!Init
  BY DEF Init, PublicMeter!Init, PublicMeter!NoReport, EnergyOf, DefaultState
<1>2. TypeOK /\ TypeOK' /\ Timeline /\ FirstCopies /\ WithinPowerInv /\ WithinPowerInv'
      /\ [Next]_vars
        => [PublicMeter!Next]_(PublicMeter!vars)
  <2>. SUFFICES ASSUME TypeOK, TypeOK', Timeline, FirstCopies, WithinPowerInv,
                         WithinPowerInv', [Next]_vars
                PROVE  [PublicMeter!Next]_(PublicMeter!vars)
    OBVIOUS
  <2>1. CASE FirstReadReturns \/ Read
    <3>1. UNCHANGED <<device, loopVars>>
      BY <2>1 DEF FirstReadReturns, Read
    <3>2. /\ clock \in Nat /\ clock' = clock /\ mixed' = mixed
          /\ {received, received', received_base, received_base'} \subseteq State
      BY <3>1 DEF TypeOK, device, loopVars
    <3>3. /\ received'.timestamp >= received.timestamp
          /\ received'.timestamp <= clock
          /\ received' # DefaultState
          /\ received_base'.timestamp >= received_base.timestamp
          /\ received_base'.timestamp <= received'.timestamp
      BY <2>1, ReceiveStep DEF DefaultState
    <3>4. ~mixed => WithinPower(received_base', received')
      BY <3>2, <3>3 DEF WithinPowerInv, ReturnedWithinPower, WithinPower
    <3>5. ~mixed => PublicMeter!Plausible(EnergyOf(received_base'), EnergyOf(received'))
      BY <3>2, <3>4, PlausibleReport DEF PublicMeter!Plausible, EnergyOf
    <3>6. PublicMeter!Report
      BY <3>2, <3>3, <3>5 DEF PublicMeter!Report, EnergyOf, State
    <3>. QED
      BY <3>6 DEF PublicMeter!Next
  <2>2. CASE Tick \/ InitialSample \/ Measure \/ FirstReadStores
    <3>1. received' = received /\ received_base' = received_base
      BY <2>2 DEF Tick, InitialSample, Measure, FirstReadStores, readVars
    <3>2. clock' >= clock /\ (mixed => mixed')
      BY <2>2 DEF Tick, InitialSample, Measure, FirstReadStores, device, loopVars, TypeOK
    <3>3. PublicMeter!Pass
      BY <3>1, <3>2 DEF PublicMeter!Pass, EnergyOf
    <3>. QED
      BY <3>3 DEF PublicMeter!Next
  <2>3. CASE UNCHANGED vars
    BY <2>3 DEF vars, PublicMeter!vars, EnergyOf
  <2>. QED
    BY <2>1, <2>2, <2>3 DEF Next
<1>3. Init => WithinPowerInv
  BY DEF Init, WithinPowerInv, ReportsWithinPower, LatestWithinPower, ReturnedWithinPower
<1>. QED
  BY <1>1, <1>2, <1>3, WithinPowerInductive, TypeCorrect, TimelineCorrect, PTL
     DEF Spec, PublicMeter!Spec, ImplementsMeter

=============================================================================
