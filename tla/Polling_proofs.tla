---------------------------- MODULE Polling_proofs ----------------------------
(***************************************************************************)
(* Proofs about Polling.tla, for any times that satisfy its assumptions:   *)
(* what a polling client gets is recent. The inductive invariant bounds    *)
(* the age of the latest sample by the samples that have failed since and  *)
(* by the place of the thread (LatestIsFresh), and says that the returned  *)
(* state is at least as old as the last Read() (ReturnedIsOlder).          *)
(***************************************************************************)
EXTENDS Polling, TLAPS

\* What one turn of the measurement loop takes at most.
Turn == MaxSleep + MaxLatency

IInv == TypeOK /\ LatestIsFresh /\ ReturnedIsOlder

-----------------------------------------------------------------------------
(* Times. *)

\* The times of the loop are natural numbers, and no bound is beyond Horizon.
LEMMA TurnTimes ==
    /\ Turn \in Nat /\ Bound \in Nat
    /\ MaxLatency <= Bound /\ MaxLatency + Turn <= Bound
    /\ MaxLatency \in Ages /\ Bound \in Ages
<1>1. Turn \in Nat /\ (MaxFailures + 1) * Turn \in Nat
  BY TimesAssumption DEF Turn
<1>2. (MaxFailures + 1) * Turn = MaxFailures * Turn + Turn /\ MaxFailures * Turn \in Nat
  BY <1>1, TimesAssumption
<1> QED
  BY <1>1, <1>2, TimesAssumption, HorizonAssumption DEF Bound, Turn, Ages

\* One more failure costs one turn, and the turns of the failures fit into Bound.
LEMMA TurnsOfFailures ==
    ASSUME NEW f \in 0 .. MaxFailures
    PROVE  /\ f * Turn \in Nat
           /\ (f + 1) * Turn = f * Turn + Turn
           /\ MaxLatency + f * Turn + Turn <= Bound
<1>1. Turn \in Nat /\ f \in Nat /\ MaxFailures - f \in Nat
  BY TurnTimes, TimesAssumption
<1>2. f * Turn \in Nat /\ (f + 1) * Turn = f * Turn + Turn
  BY <1>1
<1>3. (MaxFailures - f) * Turn \in Nat
  BY <1>1
<1>4. (MaxFailures + 1) * Turn = f * Turn + (MaxFailures - f) * Turn + Turn
  BY <1>1, TimesAssumption
<1> QED
  BY <1>1, <1>2, <1>3, <1>4, TimesAssumption DEF Bound, Turn

\* An age grows by at most one, and not beyond Horizon.
LEMMA OlderAge ==
    ASSUME NEW age \in Ages
    PROVE  /\ Older(age) \in Ages
           /\ age <= Older(age) /\ Older(age) <= age + 1
  BY TimesAssumption DEF Ages, Older

\* Ages of equal order keep it.
LEMMA OlderMonotonic ==
    ASSUME NEW a \in Ages, NEW b \in Ages, a <= b
    PROVE  Older(a) <= Older(b)
  BY TimesAssumption DEF Ages, Older

-----------------------------------------------------------------------------
(* Types. *)

LEMMA TypeInit == Init => TypeOK
<1> SUFFICES ASSUME Init PROVE TypeOK
  OBVIOUS
<1>1. 0 \in Ages /\ 0 \in 0 .. MaxFailures /\ 0 <= MaxSleep /\ 0 <= MaxLatency
  BY TimesAssumption DEF Ages
<1>2. 0 \in 0 .. (kNrRetriesInitialization + 1)
  BY TimesAssumption
<1>3. latest \in [age : Ages, real : BOOLEAN] /\ returned \in [age : Ages, power : Ages, real : BOOLEAN]
  BY <1>1 DEF Init
<1> QED BY <1>1, <1>2, <1>3 DEF Init, TypeOK

LEMMA TypeStep == TypeOK /\ [Next]_vars => TypeOK'
<1> SUFFICES ASSUME TypeOK, [Next]_vars PROVE TypeOK'
  OBVIOUS
<1> USE TimesAssumption, TurnTimes
<1>1. CASE Tick
  <2>1. Older(since) \in Ages /\ Older(latest.age) \in Ages
        /\ Older(returned.age) \in Ages /\ Older(returned.power) \in Ages
    BY OlderAge DEF TypeOK
  <2>2. latest' \in [age : Ages, real : BOOLEAN]
        /\ returned' \in [age : Ages, power : Ages, real : BOOLEAN]
    BY <1>1, <2>1 DEF Tick, TypeOK
  <2>3. timer' \in Nat /\ (tpc = "sleep" => timer' <= MaxSleep)
        /\ (tpc \in {"init", "sample"} => timer' <= MaxLatency)
    <3>1. CASE tpc = "ended" BY <1>1, <3>1 DEF Tick, TypeOK
    <3>2. CASE tpc # "ended" BY <1>1, <3>2 DEF Tick, TypeOK
    <3> QED BY <3>1, <3>2
  <2>4. since' \in Ages /\ UNCHANGED <<backend, tpc, failures, sampled, errno, published, pc, retries>>
    BY <1>1, <2>1 DEF Tick
  <2> QED BY <2>2, <2>3, <2>4 DEF TypeOK
<1>2. CASE InitialState
  <2>1. \A age \in 0 .. timer : age \in Ages
    BY <1>2 DEF InitialState, TypeOK, Ages
  <2> QED BY <1>2, <2>1 DEF InitialState, GoTo, TypeOK, clientVars
<1>13. CASE InitialUnread
  <2>1. latest' \in [age : Ages, real : BOOLEAN]
    <3>1. \/ \E age \in 0 .. timer : latest' = [age |-> age, real |-> FALSE]
          \/ \E age \in timer .. Horizon : latest' = [age |-> age, real |-> TRUE]
      BY <1>13 DEF InitialUnread
    <3>2. ASSUME NEW age \in 0 .. timer PROVE [age |-> age, real |-> FALSE] \in [age : Ages, real : BOOLEAN]
      BY <1>13 DEF InitialUnread, TypeOK, Ages
    <3>3. ASSUME NEW age \in timer .. Horizon PROVE [age |-> age, real |-> TRUE] \in [age : Ages, real : BOOLEAN]
      BY DEF TypeOK, Ages
    <3> QED BY <3>1, <3>2, <3>3
  <2>2. failures' \in 0 .. MaxFailures
    BY <1>13 DEF InitialUnread, TypeOK
  <2> QED BY <1>13, <2>1, <2>2 DEF InitialUnread, GoTo, TypeOK, clientVars
<1>14. CASE InitialFailure
  BY <1>14 DEF InitialFailure, GoTo, TypeOK
<1>3. CASE WakeUp
  BY <1>3 DEF WakeUp, GoTo, TypeOK, clientVars
<1>4. CASE Sample
  <2>1. \A age \in 0 .. timer : age \in Ages
    BY <1>4 DEF Sample, TypeOK, Ages
  <2> QED BY <1>4, <2>1 DEF Sample, GoTo, TypeOK, clientVars
<1>5. CASE SampleUnread
  <2>1. \A age \in 0 .. timer : age \in Ages
    BY <1>5 DEF SampleUnread, TypeOK, Ages
  <2>2. latest' \in [age : Ages, real : BOOLEAN]
    <3>1. (\E age \in 0 .. timer : latest' = [age |-> age, real |-> FALSE]) \/ latest' = latest
      BY <1>5 DEF SampleUnread
    <3>2. latest \in [age : Ages, real : BOOLEAN]
      BY DEF TypeOK
    <3>3. ASSUME NEW age \in 0 .. timer PROVE [age |-> age, real |-> FALSE] \in [age : Ages, real : BOOLEAN]
      BY <2>1
    <3> QED BY <3>1, <3>2, <3>3
  <2>3. failures' \in 0 .. MaxFailures
    BY <1>5 DEF SampleUnread, TypeOK
  <2>4. tpc' = "sleep" /\ timer' = 0 /\ published' \in BOOLEAN
    BY <1>5 DEF SampleUnread, GoTo
  <2>5. UNCHANGED <<backend, sampled, errno, pc, since, retries, returned>>
    BY <1>5 DEF SampleUnread, clientVars
  <2> QED BY <2>2, <2>3, <2>4, <2>5 DEF TypeOK
<1>6. CASE SampleFailure
  BY <1>6 DEF SampleFailure, GoTo, TypeOK, clientVars
<1>7. CASE SampleCrash
  BY <1>7 DEF SampleCrash, GoTo, TypeOK
<1>8. CASE WaitOn
  BY <1>8 DEF WaitOn, TypeOK, threadVars, Ages
<1>9. CASE GiveUp
  BY <1>9 DEF GiveUp, TypeOK, threadVars
<1>10. CASE FirstRead
  BY <1>10 DEF FirstRead, Adopted, TypeOK, threadVars, Ages
<1>11. CASE Read
  BY <1>11 DEF Read, Adopted, TypeOK, threadVars, Ages
<1>12. CASE UNCHANGED vars
  BY <1>12 DEF vars, threadVars, clientVars, TypeOK
<1> QED
  BY <1>1, <1>2, <1>3, <1>4, <1>5, <1>6, <1>7, <1>8, <1>9, <1>10, <1>11, <1>12,
     <1>13, <1>14
  DEF Next, ThreadStep, ClientStep

\* Every variable keeps its type, and the thread stays in no place of the loop for
\* longer than the sleep or the call of GetState() takes (PMT.cpp:87-93).
THEOREM TypeCorrect == Spec => []TypeOK
<1> QED BY TypeInit, TypeStep, PTL DEF Spec

-----------------------------------------------------------------------------
(* The age of the latest sample. *)

\* LatestIsFresh in terms of one turn of the loop.
LEMMA LatestBound ==
    LatestIsFresh <=>
        (~Poisoned /\ ~OnlyRepeated =>
                      /\ tpc = "sleep" => latest.age <= MaxLatency + failures * Turn + timer
                      /\ tpc = "sample" => latest.age <= MaxLatency + failures * Turn + timer + MaxSleep)
  BY DEF LatestIsFresh, Turn

\* The time of the latest sample is within Bound once the loop runs.
LEMMA LatestWithinBound ==
    ASSUME TypeOK, LatestIsFresh, ~Poisoned, ~OnlyRepeated, tpc \in {"sleep", "sample"}
    PROVE  latest.age <= Bound
<1>1. failures \in 0 .. MaxFailures /\ timer \in Nat /\ latest.age \in Nat
  BY TimesAssumption DEF TypeOK, Ages
<1>2. failures * Turn \in Nat /\ MaxLatency + failures * Turn + Turn <= Bound
  BY <1>1, TurnsOfFailures
<1>3. CASE tpc = "sleep"
  <2>1. latest.age <= MaxLatency + failures * Turn + timer /\ timer <= MaxSleep
    BY <1>3, LatestBound DEF TypeOK
  <2> QED BY <1>1, <1>2, <2>1, TurnTimes, TimesAssumption DEF Turn
<1>4. CASE tpc = "sample"
  <2>1. latest.age <= MaxLatency + failures * Turn + timer + MaxSleep /\ timer <= MaxLatency
    BY <1>4, LatestBound DEF TypeOK
  <2> QED BY <1>1, <1>2, <2>1, TurnTimes, TimesAssumption DEF Turn
<1> QED BY <1>3, <1>4

\* How a backend fails does not change.
LEMMA FailureStays == [Next]_vars => backend' = backend /\ Failure' = Failure
<1> SUFFICES ASSUME [Next]_vars PROVE backend' = backend
  BY DEF Failure
<1> QED
  BY DEF Next, ThreadStep, ClientStep, Tick, InitialState, InitialUnread, InitialFailure, WakeUp, Sample,
         SampleUnread, SampleFailure, SampleCrash, WaitOn, GiveUp, FirstRead, Read, vars, threadVars

LEMMA LatestStep == TypeOK /\ TypeOK' /\ ReturnedIsOlder /\ LatestIsFresh /\ [Next]_vars => LatestIsFresh'
<1> SUFFICES ASSUME TypeOK, TypeOK', ReturnedIsOlder, LatestIsFresh, [Next]_vars, ~Poisoned', ~OnlyRepeated'
             PROVE  /\ tpc' = "sleep" => latest'.age <= MaxLatency + failures' * Turn + timer'
                    /\ tpc' = "sample" => latest'.age <= MaxLatency + failures' * Turn + timer' + MaxSleep
  BY DEF LatestIsFresh, Turn
<1> USE TimesAssumption
<1> DEFINE before == failures * Turn
           after  == failures' * Turn
<1>1. failures \in 0 .. MaxFailures /\ timer \in Nat /\ Turn \in Nat
      /\ latest.age \in Nat /\ latest'.age \in Nat
  BY TurnTimes DEF TypeOK, Ages
<1>2. before \in Nat /\ after \in Nat
      /\ (failures' = failures => after = before)
      /\ (failures' = failures + 1 => after = before + Turn)
  <2>1. failures' \in 0 .. MaxFailures
    BY DEF TypeOK
  <2> QED BY <1>1, <2>1, TurnsOfFailures
<1>3. ~Poisoned /\ ~OnlyRepeated =>
                   /\ tpc = "sleep" => latest.age <= MaxLatency + before + timer
                   /\ tpc = "sample" => latest.age <= MaxLatency + before + timer + MaxSleep
  BY LatestBound
<1> HIDE DEF before, after
<1> SUFFICES /\ tpc' = "sleep" => latest'.age <= MaxLatency + after + timer'
             /\ tpc' = "sample" => latest'.age <= MaxLatency + after + timer' + MaxSleep
  BY DEF after
<1>4. CASE Tick
  <2>1. latest'.age = Older(latest.age) /\ failures' = failures /\ tpc' = tpc /\ ~Poisoned /\ ~OnlyRepeated
    BY <1>4, FailureStays DEF Tick, TypeOK, Poisoned, OnlyRepeated
  <2>2. latest'.age <= latest.age + 1
    BY <2>1, OlderAge DEF TypeOK
  <2>3. tpc # "ended" => timer' = timer + 1
    BY <1>4 DEF Tick
  <2> QED BY <1>1, <1>2, <1>3, <2>1, <2>2, <2>3
<1>5. CASE InitialState \/ Sample
  <2>1. tpc' = "sleep" /\ timer' = 0 /\ timer <= MaxLatency
    BY <1>5 DEF InitialState, Sample, GoTo, TypeOK
  <2>2. latest'.age <= timer
    <3>1. PICK age \in 0 .. timer : latest' = [age |-> age, real |-> TRUE]
      BY <1>5 DEF InitialState, Sample
    <3> QED BY <3>1, <1>1
  <2> QED BY <1>1, <1>2, <2>1, <2>2
<1>6. CASE WakeUp
  <2>1. latest' = latest /\ failures' = failures /\ tpc = "sleep" /\ tpc' = "sample"
        /\ timer' = 0 /\ timer <= MaxSleep /\ ~Poisoned /\ ~OnlyRepeated
    BY <1>6, FailureStays DEF WakeUp, GoTo, TypeOK, Poisoned, OnlyRepeated
  <2> QED BY <1>1, <1>2, <1>3, <2>1
<1>7. CASE SampleUnread
  <2>1. tpc = "sample" /\ tpc' = "sleep" /\ timer' = 0 /\ failures' = failures + 1 /\ timer <= MaxLatency
    BY <1>7 DEF SampleUnread, GoTo, TypeOK
  <2>2. ~Poisoned /\ ~OnlyRepeated
    BY <1>7, FailureStays DEF SampleUnread, Poisoned, OnlyRepeated
  <2>3. (\E age \in 0 .. timer : latest' = [age |-> age, real |-> FALSE]) \/ latest' = latest
    BY <1>7 DEF SampleUnread
  <2>4. CASE latest' = latest
    BY <1>1, <1>2, <1>3, <2>1, <2>2, <2>4 DEF Turn
  <2>5. CASE \E age \in 0 .. timer : latest' = [age |-> age, real |-> FALSE]
    <3>1. PICK age \in 0 .. timer : latest' = [age |-> age, real |-> FALSE]
      BY <2>5
    <3>2. latest'.age <= timer
      BY <3>1, <1>1
    <3> QED BY <1>1, <1>2, <2>1, <3>2
  <2> QED BY <2>3, <2>4, <2>5
<1>8. CASE SampleFailure
  <2>1. tpc = "sample" /\ tpc' = "sleep" /\ timer' = 0 /\ latest' = latest /\ timer <= MaxLatency
    BY <1>8 DEF SampleFailure, GoTo, TypeOK
  <2>2. ~Poisoned /\ ~OnlyRepeated
    BY <1>8, FailureStays DEF SampleFailure, Poisoned, OnlyRepeated
  <2>3. failures' = failures + 1
    BY <1>8, <2>2 DEF SampleFailure
  <2> QED BY <1>1, <1>2, <1>3, <2>1, <2>2, <2>3 DEF Turn
<1>11. CASE InitialUnread
  <2>1. tpc' = "sleep" /\ timer' = 0 /\ timer <= MaxLatency
    BY <1>11 DEF InitialUnread, GoTo, TypeOK
  <2>2. latest'.age <= timer
    <3>1. "stale" \notin Failure
      BY <1>11, FailureStays DEF InitialUnread, OnlyRepeated, ReturnedIsOlder
    <3>2. PICK age \in 0 .. timer : latest' = [age |-> age, real |-> FALSE]
      BY <1>11, <3>1 DEF InitialUnread
    <3> QED BY <3>2, <1>1
  <2> QED BY <1>1, <1>2, <2>1, <2>2
<1>9. CASE SampleCrash \/ InitialFailure
  BY <1>9 DEF SampleCrash, InitialFailure, GoTo
<1>10. CASE ClientStep \/ UNCHANGED vars
  <2>1. latest' = latest /\ failures' = failures /\ tpc' = tpc /\ timer' = timer /\ ~Poisoned /\ ~OnlyRepeated
    BY <1>10, FailureStays DEF ClientStep, WaitOn, GiveUp, FirstRead, Read, vars, threadVars, Poisoned, OnlyRepeated
  <2> QED BY <1>1, <1>2, <1>3, <2>1
<1> QED
  BY <1>4, <1>5, <1>6, <1>7, <1>8, <1>9, <1>10, <1>11 DEF Next, ThreadStep

-----------------------------------------------------------------------------
(* The age of the returned state. *)

\* A backend that repeats its values does not report 0 instead.
LEMMA OneWay == TypeOK /\ "stale" \in Failure => "zero" \notin Failure
  BY BackendsAssumption
  DEF TypeOK, AllBackends, Failure, CrayFailure, AMDSMIFailure, NVMLFailure, TegraFailure, RaplFailure,
      XilinxFailure, ROCMFailure

LEMMA ReturnedStep == TypeOK /\ ReturnedIsOlder /\ [Next]_vars => ReturnedIsOlder'
<1> SUFFICES ASSUME TypeOK, ReturnedIsOlder, [Next]_vars PROVE ReturnedIsOlder'
  OBVIOUS
<1> USE TimesAssumption
<1>1. Failure' = Failure
  BY FailureStays
<1>2. CASE Tick
  <2>1. since' = Older(since) /\ returned'.age = Older(returned.age) /\ returned'.real = returned.real
        /\ latest'.age = Older(latest.age) /\ latest'.real = latest.real
        /\ UNCHANGED <<tpc, pc, published, sampled>>
    BY <1>2 DEF Tick, TypeOK
  <2>2. returned.age >= since => returned'.age >= since'
    BY <2>1, OlderMonotonic, OlderAge DEF TypeOK, Ages
  <2>3. returned.age <= latest.age => returned'.age <= latest'.age
    BY <2>1, OlderMonotonic DEF TypeOK
  <2> QED BY <1>1, <2>1, <2>2, <2>3 DEF ReturnedIsOlder, OnlyRepeated
<1>3. CASE InitialState \/ InitialUnread \/ WakeUp \/ Sample \/ SampleUnread \/ SampleFailure
  <2>1. tpc' # "init" /\ tpc' # "ended" /\ UNCHANGED <<pc, since, returned>>
        /\ (pc = "idle" => published')
    BY <1>3 DEF InitialState, InitialUnread, WakeUp, Sample, SampleUnread, SampleFailure, GoTo, clientVars,
                ReturnedIsOlder
  <2>2. "zero" \notin Failure => latest'.real
    <3>1. CASE InitialState \/ Sample
      BY <3>1 DEF InitialState, Sample
    <3>2. CASE WakeUp \/ SampleFailure
      BY <3>2 DEF WakeUp, SampleFailure, ReturnedIsOlder
    <3>3. CASE SampleUnread
      BY <3>3 DEF SampleUnread, ReturnedIsOlder
    <3>4. CASE InitialUnread
      BY <3>4 DEF InitialUnread
    <3> QED BY <1>3, <3>1, <3>2, <3>3, <3>4
  <2>3. pc = "idle" /\ OnlyRepeated' => returned'.age <= latest'.age
    <3>1. CASE InitialState \/ Sample
      BY <3>1 DEF InitialState, Sample, OnlyRepeated
    <3>2. CASE WakeUp \/ SampleFailure
      BY <1>1, <2>1, <3>2 DEF WakeUp, SampleFailure, ReturnedIsOlder, OnlyRepeated
    <3>3. CASE SampleUnread
      <4>1. "stale" \in Failure => latest' = latest
        BY <3>3, OneWay DEF SampleUnread
      <4>2. sampled' = sampled
        BY <3>3 DEF SampleUnread
      <4> QED BY <1>1, <2>1, <4>1, <4>2 DEF ReturnedIsOlder, OnlyRepeated
    <3>4. CASE InitialUnread
      BY <3>4 DEF InitialUnread, ReturnedIsOlder
    <3> QED BY <1>3, <3>1, <3>2, <3>3, <3>4
  <2> QED BY <1>1, <2>1, <2>2, <2>3 DEF ReturnedIsOlder
<1>4. CASE SampleCrash \/ InitialFailure
  BY <1>1, <1>4 DEF SampleCrash, InitialFailure, GoTo, ReturnedIsOlder
<1>5. CASE WaitOn \/ GiveUp \/ UNCHANGED vars
  BY <1>1, <1>5 DEF WaitOn, GiveUp, vars, threadVars, clientVars, ReturnedIsOlder, OnlyRepeated
<1>6. CASE FirstRead \/ Read
  <2>1. published /\ pc' = "idle" /\ since' = 0 /\ UNCHANGED <<tpc, published, latest, sampled>> /\ tpc # "init"
    BY <1>6 DEF FirstRead, Read, threadVars, ReturnedIsOlder
  <2>2. returned'.age >= 0 /\ returned'.age \in {latest.age, 0}
    BY <1>6 DEF FirstRead, Read, Adopted, TypeOK, Ages
  <2>3. tpc # "ended"
    BY <1>6 DEF FirstRead, Read, ReturnedIsOlder
  <2>4. "zero" \notin Failure => returned'.real
    BY <1>6, <2>1, <2>3 DEF FirstRead, Read, Adopted, TypeOK, ReturnedIsOlder
  <2>5. returned'.age <= latest'.age
    BY <2>1, <2>2 DEF TypeOK, Ages
  <2> QED BY <1>1, <2>1, <2>2, <2>3, <2>4, <2>5 DEF ReturnedIsOlder
<1> QED
  BY <1>2, <1>3, <1>4, <1>5, <1>6 DEF Next, ThreadStep, ClientStep

\* The invariant is inductive.
THEOREM Inductive == Spec => []IInv
<1>1. Init => IInv
  <2> SUFFICES ASSUME Init PROVE LatestIsFresh /\ ReturnedIsOlder
    BY TypeInit DEF IInv
  <2> QED BY DEF Init, LatestIsFresh, ReturnedIsOlder
<1>2. IInv /\ [Next]_vars => IInv'
  BY TypeStep, LatestStep, ReturnedStep DEF IInv
<1> QED BY <1>1, <1>2, PTL DEF Spec

-----------------------------------------------------------------------------
(* What the client gets. *)

\* When a Read() returns, the thread is in its loop.
LEMMA LoopRuns == ReturnedIsOlder /\ TypeOK /\ (FirstRead \/ Read) => tpc \in {"sleep", "sample"}
  BY DEF ReturnedIsOlder, TypeOK, FirstRead, Read

\* The time of every State that is returned lies at most Bound in the past, for any
\* times of the loop, any number of failures, the first sample among them, and any
\* Reads. The exceptions are those of RecentTime.
THEOREM RecentTimeCorrect == Spec => RecentTime
<1> DEFINE Recent == returned'.age <= Bound \/ Poisoned \/ (FirstRead /\ OnlyRepeated)
<1>1. IInv /\ [Next]_vars => [FirstRead \/ Read => Recent]_vars
  <2> SUFFICES ASSUME IInv, FirstRead \/ Read, ~Poisoned, ~(FirstRead /\ OnlyRepeated)
               PROVE  returned'.age <= Bound
    OBVIOUS
  <2>1. CASE OnlyRepeated
    <3>1. returned.age <= latest.age /\ Read
      BY <2>1 DEF Read, IInv, ReturnedIsOlder
    <3>2. returned'.age = 0
      BY <3>1 DEF Read, IInv, TypeOK, Ages
    <3> QED BY <3>2, TurnTimes
  <2>2. CASE ~OnlyRepeated
    <3>1. latest.age <= Bound
      BY <2>2, LoopRuns, LatestWithinBound DEF IInv
    <3> QED BY <3>1, TurnTimes DEF FirstRead, Read, Adopted, IInv, TypeOK
  <2> QED BY <2>1, <2>2
<1> QED BY <1>1, Inductive, PTL DEF Spec, RecentTime

\* A Read() that comes more than Bound after the one before, and the first one, gets a
\* power not older than Bound that was really read, for any times of the loop, any
\* number of failures and any Reads before. The exceptions are those of RecentPower.
THEOREM RecentPowerCorrect == Spec => RecentPower
<1> DEFINE Recent == \/ Poisoned \/ OnlyRepeated
                     \/ /\ returned'.power <= Bound
                        /\ "zero" \in Failure \/ returned'.real
<1>1. IInv /\ [Next]_vars => [FirstRead \/ (Read /\ since > Bound) => Recent]_vars
  <2> SUFFICES ASSUME IInv, FirstRead \/ (Read /\ since > Bound), ~Poisoned, ~OnlyRepeated
               PROVE  returned'.power <= Bound /\ ("zero" \notin Failure => returned'.real)
    OBVIOUS
  <2>1. latest.age <= Bound /\ tpc # "init" /\ tpc # "ended"
    BY LoopRuns, LatestWithinBound DEF IInv
  <2>2. returned' = Adopted
    <3>1. CASE FirstRead
      BY <3>1 DEF FirstRead
    <3>2. CASE Read /\ since > Bound
      <4>1. returned.age >= since
        BY <3>2 DEF Read, IInv, ReturnedIsOlder
      <4>2. latest.age < returned.age
        BY <2>1, <3>2, <4>1, TurnTimes DEF IInv, TypeOK, Ages
      <4> QED BY <3>2, <4>2 DEF Read
    <3> QED BY <3>1, <3>2
  <2> QED BY <2>1, <2>2 DEF Adopted, IInv, ReturnedIsOlder
<1> QED BY <1>1, Inductive, PTL DEF Spec, RecentPower

-----------------------------------------------------------------------------
(* The first Read(): a race between the turns of its wait and the thread. *)

\* n turns of the wait sleep Interval * Turns(n).
Turns(n) == (n * (n + 1)) \div 2

\* The time since the first Read() began to wait, and the most that it can be when
\* nothing has been published yet, by the failures and the place of the thread.
Elapsed == Interval * Turns(retries) + since
AtMost  == IF tpc = "init" THEN timer
           ELSE MaxLatency + failures * Turn + timer + (IF tpc = "sample" THEN MaxSleep ELSE 0)

\* The wait lasts longer than the two samples, so its last turn is never reached.
Race ==
    Bound < Waited /\ ~Poisoned =>
        /\ pc # "failed"
        /\ pc = "wait" => retries <= kNrRetriesInitialization
        /\ pc = "wait" /\ ~published => Elapsed <= AtMost

\* Turn n + 1 adds n + 1 intervals.
LEMMA NextTurn ==
    ASSUME NEW n \in Nat
    PROVE  /\ Turns(n) \in Nat /\ Turns(n + 1) = Turns(n) + n + 1
           /\ Interval * Turns(n) \in Nat /\ Interval * (n + 1) \in Nat
           /\ Interval * Turns(n + 1) = Interval * Turns(n) + Interval * (n + 1)
<1>1. n * (n + 1) \in Nat /\ (n + 1) * (n + 1 + 1) = n * (n + 1) + 2 * (n + 1)
  OBVIOUS
<1> DEFINE m == n * (n + 1)
<1>2. ASSUME NEW a \in Nat PROVE a \div 2 \in Nat /\ (a + 2 * (n + 1)) \div 2 = a \div 2 + n + 1
  OBVIOUS
<1>3. Turns(n) \in Nat /\ Turns(n + 1) = Turns(n) + n + 1
  BY <1>1, <1>2 DEF Turns
<1>4. ASSUME NEW i \in Nat, NEW a \in Nat, NEW b \in Nat
      PROVE  i * a \in Nat /\ i * (a + b) = i * a + i * b
  OBVIOUS
<1>5. Turns(n + 1) = Turns(n) + (n + 1) /\ n + 1 \in Nat
  BY <1>3
<1> QED BY <1>3, <1>4, <1>5, TimesAssumption

\* The whole wait, in turns.
LEMMA WaitedInTurns == Waited = Interval * Turns(kNrRetriesInitialization + 1)
<1>1. kNrRetriesInitialization + 2 = kNrRetriesInitialization + 1 + 1
  BY TimesAssumption
<1> QED BY <1>1 DEF Waited, Turns

\* What has not been published yet is at most Bound late.
LEMMA AtMostBound == TypeOK /\ tpc # "ended" => AtMost \in Nat /\ AtMost <= Bound
<1> SUFFICES ASSUME TypeOK, tpc # "ended" PROVE AtMost \in Nat /\ AtMost <= Bound
  OBVIOUS
<1>1. failures \in 0 .. MaxFailures /\ timer \in Nat
      /\ (tpc = "sleep" => timer <= MaxSleep)
      /\ (tpc \in {"init", "sample"} => timer <= MaxLatency)
      /\ tpc \in {"init", "sleep", "sample"}
  BY DEF TypeOK
<1>2. failures * Turn \in Nat /\ MaxLatency + failures * Turn + Turn <= Bound
  BY <1>1, TurnsOfFailures
<1>3. CASE tpc = "init"
  BY <1>1, <1>3, TurnTimes, TimesAssumption DEF AtMost
<1>4. CASE tpc = "sleep"
  BY <1>1, <1>2, <1>4, TurnTimes, TimesAssumption DEF AtMost, Turn
<1>5. CASE tpc = "sample"
  BY <1>1, <1>2, <1>5, TurnTimes, TimesAssumption DEF AtMost, Turn
<1> QED BY <1>1, <1>3, <1>4, <1>5

LEMMA RaceInit == Init => Race
<1> SUFFICES ASSUME Init PROVE Elapsed <= AtMost /\ pc # "failed" /\ retries <= kNrRetriesInitialization
  BY DEF Race
<1>1. retries = 0 /\ since = 0 /\ timer = 0 /\ tpc = "init" /\ pc = "wait"
  BY DEF Init
<1>2. Turns(0) = 0
  BY DEF Turns
<1> QED BY <1>1, <1>2, TimesAssumption DEF Elapsed, AtMost

LEMMA RaceStep == IInv /\ TypeOK' /\ Race /\ [Next]_vars => Race'
<1> SUFFICES ASSUME IInv, TypeOK', Race, [Next]_vars, Bound < Waited, ~Poisoned'
             PROVE  /\ pc' # "failed"
                    /\ pc' = "wait" => retries' <= kNrRetriesInitialization
                    /\ pc' = "wait" /\ ~published' => Elapsed' <= AtMost'
  BY DEF Race, Waited, Bound
<1> USE TimesAssumption
<1>1. ~Poisoned
  BY DEF Next, ThreadStep, ClientStep, Tick, InitialState, InitialUnread, InitialFailure, WakeUp, Sample, SampleUnread, SampleFailure,
         SampleCrash, WaitOn, GiveUp, FirstRead, Read, vars, threadVars, clientVars, Poisoned
<1>2. /\ pc # "failed"
      /\ pc = "wait" => retries <= kNrRetriesInitialization
      /\ pc = "wait" /\ ~published => Elapsed <= AtMost
  BY <1>1 DEF Race
<1>3. TypeOK /\ (pc = "wait" => tpc # "ended")
  BY DEF IInv, ReturnedIsOlder
<1>4. /\ retries \in Nat /\ since \in Nat /\ timer \in Nat /\ timer' \in Nat /\ since' \in Nat
      /\ failures \in 0 .. MaxFailures /\ failures' \in 0 .. MaxFailures
      /\ tpc = "sleep" => timer <= MaxSleep
      /\ tpc \in {"init", "sample"} => timer <= MaxLatency
  BY <1>3 DEF TypeOK, Ages
<1>5. /\ failures * Turn \in Nat /\ failures' * Turn \in Nat /\ Turn \in Nat
      /\ (failures + 1) * Turn = failures * Turn + Turn
      /\ Interval * Turns(retries) \in Nat /\ Interval * (retries + 1) \in Nat
      /\ Interval * Turns(retries + 1) = Interval * Turns(retries) + Interval * (retries + 1)
  BY <1>4, TurnsOfFailures, TurnTimes, NextTurn
<1> DEFINE slept == Interval * Turns(retries)
           lost  == failures * Turn
<1>6. CASE Tick
  <2>1. UNCHANGED <<pc, retries, published, tpc, failures>>
        /\ (tpc # "ended" => timer' = timer + 1) /\ since' = Older(since)
    BY <1>6 DEF Tick
  <2>2. since' <= since + 1
    BY <1>3, <2>1, OlderAge DEF TypeOK
  <2>3. ASSUME pc = "wait", ~published PROVE Elapsed' <= AtMost'
    <3>1. Elapsed' <= Elapsed + 1
      BY <1>4, <1>5, <2>1, <2>2 DEF Elapsed
    <3>2. AtMost' = AtMost + 1
      BY <1>3, <1>4, <1>5, <2>1, <2>3 DEF AtMost
    <3>3. Elapsed \in Nat /\ Elapsed' \in Nat /\ AtMost \in Nat
      BY <1>3, <1>4, <1>5, <2>1, <2>3, AtMostBound DEF Elapsed
    <3> QED BY <1>2, <2>3, <3>1, <3>2, <3>3
  <2> QED BY <1>2, <2>1, <2>3
<1>7. CASE InitialState \/ InitialUnread \/ WakeUp \/ SampleFailure
  <2>1. UNCHANGED <<pc, retries, since, published>>
    BY <1>7 DEF InitialState, InitialUnread, WakeUp, SampleFailure, clientVars
  <2>2. ASSUME pc = "wait", ~published PROVE AtMost <= AtMost'
    <3>1. CASE InitialState
      BY <1>4, <1>5, <3>1 DEF InitialState, GoTo, AtMost
    <3>4. CASE InitialUnread
      <4>1. tpc = "init" /\ tpc' = "sleep" /\ timer' = 0
        BY <3>4 DEF InitialUnread, GoTo
      <4>2. PICK n \in Nat : n = failures' * Turn
        BY <1>5
      <4>3. AtMost = timer /\ AtMost' = MaxLatency + n + 0 + 0
        BY <4>1, <4>2 DEF AtMost
      <4> QED BY <1>4, <4>1, <4>2, <4>3
    <3>2. CASE WakeUp
      BY <1>4, <1>5, <3>2 DEF WakeUp, GoTo, AtMost
    <3>3. CASE SampleFailure
      <4>1. failures' = failures + 1 /\ tpc = "sample" /\ tpc' = "sleep" /\ timer' = 0
        BY <1>1, <3>3 DEF SampleFailure, GoTo
      <4>2. AtMost = MaxLatency + lost + timer + MaxSleep /\ AtMost' = MaxLatency + (lost + Turn) + 0 + 0
        BY <1>5, <4>1 DEF AtMost
      <4> QED BY <1>4, <1>5, <4>1, <4>2 DEF Turn
    <3> QED BY <1>7, <3>1, <3>2, <3>3, <3>4
  <2>3. ASSUME pc = "wait", ~published PROVE Elapsed' <= AtMost'
    <3>1. Elapsed' = Elapsed /\ Elapsed \in Nat /\ AtMost \in Nat
      BY <1>3, <1>4, <1>5, <2>1, <2>3, AtMostBound DEF Elapsed
    <3>2. AtMost' \in Nat
      <4>1. tpc' # "ended"
        BY <1>7 DEF InitialState, InitialUnread, WakeUp, SampleFailure, GoTo
      <4>2. PICK n \in Nat : n = failures' * Turn
        BY <1>5
      <4>3. AtMost' = IF tpc' = "init" THEN timer'
                     ELSE MaxLatency + n + timer' + (IF tpc' = "sample" THEN MaxSleep ELSE 0)
        BY <4>1, <4>2 DEF AtMost
      <4> QED BY <1>4, <4>2, <4>3
    <3> QED BY <1>2, <2>2, <2>3, <3>1, <3>2
  <2> QED BY <1>2, <2>1, <2>3
<1>8. CASE Sample \/ SampleUnread
  BY <1>2, <1>8 DEF Sample, SampleUnread, clientVars
<1>9. CASE SampleCrash \/ InitialFailure
  BY <1>9 DEF SampleCrash, InitialFailure
<1>10. CASE WaitOn
  <2>1. /\ pc = "wait" /\ ~published /\ since >= Interval * (retries + 1)
        /\ retries' = retries + 1 /\ since' = 0 /\ UNCHANGED <<pc, threadVars>>
    BY <1>10 DEF WaitOn
  <2>2. Elapsed' = slept + Interval * (retries + 1) /\ Elapsed = slept + since
    BY <1>5, <2>1 DEF Elapsed
  <2>3. Elapsed' <= Elapsed /\ Elapsed' \in Nat /\ Elapsed \in Nat
    BY <1>4, <1>5, <2>1, <2>2
  <2>4. AtMost' = AtMost /\ AtMost \in Nat /\ AtMost <= Bound
    BY <1>3, <2>1, AtMostBound DEF AtMost, threadVars
  <2>5. Elapsed' <= Bound
    BY <1>2, <2>1, <2>3, <2>4, TurnTimes
  <2>6. retries' <= kNrRetriesInitialization
    <3>1. SUFFICES ASSUME retries = kNrRetriesInitialization PROVE FALSE
      BY <1>2, <1>4, <2>1
    <3>2. Elapsed' = Waited
      BY <1>5, <2>1, <3>1, WaitedInTurns DEF Elapsed
    <3> QED BY <2>3, <2>5, <3>2, TurnTimes
  <2> QED BY <1>2, <2>1, <2>3, <2>4, <2>6
<1>11. CASE GiveUp
  BY <1>2, <1>4, <1>11 DEF GiveUp
<1>12. CASE FirstRead \/ Read
  BY <1>2, <1>12 DEF FirstRead, Read
<1>13. CASE UNCHANGED vars
  BY <1>2, <1>13 DEF vars, threadVars, clientVars, Elapsed, AtMost, Turns
<1> QED
  BY <1>6, <1>7, <1>8, <1>9, <1>10, <1>11, <1>12, <1>13 DEF Next, ThreadStep, ClientStep

\* For any times of the loop and any number of retries: when the samples of a backend
\* take less time than the growing sleeps of the wait, the first Read() never gives up.
THEOREM FastBackendStartsCorrect == Spec => []FastBackendStarts
<1>1. Race => FastBackendStarts
  BY DEF Race, FastBackendStarts
<1>2. Spec => []Race
  <2>1. IInv /\ IInv' /\ Race /\ [Next]_vars => Race'
    BY RaceStep DEF IInv
  <2> QED BY <2>1, RaceInit, Inductive, PTL DEF Spec
<1> QED BY <1>1, <1>2, PTL

=============================================================================
