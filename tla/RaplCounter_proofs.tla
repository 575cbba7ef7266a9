-------------------------- MODULE RaplCounter_proofs --------------------------
(***************************************************************************)
(* Proofs about RaplCounter for every range of the counter. Both results   *)
(* rest on energy_uj_previous staying equal to energy_uj_first, which is   *)
(* what keeps the subtraction of Read() from running below zero, and is    *)
(* also why a wrap is counted more than once (WrapCountedOnce).            *)
(***************************************************************************)
EXTENDS RaplCounter, TLAPS

\* The content of the file is in range, and is the total until the first wrap.
LEMMA CounterRange ==
    ASSUME NEW t \in Nat
    PROVE  /\ t % (max_energy_range_uj + 1) \in 0 .. max_energy_range_uj
           /\ t <= max_energy_range_uj => t % (max_energy_range_uj + 1) = t
<1>. DEFINE m == max_energy_range_uj + 1
<1>1. m \in Nat /\ m > 0
  BY RangeAssumption DEF RangeAssumption
<1>2. t % m \in 0 .. (m - 1)
  BY <1>1
<1>3. t < m => t % m = t
  BY <1>1
<1>4. m - 1 = max_energy_range_uj /\ (t <= max_energy_range_uj <=> t < m)
  BY RangeAssumption DEF RangeAssumption
<1>. HIDE DEF m
<1>5. /\ t % m \in 0 .. max_energy_range_uj
      /\ t <= max_energy_range_uj => t % m = t
  BY <1>2, <1>3, <1>4
<1>. QED
  BY <1>5 DEF m

\* Every variable keeps its type.
THEOREM TypeCorrect == Spec => []TypeOK
<1>1. Init => TypeOK
  <2>1. 0 \in 0 .. max_energy_range_uj
    BY RangeAssumption DEF RangeAssumption
  <2>. SUFFICES ASSUME Init
                PROVE  TypeOK
    OBVIOUS
  <2>2. total \in Nat
    BY RangeAssumption DEF RangeAssumption, Init
  <2>3. constructed \in BOOLEAN /\ clean \in BOOLEAN
    BY Zenon DEF Init
  <2>4. 0 \in Nat /\ 0 \in Int
    OBVIOUS
  <2>. QED
    BY <2>1, <2>2, <2>3, <2>4 DEF Init, TypeOK
<1>2. TypeOK /\ [Next]_vars => TypeOK'
  <2>. SUFFICES ASSUME TypeOK, [Next]_vars
                PROVE  TypeOK'
    OBVIOUS
  <2>0. energy_uj \in 0 .. max_energy_range_uj
    BY CounterRange DEF TypeOK, energy_uj
  <2>1. CASE Draw
    BY <2>1, BoundAssumption DEF Draw, TypeOK, BoundAssumption
  <2>2. CASE RaplCounter
    BY <2>0, <2>2 DEF RaplCounter, TypeOK
  <2>7. CASE RaplCounterNothing
    <3>1. 0 \in 0 .. max_energy_range_uj
      BY RangeAssumption DEF RangeAssumption
    <3>. QED
      BY <2>7, <3>1 DEF RaplCounterNothing, TypeOK
  <2>3. ASSUME NEW now \in 0 .. max_energy_range_uj, Account(now)
        PROVE  energy_uj_offset' \in Nat /\ result' \in Int
    BY <2>3, RangeAssumption DEF RangeAssumption, Account, TypeOK
  <2>4. CASE Read
    BY <2>0, <2>3, <2>4 DEF Read, TypeOK
  <2>5. CASE ReadNothing
    <3>1. 0 \in 0 .. max_energy_range_uj
      BY RangeAssumption DEF RangeAssumption
    <3>2. energy_uj_offset' \in Nat /\ result' \in Int
      BY <2>3, <2>5, <3>1 DEF ReadNothing
    <3>. QED
      BY <2>5, <3>2 DEF ReadNothing, TypeOK
  <2>6. CASE UNCHANGED vars
    BY <2>6 DEF vars, TypeOK
  <2>. QED
    BY <2>1, <2>2, <2>4, <2>5, <2>6, <2>7 DEF Next
<1>. QED
  BY <1>1, <1>2, PTL DEF Spec

-----------------------------------------------------------------------------
\* What stays true of the members of the counter and of the clock of the hardware.
CounterInv ==
    /\ result >= 0
    /\ constructed =>
          /\ energy_uj_previous = energy_uj_first
          /\ created <= readAt /\ readAt <= total
          /\ clean /\ created <= max_energy_range_uj => energy_uj_first = created
    /\ constructed /\ clean /\ readAt <= max_energy_range_uj =>
          energy_uj_offset = 0 /\ result = readAt - created
    /\ ~constructed => result = 0

THEOREM CounterCorrect == Spec => []CounterInv
<1>1. Init => CounterInv
  BY DEF Init, CounterInv
<1>2. TypeOK /\ CounterInv /\ [Next]_vars => CounterInv'
  <2>. SUFFICES ASSUME TypeOK, CounterInv, [Next]_vars
                PROVE  CounterInv'
    OBVIOUS
  <2>0. /\ energy_uj \in 0 .. max_energy_range_uj
        /\ total <= max_energy_range_uj => energy_uj = total
    BY CounterRange DEF TypeOK, energy_uj
  <2>. USE DEF CounterInv
  <2>1. CASE Draw
    BY <2>1, BoundAssumption DEF Draw, TypeOK, BoundAssumption
  <2>2. CASE RaplCounter
    BY <2>0, <2>2 DEF RaplCounter, TypeOK
  <2>7. CASE RaplCounterNothing
    BY <2>7 DEF RaplCounterNothing, TypeOK
  <2>3. ASSUME NEW now \in 0 .. max_energy_range_uj, Account(now), constructed
        PROVE  /\ result' >= 0
               /\ now >= energy_uj_first => /\ energy_uj_offset' = energy_uj_offset
                                            /\ result' = energy_uj_offset + now - energy_uj_first
    BY <2>3, RangeAssumption DEF RangeAssumption, Account, TypeOK
  <2>4. CASE Read
    <3>1. /\ result' >= 0
          /\ energy_uj >= energy_uj_first => /\ energy_uj_offset' = energy_uj_offset
                                             /\ result' = energy_uj_offset + energy_uj - energy_uj_first
      BY <2>0, <2>3, <2>4 DEF Read
    <3>2. clean /\ total <= max_energy_range_uj =>
              energy_uj_offset' = 0 /\ result' = total - created
      <4>. SUFFICES ASSUME clean, total <= max_energy_range_uj
                    PROVE  energy_uj_offset' = 0 /\ result' = total - created
        OBVIOUS
      <4>1. energy_uj = total /\ energy_uj_offset = 0 /\ energy_uj_first = created /\ created <= total
        BY <2>0, <2>4, RangeAssumption DEF Read, TypeOK, RangeAssumption
      <4>. QED
        BY <3>1, <4>1 DEF TypeOK
    <3>. QED
      BY <2>4, <3>1, <3>2 DEF Read, TypeOK
  <2>5. CASE ReadNothing
    <3>1. result' >= 0
      BY <2>3, <2>5, RangeAssumption DEF RangeAssumption, ReadNothing
    <3>. QED
      BY <2>5, <3>1 DEF ReadNothing, TypeOK
  <2>6. CASE UNCHANGED vars
    BY <2>6 DEF vars
  <2>. QED
    BY <2>1, <2>2, <2>4, <2>5, <2>6, <2>7 DEF Next
<1>. QED
  BY <1>1, <1>2, TypeCorrect, PTL DEF Spec

\* The subtraction of Read() never runs below zero (RaplCounter.cpp:33-35).
THEOREM NoUnderflowCorrect == Spec => []NoUnderflow
<1>1. CounterInv => NoUnderflow
  BY DEF CounterInv, NoUnderflow
<1>. QED
  BY <1>1, CounterCorrect, PTL

\* Before the first wrap Read() is exact (RaplCounter.cpp:26-36).
THEOREM ExactBeforeWrapCorrect == Spec => []ExactBeforeWrap
<1>1. CounterInv => ExactBeforeWrap
  BY DEF CounterInv, ExactBeforeWrap
<1>. QED
  BY <1>1, CounterCorrect, PTL

=============================================================================
