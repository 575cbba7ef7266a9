------------------------------ MODULE RaplCounter ------------------------------
(***************************************************************************)
(* One RAPL counter (rapl/RaplCounter.cpp): /energy_uj counts the energy   *)
(* of a package and starts again at zero past max_energy_range_uj; Read()  *)
(* is meant to continue the count across such wraps.                       *)
(*                                                                         *)
(* The hardware advances between two Reads by any amount, up to wrapping   *)
(* several times, and a read of the file may return nothing, which atol()  *)
(* turns into zero, also the one of the constructor.                       *)
(***************************************************************************)
EXTENDS Integers

CONSTANTS
    max_energy_range_uj,  \* the largest value of /energy_uj
    MaxTotal,             \* the hardware stops here: a bound for TLC only
    MaxOffset             \* the offset grows up to here: a bound for TLC only

ASSUME RangeAssumption == max_energy_range_uj \in Nat
ASSUME BoundAssumption == MaxTotal \in Nat /\ MaxOffset \in Nat

VARIABLES
    total,               \* the energy of the package since power-on, which never wraps
    constructed,
    energy_uj_first,
    energy_uj_previous,
    energy_uj_offset,
    result,              \* what Read() returned last, as if std::size_t had a sign
    created,             \* total when the counter was constructed
    readAt,              \* total when Read() was called last
    clean                \* no read of the file has returned nothing so far

vars == <<total, constructed, energy_uj_first, energy_uj_previous, energy_uj_offset,
          result, created, readAt, clean>>

\* The content of /energy_uj.
energy_uj == total % (max_energy_range_uj + 1)

TypeOK ==
    /\ total \in Nat
    /\ constructed \in BOOLEAN
    /\ energy_uj_first \in 0 .. max_energy_range_uj
    /\ energy_uj_previous \in 0 .. max_energy_range_uj
    /\ energy_uj_offset \in Nat
    /\ result \in Int
    /\ created \in Nat
    /\ readAt \in Nat
    /\ clean \in BOOLEAN

Init ==
    /\ total \in 0 .. max_energy_range_uj
    /\ constructed = FALSE
    /\ energy_uj_first = 0
    /\ energy_uj_previous = 0
    /\ energy_uj_offset = 0
    /\ result = 0
    /\ created = 0
    /\ readAt = 0
    /\ clean = TRUE

\* The package draws energy.
Draw ==
    /\ total < MaxTotal
    /\ \E n \in (total + 1) .. MaxTotal : total' = n
    /\ UNCHANGED <<constructed, energy_uj_first, energy_uj_previous, energy_uj_offset,
                   result, created, readAt, clean>>

\* The constructor: a Read() on members that are still zero returns the value itself.
RaplCounter ==
    /\ ~constructed
    /\ constructed' = TRUE
    /\ energy_uj_first' = energy_uj
    /\ energy_uj_previous' = energy_uj
    /\ energy_uj_offset' = 0
    /\ created' = total
    /\ readAt' = total
    /\ UNCHANGED <<total, result, clean>>

\* The constructor, when its std::getline() yields no line: the first value is 0.
RaplCounterNothing ==
    /\ ~constructed
    /\ constructed' = TRUE
    /\ energy_uj_first' = 0
    /\ energy_uj_previous' = 0
    /\ energy_uj_offset' = 0
    /\ created' = total
    /\ readAt' = total
    /\ clean' = FALSE
    /\ UNCHANGED <<total, result>>

\* Variant: a wrapped counter is not continued.
AccountWithoutOffset(now) ==
    /\ energy_uj_offset' = energy_uj_offset
    /\ result' = energy_uj_offset' + now - energy_uj_first

\* Variant: the offset grows when the value has not fallen.
AccountReversed(now) ==
    /\ energy_uj_offset' = energy_uj_offset +
          (IF now < energy_uj_previous THEN 0 ELSE max_energy_range_uj)
    /\ result' = energy_uj_offset' + now - energy_uj_first

\* The arithmetic of Read(): the offset grows when the value is below
\* energy_uj_previous_, which nothing but the constructor assigns.
Account(now) ==
    /\ energy_uj_offset' = energy_uj_offset +
          (IF now < energy_uj_previous THEN max_energy_range_uj ELSE 0)
    /\ result' = energy_uj_offset' + now - energy_uj_first

Read ==
    /\ constructed
    /\ energy_uj_offset <= MaxOffset
    /\ Account(energy_uj)
    /\ readAt' = total
    /\ UNCHANGED <<total, constructed, energy_uj_first, energy_uj_previous, created, clean>>

\* Read() when std::getline() yields no line.
ReadNothing ==
    /\ constructed
    /\ energy_uj_offset <= MaxOffset
    /\ Account(0)
    /\ readAt' = total
    /\ clean' = FALSE
    /\ UNCHANGED <<total, constructed, energy_uj_first, energy_uj_previous, created>>

Next == Draw \/ RaplCounter \/ RaplCounterNothing \/ Read \/ ReadNothing

Spec == Init /\ [][Next]_vars

-----------------------------------------------------------------------------
\* The unsigned subtraction of Read() never runs below zero, even when a read of
\* the file yields nothing, the one of the constructor included: whenever the value is below the first one, an offset
\* has been added (RaplCounter.cpp:33-35).
NoUnderflow == result >= 0

\* Until the hardware counter wraps for the first time, Read() returns exactly the
\* energy drawn since the constructor (RaplCounter.cpp:26-36).
ExactBeforeWrap ==
    constructed /\ clean /\ readAt <= max_energy_range_uj => result = readAt - created

\* "offset += now < previous ? max : 0" (RaplCounter.h:22), previous being the value
\* read before: when at most one wrap lies between two Reads, the result grows by
\* the energy drawn between them, give or take the unit that max leaves out.
WrapCountedOnce ==
    [][Read /\ clean /\ total - readAt <= max_energy_range_uj =>
          result' - result \in (total - readAt - 1) .. (total - readAt)]_vars

=============================================================================
