----------------------------- MODULE Sensors_proofs -----------------------------
(***************************************************************************)
(* Proofs about Sensors, for any number of sensors, any powers and any     *)
(* times. The first part is about sums: SumFunctionOnSet is defined by     *)
(* recursion over the subsets of a set, and what it computes is shown by   *)
(* induction over their size. The theorem of the library for that takes    *)
(* the induction hypothesis as an operator; SubsetInduction takes it as    *)
(* the set of the subsets for which it holds.                              *)
(***************************************************************************)
EXTENDS Sensors, FiniteSetTheorems, WellFoundedInduction, TLAPS

-----------------------------------------------------------------------------
(* Induction over the subsets of a finite set. *)

LEMMA LeastNat ==
    ASSUME NEW T, T \subseteq Nat, T # {}
    PROVE  \E n \in T : \A m \in T : n <= m
<1> DEFINE Less == {ss \in Nat \X Nat : ss[1] < ss[2]}
<1>1. IsWellFoundedOn(Less, Nat)
  BY NatLessThanWellFounded DEF OpToRel
<1>2. \A x, y \in Nat : <<y, x>> \notin Less => x <= y
  <2> TAKE x, y \in Nat
  <2>1. y < x => <<y, x>> \in Less
    OBVIOUS
  <2> QED BY <2>1
<1> HIDE DEF Less
<1>3. \E x \in T : \A y \in T : ~ (<<y, x>> \in Less)
  BY <1>1, WFMin
<1> QED BY <1>2, <1>3

\* The element that a fold takes first.
Pick(s) == CHOOSE x \in s : TRUE

LEMMA PickSmaller ==
    ASSUME NEW S, IsFiniteSet(S), NEW s \in SUBSET S, s # {}
    PROVE  /\ Pick(s) \in s /\ s \ {Pick(s)} \in SUBSET S
           /\ Cardinality(s) \in Nat
           /\ Cardinality(s \ {Pick(s)}) = Cardinality(s) - 1
<1>1. Pick(s) \in s
  BY DEF Pick
<1>2. IsFiniteSet(s)
  BY FS_Subset
<1>3. Cardinality(s) \in Nat
  BY <1>2, FS_CardinalityType
<1>4. Cardinality(s \ {Pick(s)}) = Cardinality(s) - 1
  BY <1>1, <1>2, FS_RemoveElement
<1> QED BY <1>1, <1>3, <1>4

\* P holds the empty set, and every subset that it holds without its first element.
LEMMA SubsetInduction ==
    ASSUME NEW S, IsFiniteSet(S), NEW P, {} \in P,
           \A s \in SUBSET S : s # {} /\ s \ {Pick(s)} \in P => s \in P
    PROVE  \A s \in SUBSET S : s \in P
<1> SUFFICES ASSUME NEW t \in SUBSET S, t \notin P PROVE FALSE
  OBVIOUS
<1> DEFINE Left == (SUBSET S) \ P
           Sizes == {Cardinality(s) : s \in Left}
<1>1. \A s \in Left : s # {}
  OBVIOUS
<1>2. Sizes \subseteq Nat /\ Sizes # {}
  <2>1. ASSUME NEW s \in Left PROVE Cardinality(s) \in Nat
    BY <1>1, <2>1, PickSmaller
  <2>2. Cardinality(t) \in Sizes
    OBVIOUS
  <2> QED BY <2>1, <2>2
<1> HIDE DEF Sizes
<1>3. PICK n \in Sizes : \A m \in Sizes : n <= m
  BY <1>2, LeastNat
<1> USE DEF Sizes
<1>4. PICK s \in Left : Cardinality(s) = n
  BY <1>3
<1>5. s # {} /\ s \ {Pick(s)} \notin P
  BY <1>1, <1>4
<1>6. s \ {Pick(s)} \in Left /\ Cardinality(s \ {Pick(s)}) = Cardinality(s) - 1 /\ Cardinality(s) \in Nat
  BY <1>5, PickSmaller
<1>7. n <= Cardinality(s \ {Pick(s)})
  BY <1>3, <1>6
<1> QED BY <1>4, <1>6, <1>7

-----------------------------------------------------------------------------
(* Sums. *)

SumBody(f, g, s) == IF s = {} THEN 0 ELSE f[Pick(s)] + g[s \ {Pick(s)}]

\* The sums of f over all subsets of S, which its sum over S is computed from.
Sums(f, S) == CHOOSE g : g = [s \in SUBSET S |-> SumBody(f, g, s)]

LEMMA SumIsOneOfSums ==
    ASSUME NEW f, NEW S
    PROVE  SumFunctionOnSet(f, S) = Sums(f, S)[S]
  BY DEF SumFunctionOnSet, FoldFunctionOnSet, MapThenFoldSet, Sums, SumBody, Pick

\* The recursion has a solution: any function that solves it for the subsets of up to
\* n elements gives one that solves it for those of up to n + 1.
LEMMA SumsExist ==
    ASSUME NEW f, NEW S, IsFiniteSet(S)
    PROVE  \E g : g = [s \in SUBSET S |-> SumBody(f, g, s)]
<1> DEFINE Upto(n, g) == /\ g = [s \in SUBSET S |-> g[s]]
                         /\ \A s \in SUBSET S : Cardinality(s) <= n => g[s] = SumBody(f, g, s)
           T == {n \in Nat : ~ \E g : Upto(n, g)}
<1>1. \A n \in Nat : \E g : Upto(n, g)
  <2>1. SUFFICES ASSUME T # {} PROVE FALSE
    OBVIOUS
  <2>2. PICK n \in T : \A m \in T : n <= m
    <3>1. T \subseteq Nat
      OBVIOUS
    <3> HIDE DEF T
    <3> QED BY <2>1, <3>1, LeastNat
  <2>3. n # 0
    <3> DEFINE g == [s \in SUBSET S |-> 0]
    <3>1. ASSUME NEW s \in SUBSET S, Cardinality(s) <= 0 PROVE g[s] = SumBody(f, g, s)
      <4>1. IsFiniteSet(s)
        BY FS_Subset
      <4>2. Cardinality(s) = 0
        BY <3>1, <4>1, FS_CardinalityType
      <4>3. s = {}
        BY <4>1, <4>2, FS_EmptySet
      <4> QED BY <4>3 DEF SumBody
    <3> QED BY <3>1
  <2>4. n - 1 \in Nat /\ n - 1 \notin T
    <3> HIDE DEF T
    <3>1. n \in Nat
      BY DEF T
    <3> QED BY <2>2, <2>3, <3>1
  <2>5. PICK g : Upto(n - 1, g)
    BY <2>4
  <2> DEFINE h == [s \in SUBSET S |-> SumBody(f, g, s)]
  <2>6. ASSUME NEW s \in SUBSET S, Cardinality(s) <= n PROVE h[s] = SumBody(f, h, s)
    <3>1. CASE s = {}
      BY <3>1 DEF SumBody
    <3>2. CASE s # {}
      <4> DEFINE r == s \ {Pick(s)}
      <4>1. r \in SUBSET S /\ Cardinality(r) <= n - 1
        BY <2>6, <3>2, PickSmaller
      <4>2. h[r] = g[r]
        BY <4>1, <2>5
      <4> QED BY <3>2, <4>2 DEF SumBody
    <3> QED BY <3>1, <3>2
  <2>7. Upto(n, h)
    BY <2>6
  <2> QED BY <2>2, <2>7
<1>2. Cardinality(S) \in Nat /\ \A s \in SUBSET S : Cardinality(s) <= Cardinality(S)
  BY FS_CardinalityType, FS_Subset
<1>3. PICK g : Upto(Cardinality(S), g)
  BY <1>1, <1>2
<1> QED BY <1>2, <1>3

LEMMA SumsStep ==
    ASSUME NEW f, NEW S, IsFiniteSet(S), NEW s \in SUBSET S
    PROVE  Sums(f, S)[s] = IF s = {} THEN 0 ELSE f[Pick(s)] + Sums(f, S)[s \ {Pick(s)}]
<1>1. Sums(f, S) = [t \in SUBSET S |-> SumBody(f, Sums(f, S), t)]
  BY SumsExist DEF Sums
<1> QED BY <1>1 DEF SumBody

\* e is f + c * h on S.
Combines(S, e, f, h, c) == \A i \in S : f[i] \in Int /\ h[i] \in Int /\ e[i] = f[i] + c * h[i]

\* Sums are linear: the sum of f + c * h is the sum of f and c times that of h.
LEMMA SumLinear ==
    ASSUME NEW S, IsFiniteSet(S), NEW e, NEW f, NEW h, NEW c \in Int, Combines(S, e, f, h, c)
    PROVE  /\ SumFunctionOnSet(f, S) \in Int /\ SumFunctionOnSet(h, S) \in Int
           /\ SumFunctionOnSet(e, S) = SumFunctionOnSet(f, S) + c * SumFunctionOnSet(h, S)
<1> DEFINE P == {s \in SUBSET S : /\ Sums(f, S)[s] \in Int /\ Sums(h, S)[s] \in Int
                                  /\ Sums(e, S)[s] = Sums(f, S)[s] + c * Sums(h, S)[s]}
<1>1. {} \in P
  <2>1. {} \in SUBSET S /\ Sums(e, S)[{}] = 0 /\ Sums(f, S)[{}] = 0 /\ Sums(h, S)[{}] = 0
    BY SumsStep
  <2> QED BY <2>1
<1>2. ASSUME NEW s \in SUBSET S, s # {}, s \ {Pick(s)} \in P PROVE s \in P
  <2> DEFINE x == Pick(s)
             r == s \ {x}
  <2>1. x \in S /\ r \in SUBSET S /\ s # {}
    BY <1>2, PickSmaller
  <2>2. /\ Sums(e, S)[s] = e[x] + Sums(e, S)[r]
        /\ Sums(f, S)[s] = f[x] + Sums(f, S)[r]
        /\ Sums(h, S)[s] = h[x] + Sums(h, S)[r]
    BY <2>1, SumsStep
  <2>3. /\ Sums(f, S)[r] \in Int /\ Sums(h, S)[r] \in Int
        /\ Sums(e, S)[r] = Sums(f, S)[r] + c * Sums(h, S)[r]
    BY <1>2
  <2>4. f[x] \in Int /\ h[x] \in Int /\ e[x] = f[x] + c * h[x]
    BY <2>1 DEF Combines
  <2>5. ASSUME NEW a \in Int, NEW b \in Int, NEW d \in Int, NEW k \in Int
        PROVE  (a + c * b) + (d + c * k) = (a + d) + c * (b + k) /\ a + d \in Int
    OBVIOUS
  <2> HIDE DEF x, r
  <2> QED BY <2>2, <2>3, <2>4, <2>5 DEF x, r
<1> HIDE DEF P
<1>3. S \in P
  BY <1>1, <1>2, SubsetInduction
<1> QED BY <1>3, SumIsOneOfSums DEF P

\* A sum of values that are not negative is not, and is 0 only if each of them is.
LEMMA SumPositive ==
    ASSUME NEW S, IsFiniteSet(S), NEW f, \A i \in S : f[i] \in Nat
    PROVE  /\ SumFunctionOnSet(f, S) \in Nat
           /\ SumFunctionOnSet(f, S) = 0 <=> \A i \in S : f[i] = 0
<1> DEFINE P == {s \in SUBSET S : /\ Sums(f, S)[s] \in Nat
                                  /\ Sums(f, S)[s] = 0 <=> \A i \in s : f[i] = 0}
<1>1. {} \in P
  <2>1. {} \in SUBSET S /\ Sums(f, S)[{}] = 0
    BY SumsStep
  <2> QED BY <2>1
<1>2. ASSUME NEW s \in SUBSET S, s # {}, s \ {Pick(s)} \in P PROVE s \in P
  <2> DEFINE x == Pick(s)
             r == s \ {x}
  <2>1. x \in s /\ s = r \cup {x}
    BY <1>2, PickSmaller
  <2>2. Sums(f, S)[s] = f[x] + Sums(f, S)[r]
    BY <1>2, SumsStep
  <2>3. Sums(f, S)[r] \in Nat /\ (Sums(f, S)[r] = 0 <=> \A i \in r : f[i] = 0)
    BY <1>2
  <2> HIDE DEF x, r
  <2> QED BY <2>1, <2>2, <2>3
<1> HIDE DEF P
<1>3. S \in P
  BY <1>1, <1>2, SubsetInduction
<1> QED BY <1>3, SumIsOneOfSums DEF P

-----------------------------------------------------------------------------
(* The inductive invariant. *)

Times     == 0 .. MaxTime
States    == [timestamp : Times, joules : [Entries -> Int], watt : [Entries -> Int]]
Multiples == {2 * Scale * k : k \in Int}

Typed ==
    /\ backend \in Backends
    /\ clock \in 1 .. MaxTime
    /\ power \in [Ids -> Nat]
    /\ energy \in [Ids -> Multiples \cap Nat] /\ group \in [Ids -> Multiples \cap Nat]
    /\ samples \in 0 .. 2
    /\ state_latest \in States /\ state_returned \in States
    /\ samples = 0 => state_latest = DefaultState
    /\ samples > 0 => state_latest.timestamp > 0

\* Only the backends that report power let a sensor stop.
OnlyPowerStops == stopped => backend \in {"tegra", "powersensor3", "likwid"}

\* With a clock that only moves forward, nothing of those that report power alone is
\* negative.
Unsigned ==
    backend \in {"tegra", "likwid"} /\ ~set_back =>
        /\ state_latest.timestamp <= clock
        /\ \A i \in Ids : state_latest.joules[i] >= 0 /\ state_latest.watt[i] >= 0

\* The counters of RAPL never fall behind what was read.
RaplDerived ==
    backend = "rapl" =>
        \A i \in Ids : /\ state_latest.joules[i] \in Multiples \cap Nat
                       /\ state_latest.joules[i] <= energy[i]

\* The energies of the dummy are those of one duration, which may be negative.
DummyDerived ==
    backend = "dummy" =>
        \E t \in Int : \A i \in Ids : state_latest.joules[i] = 2 * Scale * power[i] * t

Derived == OnlyPowerStops /\ Unsigned /\ RaplDerived /\ DummyDerived
IInv    == Typed /\ Derived /\ LatestTotal /\ ReturnedTotal

-----------------------------------------------------------------------------
(* Division. *)

LEMMA DivMultiple ==
    ASSUME NEW a \in Int, NEW b \in Nat \ {0}
    PROVE  (b * a) \div b = a
<1> DEFINE d == b * a
           q == d \div b
<1>1. d \in Int
  OBVIOUS
<1>2. q \in Int /\ b * q <= d /\ d < b * (q + 1)
  <2> HIDE DEF d
  <2> QED BY <1>1
<1>3. ASSUME NEW x \in Int, NEW y \in Int, x < y
      PROVE  b * x < b * y
  BY <1>3
<1> HIDE DEF q
<1>4. ~(q < a) /\ ~(a < q)
  <2>1. ASSUME q + 1 < a PROVE FALSE
    BY <1>2, <1>3, <2>1
  <2>2. ASSUME a < q PROVE FALSE
    BY <1>2, <1>3, <2>2
  <2>3. ASSUME q + 1 = a PROVE FALSE
    BY <1>2, <2>3
  <2> QED BY <1>2, <2>1, <2>2, <2>3
<1> QED BY <1>2, <1>4 DEF q

\* Scale units over t ticks.
Factor(t) == IF t > 0 THEN Scale \div t ELSE -(Scale \div (-t))

LEMMA ScaleDivides ==
    ASSUME NEW t \in 1 .. MaxTime
    PROVE  Scale \div t \in Nat \ {0} /\ Scale = t * (Scale \div t)
<1>1. PICK q \in 1 .. Scale : Scale = t * q
  BY ScaleAssumption
<1>2. q \in Nat \ {0} /\ t \in Nat \ {0}
  BY ScaleAssumption, SizesAssumption
<1>3. Scale \div t = q
  BY <1>1, <1>2, DivMultiple
<1> QED BY <1>1, <1>2, <1>3

LEMMA QuotientExact ==
    ASSUME NEW k \in Int, NEW t \in Int, t # 0, t <= MaxTime, -t <= MaxTime
    PROVE  /\ Quotient(2 * Scale * k, 2 * t) = Factor(t) * k
           /\ Factor(t) \in Int /\ (t > 0 => Factor(t) > 0) /\ (t < 0 => Factor(t) < 0)
<1>1. CASE t > 0
  <2> DEFINE q == Scale \div t
  <2>1. q \in Nat \ {0} /\ Scale = t * q
    BY <1>1, ScaleDivides, SizesAssumption
  <2> HIDE DEF q
  <2>2. 2 * Scale * k = (2 * t) * (q * k)
    BY <2>1
  <2>3. (2 * Scale * k) \div (2 * t) = q * k
    BY <1>1, <2>1, <2>2, DivMultiple
  <2> QED BY <1>1, <2>1, <2>3 DEF Quotient, Factor, q
<1>2. CASE t < 0
  <2> DEFINE q == Scale \div (-t)
  <2>1. q \in Nat \ {0} /\ Scale = (-t) * q
    BY <1>2, ScaleDivides, SizesAssumption
  <2> HIDE DEF q
  <2>2. -(2 * Scale * k) = (2 * (-t)) * ((-q) * k)
    BY <2>1
  <2>3. (-(2 * Scale * k)) \div (2 * (-t)) = (-q) * k
    BY <1>2, <2>1, <2>2, DivMultiple
  <2>4. ~(2 * t > 0) /\ -(2 * t) = 2 * (-t) /\ ~(t > 0)
    BY <1>2
  <2> QED BY <1>2, <2>1, <2>3, <2>4 DEF Quotient, Factor, q
<1> QED BY <1>1, <1>2

-----------------------------------------------------------------------------
(* Totals of vectors. *)

Total(f) == SumFunctionOnSet(f, Ids)

LEMMA IdsFinite == IsFiniteSet(Ids) /\ 0 \notin Ids
  BY SizesAssumption, FS_Interval DEF Ids

LEMMA TotalLinear ==
    ASSUME NEW e, NEW f, NEW h, NEW c \in Int, Combines(Ids, e, f, h, c)
    PROVE  Total(f) \in Int /\ Total(h) \in Int /\ Total(e) = Total(f) + c * Total(h)
<1>1. IsFiniteSet(Ids)
  BY IdsFinite
<1>2. /\ SumFunctionOnSet(f, Ids) \in Int /\ SumFunctionOnSet(h, Ids) \in Int
      /\ SumFunctionOnSet(e, Ids) = SumFunctionOnSet(f, Ids) + c * SumFunctionOnSet(h, Ids)
  BY <1>1, SumLinear
<1> QED BY <1>2 DEF Total

LEMMA TotalPositive ==
    ASSUME NEW f, \A i \in Ids : f[i] \in Nat
    PROVE  Total(f) \in Nat /\ (Total(f) = 0 <=> \A i \in Ids : f[i] = 0)
  BY IdsFinite, SumPositive DEF Total

LEMMA TotalZero ==
    ASSUME NEW f, \A i \in Ids : f[i] = 0
    PROVE  Total(f) = 0
  BY TotalPositive

LEMMA TotalSame ==
    ASSUME NEW e, NEW f, \A i \in Ids : f[i] \in Int /\ e[i] = f[i]
    PROVE  Total(f) \in Int /\ Total(e) = Total(f)
<1>1. Combines(Ids, e, f, f, 0)
  BY DEF Combines
<1>2. Total(f) \in Int /\ Total(e) = Total(f) + 0 * Total(f)
  BY <1>1, TotalLinear
<1> QED BY <1>2

LEMMA TotalNegative ==
    ASSUME NEW f, \A i \in Ids : f[i] \in Int /\ f[i] <= 0
    PROVE  Total(f) \in Int /\ Total(f) <= 0
<1> DEFINE h == [i \in Ids |-> -f[i]]
           z == [i \in Ids |-> 0]
<1>1. Combines(Ids, f, z, h, -1)
  BY DEF Combines
<1>2. \A i \in Ids : h[i] \in Nat
  OBVIOUS
<1>3. Total(h) \in Nat /\ Total(z) = 0
  BY <1>2, TotalPositive, TotalZero
<1>4. Total(f) = Total(z) + (-1) * Total(h)
  BY <1>1, TotalLinear
<1> HIDE DEF h, z
<1> QED BY <1>3, <1>4

LEMMA WithTotalIsSum ==
    ASSUME NEW f \in [Ids -> Int]
    PROVE  /\ WithTotal(f) \in [Entries -> Int]
           /\ WithTotal(f)[0] = Total(WithTotal(f)) /\ WithTotal(f)[0] = Total(f)
           /\ \A i \in Ids : WithTotal(f)[i] = f[i]
<1>1. SumFunction(f) = Total(f)
  BY DEF SumFunction, Total
<1>2. \A i \in Ids : f[i] \in Int /\ WithTotal(f)[i] = f[i]
  BY IdsFinite DEF WithTotal, Entries
<1>3. Total(f) \in Int /\ Total(WithTotal(f)) = Total(f)
  BY <1>2, TotalSame
<1> QED BY <1>1, <1>2, <1>3 DEF WithTotal, Entries

LEMMA ZeroIsSum ==
    /\ Zero \in [Entries -> Int] /\ Zero[0] = Total(Zero) /\ Zero[0] = 0
    /\ \A i \in Ids : Zero[i] = 0
<1>1. Zero \in [Entries -> Int] /\ Zero[0] = 0 /\ \A i \in Ids : Zero[i] = 0
  BY DEF Zero, Entries
<1> QED BY <1>1, TotalZero

-----------------------------------------------------------------------------
(* The body of the loop, by the branches that the entries take. *)

Ticks(latest, state) == state.timestamp - latest.timestamp

LEMMA TotalIsTotal ==
    ASSUME NEW state
    PROVE  TotalIsSum(state) <=> /\ state.joules[0] = Total(state.joules)
                                 /\ state.watt[0] = Total(state.watt)
  BY DEF TotalIsSum, EnergyIsSum, PowerIsSum, Total

LEMMA StateFacts ==
    ASSUME NEW state \in States
    PROVE  /\ state.timestamp \in Int
           /\ \A i \in Entries : state.joules[i] \in Int /\ state.watt[i] \in Int
           /\ 0 \in Entries /\ Ids \subseteq Entries
  BY SizesAssumption DEF States, Times, Entries

\* What remains of the sum includes the sum itself.
LEMMA SumKeeps ==
    ASSUME NEW state \in States, TotalIsSum(state)
    PROVE  PowerIsSum(state) /\ state.joules[0] >= Total(state.joules)
<1>1. state.joules[0] \in Int /\ state.joules[0] = Total(state.joules)
  BY StateFacts, TotalIsTotal
<1> QED BY <1>1 DEF TotalIsSum

LEMMA DeriveFields ==
    ASSUME NEW latest, NEW state
    PROVE  LET derived == Derive(latest, state)
           IN  /\ derived.timestamp = state.timestamp
               /\ derived = [timestamp |-> state.timestamp, joules |-> derived.joules,
                             watt |-> derived.watt]
               /\ DOMAIN derived.joules = Entries /\ DOMAIN derived.watt = Entries
               /\ derived.joules = [i \in Entries |-> derived.joules[i]]
               /\ derived.watt = [i \in Entries |-> derived.watt[i]]
               /\ \A i \in Entries : /\ derived.joules[i] = DeriveEntry(latest, state, i).joules
                                     /\ derived.watt[i] = DeriveEntry(latest, state, i).watt
  BY DEF Derive

LEMMA DerivedTime ==
    ASSUME NEW latest, NEW state
    PROVE  Derive(latest, state).timestamp = state.timestamp
  BY DEF Derive

LEMMA DerivedIsState ==
    ASSUME NEW latest \in States, NEW state \in States,
           \A i \in Entries : /\ Derive(latest, state).joules[i] \in Int
                              /\ Derive(latest, state).watt[i] \in Int
    PROVE  Derive(latest, state) \in States
<1>1. state.timestamp \in Times
  BY DEF States
<1>2. /\ Derive(latest, state).joules \in [Entries -> Int]
      /\ Derive(latest, state).watt \in [Entries -> Int]
  BY DeriveFields
<1> QED BY <1>1, <1>2, DeriveFields DEF States

\* Whatever branches the entries take, a state comes of it.
LEMMA DerivedType ==
    ASSUME NEW latest \in States, NEW state \in States,
           state.timestamp # latest.timestamp
    PROVE  Derive(latest, state) \in States
<1> DEFINE t == Ticks(latest, state)
<1>1. t \in Int /\ t # 0
  BY StateFacts DEF Ticks
<1>2. ASSUME NEW x \in Int PROVE Quotient(x, 2 * t) \in Int
  <2> HIDE DEF t
  <2>1. CASE t > 0
    BY <1>1, <2>1 DEF Quotient
  <2>2. CASE t < 0
    <3>1. 2 * (-t) > 0 /\ -x \in Int /\ -(2 * t) = 2 * (-t) /\ ~(2 * t > 0)
      BY <1>1, <2>2
    <3>2. (-x) \div (2 * (-t)) \in Int
      BY <1>1, <3>1
    <3> QED BY <3>1, <3>2 DEF Quotient
  <2> QED BY <1>1, <2>1, <2>2
<1>3. ASSUME NEW i \in Entries
      PROVE  Derive(latest, state).joules[i] \in Int /\ Derive(latest, state).watt[i] \in Int
  <2>1. /\ latest.joules[i] \in Int /\ latest.watt[i] \in Int
        /\ state.joules[i] \in Int /\ state.watt[i] \in Int
    BY StateFacts
  <2>2. (latest.watt[i] + state.watt[i]) * t \in Int
    <3> HIDE DEF t
    <3> QED BY <1>1, <2>1
  <2>3. Quotient(state.joules[i] - latest.joules[i], 2 * t) \in Int
    BY <1>2, <2>1
  <2>4. DeriveEntry(latest, state, i).joules \in Int /\ DeriveEntry(latest, state, i).watt \in Int
    <3>1. CASE state.watt[i] > 0
      <4>1. DeriveEntry(latest, state, i) =
               [joules |-> latest.joules[i] + (latest.watt[i] + state.watt[i]) * t,
                watt |-> state.watt[i]]
        BY <3>1 DEF DeriveEntry, Ticks
      <4> HIDE DEF t
      <4> QED BY <2>1, <2>2, <4>1
    <3>2. CASE ~(state.watt[i] > 0) /\ state.joules[i] > 0
      <4>1. DeriveEntry(latest, state, i) =
               [joules |-> state.joules[i],
                watt |-> Quotient(state.joules[i] - latest.joules[i], 2 * t)]
        BY <3>2 DEF DeriveEntry, Ticks
      <4> HIDE DEF t
      <4> QED BY <2>1, <2>3, <4>1
    <3>3. CASE ~(state.watt[i] > 0) /\ ~(state.joules[i] > 0)
      <4>1. DeriveEntry(latest, state, i) = [joules |-> state.joules[i], watt |-> state.watt[i]]
        BY <3>3 DEF DeriveEntry
      <4> QED BY <2>1, <4>1
    <3> QED BY <3>1, <3>2, <3>3
  <2>5. /\ Derive(latest, state).joules[i] = DeriveEntry(latest, state, i).joules
        /\ Derive(latest, state).watt[i] = DeriveEntry(latest, state, i).watt
    BY DEF Derive
  <2> QED BY <2>4, <2>5, Zenon
<1> QED BY <1>3, DerivedIsState

\* A backend that reports power alone: the powers are those of the sample, and an entry
\* holds what the mean power adds to the one before, or nothing.
LEMMA DerivedKeeps ==
    ASSUME NEW latest \in States, NEW state \in States, PowerIsSum(latest), TotalIsSum(state),
           \A i \in Ids : state.joules[i] = 0
    PROVE  LET derived == Derive(latest, state)
           IN  /\ PowerIsSum(derived)
               /\ \A i \in Ids : derived.watt[i] = state.watt[i]
               /\ /\ Ticks(latest, state) >= 0 /\ latest.joules[0] >= Total(latest.joules)
                  /\ \A i \in Ids : /\ state.watt[i] >= 0
                                    /\ latest.joules[i] >= 0 /\ latest.watt[i] >= 0
                  => /\ derived.joules[0] >= Total(derived.joules)
                     /\ \A i \in Ids : derived.joules[i] >= 0
<1> DEFINE derived == Derive(latest, state)
           t == Ticks(latest, state)
           both == [i \in Ids |-> latest.watt[i] + state.watt[i]]
           all == [i \in Ids |-> latest.joules[i] + t * both[i]]
           lost == [i \in Ids |-> all[i] - derived.joules[i]]
<1>1. t \in Int /\ \A i \in Entries : /\ state.joules[i] \in Int /\ state.watt[i] \in Int
                                      /\ latest.joules[i] \in Int /\ latest.watt[i] \in Int
  BY StateFacts DEF Ticks
<1>2. Ids \subseteq Entries /\ 0 \in Entries
  BY DEF Entries
<1>3. /\ state.joules[0] = 0 /\ state.watt[0] = Total(state.watt)
      /\ latest.watt[0] = Total(latest.watt)
  <2>1. Total(state.joules) = 0
    BY TotalZero
  <2> QED BY <2>1, TotalIsTotal DEF PowerIsSum, Total
<1>4. ASSUME NEW i \in Entries
      PROVE  /\ derived.watt[i] = state.watt[i]
             /\ state.watt[i] > 0 =>
                   derived.joules[i] = latest.joules[i] + t * (latest.watt[i] + state.watt[i])
             /\ ~(state.watt[i] > 0) => derived.joules[i] = 0
  <2>1. state.joules[i] = 0
    BY <1>3 DEF Entries
  <2>2. /\ derived.joules[i] = DeriveEntry(latest, state, i).joules
        /\ derived.watt[i] = DeriveEntry(latest, state, i).watt
    BY DeriveFields
  <2>3. CASE state.watt[i] > 0
    <3>1. DeriveEntry(latest, state, i) =
             [joules |-> latest.joules[i] + (latest.watt[i] + state.watt[i]) * t, watt |-> state.watt[i]]
      BY <2>3 DEF DeriveEntry, Ticks
    <3>2. ASSUME NEW a \in Int, NEW b \in Int PROVE a * b = b * a
      OBVIOUS
    <3> HIDE DEF derived, t
    <3>3. latest.watt[i] + state.watt[i] \in Int
      BY <1>1
    <3> QED BY <1>1, <2>2, <2>3, <3>1, <3>2, <3>3
  <2>4. CASE ~(state.watt[i] > 0)
    <3>1. DeriveEntry(latest, state, i) = [joules |-> 0, watt |-> state.watt[i]]
      BY <2>1, <2>4 DEF DeriveEntry
    <3> HIDE DEF derived, t
    <3> QED BY <2>2, <2>4, <3>1
  <2> QED BY <2>3, <2>4
<1> HIDE DEF derived, t
<1>5. PowerIsSum(derived)
  <2>1. Total(derived.watt) = Total(state.watt)
    BY <1>1, <1>2, <1>4, TotalSame
  <2>2. derived.watt[0] = state.watt[0]
    BY <1>2, <1>4
  <2> QED BY <1>3, <2>1, <2>2 DEF PowerIsSum, Total
<1>6. ASSUME t >= 0, latest.joules[0] >= Total(latest.joules),
             \A i \in Ids : state.watt[i] >= 0 /\ latest.joules[i] >= 0 /\ latest.watt[i] >= 0
      PROVE  derived.joules[0] >= Total(derived.joules) /\ \A i \in Ids : derived.joules[i] >= 0
  <2>1. ASSUME NEW i \in Ids
        PROVE  /\ both[i] \in Nat /\ t * both[i] \in Nat /\ all[i] \in Nat
               /\ derived.joules[i] \in Nat /\ lost[i] \in Nat
    <3>1. both[i] \in Nat /\ t \in Nat /\ latest.joules[i] \in Nat
      BY <1>1, <1>2, <1>6
    <3>2. t * both[i] \in Nat
      <4> HIDE DEF both
      <4> QED BY <3>1
    <3>3. all[i] \in Nat /\ all[i] = latest.joules[i] + t * both[i]
      <4> HIDE DEF both
      <4> QED BY <3>1, <3>2
    <3>4. derived.joules[i] = all[i] \/ derived.joules[i] = 0
      BY <1>2, <1>4
    <3> HIDE DEF both, all
    <3>5. lost[i] = all[i] - derived.joules[i]
      OBVIOUS
    <3> QED BY <3>1, <3>2, <3>3, <3>4, <3>5
  <2>2. Combines(Ids, all, latest.joules, both, t)
    <3>1. \A i \in Ids : all[i] = latest.joules[i] + t * both[i] /\ latest.joules[i] \in Int
      BY <1>1, <1>2
    <3> HIDE DEF all, both
    <3> QED BY <2>1, <3>1 DEF Combines
  <2>3. Combines(Ids, both, latest.watt, state.watt, 1)
    BY <1>1, <1>2 DEF Combines
  <2>4. Combines(Ids, all, derived.joules, lost, 1)
    <3>1. \A i \in Ids : lost[i] = all[i] - derived.joules[i]
      OBVIOUS
    <3> HIDE DEF all, both, lost
    <3> QED BY <2>1, <3>1 DEF Combines
  <2>5. /\ Total(all) = Total(latest.joules) + t * Total(both)
        /\ Total(latest.joules) \in Int /\ Total(both) \in Int
    BY <1>1, <2>2, TotalLinear
  <2>6. /\ Total(both) = Total(latest.watt) + 1 * Total(state.watt)
        /\ Total(latest.watt) \in Int /\ Total(state.watt) \in Int
    BY <2>3, TotalLinear
  <2>7. /\ Total(all) = Total(derived.joules) + 1 * Total(lost)
        /\ Total(derived.joules) \in Int /\ Total(lost) \in Int
    BY <2>4, TotalLinear
  <2>8. Total(lost) \in Nat
    BY <2>1, TotalPositive
  <2>9. CASE state.watt[0] > 0
    <3>1. derived.joules[0] = latest.joules[0] + t * (latest.watt[0] + state.watt[0])
      BY <1>2, <1>4, <2>9
    <3>2. latest.watt[0] + state.watt[0] = Total(both)
      BY <1>3, <2>6
    <3>3. t * Total(both) \in Int
      BY <1>1, <2>5
    <3> HIDE DEF both, all, lost
    <3>4. derived.joules[0] = latest.joules[0] + t * Total(both) /\ latest.joules[0] \in Int
      BY <1>1, <1>2, <3>1, <3>2
    <3> QED BY <1>6, <2>1, <2>5, <2>7, <2>8, <3>3, <3>4
  <2>10. CASE ~(state.watt[0] > 0)
    <3>1. \A i \in Ids : state.watt[i] \in Nat
      BY <1>1, <1>2, <1>6
    <3>2. Total(state.watt) \in Nat /\ (Total(state.watt) = 0 => \A i \in Ids : state.watt[i] = 0)
      BY <3>1, TotalPositive
    <3>3. \A i \in Ids : derived.joules[i] = 0
      BY <1>2, <1>3, <1>4, <2>10, <3>2
    <3>4. derived.joules[0] = 0 /\ Total(derived.joules) = 0
      BY <1>2, <1>4, <2>10, <3>3, TotalZero
    <3> QED BY <3>3, <3>4
  <2> QED BY <2>9, <2>10
<1>7. \A i \in Ids : derived.watt[i] = state.watt[i]
  BY <1>2, <1>4
<1> QED BY <1>5, <1>6, <1>7 DEF derived, t

\* Every sensor that draws anything takes the first branch, and the others have nothing to
\* take any other one for.
LEMMA DerivedFromPower ==
    ASSUME NEW latest \in States, NEW state \in States, TotalIsSum(latest), TotalIsSum(state),
           \A i \in Ids : /\ state.watt[i] >= 0
                          /\ state.watt[i] = 0 => /\ state.joules[i] = 0 /\ latest.joules[i] = 0
                                                  /\ latest.watt[i] = 0
    PROVE  LET derived == Derive(latest, state)
           IN  derived \in States /\ TotalIsSum(derived)
<1> DEFINE derived == Derive(latest, state)
           t == Ticks(latest, state)
           both == [i \in Ids |-> latest.watt[i] + state.watt[i]]
<1>1. t \in Int /\ \A i \in Entries : /\ state.joules[i] \in Int /\ state.watt[i] \in Int
                                      /\ latest.joules[i] \in Int /\ latest.watt[i] \in Int
  BY StateFacts DEF Ticks
<1>2. Ids \subseteq Entries /\ 0 \in Entries
  BY DEF Entries
<1>3. ASSUME NEW i \in Entries,
             \/ state.watt[i] > 0
             \/ state.watt[i] = 0 /\ state.joules[i] = 0 /\ latest.joules[i] = 0 /\ latest.watt[i] = 0
      PROVE  /\ derived.joules[i] = latest.joules[i] + t * (latest.watt[i] + state.watt[i])
             /\ derived.watt[i] = state.watt[i]
             /\ derived.joules[i] \in Int /\ derived.watt[i] \in Int
  <2>1. /\ derived.joules[i] = DeriveEntry(latest, state, i).joules
        /\ derived.watt[i] = DeriveEntry(latest, state, i).watt
    BY DeriveFields
  <2>2. CASE state.watt[i] > 0
    <3>1. DeriveEntry(latest, state, i) =
             [joules |-> latest.joules[i] + (latest.watt[i] + state.watt[i]) * t, watt |-> state.watt[i]]
      BY <2>2 DEF DeriveEntry, Ticks
    <3>2. ASSUME NEW a \in Int, NEW b \in Int PROVE a * b = b * a /\ a * b \in Int
      OBVIOUS
    <3> HIDE DEF derived, t
    <3>3. latest.watt[i] + state.watt[i] \in Int
      BY <1>1
    <3> QED BY <1>1, <2>1, <3>1, <3>2, <3>3
  <2>3. CASE ~(state.watt[i] > 0)
    <3>1. state.watt[i] = 0 /\ state.joules[i] = 0 /\ latest.joules[i] = 0 /\ latest.watt[i] = 0
      BY <1>3, <2>3
    <3>2. DeriveEntry(latest, state, i) = [joules |-> 0, watt |-> 0]
      BY <3>1 DEF DeriveEntry
    <3> HIDE DEF derived, t
    <3> QED BY <1>1, <2>1, <3>1, <3>2
  <2> QED BY <2>2, <2>3
<1>4. \A i \in Ids : /\ derived.joules[i] = latest.joules[i] + t * both[i] /\ both[i] \in Int
                     /\ derived.watt[i] = state.watt[i]
                     /\ derived.joules[i] \in Int /\ derived.watt[i] \in Int
  BY <1>1, <1>2, <1>3
<1>5. /\ Total(derived.joules) = Total(latest.joules) + t * Total(both)
      /\ Total(both) = Total(latest.watt) + Total(state.watt)
      /\ Total(derived.watt) = Total(state.watt)
      /\ Total(latest.joules) \in Int /\ Total(latest.watt) \in Int
  <2> HIDE DEF derived, t
  <2>1. Total(derived.joules) = Total(latest.joules) + t * Total(both) /\ Total(latest.joules) \in Int
    <3>1. Combines(Ids, derived.joules, latest.joules, both, t)
      BY <1>1, <1>2, <1>4 DEF Combines
    <3> QED BY <1>1, <3>1, TotalLinear
  <2>2. Combines(Ids, both, latest.watt, state.watt, 1)
    BY <1>1, <1>2 DEF Combines
  <2>3. /\ Total(both) = Total(latest.watt) + 1 * Total(state.watt)
        /\ Total(latest.watt) \in Int /\ Total(state.watt) \in Int
    BY <2>2, TotalLinear
  <2>4. Total(derived.watt) = Total(state.watt)
    BY <1>1, <1>2, <1>4, TotalSame
  <2> QED BY <2>1, <2>3, <2>4
<1>6. /\ latest.joules[0] = Total(latest.joules) /\ latest.watt[0] = Total(latest.watt)
      /\ state.joules[0] = Total(state.joules) /\ state.watt[0] = Total(state.watt)
  BY TotalIsTotal
<1>7. /\ state.watt[0] \in Nat
      /\ state.watt[0] = 0 => state.joules[0] = 0 /\ latest.joules[0] = 0 /\ latest.watt[0] = 0
  <2>1. \A i \in Ids : state.watt[i] \in Nat
    BY <1>1, <1>2
  <2>2. state.watt[0] \in Nat /\ (state.watt[0] = 0 => \A i \in Ids : state.watt[i] = 0)
    BY <1>6, <2>1, TotalPositive
  <2>3. ASSUME state.watt[0] = 0
        PROVE  Total(state.joules) = 0 /\ Total(latest.joules) = 0 /\ Total(latest.watt) = 0
    BY <2>2, <2>3, TotalZero
  <2> QED BY <1>6, <2>2, <2>3
<1>8. /\ derived.joules[0] = latest.joules[0] + t * (latest.watt[0] + state.watt[0])
      /\ derived.watt[0] = state.watt[0]
      /\ derived.joules[0] \in Int /\ derived.watt[0] \in Int
  BY <1>2, <1>3, <1>7
<1>9. derived.joules[0] = Total(derived.joules) /\ derived.watt[0] = Total(derived.watt)
  <2> HIDE DEF derived, t, both
  <2> QED BY <1>5, <1>6, <1>8
<1>10. \A i \in Entries : derived.joules[i] \in Int /\ derived.watt[i] \in Int
  BY <1>4, <1>8 DEF Entries
<1> QED BY <1>9, <1>10, DerivedIsState, TotalIsTotal

\* No entry takes one of the branches that derive anything.
LEMMA DerivedFromNothing ==
    ASSUME NEW latest \in States, NEW state \in States, TotalIsSum(state),
           \A i \in Ids : state.watt[i] <= 0 /\ state.joules[i] <= 0
    PROVE  LET derived == Derive(latest, state)
           IN  /\ derived \in States /\ TotalIsSum(derived)
               /\ derived.joules = state.joules /\ derived.watt = state.watt
<1> DEFINE derived == Derive(latest, state)
<1>1. \A i \in Entries : state.joules[i] \in Int /\ state.watt[i] \in Int
  BY StateFacts
<1>2. \A i \in Entries : state.watt[i] <= 0 /\ state.joules[i] <= 0
  <2>1. Total(state.joules) <= 0 /\ Total(state.watt) <= 0
    <3>1. \A i \in Ids : /\ state.joules[i] \in Int /\ state.joules[i] <= 0
                         /\ state.watt[i] \in Int /\ state.watt[i] <= 0
      BY <1>1 DEF Entries
    <3> QED BY <3>1, TotalNegative
  <2> QED BY <2>1, TotalIsTotal DEF Entries
<1>3. \A i \in Entries : derived.joules[i] = state.joules[i] /\ derived.watt[i] = state.watt[i]
  <2> TAKE i \in Entries
  <2>1. ~(state.watt[i] > 0) /\ ~(state.joules[i] > 0)
    BY <1>1, <1>2
  <2>2. DeriveEntry(latest, state, i) = [joules |-> state.joules[i], watt |-> state.watt[i]]
    BY <2>1 DEF DeriveEntry
  <2> HIDE DEF derived
  <2>3. /\ derived.joules[i] = DeriveEntry(latest, state, i).joules
        /\ derived.watt[i] = DeriveEntry(latest, state, i).watt
    BY DeriveFields DEF derived
  <2> QED BY <2>2, <2>3
<1>4. /\ state.joules = [i \in Entries |-> state.joules[i]]
      /\ state.watt = [i \in Entries |-> state.watt[i]]
  BY DEF States
<1>5. derived.joules = state.joules /\ derived.watt = state.watt
  BY <1>3, <1>4, DeriveFields
<1>6. derived \in States
  BY <1>1, <1>3, DerivedIsState
<1> QED BY <1>5, <1>6, TotalIsTotal

\* Every sensor takes the second branch, or has no energy to take the third one with.
\* K is the energy since latest, in units that every duration divides.
LEMMA DerivedFromEnergy ==
    ASSUME NEW latest \in States, NEW state \in States, TotalIsSum(latest), TotalIsSum(state),
           NEW t \in Int, t = Ticks(latest, state), t # 0, t <= MaxTime, -t <= MaxTime,
           NEW K \in [Ids -> Int], Combines(Ids, state.joules, latest.joules, K, 2 * Scale),
           \A i \in Ids : /\ state.watt[i] = 0 /\ state.joules[i] >= 0
                          /\ state.joules[i] = 0 => latest.joules[i] = 0
    PROVE  LET derived == Derive(latest, state)
           IN  /\ derived \in States /\ TotalIsSum(derived)
               /\ derived.joules = state.joules
<1> DEFINE derived == Derive(latest, state)
           q == Factor(t)
           unit == 2 * Scale
           none == [i \in Ids |-> 0]
<1>1. unit \in Nat \ {0} /\ q \in Int
  BY ScaleAssumption, QuotientExact
<1>2. \A i \in Entries : /\ state.joules[i] \in Int /\ state.watt[i] \in Int
                         /\ latest.joules[i] \in Int
  BY StateFacts
<1>3. Ids \subseteq Entries /\ 0 \in Entries
  BY DEF Entries
<1>4. \A k \in Int : Quotient(unit * k, 2 * t) = q * k
  BY QuotientExact
<1> HIDE DEF q, unit, derived
<1>5. ASSUME NEW i \in Entries, NEW k \in Int, state.watt[i] = 0, state.joules[i] >= 0,
             state.joules[i] = 0 => latest.joules[i] = 0,
             state.joules[i] = latest.joules[i] + unit * k
      PROVE  derived.joules[i] = state.joules[i] /\ derived.watt[i] = q * k /\ q * k \in Int
  <2>1. /\ derived.joules[i] = DeriveEntry(latest, state, i).joules
        /\ derived.watt[i] = DeriveEntry(latest, state, i).watt
    BY DeriveFields DEF derived
  <2>2. q * k \in Int /\ unit * k \in Int
    BY <1>1
  <2>3. CASE state.joules[i] > 0
    <3>1. state.joules[i] - latest.joules[i] = unit * k
      BY <1>2, <1>5, <2>2
    <3>2. DeriveEntry(latest, state, i) = [joules |-> state.joules[i], watt |-> Quotient(unit * k, 2 * t)]
      BY <1>5, <2>3, <3>1 DEF DeriveEntry, Ticks
    <3> QED BY <1>4, <2>1, <2>2, <3>2
  <2>4. CASE state.joules[i] = 0
    <3>1. unit * k = 0
      BY <1>2, <1>5, <2>2, <2>4
    <3>2. k = 0
      BY <1>1, <3>1
    <3>3. DeriveEntry(latest, state, i) = [joules |-> 0, watt |-> 0]
      BY <1>5, <2>4 DEF DeriveEntry
    <3> QED BY <1>1, <2>1, <2>4, <3>2, <3>3
  <2> QED BY <1>2, <1>5, <2>3, <2>4
<1>6. \A i \in Ids : /\ state.watt[i] = 0 /\ state.joules[i] >= 0
                     /\ state.joules[i] = 0 => latest.joules[i] = 0
                     /\ state.joules[i] = latest.joules[i] + unit * K[i] /\ K[i] \in Int
  BY DEF unit, Combines
<1>7. \A i \in Ids : /\ derived.joules[i] = state.joules[i]
                     /\ derived.watt[i] = q * K[i] /\ q * K[i] \in Int
  BY <1>3, <1>5, <1>6
<1>8. /\ latest.joules[0] = Total(latest.joules)
      /\ state.joules[0] = Total(state.joules) /\ state.watt[0] = Total(state.watt)
  BY TotalIsTotal
<1>9. Total(K) \in Int /\ Total(state.joules) = Total(latest.joules) + unit * Total(K)
  <2>1. Combines(Ids, state.joules, latest.joules, K, unit)
    BY DEF unit
  <2> QED BY <1>1, <2>1, TotalLinear
<1>10. Total(derived.watt) = q * Total(K)
  <2>1. Combines(Ids, derived.watt, none, K, q)
    BY <1>7, <1>6 DEF Combines
  <2>2. Total(none) = 0
    BY TotalZero
  <2>3. Total(derived.watt) = Total(none) + q * Total(K)
    BY <1>1, <2>1, TotalLinear
  <2> HIDE DEF none
  <2> QED BY <1>1, <1>9, <2>2, <2>3
<1>11. /\ state.watt[0] = 0 /\ state.joules[0] >= 0
       /\ state.joules[0] = 0 => latest.joules[0] = 0
  <2>1. \A i \in Ids : state.joules[i] \in Nat
    BY <1>2, <1>3, <1>6
  <2>2. Total(state.joules) \in Nat /\ (Total(state.joules) = 0 => \A i \in Ids : state.joules[i] = 0)
    BY <2>1, TotalPositive
  <2>3. Total(state.watt) = 0
    BY <1>6, TotalZero
  <2>4. Total(state.joules) = 0 => Total(latest.joules) = 0
    BY <1>6, <2>2, TotalZero
  <2> QED BY <1>8, <2>2, <2>3, <2>4
<1>12. /\ derived.joules[0] = state.joules[0] /\ derived.watt[0] = q * Total(K)
       /\ q * Total(K) \in Int
  BY <1>3, <1>5, <1>8, <1>9, <1>11
<1>13. \A i \in Entries : derived.joules[i] = state.joules[i] /\ derived.watt[i] \in Int
  BY <1>7, <1>12 DEF Entries
<1>14. derived.joules = state.joules
  <2>1. state.joules = [i \in Entries |-> state.joules[i]]
    BY DEF States
  <2>2. derived.joules = [i \in Entries |-> derived.joules[i]]
    BY DeriveFields DEF derived
  <2> QED BY <1>13, <2>1, <2>2
<1>15. derived \in States
  BY <1>2, <1>13, DerivedIsState DEF derived
<1>16. TotalIsSum(derived)
  BY <1>8, <1>10, <1>12, <1>14, TotalIsTotal
<1> QED BY <1>14, <1>15, <1>16 DEF derived

-----------------------------------------------------------------------------
(* What GetState() reports. *)

LEMMA MultipleFacts ==
    /\ 2 * Scale \in Nat \ {0} /\ Multiples \subseteq Int /\ 0 \in Multiples
    /\ \A k \in Int : 2 * Scale * k \in Multiples
    /\ \A m \in Multiples : \E k \in Int : m = 2 * Scale * k
    /\ \A m \in Multiples, n \in Multiples : m + n \in Multiples /\ m - n \in Multiples
<1> DEFINE unit == 2 * Scale
<1>1. unit \in Nat \ {0}
  BY ScaleAssumption
<1>2. \A k \in Int : unit * k \in Int
  BY <1>1
<1>3. ASSUME NEW k \in Int, NEW l \in Int
      PROVE  unit * k + unit * l = unit * (k + l) /\ unit * k - unit * l = unit * (k - l)
             /\ k + l \in Int /\ k - l \in Int
  BY <1>1
<1>4. unit * 0 = 0
  BY <1>1
<1>5. Multiples = {unit * k : k \in Int}
  BY DEF Multiples
<1> HIDE DEF unit
<1>6. ASSUME NEW m \in Multiples, NEW n \in Multiples
      PROVE  m + n \in Multiples /\ m - n \in Multiples
  <2>1. PICK k \in Int : m = unit * k
    BY <1>5
  <2>2. PICK l \in Int : n = unit * l
    BY <1>5
  <2>3. k + l \in Int /\ k - l \in Int /\ m + n = unit * (k + l) /\ m - n = unit * (k - l)
    BY <1>3, <2>1, <2>2
  <2> HIDE <2>1, <2>2
  <2> QED BY <1>5, <2>3
<1>7. 0 \in Multiples
  BY <1>4, <1>5
<1>8. Multiples \subseteq Int /\ (\A k \in Int : unit * k \in Multiples)
      /\ \A m \in Multiples : \E k \in Int : m = unit * k
  BY <1>2, <1>5
<1> QED BY <1>1, <1>6, <1>7, <1>8 DEF unit

\* Report is what a backend makes of two vectors of the sensors.
LEMMA ReportIsState ==
    ASSUME Typed, NEW j, NEW w,
           j \in [Entries -> Int] /\ j[0] = Total(j), w \in [Entries -> Int] /\ w[0] = Total(w)
    PROVE  LET state == [timestamp |-> clock, joules |-> j, watt |-> w]
           IN  state \in States /\ TotalIsSum(state)
<1> DEFINE state == [timestamp |-> clock, joules |-> j, watt |-> w]
<1>1. clock \in Times
  BY SizesAssumption DEF Typed, Times
<1>2. state \in States
  BY <1>1 DEF States
<1> QED BY <1>2, TotalIsTotal

LEMMA PowerReport ==
    ASSUME Typed, backend \in {"tegra", "powersensor3"}
    PROVE  /\ GetState \in States /\ TotalIsSum(GetState) /\ GetState.timestamp = clock
           /\ \A i \in Ids : /\ GetState.watt[i] >= 0
                             /\ backend = "tegra" => GetState.joules[i] = 0
<1> DEFINE watts == [i \in Ids |-> Scale * power[i]]
<1>1. \A i \in Ids : Scale * power[i] \in Nat
  <2> TAKE i \in Ids
  <2>1. power[i] \in Nat
    BY DEF Typed
  <2> QED BY <2>1, ScaleAssumption
<1>2. watts \in [Ids -> Int]
  BY <1>1
<1>3. energy \in [Ids -> Int]
  BY MultipleFacts DEF Typed
<1>4. /\ WithTotal(watts) \in [Entries -> Int] /\ WithTotal(watts)[0] = Total(WithTotal(watts))
      /\ \A i \in Ids : WithTotal(watts)[i] = Scale * power[i]
  BY <1>2, WithTotalIsSum
<1>5. CASE backend = "tegra"
  <2>1. GetState = [timestamp |-> clock, joules |-> Zero, watt |-> WithTotal(watts)]
    BY <1>5 DEF GetState, TegraState
  <2> HIDE DEF watts
  <2>2. GetState \in States /\ TotalIsSum(GetState)
    BY <1>4, <2>1, ReportIsState, ZeroIsSum
  <2> QED BY <1>1, <1>4, <2>1, <2>2, ZeroIsSum
<1>6. CASE backend = "powersensor3"
  <2>1. GetState = [timestamp |-> clock, joules |-> WithTotal(energy), watt |-> WithTotal(watts)]
    BY <1>6 DEF GetState, PowerSensor3State
  <2> HIDE DEF watts
  <2>2. GetState \in States /\ TotalIsSum(GetState)
    BY <1>3, <1>4, <2>1, ReportIsState, WithTotalIsSum
  <2> QED BY <1>1, <1>4, <1>6, <2>1, <2>2
<1> QED BY <1>5, <1>6

LEMMA RaplReport ==
    ASSUME Typed, backend = "rapl"
    PROVE  /\ GetState \in States /\ TotalIsSum(GetState) /\ GetState.timestamp = clock
           /\ \A i \in Ids : GetState.joules[i] = energy[i] /\ GetState.watt[i] = 0
<1>1. energy \in [Ids -> Int]
  BY MultipleFacts DEF Typed
<1>2. GetState = [timestamp |-> clock, joules |-> WithTotal(energy), watt |-> Zero]
  BY DEF GetState, RaplState
<1>3. GetState \in States /\ TotalIsSum(GetState)
  BY <1>1, <1>2, ReportIsState, WithTotalIsSum, ZeroIsSum
<1> QED BY <1>1, <1>2, <1>3, WithTotalIsSum, ZeroIsSum

LEMMA DummyReport ==
    ASSUME Typed, backend = "dummy"
    PROVE  /\ GetState \in States /\ TotalIsSum(GetState) /\ GetState.timestamp = clock
           /\ \A i \in Ids : /\ GetState.watt[i] = 0
                             /\ GetState.joules[i] =
                                   IF state_latest.timestamp = 0 THEN 0
                                   ELSE state_latest.joules[i]
                                        + 2 * Scale * power[i] * (clock - state_latest.timestamp)
<1> DEFINE ticks == clock - state_latest.timestamp
           joules == [i \in Ids |-> state_latest.joules[i] + 2 * Scale * power[i] * ticks]
<1>1. ticks \in Int
  BY StateFacts DEF Typed
<1>2. joules \in [Ids -> Int]
  <2>1. ASSUME NEW i \in Ids PROVE joules[i] \in Int
    <3>1. power[i] \in Int /\ state_latest.joules[i] \in Int /\ Scale \in Int
      BY StateFacts, ScaleAssumption DEF Typed
    <3>2. 2 * Scale * power[i] * ticks \in Int
      BY <1>1, <3>1
    <3> QED BY <3>1, <3>2
  <2> QED BY <2>1
<1>3. GetState = [timestamp |-> clock, watt |-> Zero,
                  joules |-> IF state_latest.timestamp = 0 THEN Zero ELSE WithTotal(joules)]
  BY DEF GetState, DummyState
<1>4. \A i \in Ids : joules[i] = state_latest.joules[i]
                                 + 2 * Scale * power[i] * (clock - state_latest.timestamp)
  OBVIOUS
<1> HIDE DEF joules
<1>5. CASE state_latest.timestamp = 0
  <2>1. GetState = [timestamp |-> clock, joules |-> Zero, watt |-> Zero]
    BY <1>3, <1>5
  <2>2. GetState \in States /\ TotalIsSum(GetState)
    BY <2>1, ReportIsState, ZeroIsSum
  <2> QED BY <1>5, <2>1, <2>2, ZeroIsSum
<1>6. CASE state_latest.timestamp # 0
  <2>1. GetState = [timestamp |-> clock, joules |-> WithTotal(joules), watt |-> Zero]
    BY <1>3, <1>6
  <2>2. GetState \in States /\ TotalIsSum(GetState)
    BY <1>2, <2>1, ReportIsState, ZeroIsSum, WithTotalIsSum
  <2> QED BY <1>2, <1>4, <1>6, <2>1, <2>2, ZeroIsSum, WithTotalIsSum
<1> QED BY <1>5, <1>6

LEMMA LikwidReport ==
    ASSUME Typed, backend = "likwid", clock # state_latest.timestamp
    PROVE  /\ GetState \in States /\ TotalIsSum(GetState) /\ GetState.timestamp = clock
           /\ \A i \in Ids :
                 /\ GetState.joules[i] = 0
                 /\ clock > state_latest.timestamp => GetState.watt[i] >= 0
                 /\ clock < state_latest.timestamp => GetState.watt[i] <= 0
<1> DEFINE ticks == clock - state_latest.timestamp
           watts == [i \in Ids |-> Quotient(group[i], 2 * ticks)]
<1>1. ticks \in Int /\ ticks # 0 /\ ticks <= MaxTime /\ -ticks <= MaxTime
      /\ (ticks > 0 <=> clock > state_latest.timestamp) /\ (ticks < 0 <=> clock < state_latest.timestamp)
  BY SizesAssumption DEF Typed, States, Times
<1>2. /\ Factor(ticks) \in Int
      /\ ticks > 0 => Factor(ticks) > 0
      /\ ticks < 0 => Factor(ticks) < 0
      /\ \A k \in Int : Quotient(2 * Scale * k, 2 * ticks) = Factor(ticks) * k
  <2> HIDE DEF ticks
  <2> QED BY <1>1, QuotientExact
<1>3. GetState = [timestamp |-> clock, joules |-> Zero, watt |-> WithTotal(watts)]
  BY DEF GetState, LikwidState
<1>4. \A i \in Ids : watts[i] = Quotient(group[i], 2 * ticks)
  OBVIOUS
<1> HIDE DEF ticks
<1>5. ASSUME NEW i \in Ids
      PROVE  /\ watts[i] \in Int
             /\ ticks > 0 => watts[i] >= 0
             /\ ticks < 0 => watts[i] <= 0
  <2>1. PICK k \in Int : group[i] = 2 * Scale * k
    BY MultipleFacts DEF Typed
  <2>2. k \in Nat
    <3>1. group[i] \in Nat
      BY DEF Typed
    <3> QED BY <2>1, <3>1, ScaleAssumption
  <2>3. watts[i] = Factor(ticks) * k
    BY <1>2, <1>4, <2>1
  <2>4. ASSUME NEW q \in Int, q > 0 PROVE q * k \in Int /\ q * k >= 0
    BY <2>2, <2>4
  <2>5. ASSUME NEW q \in Int, q < 0 PROVE q * k \in Int /\ q * k <= 0
    BY <2>2, <2>5
  <2>6. CASE ticks > 0
    <3>1. Factor(ticks) * k \in Int /\ Factor(ticks) * k >= 0
      BY <1>2, <2>4, <2>6
    <3> QED BY <1>1, <2>2, <2>3, <2>6, <3>1
  <2>7. CASE ticks < 0
    <3>1. Factor(ticks) * k \in Int /\ Factor(ticks) * k <= 0
      BY <1>2, <2>5, <2>7
    <3> QED BY <1>1, <2>2, <2>3, <2>7, <3>1
  <2> QED BY <1>1, <2>6, <2>7
<1>6. watts \in [Ids -> Int]
  BY <1>5
<1> HIDE DEF watts
<1>7. GetState \in States /\ TotalIsSum(GetState)
  BY <1>3, <1>6, ReportIsState, ZeroIsSum, WithTotalIsSum
<1>8. \A i \in Ids : GetState.watt[i] = watts[i] /\ GetState.joules[i] = 0
  BY <1>3, <1>6, ZeroIsSum, WithTotalIsSum
<1> QED BY <1>1, <1>3, <1>5, <1>7, <1>8

-----------------------------------------------------------------------------
(* The steps. *)

LEMMA TypedInit == Init => IInv
<1> SUFFICES ASSUME Init PROVE IInv
  OBVIOUS
<1>1. DefaultState \in States /\ TotalIsSum(DefaultState)
  <2>1. 0 \in Times
    BY SizesAssumption DEF Times
  <2> QED BY <2>1, ZeroIsSum, TotalIsTotal DEF DefaultState, States
<1>2. \A i \in Ids : energy[i] = 0 /\ group[i] = 0 /\ state_latest.joules[i] = 0
                     /\ state_latest.watt[i] = 0
  BY ZeroIsSum DEF Init, DefaultState
<1>3. Typed
  <2>1. clock \in 1 .. MaxTime /\ samples \in 0 .. 2
    BY SizesAssumption DEF Init
  <2>2. power \in [Ids -> Nat]
    BY PowersAssumption DEF Init
  <2>3. energy \in [Ids -> Multiples \cap Nat] /\ group \in [Ids -> Multiples \cap Nat]
    BY MultipleFacts DEF Init
  <2>4. state_latest = DefaultState /\ state_returned = DefaultState /\ samples = 0
        /\ backend \in Backends
    BY DEF Init
  <2> QED BY <1>1, <2>1, <2>2, <2>3, <2>4 DEF Typed
<1>4. OnlyPowerStops /\ Unsigned
  BY <1>2, SizesAssumption DEF Init, DefaultState, OnlyPowerStops, Unsigned
<1>5. RaplDerived
  <2>1. 0 \in Multiples
    BY MultipleFacts
  <2> QED BY <1>2, <2>1 DEF RaplDerived
<1>6. DummyDerived
  <2>1. \A i \in Ids : 2 * Scale * power[i] * 0 = 0
    BY <1>3, ScaleAssumption DEF Typed
  <2> QED BY <1>2, <2>1 DEF DummyDerived
<1>7. LatestTotal /\ ReturnedTotal
  BY <1>1, SumKeeps DEF Init, LatestTotal, ReturnedTotal, TotalKeeps, Total
<1> QED BY <1>3, <1>4, <1>5, <1>6, <1>7 DEF IInv, Derived

LEMMA TickStep == IInv /\ Tick => IInv'
<1> SUFFICES ASSUME IInv, Tick PROVE IInv'
  OBVIOUS
<1>1. /\ Typed /\ Derived /\ LatestTotal /\ ReturnedTotal
      /\ UNCHANGED <<backend, set_back, samples, state_latest, state_returned, stopped>>
      /\ clock < MaxTime /\ clock' = clock + 1
  BY DEF IInv, Tick
<1>2. power' \in [Ids -> Nat]
  BY PowersAssumption DEF Tick
<1>3. ASSUME NEW i \in Ids
      PROVE  /\ energy[i] + 2 * Scale * power[i] \in Multiples \cap Nat
             /\ energy[i] + 2 * Scale * power[i] >= energy[i]
             /\ group[i] + 2 * Scale * power[i] \in Multiples \cap Nat
  <2>1. power[i] \in Nat /\ energy[i] \in Multiples \cap Nat /\ group[i] \in Multiples \cap Nat
    BY <1>1 DEF Typed
  <2>2. 2 * Scale * power[i] \in Multiples
    <3>1. \A k \in Int : 2 * Scale * k \in Multiples
      BY MultipleFacts
    <3>2. power[i] \in Int
      BY <2>1
    <3> QED BY <3>1, <3>2, Zenon
  <2>3. 2 * Scale * power[i] \in Nat
    BY <2>1, ScaleAssumption
  <2>4. energy[i] + 2 * Scale * power[i] \in Multiples /\ group[i] + 2 * Scale * power[i] \in Multiples
    BY <2>1, <2>2, MultipleFacts
  <2> QED BY <2>1, <2>3, <2>4
<1>4. /\ energy' \in [Ids -> Multiples \cap Nat] /\ group' \in [Ids -> Multiples \cap Nat]
      /\ \A i \in Ids : energy'[i] = energy[i] + 2 * Scale * power[i]
  BY <1>3 DEF Tick
<1>5. Typed'
  <2>1. clock' \in 1 .. MaxTime
    BY <1>1, SizesAssumption DEF Typed
  <2> QED BY <1>1, <1>2, <1>4, <2>1 DEF Typed, DefaultState
<1>6. OnlyPowerStops' /\ Unsigned'
  <2>1. clock \in Int /\ state_latest.timestamp \in Int
    BY <1>1, StateFacts, SizesAssumption DEF Typed
  <2> QED BY <1>1, <2>1 DEF Derived, OnlyPowerStops, Unsigned
<1>8. RaplDerived'
  <2>1. \A i \in Ids : energy[i] \in Int /\ energy'[i] \in Int /\ energy[i] <= energy'[i]
    BY <1>1, <1>3, <1>4 DEF Typed
  <2>2. \A i \in Ids : state_latest.joules[i] \in Int
    BY <1>1, StateFacts DEF Typed
  <2> QED BY <1>1, <2>1, <2>2 DEF Derived, RaplDerived
<1>9. DummyDerived'
  <2>1. backend = "dummy" => power' = power
    BY DEF Tick
  <2> QED BY <1>1, <2>1 DEF Derived, DummyDerived
<1>10. LatestTotal' /\ ReturnedTotal'
  BY <1>1 DEF LatestTotal, ReturnedTotal, TotalIsSum, EnergyIsSum, PowerIsSum, TotalKeeps
<1> QED BY <1>5, <1>6, <1>8, <1>9, <1>10 DEF IInv, Derived

LEMMA SetBackStep == IInv /\ (SetBack \/ UNCHANGED vars) => IInv'
<1> SUFFICES ASSUME IInv, SetBack \/ UNCHANGED vars PROVE IInv'
  OBVIOUS
<1>1. /\ Typed /\ Derived /\ LatestTotal /\ ReturnedTotal
      /\ UNCHANGED <<backend, power, energy, group, samples, state_latest, state_returned,
                     stopped>>
      /\ \/ clock' = clock /\ set_back' = set_back
         \/ clock' \in 1 .. (clock - 1) /\ set_back'
  BY DEF IInv, SetBack, vars
<1>2. Typed'
  <2>1. clock' \in 1 .. MaxTime
    BY <1>1, SizesAssumption DEF Typed
  <2> QED BY <1>1, <2>1 DEF Typed, DefaultState
<1>3. Derived'
  BY <1>1 DEF Derived, OnlyPowerStops, Unsigned, RaplDerived, DummyDerived
<1>4. LatestTotal' /\ ReturnedTotal'
  BY <1>1 DEF LatestTotal, ReturnedTotal, TotalIsSum, EnergyIsSum, PowerIsSum, TotalKeeps
<1> QED BY <1>2, <1>3, <1>4 DEF IInv

\* Extrapolating is linear, entry by entry.
LEMMA ExtrapolateIsSum ==
    ASSUME NEW state \in States, NEW now \in Times
    PROVE  /\ Extrapolate(state, now) \in States
           /\ TotalIsSum(state) => TotalIsSum(Extrapolate(state, now))
           /\ TotalKeeps(state) => TotalKeeps(Extrapolate(state, now))
<1> DEFINE d == 2 * (now - state.timestamp)
           next == Extrapolate(state, now)
<1>1. d \in Int /\ now - state.timestamp \in Int
  BY StateFacts, SizesAssumption DEF Times
<1>2. /\ next.timestamp = now /\ next.watt = state.watt
      /\ next.joules = [i \in Entries |-> state.joules[i] + 2 * state.watt[i] * (now - state.timestamp)]
      /\ next = [timestamp |-> next.timestamp, joules |-> next.joules, watt |-> next.watt]
  <2>1. state = [timestamp |-> state.timestamp, joules |-> state.joules, watt |-> state.watt]
    BY DEF States
  <2>2. next = [timestamp |-> now, watt |-> state.watt,
                joules |-> [i \in Entries |-> state.joules[i]
                                             + 2 * state.watt[i] * (now - state.timestamp)]]
    <3> DEFINE moved == [i \in Entries |-> state.joules[i]
                                          + 2 * state.watt[i] * (now - state.timestamp)]
    <3>1. next = [state EXCEPT !.timestamp = now, !.joules = moved]
      BY DEF Extrapolate
    <3> HIDE DEF moved, next
    <3>2. next = [timestamp |-> now, joules |-> moved, watt |-> state.watt]
      BY <2>1, <3>1
    <3> QED BY <3>2 DEF moved
  <2> QED BY <2>2
<1>3. ASSUME NEW i \in Entries
      PROVE  /\ next.joules[i] = state.joules[i] + d * state.watt[i]
             /\ state.joules[i] \in Int /\ state.watt[i] \in Int /\ next.joules[i] \in Int
  <2>1. state.joules[i] \in Int /\ state.watt[i] \in Int
    BY StateFacts
  <2>2. ASSUME NEW a \in Int, NEW b \in Int PROVE 2 * a * b = (2 * b) * a /\ (2 * b) * a \in Int
    OBVIOUS
  <2>3. next.joules[i] = state.joules[i] + 2 * state.watt[i] * (now - state.timestamp)
    BY <1>2
  <2>4. 2 * state.watt[i] * (now - state.timestamp) = d * state.watt[i] /\ d * state.watt[i] \in Int
    BY <1>1, <2>1, <2>2
  <2> HIDE DEF d, next
  <2> QED BY <2>1, <2>3, <2>4
<1> HIDE DEF d, next
<1>4. next \in States
  <2>1. next.joules \in [Entries -> Int]
    BY <1>2, <1>3
  <2>2. next.watt \in [Entries -> Int]
    BY <1>2 DEF States
  <2> QED BY <1>2, <2>1, <2>2 DEF States
<1>5. Total(next.joules) = Total(state.joules) + d * Total(state.watt)
  <2>1. Combines(Ids, next.joules, state.joules, state.watt, d)
    BY <1>3 DEF Combines, Entries
  <2> QED BY <1>1, <2>1, TotalLinear
<1>6. /\ next.watt[0] = state.watt[0] /\ Total(next.watt) = Total(state.watt)
      /\ next.joules[0] = state.joules[0] + d * state.watt[0]
      /\ state.joules[0] \in Int /\ state.watt[0] \in Int
  BY <1>2, <1>3 DEF Entries
<1>7. Total(state.joules) \in Int
  <2>1. \A i \in Ids : state.joules[i] \in Int
    BY <1>3 DEF Entries
  <2> QED BY <2>1, TotalSame
<1>8. PowerIsSum(state) => d * state.watt[0] = d * Total(state.watt) /\ d * state.watt[0] \in Int
  BY <1>1, <1>6 DEF PowerIsSum, Total
<1>9. TotalIsSum(state) => TotalIsSum(next)
  BY <1>5, <1>6, TotalIsTotal
<1>10. TotalKeeps(state) => TotalKeeps(next)
  BY <1>5, <1>6, <1>7, <1>8 DEF TotalKeeps, PowerIsSum, Total
<1> QED BY <1>4, <1>9, <1>10 DEF next

LEMMA ReadStep == IInv /\ Read => IInv'
<1> SUFFICES ASSUME IInv, Read PROVE IInv'
  OBVIOUS
<1>1. /\ Typed /\ Derived /\ LatestTotal /\ ReturnedTotal
      /\ UNCHANGED <<backend, clock, set_back, power, energy, group, samples, state_latest,
                     stopped>>
      /\ state_returned' = state_latest \/ state_returned' = Extrapolate(state_returned, clock)
  BY DEF IInv, Read
<1>2. /\ state_returned' \in States
      /\ ~stopped => TotalIsSum(state_returned')
      /\ TotalKeeps(state_returned')
  <2>1. clock \in Times
    BY <1>1, SizesAssumption DEF Typed, Times
  <2> QED BY <1>1, <2>1, ExtrapolateIsSum DEF Typed, LatestTotal, ReturnedTotal
<1>3. Typed'
  BY <1>1, <1>2 DEF Typed, DefaultState
<1>4. Derived'
  BY <1>1 DEF Derived, OnlyPowerStops, Unsigned, RaplDerived, DummyDerived
<1>5. LatestTotal'
  BY <1>1 DEF LatestTotal, TotalIsSum, EnergyIsSum, PowerIsSum, TotalKeeps
<1>6. ReturnedTotal'
  BY <1>1, <1>2 DEF ReturnedTotal, TotalIsSum, EnergyIsSum, PowerIsSum, TotalKeeps
<1> QED BY <1>3, <1>4, <1>5, <1>6 DEF IInv

\* What a sample leaves to show: the state that it stores.
LEMMA SampledStep ==
    ASSUME IInv, InitialSample \/ Measure,
           state_latest' \in States, state_latest'.timestamp = clock,
           RaplDerived', DummyDerived', Unsigned', LatestTotal'
    PROVE  IInv'
<1>1. /\ Typed /\ ReturnedTotal /\ OnlyPowerStops
      /\ UNCHANGED <<backend, clock, set_back, power, energy, state_returned>>
      /\ group' = [i \in Ids |-> 0] /\ samples' \in 1 .. 2
      /\ stopped => stopped'
      /\ stopped' => stopped \/ backend \in {"tegra", "powersensor3", "likwid"}
  <2>1. CASE InitialSample
    BY <2>1 DEF IInv, Derived, InitialSample
  <2>2. CASE Measure
    <3>1. /\ Typed /\ ReturnedTotal /\ OnlyPowerStops
          /\ UNCHANGED <<backend, clock, set_back, power, energy, state_returned>>
          /\ group' = [i \in Ids |-> 0] /\ samples' = 2
          /\ stopped' = (stopped \/ Stops(state_latest, GetState))
      BY <2>2 DEF IInv, Derived, Measure
    <3>2. Stops(state_latest, GetState) => backend \in {"tegra", "powersensor3", "likwid"}
      BY DEF Stops
    <3>3. (stopped => stopped') /\ (stopped' => stopped \/ Stops(state_latest, GetState))
      BY <3>1, Zenon
    <3> HIDE DEF Stops
    <3> QED BY <3>1, <3>2, <3>3
  <2> QED BY <2>1, <2>2
<1>2. Typed'
  <2>1. clock > 0
    BY <1>1, SizesAssumption DEF Typed
  <2>2. 0 \in Multiples \cap Nat
    BY MultipleFacts
  <2>3. group' \in [Ids -> Multiples \cap Nat]
    BY <1>1, <2>2
  <2> QED BY <1>1, <2>1, <2>3 DEF Typed
<1>3. OnlyPowerStops'
  BY <1>1 DEF OnlyPowerStops
<1>4. ReturnedTotal'
  BY <1>1 DEF ReturnedTotal, TotalIsSum, EnergyIsSum, PowerIsSum, TotalKeeps
<1> QED BY <1>2, <1>3, <1>4 DEF IInv, Derived

\* A state with a total that is the sum satisfies whatever is said of it.
LEMMA LatestIsSum ==
    ASSUME state_latest' \in States, TotalIsSum(state_latest')
    PROVE  LatestTotal'
<1>1. PowerIsSum(state_latest') /\ state_latest'.joules[0] >= Total(state_latest'.joules)
  BY SumKeeps
<1> QED BY <1>1 DEF LatestTotal, TotalKeeps, TotalIsSum, EnergyIsSum, PowerIsSum, Total

LEMMA InitialSampleStep == IInv /\ InitialSample => IInv'
<1> SUFFICES ASSUME IInv, InitialSample PROVE IInv'
  OBVIOUS
<1>1. /\ Typed /\ state_latest' = GetState
      /\ UNCHANGED <<backend, clock, power, energy>>
      /\ state_latest.timestamp = 0 /\ clock # state_latest.timestamp
      /\ clock > state_latest.timestamp /\ clock \in Int
      /\ backend \in Backends
  BY SizesAssumption DEF IInv, InitialSample, Typed, DefaultState
<1>2. CASE backend \in {"tegra", "powersensor3"}
  <2>1. /\ GetState \in States /\ TotalIsSum(GetState) /\ GetState.timestamp = clock
        /\ \A i \in Ids : /\ GetState.watt[i] >= 0
                          /\ backend = "tegra" => GetState.joules[i] = 0
    BY <1>1, <1>2, PowerReport
  <2>2. RaplDerived' /\ DummyDerived' /\ Unsigned'
    BY <1>1, <1>2, <2>1 DEF Unsigned, RaplDerived, DummyDerived
  <2> QED BY <1>1, <2>1, <2>2, LatestIsSum, SampledStep
<1>3. CASE backend = "rapl"
  <2>1. /\ GetState \in States /\ TotalIsSum(GetState) /\ GetState.timestamp = clock
        /\ \A i \in Ids : GetState.joules[i] = energy[i]
    BY <1>1, <1>3, RaplReport
  <2>2. \A i \in Ids : energy[i] \in Multiples \cap Nat /\ energy[i] <= energy[i]
    BY <1>1 DEF Typed
  <2>3. RaplDerived' /\ DummyDerived' /\ Unsigned'
    BY <1>1, <1>3, <2>1, <2>2 DEF Unsigned, RaplDerived, DummyDerived
  <2> QED BY <1>1, <2>1, <2>3, LatestIsSum, SampledStep
<1>4. CASE backend = "dummy"
  <2>1. /\ GetState \in States /\ TotalIsSum(GetState) /\ GetState.timestamp = clock
        /\ \A i \in Ids : GetState.joules[i] = 0
    BY <1>1, <1>4, DummyReport
  <2>2. \A i \in Ids : 2 * Scale * power[i] * 0 = 0
    BY <1>1, ScaleAssumption DEF Typed
  <2>3. \E t \in Int : \A i \in Ids : GetState.joules[i] = 2 * Scale * power[i] * t
    BY <2>1, <2>2
  <2>4. RaplDerived' /\ DummyDerived' /\ Unsigned'
    BY <1>1, <1>4, <2>3 DEF Unsigned, RaplDerived, DummyDerived
  <2> QED BY <1>1, <2>1, <2>4, LatestIsSum, SampledStep
<1>5. CASE backend = "likwid"
  <2>1. /\ GetState \in States /\ TotalIsSum(GetState) /\ GetState.timestamp = clock
        /\ \A i \in Ids : GetState.joules[i] = 0 /\ GetState.watt[i] >= 0
    BY <1>1, <1>5, LikwidReport
  <2>2. RaplDerived' /\ DummyDerived' /\ Unsigned'
    BY <1>1, <1>5, <2>1 DEF Unsigned, RaplDerived, DummyDerived
  <2> QED BY <1>1, <2>1, <2>2, LatestIsSum, SampledStep
<1> QED BY <1>1, <1>2, <1>3, <1>4, <1>5 DEF Backends

\* The time since the latest sample, which its guard makes a divisor of Scale.
LEMMA MeasureTicks ==
    ASSUME Typed, Measure, GetState.timestamp = clock
    PROVE  LET t == Ticks(state_latest, GetState)
           IN  /\ t \in Int /\ t # 0 /\ t <= MaxTime /\ -t <= MaxTime
               /\ t = clock - state_latest.timestamp
  BY SizesAssumption DEF Typed, Measure, States, Times, Ticks

LEMMA MeasureRapl == IInv /\ Measure /\ backend = "rapl" => IInv'
<1> SUFFICES ASSUME IInv, Measure, backend = "rapl" PROVE IInv'
  OBVIOUS
<1>1. /\ Typed /\ TotalIsSum(state_latest) /\ state_latest' = Derive(state_latest, GetState)
      /\ UNCHANGED <<backend, power, energy>>
      /\ \A i \in Ids : /\ energy[i] \in Multiples \cap Nat
                        /\ state_latest.joules[i] \in Multiples \cap Nat
                        /\ state_latest.joules[i] <= energy[i]
  BY DEF IInv, Derived, OnlyPowerStops, LatestTotal, RaplDerived, Measure, Typed
<1>2. /\ GetState \in States /\ TotalIsSum(GetState) /\ GetState.timestamp = clock
      /\ \A i \in Ids : GetState.joules[i] = energy[i] /\ GetState.watt[i] = 0
  BY <1>1, RaplReport
<1> DEFINE t == Ticks(state_latest, GetState)
           K == [i \in Ids |-> CHOOSE k \in Int : energy[i] - state_latest.joules[i] = 2 * Scale * k]
<1>3. t \in Int /\ t # 0 /\ t <= MaxTime /\ -t <= MaxTime
  BY <1>1, <1>2, MeasureTicks
<1>4. ASSUME NEW i \in Ids
      PROVE  K[i] \in Int /\ energy[i] = state_latest.joules[i] + 2 * Scale * K[i]
  <2>1. energy[i] - state_latest.joules[i] \in Multiples
    BY <1>1, MultipleFacts
  <2>2. \E k \in Int : energy[i] - state_latest.joules[i] = 2 * Scale * k
    BY <2>1, MultipleFacts
  <2>3. K[i] \in Int /\ energy[i] - state_latest.joules[i] = 2 * Scale * K[i]
    BY <2>2
  <2>4. 2 * Scale * K[i] \in Int
    BY <2>3, ScaleAssumption
  <2> HIDE DEF K
  <2> QED BY <1>1, <2>3, <2>4
<1>5. K \in [Ids -> Int]
  BY <1>4
<1> HIDE DEF K, t
<1>6. \A i \in Ids : /\ GetState.watt[i] = 0 /\ GetState.joules[i] >= 0
                     /\ GetState.joules[i] = 0 => state_latest.joules[i] = 0
  BY <1>1, <1>2
<1>10. Combines(Ids, GetState.joules, state_latest.joules, K, 2 * Scale)
  BY <1>1, <1>2, <1>4 DEF Combines
<1>7. /\ state_latest' \in States /\ TotalIsSum(state_latest')
      /\ state_latest'.joules = GetState.joules
  BY <1>1, <1>2, <1>3, <1>5, <1>6, <1>10, DerivedFromEnergy DEF Typed, t
<1>8. state_latest'.timestamp = clock
  BY <1>1, <1>2, DerivedTime
<1>9. RaplDerived' /\ DummyDerived' /\ Unsigned'
  <2>1. \A i \in Ids : state_latest'.joules[i] = energy'[i] /\ energy'[i] \in Multiples \cap Nat
                       /\ energy'[i] <= energy'[i]
    BY <1>1, <1>2, <1>7
  <2> QED BY <1>1, <2>1 DEF Unsigned, RaplDerived, DummyDerived
<1> QED BY <1>7, <1>8, <1>9, LatestIsSum, SampledStep

LEMMA MeasureDummy == IInv /\ Measure /\ backend = "dummy" => IInv'
<1> SUFFICES ASSUME IInv, Measure, backend = "dummy" PROVE IInv'
  OBVIOUS
<1>1. /\ Typed /\ TotalIsSum(state_latest) /\ state_latest' = Derive(state_latest, GetState)
      /\ UNCHANGED <<backend, power>>
      /\ state_latest.timestamp # 0
  BY DEF IInv, Derived, OnlyPowerStops, LatestTotal, Measure, Typed
<1>2. PICK u \in Int : \A i \in Ids : state_latest.joules[i] = 2 * Scale * power[i] * u
  BY DEF IInv, Derived, DummyDerived
<1> DEFINE t == Ticks(state_latest, GetState)
           K == [i \in Ids |-> power[i] * t]
<1>3. /\ GetState \in States /\ TotalIsSum(GetState) /\ GetState.timestamp = clock
      /\ \A i \in Ids : /\ GetState.watt[i] = 0
                        /\ GetState.joules[i] = state_latest.joules[i]
                              + 2 * Scale * power[i] * (clock - state_latest.timestamp)
  BY <1>1, DummyReport
<1>4. t \in Int /\ t # 0 /\ t <= MaxTime /\ -t <= MaxTime /\ t = clock - state_latest.timestamp
  BY <1>1, <1>3, MeasureTicks
<1> HIDE DEF t
<1>5. ASSUME NEW i \in Ids
      PROVE  /\ K[i] \in Int
             /\ GetState.joules[i] = state_latest.joules[i] + 2 * Scale * K[i]
             /\ GetState.joules[i] = 2 * Scale * power[i] * (u + t)
             /\ u + t > 0 => /\ GetState.joules[i] >= 0
                             /\ GetState.joules[i] = 0 => state_latest.joules[i] = 0
             /\ ~(u + t > 0) => GetState.joules[i] <= 0
  <2> DEFINE unit == 2 * Scale * power[i]
  <2>1. power[i] \in Nat /\ Scale \in Nat
    BY <1>1, ScaleAssumption DEF Typed
  <2>2. unit \in Nat /\ K[i] = power[i] * t
    BY <2>1
  <2>3. ASSUME NEW p \in Nat, NEW c \in Nat, NEW x \in Int
        PROVE  2 * c * p * x = 2 * c * (p * x) /\ p * x \in Int
    OBVIOUS
  <2>4. K[i] \in Int /\ unit * t = 2 * Scale * K[i]
    BY <1>4, <2>1, <2>2, <2>3
  <2>5. GetState.joules[i] = state_latest.joules[i] + unit * t /\ state_latest.joules[i] = unit * u
    BY <1>2, <1>3, <1>4
  <2> HIDE DEF unit, K
  <2>6. GetState.joules[i] = unit * (u + t)
    BY <1>4, <2>2, <2>5
  <2>7. ASSUME u + t > 0
        PROVE  unit * (u + t) >= 0 /\ (unit * (u + t) = 0 => unit * u = 0)
    <3>1. unit = 0 \/ unit >= 1
      BY <2>2
    <3>2. ASSUME unit >= 1 PROVE unit * (u + t) > 0
      BY <1>4, <2>2, <2>7, <3>2
    <3> QED BY <1>4, <2>2, <2>7, <3>1, <3>2
  <2>8. ASSUME u + t <= 0 PROVE unit * (u + t) <= 0
    BY <1>4, <2>2, <2>8
  <2> QED BY <1>4, <2>4, <2>5, <2>6, <2>7, <2>8 DEF unit
<1>6. K \in [Ids -> Int]
  BY <1>5
<1> HIDE DEF K
<1>7. /\ state_latest' \in States /\ TotalIsSum(state_latest')
      /\ state_latest'.joules = GetState.joules
  <2>1. CASE u + t > 0
    <3>1. \A i \in Ids : /\ GetState.watt[i] = 0 /\ GetState.joules[i] >= 0
                         /\ GetState.joules[i] = 0 => state_latest.joules[i] = 0
      BY <1>3, <1>5, <2>1
    <3>2. Combines(Ids, GetState.joules, state_latest.joules, K, 2 * Scale)
      <4>1. \A i \in Ids : state_latest.joules[i] \in Int
        BY <1>1, StateFacts DEF Typed
      <4> QED BY <1>5, <4>1 DEF Combines
    <3> QED BY <1>1, <1>3, <1>4, <1>6, <3>1, <3>2, DerivedFromEnergy DEF Typed, t
  <2>2. CASE ~(u + t > 0)
    <3>1. \A i \in Ids : GetState.watt[i] <= 0 /\ GetState.joules[i] <= 0
      BY <1>3, <1>5, <2>2
    <3> QED BY <1>1, <1>3, <3>1, DerivedFromNothing DEF Typed
  <2> QED BY <2>1, <2>2
<1>8. state_latest'.timestamp = clock
  BY <1>1, <1>3, DerivedTime
<1>9. RaplDerived' /\ DummyDerived' /\ Unsigned'
  <2>1. u + t \in Int /\ \A i \in Ids : state_latest'.joules[i] = 2 * Scale * power[i] * (u + t)
    BY <1>4, <1>5, <1>7
  <2> QED BY <1>1, <2>1 DEF Unsigned, RaplDerived, DummyDerived
<1> QED BY <1>7, <1>8, <1>9, LatestIsSum, SampledStep

LEMMA MeasurePower ==
    IInv /\ Measure /\ backend \in {"tegra", "powersensor3", "likwid"} => IInv'
<1> SUFFICES ASSUME IInv, Measure, backend \in {"tegra", "powersensor3", "likwid"} PROVE IInv'
  OBVIOUS
<1> DEFINE t == Ticks(state_latest, GetState)
<1>1. /\ Typed /\ LatestTotal /\ Unsigned
      /\ state_latest' = Derive(state_latest, GetState)
      /\ stopped' = (stopped \/ Stops(state_latest, GetState))
      /\ UNCHANGED <<backend, clock, set_back, power>>
      /\ clock # state_latest.timestamp /\ clock \in Int /\ state_latest.timestamp \in Int
      /\ state_latest \in States
  BY SizesAssumption, StateFacts DEF IInv, Derived, Measure, Typed
<1>2. /\ GetState \in States /\ TotalIsSum(GetState) /\ GetState.timestamp = clock
      /\ backend # "powersensor3" => \A i \in Ids : GetState.joules[i] = 0
      /\ \/ \A i \in Ids : GetState.watt[i] >= 0
         \/ /\ backend = "likwid" /\ clock < state_latest.timestamp
            /\ \A i \in Ids : GetState.watt[i] <= 0
  <2>1. CASE backend \in {"tegra", "powersensor3"}
    BY <1>1, <2>1, PowerReport
  <2>2. CASE backend = "likwid"
    <3>1. clock > state_latest.timestamp \/ clock < state_latest.timestamp
      BY <1>1
    <3> QED BY <1>1, <2>2, <3>1, LikwidReport
  <2> QED BY <2>1, <2>2
<1>3. state_latest' \in States /\ state_latest'.timestamp = clock
  BY <1>1, <1>2, DerivedType, DerivedTime
<1>4. \A i \in Ids : GetState.watt[i] \in Int
  BY <1>2, StateFacts
<1>5. ASSUME ~stopped' PROVE TotalIsSum(state_latest')
  <2>1. TotalIsSum(state_latest) /\ ~Stops(state_latest, GetState)
    BY <1>1, <1>5 DEF LatestTotal
  <2>2. CASE /\ \A i \in Ids : GetState.watt[i] >= 0
             /\ GetState.watt[0] > 0 \/ backend = "powersensor3"
    <3>1. \A i \in Ids : /\ GetState.watt[i] >= 0
                         /\ GetState.watt[i] = 0 => /\ GetState.joules[i] = 0
                                                    /\ state_latest.joules[i] = 0
                                                    /\ state_latest.watt[i] = 0
      BY <2>1, <2>2 DEF Stops
    <3> QED BY <1>1, <1>2, <2>1, <3>1, DerivedFromPower
  <2>3. CASE /\ \A i \in Ids : GetState.watt[i] >= 0
             /\ ~(GetState.watt[0] > 0 \/ backend = "powersensor3")
    <3>1. \A i \in Ids : GetState.watt[i] \in Nat
      BY <1>4, <2>3
    <3>2. /\ Total(GetState.watt) \in Nat /\ GetState.watt[0] = Total(GetState.watt)
          /\ Total(GetState.watt) = 0 => \A i \in Ids : GetState.watt[i] = 0
      BY <1>2, <3>1, TotalPositive, TotalIsTotal
    <3>3. \A i \in Ids : GetState.watt[i] <= 0 /\ GetState.joules[i] <= 0
      BY <1>2, <2>3, <3>2
    <3> QED BY <1>1, <1>2, <3>3, DerivedFromNothing
  <2>4. CASE backend = "likwid" /\ \A i \in Ids : GetState.watt[i] <= 0
    <3>1. \A i \in Ids : GetState.watt[i] <= 0 /\ GetState.joules[i] <= 0
      BY <1>2, <2>4
    <3> QED BY <1>1, <1>2, <3>1, DerivedFromNothing
  <2> QED BY <1>2, <2>2, <2>3, <2>4
<1>6. ASSUME backend # "powersensor3" PROVE PowerIsSum(state_latest')
  <2>1. PowerIsSum(state_latest)
    BY <1>1, <1>6 DEF LatestTotal, TotalKeeps
  <2> QED BY <1>1, <1>2, <1>6, <2>1, DerivedKeeps
<1>7. ASSUME backend # "powersensor3", ~set_back
      PROVE  /\ state_latest'.joules[0] >= Total(state_latest'.joules)
             /\ \A i \in Ids : state_latest'.joules[i] >= 0 /\ state_latest'.watt[i] >= 0
  <2>1. /\ PowerIsSum(state_latest) /\ state_latest.joules[0] >= Total(state_latest.joules)
        /\ state_latest.timestamp <= clock
        /\ \A i \in Ids : state_latest.joules[i] >= 0 /\ state_latest.watt[i] >= 0
    BY <1>1, <1>7 DEF LatestTotal, TotalKeeps, Unsigned, Total
  <2>2. /\ Ticks(state_latest, GetState) >= 0
        /\ \A i \in Ids : GetState.watt[i] >= 0 /\ GetState.joules[i] = 0
    BY <1>1, <1>2, <1>7, <2>1 DEF Ticks
  <2> QED BY <1>1, <1>2, <2>1, <2>2, DerivedKeeps
<1>8. LatestTotal'
  BY <1>1, <1>5, <1>6, <1>7 DEF LatestTotal, TotalKeeps, TotalIsSum, EnergyIsSum, PowerIsSum, Total
<1>9. RaplDerived' /\ DummyDerived' /\ Unsigned'
  BY <1>1, <1>3, <1>7 DEF Unsigned, RaplDerived, DummyDerived
<1> QED BY <1>3, <1>8, <1>9, SampledStep

-----------------------------------------------------------------------------
\* The invariant is inductive: as long as no sensor with a count reports 0 W, all those
\* that draw anything take the same branch of the loop, for each way of reporting.
THEOREM Inductive == Spec => []IInv
<1>1. IInv /\ [Next]_vars => IInv'
  <2>1. IInv => backend \in {"rapl", "dummy"} \/ backend \in {"tegra", "powersensor3", "likwid"}
    BY DEF IInv, Typed, Backends
  <2> QED
    BY <2>1, TickStep, SetBackStep, InitialSampleStep, ReadStep, MeasureRapl, MeasureDummy,
       MeasurePower DEF Next
<1> QED BY <1>1, TypedInit, PTL DEF Spec

\* For any number of sensors, any powers and any clock: the first entry of state_latest_ is
\* the sum of the others until a sensor with a count reports 0 W, and never less than the
\* sum after that (PMT.cpp:106-118).
THEOREM LatestTotalCorrect == Spec => []LatestTotal
<1>1. IInv => LatestTotal
  BY DEF IInv
<1> QED BY <1>1, Inductive, PTL

\* The same for what Read() returns, extrapolated or not (PMT.cpp:205-213).
THEOREM ReturnedTotalCorrect == Spec => []ReturnedTotal
<1>1. IInv => ReturnedTotal
  BY DEF IInv
<1> QED BY <1>1, Inductive, PTL

=============================================================================
