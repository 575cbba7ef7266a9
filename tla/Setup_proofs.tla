------------------------------ MODULE Setup_proofs ------------------------------
(***************************************************************************)
(* Proofs about Setup. The invariant says what object each constructor has *)
(* made of the environment; the rest is about the algorithms, for every    *)
(* environment in which they run. Loops are folds, and are reasoned about  *)
(* by what they have done after each turn.                                 *)
(***************************************************************************)
EXTENDS Setup, FiniteSetTheorems, WellFoundedInduction, TLAPS

-----------------------------------------------------------------------------
(* The inductive invariant. *)

NVMLObject   == NVML!Initialize(environment)
LikwidObject == Likwid!Groups(environment.threadPool, environment.sockets)
CrayObject   == Cray!ReorderFilenames(Cray!GetFilenames(environment))
RaplObject   == Rapl!Counters(environment.machine, environment.affinity, environment.online)
FactoryObject ==
    Maker!Create(environment.name,
                 IF environment.python THEN Maker!PythonArgument(environment.device)
                                       ELSE Maker!CxxArgument(environment.device),
                 environment.PMT_DEVICE, environment.built, environment.integrated)

IInv ==
    /\ environment \in Environments[backend] /\ Possible(backend, environment)
    /\ created => \/ backend = "nvml" /\ pmt = NVMLObject
                  \/ backend = "likwid" /\ pmt = LikwidObject
                  \/ backend = "cray" /\ pmt = CrayObject
                  \/ backend = "rapl" /\ pmt = RaplObject
                  \/ backend = "factory" /\ pmt = FactoryObject

\* An object is made once, by the constructor of its backend, and of the environment that
\* it finds.
THEOREM Inductive == Spec => []IInv
<1>1. Init => IInv
  BY DEF Init, IInv
<1>2. IInv /\ [Next]_vars => IInv'
  <2> SUFFICES ASSUME IInv, [Next]_vars PROVE IInv'
    OBVIOUS
  <2>1. UNCHANGED <<backend, environment>>
    BY DEF Next, CreateNVML, CreateLikwid, CreateCray, CreateRapl, CreatePMT, Make, vars
  <2>2. environment' \in Environments[backend'] /\ Possible(backend', environment')
    BY <2>1 DEF IInv
  <2>3. /\ NVMLObject' = NVMLObject /\ LikwidObject' = LikwidObject /\ CrayObject' = CrayObject
        /\ RaplObject' = RaplObject /\ FactoryObject' = FactoryObject
    BY <2>1 DEF NVMLObject, LikwidObject, CrayObject, RaplObject, FactoryObject
  <2>4. CASE CreateNVML
    BY <2>2, <2>3, <2>4 DEF CreateNVML, Make, IInv, NVMLObject
  <2>5. CASE CreateLikwid
    BY <2>2, <2>3, <2>5 DEF CreateLikwid, Make, IInv, LikwidObject
  <2>6. CASE CreateCray
    BY <2>2, <2>3, <2>6 DEF CreateCray, Make, IInv, CrayObject
  <2>7. CASE CreateRapl
    BY <2>2, <2>3, <2>7 DEF CreateRapl, Make, IInv, RaplObject
  <2>8. CASE CreatePMT
    BY <2>2, <2>3, <2>8 DEF CreatePMT, Make, IInv, FactoryObject
  <2>9. CASE UNCHANGED vars
    BY <2>2, <2>3, <2>9 DEF vars, IInv
  <2> QED BY <2>4, <2>5, <2>6, <2>7, <2>8, <2>9 DEF Next
<1> QED BY <1>1, <1>2, PTL DEF Spec

-----------------------------------------------------------------------------
(* RAPL. *)

LEMMA RaplTotal ==
    ASSUME NEW machine \in DOMAIN Rapl!Machines, NEW online \in SUBSET Rapl!Cpus,
           NEW affinity \in SUBSET Rapl!Cpus
    PROVE  Rapl!TotalIsUsedPackages(Rapl!Counters(machine, affinity, online),
                                    machine, affinity, online)
<1> DEFINE counters == Rapl!Counters(machine, affinity, online)
           used == {Rapl!Zone(Rapl!Package(machine, cpu), "package") : cpu \in affinity}
<1>1. ASSUME NEW z \in Rapl!Total(counters) PROVE z \in used
  <2>1. /\ z \in Rapl!Machines[machine] /\ z.name = "package"
        /\ z.package \in Rapl!ActivePackages(machine, Rapl!ActiveCpus(affinity, online))
    BY DEF Rapl!Total, Rapl!Counters
  <2>2. PICK cpu \in affinity : z.package = Rapl!Package(machine, cpu)
    BY <2>1 DEF Rapl!ActivePackages, Rapl!ActiveCpus
  <2>3. z = Rapl!Zone(z.package, z.name)
    BY <2>1 DEF Rapl!Machines, Rapl!Zone
  <2> QED BY <2>1, <2>2, <2>3
<1>2. ASSUME online = Rapl!Cpus, NEW cpu \in affinity
      PROVE  Rapl!Zone(Rapl!Package(machine, cpu), "package") \in Rapl!Total(counters)
  <2>1. Cardinality(online) = 4
    <3>1. 0 \in Int /\ 3 \in Int /\ ~(0 > 3) /\ 3 - 0 + 1 = 4
      OBVIOUS
    <3>2. Cardinality(0 .. 3) = IF 0 > 3 THEN 0 ELSE 3 - 0 + 1
      BY <3>1, FS_Interval, Zenon
    <3> QED BY <1>2, <3>1, <3>2 DEF Rapl!Cpus
  <2>2. cpu \in Rapl!ActiveCpus(affinity, online)
    <3>1. Rapl!Cardinality(online) = Cardinality(online)
      BY DEF Rapl!Cardinality, Cardinality
    <3>2. cpu \in 0 .. 3 /\ 4 - 1 = 3
      BY DEF Rapl!Cpus
    <3> QED BY <2>1, <3>1, <3>2 DEF Rapl!ActiveCpus
  <2> DEFINE z == Rapl!Zone(Rapl!Package(machine, cpu), "package")
  <2>3. z \in Rapl!Machines[machine]
    <3>1. cpu \in {0, 1, 2, 3} /\ machine \in {"server", "client"}
      BY DEF Rapl!Cpus, Rapl!Machines
    <3> QED BY <3>1 DEF Rapl!Machines, Rapl!Package, Rapl!Topology, Rapl!Zone
  <2>4. z.name = "package" /\ z.package = Rapl!Package(machine, cpu)
    BY DEF Rapl!Zone
  <2> HIDE DEF z
  <2> QED BY <2>2, <2>3, <2>4 DEF z, Rapl!Total, Rapl!Counters, Rapl!ActivePackages
<1> QED BY <1>1, <1>2 DEF Rapl!TotalIsUsedPackages

\* For every affinity mask and every set of CPUs that are online: the first entry of RAPL
\* adds up packages that the process may run on, each whole and once (RaplImpl.cpp:60-76).
THEOREM RaplTotalIsUsedPackagesCorrect == Spec => []RaplTotalIsUsedPackages
<1>1. IInv => RaplTotalIsUsedPackages
  <2> SUFFICES ASSUME IInv, created, backend = "rapl"
               PROVE  Rapl!TotalIsUsedPackages(pmt, environment.machine, environment.affinity,
                                               environment.online)
    BY DEF RaplTotalIsUsedPackages, Made
  <2>1. environment \in [machine : DOMAIN Rapl!Machines, online : SUBSET Rapl!Cpus,
                         affinity : SUBSET Rapl!Cpus]
    BY DEF IInv, Environments
  <2>2. pmt = RaplObject
    BY DEF IInv
  <2> QED BY <2>1, <2>2, RaplTotal DEF RaplObject
<1> QED BY <1>1, Inductive, PTL

-----------------------------------------------------------------------------
(* Loops. A fold is defined by recursion over the subsets of the indices   *)
(* of its sequence, and its last turn is that of the largest index. The    *)
(* loops that are reasoned about are described by records.                 *)

LEMMA LeastNat ==
    ASSUME NEW T, T \subseteq Nat, T # {}
    PROVE  \E n \in T : \A m \in T : n <= m
<1> DEFINE Less == {ss \in Nat \X Nat : ss[1] < ss[2]}
<1>1. IsWellFoundedOn(Less, Nat)
  BY NatLessThanWellFounded DEF OpToRel
<1>2. \A x, y \in Nat : <<y, x>> \notin Less => x <= y
  <2> TAKE x, y \in Nat
  <2>1. y < x => <<y, x>> \in Less
    OBVIOUS
  <2> QED BY <2>1
<1> HIDE DEF Less
<1>3. \E x \in T : \A y \in T : ~ (<<y, x>> \in Less)
  BY <1>1, WFMin
<1> QED BY <1>2, <1>3

\* Induction from 0 to n, the hypothesis being a set of numbers.
LEMMA Reaches ==
    ASSUME NEW n \in Nat, NEW P, 0 \in P, \A k \in 1 .. n : k - 1 \in P => k \in P
    PROVE  \A k \in 0 .. n : k \in P
<1> SUFFICES ASSUME (0 .. n) \ P # {} PROVE FALSE
  OBVIOUS
<1> DEFINE T == (0 .. n) \ P
<1>1. T \subseteq Nat /\ T # {}
  OBVIOUS
<1> HIDE DEF T
<1>2. PICK k \in T : \A m \in T : k <= m
  BY <1>1, LeastNat
<1>3. k \in 0 .. n /\ k \notin P /\ k # 0
  BY DEF T
<1>4. k \in 1 .. n /\ k - 1 \in 0 .. n /\ ~ (k <= k - 1)
  BY <1>3
<1>5. k - 1 \notin T
  BY <1>2, <1>4
<1> QED BY <1>3, <1>4, <1>5 DEF T

Largest(s) == CHOOSE x \in s : \A y \in s : x >= y

LEMMA LargestOfPrefix ==
    ASSUME NEW n \in Nat, NEW s \in SUBSET (1 .. n), s # {}
    PROVE  /\ Largest(s) \in s
           /\ s \ {Largest(s)} \in SUBSET (1 .. (n - 1))
<1> DEFINE T == {n - x : x \in s}
<1>1. T \subseteq Nat /\ T # {}
  <2>1. ASSUME NEW x \in s PROVE n - x \in Nat /\ n - x \in T
    <3>1. x \in 1 .. n
      OBVIOUS
    <3> QED BY <3>1
  <2> QED BY <2>1
<1> HIDE DEF T
<1>2. PICK t \in T : \A u \in T : t <= u
  BY <1>1, LeastNat
<1>3. PICK x \in s : t = n - x
  BY DEF T
<1>4. ASSUME NEW y \in s PROVE x >= y
  <2>1. n - y \in T
    BY DEF T
  <2>2. n - x <= n - y
    BY <1>2, <1>3, <2>1
  <2>3. x \in Int /\ y \in Int
    OBVIOUS
  <2> QED BY <2>2, <2>3
<1>5. Largest(s) \in s /\ \A y \in s : Largest(s) >= y
  BY <1>4 DEF Largest
<1>6. ASSUME NEW y \in s \ {Largest(s)} PROVE y \in 1 .. (n - 1)
  <2>1. y \in 1 .. n /\ Largest(s) \in 1 .. n /\ Largest(s) >= y /\ y # Largest(s)
    BY <1>5
  <2> QED BY <2>1
<1> QED BY <1>5, <1>6

\* The values of the socket of the loop of Likwid, and where the loop of NVML starts.
Sockets(nr) == [n \in 1 .. nr |-> n - 1]

NVMLStart ==
    [names |-> NVML!field_names_,
     values |-> [i \in DOMAIN NVML!field_names_ |-> NVML!FieldValue(i)],
     default |-> 1, i |-> 1]

Start(loop) == IF loop.of = "nvml" THEN NVMLStart ELSE <<>>

Step(loop, x, n) ==
    IF loop.of = "likwid"
    THEN Likwid!AddEventSet(x, loop.threadPool, loop.sockets, Sockets(loop.sockets)[n])
    ELSE IF loop.of = "nvml"
    THEN NVML!Scan(x, loop.failed)
    ELSE IF loop.files[n] \in loop.kept THEN Append(x, loop.files[n]) ELSE x

Body(loop, g, s) ==
    IF s = {} THEN Start(loop) ELSE Step(loop, g[s \ {Largest(s)}], Largest(s))

\* The recursion has a solution: a function that solves it for the subsets of 1 .. (n - 1)
\* gives one that solves it for those of 1 .. n.
LEMMA LoopExists ==
    ASSUME NEW loop, NEW last \in Nat
    PROVE  \E g : g = [s \in SUBSET (1 .. last) |-> Body(loop, g, s)]
<1> DEFINE Upto(n, g) == /\ g = [s \in SUBSET (1 .. last) |-> g[s]]
                         /\ \A s \in SUBSET (1 .. n) : g[s] = Body(loop, g, s)
           P == {n \in 0 .. last : \E g : Upto(n, g)}
<1>1. 0 \in P
  <2> DEFINE g == [s \in SUBSET (1 .. last) |-> Start(loop)]
  <2>1. ASSUME NEW s \in SUBSET (1 .. 0) PROVE g[s] = Body(loop, g, s)
    <3>1. s = {}
      OBVIOUS
    <3> QED BY <3>1 DEF Body
  <2>2. Upto(0, g)
    BY <2>1
  <2>3. 0 \in 0 .. last
    OBVIOUS
  <2> HIDE DEF Upto
  <2> QED BY <2>2, <2>3
<1>2. ASSUME NEW n \in 1 .. last, n - 1 \in P PROVE n \in P
  <2>1. PICK g : Upto(n - 1, g)
    BY <1>2
  <2> DEFINE h == [s \in SUBSET (1 .. last) |-> Body(loop, g, s)]
  <2>2. ASSUME NEW s \in SUBSET (1 .. n) PROVE h[s] = Body(loop, h, s)
    <3>0. s \in SUBSET (1 .. last)
      OBVIOUS
    <3>1. CASE s = {}
      BY <3>0, <3>1 DEF Body
    <3>2. CASE s # {}
      <4> DEFINE r == s \ {Largest(s)}
      <4>1. r \in SUBSET (1 .. (n - 1)) /\ r \in SUBSET (1 .. last)
        BY <3>0, <3>2, LargestOfPrefix
      <4>2. h[r] = g[r]
        BY <4>1, <2>1
      <4> QED BY <3>0, <3>2, <4>2 DEF Body
    <3> QED BY <3>1, <3>2
  <2>3. Upto(n, h)
    BY <2>2
  <2> HIDE DEF Upto
  <2> QED BY <2>3
<1> HIDE DEF P
<1>3. last \in P
  BY <1>1, <1>2, Reaches
<1> QED BY <1>3 DEF P

LEMMA LoopStep ==
    ASSUME NEW loop, NEW last \in Nat, NEW g,
           g = [s \in SUBSET (1 .. last) |-> Body(loop, g, s)]
    PROVE  /\ g[1 .. 0] = Start(loop)
           /\ \A n \in 1 .. last : g[1 .. n] = Step(loop, g[1 .. (n - 1)], n)
<1>1. ASSUME NEW s \in SUBSET (1 .. last) PROVE g[s] = Body(loop, g, s)
  BY Zenon
<1>2. g[1 .. 0] = Start(loop)
  <2>1. 1 .. 0 = {} /\ {} \in SUBSET (1 .. last)
    OBVIOUS
  <2> QED BY <1>1, <2>1 DEF Body
<1>3. ASSUME NEW n \in 1 .. last PROVE g[1 .. n] = Step(loop, g[1 .. (n - 1)], n)
  <2>1. 1 .. n \in SUBSET (1 .. last) /\ 1 .. n # {}
    OBVIOUS
  <2>2. Largest(1 .. n) = n
    <3>1. n \in 1 .. n /\ \A y \in 1 .. n : n >= y
      OBVIOUS
    <3>2. Largest(1 .. n) \in 1 .. n /\ Largest(1 .. n) >= n
      BY <3>1 DEF Largest
    <3> QED BY <3>2
  <2>3. (1 .. n) \ {n} = 1 .. (n - 1)
    OBVIOUS
  <2> QED BY <1>1, <2>1, <2>2, <2>3 DEF Body
<1> QED BY <1>2, <1>3

-----------------------------------------------------------------------------
(* Likwid. *)

\* The groups by the turns of the loop that have been taken.
LikwidTurns(threadPool, nr) ==
    CHOOSE g : g = [s \in SUBSET DOMAIN Sockets(nr) |->
                      IF s = {} THEN <<>>
                      ELSE Likwid!AddEventSet(g[s \ {Largest(s)}], threadPool, nr,
                                              Sockets(nr)[Largest(s)])]

LEMMA LikwidTurnsStep ==
    ASSUME NEW threadPool, NEW nr \in Nat
    PROVE  LET g == LikwidTurns(threadPool, nr)
           IN  /\ Likwid!Groups(threadPool, nr) = g[1 .. nr]
               /\ g[1 .. 0] = <<>>
               /\ \A n \in 1 .. nr :
                     g[1 .. n] = Likwid!AddEventSet(g[1 .. (n - 1)], threadPool, nr, n - 1)
<1> DEFINE g == LikwidTurns(threadPool, nr)
           loop == [of |-> "likwid", threadPool |-> threadPool, sockets |-> nr]
<1>0. Likwid!Groups(threadPool, nr) = LikwidTurns(threadPool, nr)[DOMAIN Sockets(nr)]
  BY DEF Likwid!Groups, Likwid!FoldLeft, Likwid!MapThenFoldSet, Likwid!Max, LikwidTurns,
         Largest, Sockets
<1>1. DOMAIN Sockets(nr) = 1 .. nr /\ \A n \in 1 .. nr : Sockets(nr)[n] = n - 1
  BY DEF Sockets
<1>2. Start(loop) = <<>>
  BY DEF Start
<1>3. \A x, n : Step(loop, x, n) = Likwid!AddEventSet(x, threadPool, nr, Sockets(nr)[n])
  BY DEF Step
<1> HIDE DEF loop
<1> DEFINE Solution(h) == [s \in SUBSET DOMAIN Sockets(nr) |->
                             IF s = {} THEN <<>>
                             ELSE Likwid!AddEventSet(h[s \ {Largest(s)}], threadPool, nr,
                                                     Sockets(nr)[Largest(s)])]
<1>4. \A h : [s \in SUBSET (1 .. nr) |-> Body(loop, h, s)] = Solution(h)
  BY <1>1, <1>2, <1>3 DEF Body
<1>5. g = [s \in SUBSET (1 .. nr) |-> Body(loop, g, s)]
  <2>1. g = CHOOSE h : h = Solution(h)
    BY Zenon DEF LikwidTurns
  <2> HIDE DEF Solution, g
  <2>2. \E h : h = Solution(h)
    BY <1>4, LoopExists
  <2>3. g = Solution(g)
    BY <2>1, <2>2, Zenon
  <2> QED BY <1>4, <2>3
<1> HIDE DEF g
<1>6. g[1 .. 0] = <<>> /\ \A n \in 1 .. nr : g[1 .. n] = Step(loop, g[1 .. (n - 1)], n)
  BY <1>2, <1>5, LoopStep
<1>7. /\ Likwid!Groups(threadPool, nr) = g[1 .. nr]
      /\ g[1 .. 0] = <<>>
  BY <1>0, <1>1, <1>6 DEF g
<1>8. ASSUME NEW n \in 1 .. nr
      PROVE  g[1 .. n] = Likwid!AddEventSet(g[1 .. (n - 1)], threadPool, nr, n - 1)
  <2>1. g[1 .. n] = Step(loop, g[1 .. (n - 1)], n) /\ Sockets(nr)[n] = n - 1
    BY <1>1, <1>6
  <2> QED BY <1>3, <2>1
<1> QED BY <1>7, <1>8 DEF g

\* Each socket can be found among the entries that are searched.
EachIsFound(threadPool, nr) ==
    \A socket \in 0 .. (nr - 1) : \E i \in 1 .. (Len(threadPool) \div nr) :
        threadPool[i].packageId = socket /\ threadPool[i].inCpuSet

\* There is a group for each of the first n sockets, in their order.
Ordered(threadPool, groups, n) ==
    /\ groups \in Seq(Nat) /\ Len(groups) = n
    /\ \A g \in 1 .. n : threadPool[groups[g]].packageId = g - 1

LEMMA TurnKeepsOrder ==
    ASSUME NEW threadPool, Len(threadPool) \in Nat, NEW nr \in Nat \ {0}, NEW n \in 1 .. nr,
           EachIsFound(threadPool, nr), NEW groups, Ordered(threadPool, groups, n - 1)
    PROVE  Ordered(threadPool, Likwid!AddEventSet(groups, threadPool, nr, n - 1), n)
<1> DEFINE found == Likwid!Candidates(threadPool, nr, n - 1)
           turn  == Likwid!AddEventSet(groups, threadPool, nr, n - 1)
           i     == Likwid!Min(found)
<1>1. found # {} /\ found \subseteq Nat
  <2>1. n - 1 \in 0 .. (nr - 1)
    OBVIOUS
  <2>2. PICK k \in 1 .. (Len(threadPool) \div nr) :
            threadPool[k].packageId = n - 1 /\ threadPool[k].inCpuSet
    BY <2>1 DEF EachIsFound
  <2>3. k \in found
    BY <2>2 DEF Likwid!Candidates, Likwid!Searched
  <2>4. found \subseteq Nat
    BY DEF Likwid!Candidates, Likwid!Searched
  <2> QED BY <2>3, <2>4
<1>2. i \in found
  <2> HIDE DEF found
  <2>1. PICK m \in found : \A k \in found : m <= k
    BY <1>1, LeastNat
  <2> QED BY <2>1 DEF Likwid!Min
<1>3. i \in Nat /\ threadPool[i].packageId = n - 1
  BY <1>1, <1>2 DEF Likwid!Candidates
<1>4. turn = Append(groups, i)
  BY <1>1 DEF Likwid!AddEventSet
<1> HIDE DEF found, i
<1>5. groups \in Seq(Nat) /\ Len(groups) = n - 1
  BY DEF Ordered
<1>6. /\ turn \in Seq(Nat) /\ Len(turn) = n /\ turn[n] = i
      /\ \A g \in 1 .. (n - 1) : turn[g] = groups[g]
  <2> HIDE DEF turn
  <2> QED BY <1>3, <1>4, <1>5
<1>7. ASSUME NEW g \in 1 .. n PROVE threadPool[turn[g]].packageId = g - 1
  <2>1. CASE g = n
    BY <1>3, <1>6, <2>1
  <2>2. CASE g # n
    <3>1. g \in 1 .. (n - 1)
      BY <2>2
    <3> QED BY <1>6, <3>1 DEF Ordered
  <2> QED BY <2>1, <2>2
<1> QED BY <1>6, <1>7 DEF Ordered

LEMMA GroupsInOrder ==
    ASSUME NEW threadPool, Len(threadPool) \in Nat, NEW nr \in Nat \ {0},
           EachIsFound(threadPool, nr)
    PROVE  Ordered(threadPool, Likwid!Groups(threadPool, nr), nr)
<1> DEFINE g == LikwidTurns(threadPool, nr)
           P == {n \in 0 .. nr : Ordered(threadPool, g[1 .. n], n)}
<1>1. 0 \in P
  <2>1. g[1 .. 0] = <<>> /\ 0 \in 0 .. nr
    BY LikwidTurnsStep
  <2>2. <<>> \in Seq(Nat) /\ Len(<<>>) = 0
    OBVIOUS
  <2>3. Ordered(threadPool, <<>>, 0)
    BY <2>2 DEF Ordered
  <2> QED BY <2>1, <2>3
<1>2. ASSUME NEW n \in 1 .. nr, n - 1 \in P PROVE n \in P
  <2>1. Ordered(threadPool, g[1 .. (n - 1)], n - 1)
    BY <1>2
  <2>2. g[1 .. n] = Likwid!AddEventSet(g[1 .. (n - 1)], threadPool, nr, n - 1)
    BY LikwidTurnsStep
  <2>3. Ordered(threadPool, g[1 .. n], n)
    BY <2>1, <2>2, TurnKeepsOrder
  <2> QED BY <2>3
<1> HIDE DEF P
<1>3. nr \in P
  BY <1>1, <1>2, Reaches
<1>4. Likwid!Groups(threadPool, nr) = g[1 .. nr]
  BY LikwidTurnsStep
<1> QED BY <1>3, <1>4 DEF P

\* For every topology and CPU set in which each socket has an active CPU among the
\* entries that are searched: each socket is measured, under its own number
\* (LikwidImpl.cpp:41-69). Only the limit of
\* the search, or a socket without active CPU, makes Likwid skip one and shift others.
THEOREM LikwidMeasuresEachSocketCorrect == Spec => []LikwidMeasuresEachSocket
<1>1. IInv => LikwidMeasuresEachSocket
  <2> SUFFICES ASSUME IInv, created, backend = "likwid"
               PROVE  Likwid!MeasuresEachSocket(environment.threadPool, environment.sockets, pmt)
    BY DEF LikwidMeasuresEachSocket, Made
  <2>1. environment \in Topologies
    BY DEF IInv, Environments
  <2>2. PICK s \in 1 .. 2 :
           \E p \in [1 .. MaxThreads -> [packageId : 0 .. (s - 1), inCpuSet : BOOLEAN]] :
              environment = [sockets |-> s, threadPool |-> p]
    BY <2>1 DEF Topologies
  <2>3. PICK p \in [1 .. MaxThreads -> [packageId : 0 .. (s - 1), inCpuSet : BOOLEAN]] :
           environment = [sockets |-> s, threadPool |-> p]
    BY <2>2
  <2>4. environment.sockets = s /\ environment.threadPool = p /\ s \in Nat \ {0}
    BY <2>3
  <2>5. Len(p) \in Nat /\ DOMAIN p = 1 .. MaxThreads
        /\ \A i \in DOMAIN p : p[i].packageId \in 0 .. (s - 1)
    BY <2>3, SizesAssumption DEF SizesAssumption
  <2>6. pmt = Likwid!Groups(p, s)
    BY <2>4 DEF IInv, LikwidObject
  <2>7. ASSUME EachIsFound(p, s)
        PROVE  Likwid!SkipsInactiveOnly(p, pmt) /\ Likwid!GroupIsSocket(p, pmt)
    <3>1. Ordered(p, pmt, s)
      BY <2>4, <2>5, <2>6, <2>7, GroupsInOrder
    <3>2. DOMAIN pmt = 1 .. s /\ \A g \in 1 .. s : p[pmt[g]].packageId = g - 1
      BY <3>1 DEF Ordered
    <3>3. ASSUME NEW i \in DOMAIN p PROVE \E g \in DOMAIN pmt : p[pmt[g]].packageId = p[i].packageId
      <4>1. p[i].packageId \in 0 .. (s - 1)
        BY <2>5
      <4>2. PICK g \in 1 .. s : g - 1 = p[i].packageId
        <5>1. p[i].packageId + 1 \in 1 .. s /\ (p[i].packageId + 1) - 1 = p[i].packageId
          BY <2>4, <4>1
        <5> QED BY <5>1
      <4> QED BY <3>2, <4>2
    <3> QED BY <3>2, <3>3 DEF Likwid!SkipsInactiveOnly, Likwid!GroupIsSocket
  <2> QED BY <2>4, <2>7 DEF EachIsFound, Likwid!MeasuresEachSocket
<1> QED BY <1>1, Inductive, PTL

-----------------------------------------------------------------------------
(* NVML. Each turn of the loop erases the field it looks at or moves on,   *)
(* so that after n turns the fields that were kept are in front, and those *)
(* that were not looked at follow.                                         *)

NrFields   == 6
FieldNames == {NVML!field_names_[m] : m \in 1 .. NrFields}

NVMLTurns(failed) ==
    CHOOSE g : g = [s \in SUBSET DOMAIN NVML!field_names_ |->
                      IF s = {} THEN NVMLStart ELSE NVML!Scan(g[s \ {Largest(s)}], failed)]

LEMMA NVMLTurnsStep ==
    ASSUME NEW failed
    PROVE  LET g == NVMLTurns(failed)
           IN  /\ NVML!Initialize(failed) = g[1 .. NrFields]
               /\ g[1 .. 0] = NVMLStart
               /\ \A n \in 1 .. NrFields : g[1 .. n] = NVML!Scan(g[1 .. (n - 1)], failed)
<1> DEFINE g == NVMLTurns(failed)
           loop == [of |-> "nvml", failed |-> failed]
<1>0. NVML!Initialize(failed) = NVMLTurns(failed)[DOMAIN NVML!field_names_]
  BY DEF NVML!Initialize, NVML!FoldLeft, NVML!MapThenFoldSet, NVML!Max, NVMLTurns, NVMLStart,
         Largest
<1>1. DOMAIN NVML!field_names_ = 1 .. NrFields /\ NrFields \in Nat
  BY DEF NVML!field_names_, NrFields
<1>2. Start(loop) = NVMLStart
  BY DEF Start
<1>3. \A x, n : Step(loop, x, n) = NVML!Scan(x, failed)
  BY DEF Step
<1> HIDE DEF loop
<1> DEFINE Solution(h) == [s \in SUBSET DOMAIN NVML!field_names_ |->
                             IF s = {} THEN NVMLStart
                             ELSE NVML!Scan(h[s \ {Largest(s)}], failed)]
<1>4. \A h : [s \in SUBSET (1 .. NrFields) |-> Body(loop, h, s)] = Solution(h)
  BY <1>1, <1>2, <1>3 DEF Body
<1>5. g = [s \in SUBSET (1 .. NrFields) |-> Body(loop, g, s)]
  <2>1. g = CHOOSE h : h = Solution(h)
    BY Zenon DEF NVMLTurns
  <2> HIDE DEF Solution, g
  <2>2. \E h : h = Solution(h)
    <3>1. \E h : h = [s \in SUBSET (1 .. NrFields) |-> Body(loop, h, s)]
      BY <1>1, LoopExists
    <3> QED BY <1>4, <3>1
  <2>3. g = Solution(g)
    BY <2>1, <2>2, Zenon
  <2> QED BY <1>4, <2>3
<1> HIDE DEF g
<1>6. g[1 .. 0] = NVMLStart /\ \A n \in 1 .. NrFields : g[1 .. n] = Step(loop, g[1 .. (n - 1)], n)
  BY <1>1, <1>2, <1>5, LoopStep
<1> QED BY <1>0, <1>1, <1>3, <1>6 DEF g

Kept(failed, n) == {m \in 1 .. n : NVML!FieldValue(m) \notin failed}

Pairs(names, values, I) == {<<names[j], values[j]>> : j \in I}

\* d is what the first n turns leave.
Scanned(d, failed, n) ==
    /\ d \in [names : Seq(FieldNames), values : Seq(NVML!Fields), default : Nat, i : Nat]
    /\ d.i \in 1 .. (n + 1) /\ d.i - 1 = Cardinality(Kept(failed, n))
    /\ Len(d.names) = d.i - 1 + NrFields - n /\ Len(d.values) = Len(d.names)
    /\ \A j \in d.i .. Len(d.names) : /\ d.names[j] = NVML!field_names_[j - d.i + n + 1]
                                      /\ d.values[j] = NVML!FieldValue(j - d.i + n + 1)
    /\ Pairs(d.names, d.values, 1 .. (d.i - 1)) =
          {<<NVML!field_names_[m], NVML!FieldValue(m)>> : m \in Kept(failed, n)}
    /\ d.default = 1 \/ d.default \in 1 .. (d.i - 1)
    /\ (\E j \in 1 .. (d.i - 1) : d.names[j] = NVML!kDefaultFieldName) =>
          d.default < d.i /\ d.names[d.default] = NVML!kDefaultFieldName

LEMMA RemoveAtFacts ==
    ASSUME NEW S, NEW s \in Seq(S), NEW i \in 1 .. Len(s)
    PROVE  LET r == NVML!RemoveAt(s, i)
           IN  /\ r \in Seq(S) /\ Len(r) = Len(s) - 1
               /\ \A j \in 1 .. (Len(s) - 1) : r[j] = IF j < i THEN s[j] ELSE s[j + 1]
<1> DEFINE a == SubSeq(s, 1, i - 1)
           b == SubSeq(s, i + 1, Len(s))
<1>1. a \in Seq(S) /\ Len(a) = i - 1 /\ \A j \in 1 .. (i - 1) : a[j] = s[j]
  OBVIOUS
<1>2. b \in Seq(S) /\ Len(b) = Len(s) - i /\ \A j \in 1 .. (Len(s) - i) : b[j] = s[j + i]
  OBVIOUS
<1>3. NVML!RemoveAt(s, i) = a \o b
  BY DEF NVML!RemoveAt
<1> HIDE DEF a, b
<1>4. /\ a \o b \in Seq(S) /\ Len(a \o b) = Len(s) - 1
      /\ \A j \in 1 .. (Len(s) - 1) : (a \o b)[j] = IF j < i THEN a[j] ELSE b[j - (i - 1)]
  <2>0. a \in Seq(S) /\ b \in Seq(S)
    BY <1>1, <1>2
  <2>1. a \o b \in Seq(S) /\ Len(a \o b) = Len(a) + Len(b)
    BY <2>0
  <2>2. \A j \in 1 .. (Len(a) + Len(b)) :
           (a \o b)[j] = IF j <= Len(a) THEN a[j] ELSE b[j - Len(a)]
    BY <2>0
  <2>3. Len(a) + Len(b) = Len(s) - 1 /\ Len(a) = i - 1 /\ i \in Int /\ Len(s) \in Int
    BY <1>1, <1>2
  <2>4. ASSUME NEW j \in 1 .. (Len(s) - 1)
        PROVE  (a \o b)[j] = IF j < i THEN a[j] ELSE b[j - (i - 1)]
    <3>1. j \in 1 .. (Len(a) + Len(b)) /\ (j <= Len(a) <=> j < i)
      BY <2>3
    <3> QED BY <2>2, <2>3, <3>1
  <2> QED BY <2>1, <2>3, <2>4
<1>5. ASSUME NEW j \in 1 .. (Len(s) - 1)
      PROVE  (a \o b)[j] = IF j < i THEN s[j] ELSE s[j + 1]
  <2>1. CASE j < i
    BY <1>1, <1>4, <2>1
  <2>2. CASE ~(j < i)
    <3>1. j - (i - 1) \in 1 .. (Len(s) - i) /\ j - (i - 1) + i = j + 1
      BY <2>2
    <3>2. b[j - (i - 1)] = s[j + 1]
      BY <1>2, <3>1
    <3> QED BY <1>4, <2>2, <3>2
  <2> QED BY <2>1, <2>2
<1> QED BY <1>3, <1>4, <1>5

LEMMA KeptStep ==
    ASSUME NEW failed, NEW n \in Nat \ {0}
    PROVE  /\ Cardinality(Kept(failed, n - 1)) \in Nat
           /\ IF NVML!FieldValue(n) \in failed
              THEN Kept(failed, n) = Kept(failed, n - 1)
              ELSE /\ Kept(failed, n) = Kept(failed, n - 1) \cup {n}
                   /\ Cardinality(Kept(failed, n)) = Cardinality(Kept(failed, n - 1)) + 1
<1>1. IsFiniteSet(1 .. (n - 1)) /\ Kept(failed, n - 1) \subseteq 1 .. (n - 1)
  BY FS_Interval DEF Kept
<1>2. IsFiniteSet(Kept(failed, n - 1))
  BY <1>1, FS_Subset
<1>3. n \notin Kept(failed, n - 1) /\ 1 .. n = (1 .. (n - 1)) \cup {n}
  BY DEF Kept
<1>4. CASE NVML!FieldValue(n) \in failed
  BY <1>2, <1>3, <1>4, FS_CardinalityType DEF Kept
<1>5. CASE NVML!FieldValue(n) \notin failed
  <2>1. Kept(failed, n) = Kept(failed, n - 1) \cup {n}
    BY <1>3, <1>5 DEF Kept
  <2> QED BY <1>2, <1>3, <1>5, <2>1, FS_AddElement, FS_CardinalityType
<1> QED BY <1>4, <1>5

\* The turn finds the next field at d.i, with its name and its value.
LEMMA ScanFinds ==
    ASSUME NEW failed, NEW n \in 1 .. NrFields, NEW d, Scanned(d, failed, n - 1)
    PROVE  /\ d.i \in 1 .. n /\ d.i \in 1 .. Len(d.names) /\ d.i \in 1 .. Len(d.values)
           /\ ~(d.i > Len(d.names))
           /\ d.names[d.i] = NVML!field_names_[n] /\ d.values[d.i] = NVML!FieldValue(n)
           /\ Len(d.names) = d.i + NrFields - n /\ Len(d.values) = Len(d.names)
<1>1. NrFields = 6 /\ n \in 1 .. 6 /\ n - 1 + 1 = n
  BY DEF NrFields
<1>2. d.i \in 1 .. n /\ Len(d.names) = d.i - 1 + 6 - (n - 1) /\ Len(d.values) = Len(d.names)
  BY <1>1 DEF Scanned
<1>3. Len(d.names) = d.i + 6 - n /\ d.i \in d.i .. Len(d.names) /\ d.i - d.i + (n - 1) + 1 = n
  BY <1>1, <1>2
<1>4. d.names[d.i] = NVML!field_names_[n] /\ d.values[d.i] = NVML!FieldValue(n)
  BY <1>3 DEF Scanned
<1> QED BY <1>1, <1>2, <1>3, <1>4

LEMMA ScanErases ==
    ASSUME NEW failed, NEW n \in 1 .. NrFields, NEW d, Scanned(d, failed, n - 1),
           NVML!FieldValue(n) \in failed
    PROVE  Scanned(NVML!Scan(d, failed), failed, n)
<1> DEFINE e == NVML!Scan(d, failed)
           i == d.i
<1>0. d \in [names : Seq(FieldNames), values : Seq(NVML!Fields), default : Nat, i : Nat]
  BY DEF Scanned
<1>1. /\ i \in 1 .. n /\ i \in 1 .. Len(d.names) /\ i \in 1 .. Len(d.values)
      /\ ~(d.i > Len(d.names)) /\ d.values[i] \in failed
      /\ Len(d.names) = i + NrFields - n /\ Len(d.values) = Len(d.names)
  BY ScanFinds
<1>2. e = [d EXCEPT !.names = NVML!RemoveAt(d.names, i), !.values = NVML!RemoveAt(d.values, i)]
  BY <1>1 DEF NVML!Scan
<1>3. /\ e.names = NVML!RemoveAt(d.names, i) /\ e.values = NVML!RemoveAt(d.values, i)
      /\ e.default = d.default /\ e.i = i
      /\ e = [names |-> e.names, values |-> e.values, default |-> e.default, i |-> e.i]
  BY <1>0, <1>2
<1> HIDE DEF e, i
<1>4. /\ e.names \in Seq(FieldNames) /\ Len(e.names) = Len(d.names) - 1
      /\ \A j \in 1 .. (Len(d.names) - 1) :
            e.names[j] = IF j < i THEN d.names[j] ELSE d.names[j + 1]
  BY <1>0, <1>1, <1>3, RemoveAtFacts
<1>5. /\ e.values \in Seq(NVML!Fields) /\ Len(e.values) = Len(d.values) - 1
      /\ \A j \in 1 .. (Len(d.values) - 1) :
            e.values[j] = IF j < i THEN d.values[j] ELSE d.values[j + 1]
  BY <1>0, <1>1, <1>3, RemoveAtFacts
<1>6. NrFields = 6 /\ n \in 1 .. 6 /\ n \in Nat \ {0}
  BY DEF NrFields
<1>7. Kept(failed, n) = Kept(failed, n - 1)
  BY <1>6, KeptStep
<1>8. e \in [names : Seq(FieldNames), values : Seq(NVML!Fields), default : Nat, i : Nat]
  BY <1>0, <1>1, <1>3, <1>4, <1>5
<1>9. e.i \in 1 .. (n + 1) /\ e.i - 1 = Cardinality(Kept(failed, n))
  BY <1>1, <1>3, <1>6, <1>7 DEF Scanned, i
<1>10. Len(e.names) = e.i - 1 + NrFields - n /\ Len(e.values) = Len(e.names)
  BY <1>1, <1>3, <1>4, <1>5, <1>6
<1>11. ASSUME NEW j \in e.i .. Len(e.names)
       PROVE  /\ e.names[j] = NVML!field_names_[j - e.i + n + 1]
              /\ e.values[j] = NVML!FieldValue(j - e.i + n + 1)
  <2>1. /\ j \in 1 .. (Len(d.names) - 1) /\ j \in 1 .. (Len(d.values) - 1) /\ ~(j < i)
        /\ j + 1 \in i .. Len(d.names) /\ (j + 1) - i + (n - 1) + 1 = j - i + n + 1
    BY <1>1, <1>3, <1>4, <1>6
  <2>2. e.names[j] = d.names[j + 1] /\ e.values[j] = d.values[j + 1]
    BY <1>4, <1>5, <2>1
  <2>3. /\ d.names[j + 1] = NVML!field_names_[(j + 1) - i + (n - 1) + 1]
        /\ d.values[j + 1] = NVML!FieldValue((j + 1) - i + (n - 1) + 1)
    BY <2>1 DEF Scanned, i
  <2> QED BY <1>3, <2>1, <2>2, <2>3
<1>12. ASSUME NEW j \in 1 .. (i - 1) PROVE e.names[j] = d.names[j] /\ e.values[j] = d.values[j]
  <2>1. j \in 1 .. (Len(d.names) - 1) /\ j \in 1 .. (Len(d.values) - 1) /\ j < i
    BY <1>1
  <2> QED BY <1>4, <1>5, <2>1
<1>13. Pairs(e.names, e.values, 1 .. (e.i - 1)) = Pairs(d.names, d.values, 1 .. (i - 1))
  BY <1>3, <1>12 DEF Pairs
<1>14. e.default = 1 \/ e.default \in 1 .. (e.i - 1)
  BY <1>3 DEF Scanned, i
<1>15. (\E j \in 1 .. (e.i - 1) : e.names[j] = NVML!kDefaultFieldName) =>
           e.default < e.i /\ e.names[e.default] = NVML!kDefaultFieldName
  <2> SUFFICES ASSUME NEW j \in 1 .. (i - 1), e.names[j] = NVML!kDefaultFieldName
               PROVE  e.default < i /\ e.names[e.default] = NVML!kDefaultFieldName
    BY <1>3
  <2>1. d.default < i /\ d.names[d.default] = NVML!kDefaultFieldName
    BY <1>12 DEF Scanned, i
  <2>2. d.default \in 1 .. (i - 1)
    BY <1>1, <2>1 DEF Scanned, i
  <2> QED BY <1>3, <1>12, <2>1, <2>2
<1>16. Pairs(d.names, d.values, 1 .. (i - 1)) =
          {<<NVML!field_names_[m], NVML!FieldValue(m)>> : m \in Kept(failed, n)}
  BY <1>7 DEF Scanned, i
<1>17. Scanned(e, failed, n)
  BY <1>8, <1>9, <1>10, <1>11, <1>13, <1>14, <1>15, <1>16 DEF Scanned
<1> QED BY <1>17 DEF e

LEMMA ScanKeeps ==
    ASSUME NEW failed, NEW n \in 1 .. NrFields, NEW d, Scanned(d, failed, n - 1),
           NVML!FieldValue(n) \notin failed
    PROVE  Scanned(NVML!Scan(d, failed), failed, n)
<1> DEFINE e == NVML!Scan(d, failed)
           i == d.i
<1>0. d \in [names : Seq(FieldNames), values : Seq(NVML!Fields), default : Nat, i : Nat]
  BY DEF Scanned
<1>1. /\ i \in 1 .. n /\ i \in 1 .. Len(d.names)
      /\ ~(d.i > Len(d.names)) /\ d.values[i] \notin failed
      /\ d.names[i] = NVML!field_names_[n] /\ d.values[i] = NVML!FieldValue(n)
      /\ Len(d.names) = i + NrFields - n /\ Len(d.values) = Len(d.names)
  BY ScanFinds
<1>2. e = [d EXCEPT !.default = IF d.names[d.i] = NVML!kDefaultFieldName THEN d.i ELSE d.default,
                    !.i = d.i + 1]
  BY <1>1 DEF NVML!Scan
<1>3. /\ e.names = d.names /\ e.values = d.values /\ e.i = i + 1
      /\ e.default = IF d.names[i] = NVML!kDefaultFieldName THEN i ELSE d.default
      /\ e = [names |-> e.names, values |-> e.values, default |-> e.default, i |-> e.i]
  BY <1>0, <1>2
<1> HIDE DEF e, i
<1>4. NrFields = 6 /\ n \in 1 .. 6 /\ n \in Nat \ {0} /\ e.i - 1 = i /\ i \in Nat
  BY <1>1, <1>3 DEF NrFields
<1>5. /\ Kept(failed, n) = Kept(failed, n - 1) \cup {n}
      /\ Cardinality(Kept(failed, n)) = Cardinality(Kept(failed, n - 1)) + 1
      /\ Cardinality(Kept(failed, n - 1)) \in Nat
  BY <1>4, KeptStep
<1>6. e \in [names : Seq(FieldNames), values : Seq(NVML!Fields), default : Nat, i : Nat]
  BY <1>0, <1>3, <1>4
<1>7. e.i \in 1 .. (n + 1) /\ e.i - 1 = Cardinality(Kept(failed, n))
  <2>1. i - 1 = Cardinality(Kept(failed, n - 1))
    BY DEF Scanned, i
  <2>2. Cardinality(Kept(failed, n)) = i
    BY <1>4, <1>5, <2>1
  <2>3. i + 1 \in 1 .. (n + 1)
    BY <1>1, <1>4
  <2> QED BY <1>3, <1>4, <2>2, <2>3
<1>8. Len(e.names) = e.i - 1 + NrFields - n /\ Len(e.values) = Len(e.names)
  BY <1>1, <1>3, <1>4
<1>9. ASSUME NEW j \in e.i .. Len(e.names)
      PROVE  /\ e.names[j] = NVML!field_names_[j - e.i + n + 1]
             /\ e.values[j] = NVML!FieldValue(j - e.i + n + 1)
  <2>1. j \in i .. Len(d.names) /\ j - i + (n - 1) + 1 = j - e.i + n + 1
    <3>0. j \in e.i .. Len(e.names) /\ e.i = i + 1 /\ Len(e.names) = Len(d.names)
      BY <1>3
    <3>1. j \in (i + 1) .. Len(d.names) /\ i \in 1 .. 6 /\ n \in 1 .. 6 /\ Len(d.names) \in Int
      <4>1. n \in 1 .. 6 /\ i \in 1 .. 6
        BY <1>1, <1>4
      <4>2. Len(d.names) = i + 6 - n
        BY <1>1, <1>4
      <4> QED BY <3>0, <4>1, <4>2
    <3>2. j \in i .. Len(d.names) /\ j \in Int
      BY <3>1
    <3> QED BY <1>3, <3>1, <3>2
  <2>2. /\ d.names[j] = NVML!field_names_[j - i + (n - 1) + 1]
        /\ d.values[j] = NVML!FieldValue(j - i + (n - 1) + 1)
    BY <2>1 DEF Scanned, i
  <2> QED BY <1>3, <2>1, <2>2
<1>10. Pairs(e.names, e.values, 1 .. (e.i - 1)) =
          {<<NVML!field_names_[m], NVML!FieldValue(m)>> : m \in Kept(failed, n)}
  <2>1. 1 .. (e.i - 1) = (1 .. (i - 1)) \cup {i}
    BY <1>1, <1>4
  <2>2. Pairs(e.names, e.values, 1 .. (e.i - 1)) =
           Pairs(d.names, d.values, 1 .. (i - 1)) \cup {<<d.names[i], d.values[i]>>}
    BY <1>3, <2>1 DEF Pairs
  <2>3. Pairs(d.names, d.values, 1 .. (i - 1)) =
           {<<NVML!field_names_[m], NVML!FieldValue(m)>> : m \in Kept(failed, n - 1)}
    BY DEF Scanned, i
  <2> QED BY <1>1, <1>5, <2>2, <2>3
<1>11. d.default = 1 \/ d.default \in 1 .. (i - 1)
  BY DEF Scanned, i
<1>12. e.default = 1 \/ e.default \in 1 .. (e.i - 1)
  BY <1>1, <1>3, <1>4, <1>11
<1>13. (\E j \in 1 .. (e.i - 1) : e.names[j] = NVML!kDefaultFieldName) =>
           e.default < e.i /\ e.names[e.default] = NVML!kDefaultFieldName
  <2> SUFFICES ASSUME NEW j \in 1 .. i, d.names[j] = NVML!kDefaultFieldName
               PROVE  e.default < i + 1 /\ d.names[e.default] = NVML!kDefaultFieldName
    BY <1>3, <1>4
  <2>1. CASE d.names[i] = NVML!kDefaultFieldName
    BY <1>3, <1>4, <2>1
  <2>2. CASE d.names[i] # NVML!kDefaultFieldName
    <3>1. j \in 1 .. (i - 1)
      BY <1>4, <2>2
    <3>2. d.default < i /\ d.names[d.default] = NVML!kDefaultFieldName
      BY <3>1 DEF Scanned, i
    <3>3. d.default \in Nat
      BY <1>0
    <3> QED BY <1>3, <1>4, <2>2, <3>2, <3>3
  <2> QED BY <2>1, <2>2
<1>14. Scanned(e, failed, n)
  BY <1>6, <1>7, <1>8, <1>9, <1>10, <1>12, <1>13 DEF Scanned
<1> QED BY <1>14 DEF e

LEMMA InitializeScans ==
    ASSUME NEW failed
    PROVE  Scanned(NVML!Initialize(failed), failed, NrFields)
<1> DEFINE g == NVMLTurns(failed)
           P == {n \in 0 .. NrFields : Scanned(g[1 .. n], failed, n)}
<1>0. NrFields = 6
  BY DEF NrFields
<1>1. 0 \in P
  <2>1. g[1 .. 0] = NVMLStart /\ 0 \in 0 .. NrFields
    BY <1>0, NVMLTurnsStep
  <2>2. /\ NVML!field_names_ \in Seq(FieldNames) /\ Len(NVML!field_names_) = 6
        /\ DOMAIN NVML!field_names_ = 1 .. 6
    <3>1. Len(NVML!field_names_) = 6 /\ DOMAIN NVML!field_names_ = 1 .. 6
      BY DEF NVML!field_names_
    <3>2. NVML!field_names_ = [m \in 1 .. 6 |-> NVML!field_names_[m]]
      BY DEF NVML!field_names_
    <3>3. \A m \in 1 .. 6 : NVML!field_names_[m] \in FieldNames
      BY <1>0 DEF FieldNames
    <3>4. [m \in 1 .. 6 |-> NVML!field_names_[m]] \in Seq(FieldNames)
      BY <3>3
    <3> QED BY <3>1, <3>2, <3>4
  <2> DEFINE values == [i \in 1 .. 6 |-> NVML!FieldValue(i)]
  <2>3. values \in Seq(NVML!Fields) /\ Len(values) = 6
    <3>1. \A i \in 1 .. 6 : NVML!FieldValue(i) \in NVML!Fields
      BY <2>2 DEF NVML!Fields
    <3> QED BY <3>1
  <2>4. NVMLStart = [names |-> NVML!field_names_, values |-> values, default |-> 1, i |-> 1]
    BY <2>2 DEF NVMLStart
  <2>5. /\ NVMLStart.names = NVML!field_names_ /\ NVMLStart.values = values
        /\ NVMLStart.default = 1 /\ NVMLStart.i = 1
        /\ NVMLStart \in [names : Seq(FieldNames), values : Seq(NVML!Fields), default : Nat, i : Nat]
    <3> HIDE DEF values
    <3> QED BY <2>2, <2>3, <2>4
  <2>6. Kept(failed, 0) = {} /\ Cardinality(Kept(failed, 0)) = 0
    BY FS_EmptySet DEF Kept
  <2>7. ASSUME NEW j \in 1 .. 6
        PROVE  /\ NVMLStart.names[j] = NVML!field_names_[j - 1 + 0 + 1]
               /\ NVMLStart.values[j] = NVML!FieldValue(j - 1 + 0 + 1)
    <3>1. j - 1 + 0 + 1 = j
      OBVIOUS
    <3> QED BY <2>5, <3>1
  <2>8. 1 .. (1 - 1) = {} /\ 1 \in 1 .. (0 + 1) /\ 1 - 1 = 0 /\ 6 = 1 - 1 + 6 - 0
    OBVIOUS
  <2>9. Pairs(NVMLStart.names, NVMLStart.values, {}) = {}
    BY DEF Pairs
  <2> HIDE DEF values
  <2>10. Scanned(NVMLStart, failed, 0)
    BY <1>0, <2>2, <2>3, <2>5, <2>6, <2>7, <2>8, <2>9 DEF Scanned
  <2> QED BY <2>1, <2>10
<1>2. ASSUME NEW n \in 1 .. NrFields, n - 1 \in P PROVE n \in P
  <2>1. g[1 .. n] = NVML!Scan(g[1 .. (n - 1)], failed) /\ n \in 0 .. NrFields
    <3>1. g[1 .. n] = NVML!Scan(g[1 .. (n - 1)], failed)
      BY NVMLTurnsStep
    <3> QED BY <1>0, <3>1
  <2>2. Scanned(g[1 .. (n - 1)], failed, n - 1)
    BY <1>2
  <2>3. Scanned(g[1 .. n], failed, n)
    BY <2>1, <2>2, ScanErases, ScanKeeps
  <2> QED BY <2>1, <2>3
<1> HIDE DEF P
<1>3. NrFields \in P
  BY <1>0, <1>1, <1>2, Reaches
<1> QED BY <1>3, NVMLTurnsStep DEF P

LEMMA SwapFacts ==
    ASSUME NEW S, NEW s \in Seq(S), NEW k \in Nat, Len(s) # 0 => k \in 1 .. Len(s)
    PROVE  /\ DOMAIN NVML!SwapFirst(s, k) = 1 .. Len(s) /\ Len(NVML!SwapFirst(s, k)) = Len(s)
           /\ \A j \in 1 .. Len(s) :
                 NVML!SwapFirst(s, k)[j] = s[IF j = 1 THEN k ELSE IF j = k THEN 1 ELSE j]
<1>1. DOMAIN s = 1 .. Len(s) /\ Len(s) \in Nat
  OBVIOUS
<1>2. DOMAIN NVML!SwapFirst(s, k) = 1 .. Len(s)
  BY <1>1 DEF NVML!SwapFirst
<1>3. ASSUME NEW j \in 1 .. Len(s)
      PROVE  NVML!SwapFirst(s, k)[j] = s[IF j = 1 THEN k ELSE IF j = k THEN 1 ELSE j]
  BY <1>1 DEF NVML!SwapFirst
<1>4. NVML!SwapFirst(s, k) \in Seq(S)
  <2>1. ASSUME NEW j \in 1 .. Len(s) PROVE NVML!SwapFirst(s, k)[j] \in S
    <3>1. (IF j = 1 THEN k ELSE IF j = k THEN 1 ELSE j) \in 1 .. Len(s)
      BY <1>1
    <3>2. \A m \in 1 .. Len(s) : s[m] \in S
      OBVIOUS
    <3> QED BY <1>3, <3>1, <3>2
  <2>2. NVML!SwapFirst(s, k) = [j \in 1 .. Len(s) |-> NVML!SwapFirst(s, k)[j]]
    BY <1>1 DEF NVML!SwapFirst
  <2> DEFINE f == [j \in 1 .. Len(s) |-> NVML!SwapFirst(s, k)[j]]
  <2>3. f \in Seq(S)
    BY <1>1, <2>1
  <2> HIDE DEF f
  <2>4. NVML!SwapFirst(s, k) = f
    BY <2>2 DEF f
  <2> QED BY <2>3, <2>4
<1>5. Len(NVML!SwapFirst(s, k)) = Len(s)
  BY <1>1, <1>2, <1>4
<1> QED BY <1>2, <1>3, <1>5

LEMMA ScannedReports ==
    ASSUME NEW failed, NEW d, Scanned(d, failed, NrFields)
    PROVE  NVML!ReportsEachField(d, failed)
<1> DEFINE state == NVML!GetState(d)
           L == Len(d.names)
           k == d.default
           At(j) == IF j = 1 THEN k ELSE IF j = k THEN 1 ELSE j
<1>0. NrFields = 6 /\ DOMAIN NVML!field_names_ = 1 .. 6
  BY DEF NrFields, NVML!field_names_
<1>1. /\ d.names \in Seq(FieldNames) /\ d.values \in Seq(NVML!Fields) /\ k \in Nat /\ d.i \in Nat
      /\ L = d.i - 1 /\ Len(d.values) = L /\ L = Cardinality(Kept(failed, 6))
      /\ Pairs(d.names, d.values, 1 .. L) =
            {<<NVML!field_names_[m], NVML!FieldValue(m)>> : m \in Kept(failed, 6)}
      /\ k = 1 \/ k \in 1 .. L
      /\ (\E j \in 1 .. L : d.names[j] = NVML!kDefaultFieldName) =>
            k <= L /\ d.names[k] = NVML!kDefaultFieldName
  <2>1. d.i \in 1 .. 7 /\ L = d.i - 1 + 6 - 6
    BY <1>0 DEF Scanned
  <2>2. L = d.i - 1 /\ (k < d.i /\ k \in Nat => k <= L)
    BY <2>1
  <2>3. k \in Nat
    BY DEF Scanned
  <2> HIDE DEF k, L
  <2> QED BY <1>0, <2>2, <2>3 DEF Scanned, k, L
<1>2. L \in Nat /\ (L # 0 => k \in 1 .. L)
  BY <1>1
<1>3. /\ DOMAIN state.name = 1 .. L /\ Len(state.name) = L
      /\ \A j \in 1 .. L : state.name[j] = d.names[At(j)]
  BY <1>1, <1>2, SwapFacts DEF NVML!GetState
<1>4. \A j \in 1 .. L : state.watt[j] = d.values[At(j)]
  <2>1. state.watt = NVML!SwapFirst(d.values, k)
    BY DEF NVML!GetState
  <2>2. d.values \in Seq(NVML!Fields) /\ Len(d.values) = L /\ k \in Nat
    BY <1>1
  <2> HIDE DEF L, k, state
  <2>3. \A j \in 1 .. L : NVML!SwapFirst(d.values, k)[j] = d.values[At(j)]
    BY <1>2, <2>2, SwapFacts
  <2> QED BY <2>1, <2>3
<1>5. \A j \in 1 .. L : At(j) \in 1 .. L /\ At(At(j)) = j
  BY <1>2
<1> HIDE DEF At, L, k, state
<1>6. {<<state.name[j], state.watt[j]>> : j \in DOMAIN state.name} = Pairs(d.names, d.values, 1 .. L)
  <2>1. ASSUME NEW j \in 1 .. L
        PROVE  <<state.name[j], state.watt[j]>> \in Pairs(d.names, d.values, 1 .. L)
    BY <1>3, <1>4, <1>5 DEF Pairs
  <2>2. ASSUME NEW j \in 1 .. L
        PROVE  <<d.names[j], d.values[j]>> \in
                  {<<state.name[m], state.watt[m]>> : m \in DOMAIN state.name}
    <3>1. At(j) \in DOMAIN state.name /\ At(At(j)) = j
      BY <1>3, <1>5
    <3>2. state.name[At(j)] = d.names[j] /\ state.watt[At(j)] = d.values[j]
      BY <1>3, <1>4, <1>5, <3>1
    <3> QED BY <3>1, <3>2
  <2> QED BY <1>3, <2>1, <2>2 DEF Pairs
<1> DEFINE kept == {i \in DOMAIN NVML!field_names_ : NVML!FieldValue(i) \notin failed}
<1>7. kept = Kept(failed, 6)
  BY <1>0 DEF Kept
<1>8. Len(state.name) = NVML!Cardinality(kept)
  <2>1. NVML!Cardinality(kept) = Cardinality(kept)
    BY DEF NVML!Cardinality, Cardinality
  <2> HIDE DEF kept
  <2> QED BY <1>1, <1>3, <1>7, <2>1
<1>9. ASSUME NVML!kDefaultFieldName \in NVML!ToSet(state.name)
      PROVE  state.name[1] = NVML!kDefaultFieldName
  <2>1. PICK j \in 1 .. L : state.name[j] = NVML!kDefaultFieldName
    BY <1>3, <1>9 DEF NVML!ToSet
  <2>2. At(j) \in 1 .. L /\ d.names[At(j)] = NVML!kDefaultFieldName
    BY <1>3, <1>5, <2>1
  <2>3. d.names[k] = NVML!kDefaultFieldName
    BY <1>1, <2>2
  <2>4. 1 \in 1 .. L /\ At(1) = k
    BY <1>2, <2>1 DEF At
  <2> QED BY <1>3, <2>3, <2>4
<1> HIDE DEF kept
<1>10. {<<state.name[j], state.watt[j]>> : j \in DOMAIN state.name} =
          {<<NVML!field_names_[i], NVML!FieldValue(i)>> : i \in kept}
  BY <1>1, <1>6, <1>7
<1> QED BY <1>8, <1>9, <1>10 DEF state, kept, NVML!ReportsEachField

\* Whichever fields fail, but not all: each of the others is reported once, under its own
\* name and with its own value, and gpu_instant comes first (NVMLImpl.cpp:51-61, 81-88).
THEOREM NVMLReportsEachFieldCorrect == Spec => []NVMLReportsEachField
<1>1. IInv => NVMLReportsEachField
  <2> SUFFICES ASSUME IInv, created, backend = "nvml"
               PROVE  NVML!ReportsEachField(pmt, environment)
    BY DEF NVMLReportsEachField, Made
  <2>1. pmt = NVMLObject
    BY DEF IInv
  <2> QED BY <2>1, InitializeScans, ScannedReports DEF NVMLObject
<1> QED BY <1>1, Inductive, PTL

-----------------------------------------------------------------------------
(* Create(). *)

LEMMA CreateDevice ==
    ASSUME NEW name \in Maker!WithNumber, NEW device \in Nat, NEW python \in BOOLEAN,
           NEW pmt_device, NEW built, name \in built, NEW integrated
    PROVE  Maker!GivesDevice(
              Maker!Create(name, IF python THEN Maker!PythonArgument(device)
                                           ELSE Maker!CxxArgument(device),
                           pmt_device, built, integrated),
              name, device, pmt_device, built, integrated)
<1> DEFINE argument == IF python THEN Maker!PythonArgument(device) ELSE Maker!CxxArgument(device)
           made == Maker!WithDevice(name, device, pmt_device, built, integrated)
<1>0. name \in built /\ name \in {"nvml", "nvidia", "amdsmi", "rocm"}
  BY DEF Maker!WithNumber
<1>1. \/ argument = <<"number", device>>
      \/ argument = <<"none">> /\ device = 0
  BY DEF Maker!PythonArgument, Maker!CxxArgument
<1> HIDE DEF argument, made
<1>2. Maker!Create(name, argument, pmt_device, built, integrated) = made
  <2>1. CASE argument = <<"number", device>>
    <3>1. argument[1] = "number" /\ argument[2] = device
      BY <2>1
    <3> QED BY <1>0, <3>1 DEF Maker!Create, made
  <2>2. CASE argument = <<"none">> /\ device = 0
    <3>1. argument[1] = "none"
      BY <2>2
    <3> QED BY <1>0, <2>2, <3>1 DEF Maker!Create, made
  <2> QED BY <1>1, <2>1, <2>2
<1> SUFFICES Maker!GivesDevice(made, name, device, pmt_device, built, integrated)
  BY <1>2 DEF argument
<1> DEFINE number == IF pmt_device # Maker!NoDevice THEN pmt_device ELSE device
<1>3. ASSUME made = Maker!PMT("nvml", number), name \in {"nvml", "nvidia"}
      PROVE  Maker!GivesDevice(made, name, device, pmt_device, built, integrated)
  <2>1. made.backend = "nvml" /\ made.device = number
    BY <1>3 DEF Maker!PMT
  <2> QED BY <1>3, <2>1 DEF Maker!GivesDevice
<1>4. CASE name = "nvml"
  <2>1. made = Maker!PMT("nvml", number)
    BY <1>4 DEF made, Maker!WithDevice, Maker!NVML
  <2> QED BY <1>3, <1>4, <2>1
<1>5. CASE name = "nvidia"
  <2>1. made = Maker!NVIDIA(device, pmt_device, built, integrated)
    BY <1>5 DEF made, Maker!WithDevice
  <2>2. CASE "tegra" \in built /\ device \in integrated
    <3>1. made.backend = "tegra"
      BY <2>1, <2>2 DEF Maker!NVIDIA, Maker!PMT
    <3> QED BY <1>5, <2>2, <3>1 DEF Maker!GivesDevice
  <2>3. CASE ~("tegra" \in built /\ device \in integrated) /\ "nvml" \in built
    <3>1. made = Maker!PMT("nvml", number)
      BY <2>1, <2>3 DEF Maker!NVIDIA, Maker!NVML
    <3> QED BY <1>3, <1>5, <3>1
  <2>4. CASE ~("tegra" \in built /\ device \in integrated) /\ "nvml" \notin built
    <3>1. made.backend = "runtime_error"
      BY <2>1, <2>4 DEF Maker!NVIDIA, Maker!Failure, Maker!PMT
    <3> QED BY <1>5, <2>4, <3>1 DEF Maker!GivesDevice
  <2> QED BY <2>2, <2>3, <2>4
<1>6. CASE name \in {"amdsmi", "rocm"}
  <2>1. made = Maker!PMT(name, device)
    BY <1>6 DEF made, Maker!WithDevice
  <2>2. made.backend = name
    BY <2>1 DEF Maker!PMT
  <2> QED BY <1>6, <2>1, <2>2 DEF Maker!GivesDevice
<1> QED BY <1>0, <1>4, <1>5, <1>6

\* Whatever was built and whatever PMT_DEVICE says: asked for a device, Create() gives it
\* or the one of PMT_DEVICE (PMT.cpp:220-285, NVIDIA.cpp:32-45).
THEOREM CreateGivesDeviceCorrect == Spec => []CreateGivesDevice
<1>1. IInv => CreateGivesDevice
  <2> SUFFICES ASSUME IInv, created, backend = "factory"
               PROVE  Maker!GivesDevice(pmt, environment.name, environment.device,
                                        environment.PMT_DEVICE, environment.built,
                                        environment.integrated)
    BY DEF CreateGivesDevice, Made
  <2>1. /\ environment.name \in Maker!WithNumber /\ environment.device \in Nat
        /\ environment.python \in BOOLEAN
    BY DEF IInv, Environments
  <2>2. environment.name \in environment.built
    BY DEF IInv, Possible
  <2>3. pmt = FactoryObject
    BY DEF IInv
  <2> QED BY <2>1, <2>2, <2>3, CreateDevice DEF FactoryObject
<1> QED BY <1>1, Inductive, PTL

-----------------------------------------------------------------------------
(* Cray. A loop that keeps some of the elements of a sequence keeps them   *)
(* in its order, so that the files of a kind are sorted because they are   *)
(* kept from the sequence of all names.                                    *)

KeepTurns(s, set) ==
    CHOOSE g : g = [t \in SUBSET DOMAIN s |->
                      IF t = {} THEN <<>>
                      ELSE IF s[Largest(t)] \in set
                           THEN Append(g[t \ {Largest(t)}], s[Largest(t)])
                           ELSE g[t \ {Largest(t)}]]

LEMMA KeepTurnsStep ==
    ASSUME NEW S, NEW s \in Seq(S), NEW set
    PROVE  LET g == KeepTurns(s, set)
           IN  /\ Cray!Keep(s, set) = g[1 .. Len(s)]
               /\ g[1 .. 0] = <<>>
               /\ \A n \in 1 .. Len(s) :
                     g[1 .. n] = IF s[n] \in set THEN Append(g[1 .. (n - 1)], s[n])
                                                 ELSE g[1 .. (n - 1)]
<1> DEFINE g == KeepTurns(s, set)
           loop == [of |-> "cray", files |-> s, kept |-> set]
           Turn(x, n) == IF s[n] \in set THEN Append(x, s[n]) ELSE x
<1>0. Cray!Keep(s, set) = KeepTurns(s, set)[DOMAIN s]
  BY DEF Cray!Keep, Cray!FoldLeft, Cray!MapThenFoldSet, Cray!Max, KeepTurns, Largest
<1>1. DOMAIN s = 1 .. Len(s) /\ Len(s) \in Nat
  OBVIOUS
<1>2. Start(loop) = <<>>
  BY DEF Start
<1>3. \A x, n : Step(loop, x, n) = Turn(x, n)
  BY DEF Step
<1> HIDE DEF loop
<1> DEFINE Solution(h) == [t \in SUBSET DOMAIN s |->
                             IF t = {} THEN <<>>
                             ELSE IF s[Largest(t)] \in set
                                  THEN Append(h[t \ {Largest(t)}], s[Largest(t)])
                                  ELSE h[t \ {Largest(t)}]]
<1>4. \A h : [t \in SUBSET (1 .. Len(s)) |-> Body(loop, h, t)] = Solution(h)
  BY <1>1, <1>2, <1>3 DEF Body
<1>5. g = [t \in SUBSET (1 .. Len(s)) |-> Body(loop, g, t)]
  <2>1. g = CHOOSE h : h = Solution(h)
    BY Zenon DEF KeepTurns
  <2> HIDE DEF Solution, g
  <2>2. \E h : h = Solution(h)
    <3>1. \E h : h = [t \in SUBSET (1 .. Len(s)) |-> Body(loop, h, t)]
      BY <1>1, LoopExists
    <3> QED BY <1>4, <3>1
  <2>3. g = Solution(g)
    BY <2>1, <2>2, Zenon
  <2> QED BY <1>4, <2>3
<1> HIDE DEF g
<1>6. g[1 .. 0] = <<>> /\ \A n \in 1 .. Len(s) : g[1 .. n] = Step(loop, g[1 .. (n - 1)], n)
  BY <1>1, <1>2, <1>5, LoopStep
<1> QED BY <1>0, <1>1, <1>3, <1>6 DEF g

\* The sequence k is what is kept of the first n elements: its elements come from increasing
\* places, which are all the places of elements of the set.
KeptFrom(k, s, set, n, place) ==
    /\ place \in [1 .. Len(k) -> 1 .. n]
    /\ \A i \in 1 .. Len(k) : k[i] = s[place[i]] /\ k[i] \in set
    /\ \A i, j \in 1 .. Len(k) : i < j => place[i] < place[j]
    /\ \A m \in 1 .. n : s[m] \in set => \E i \in 1 .. Len(k) : place[i] = m

LEMMA KeepPlaces ==
    ASSUME NEW S, NEW s \in Seq(S), NEW set
    PROVE  /\ Cray!Keep(s, set) \in Seq(S)
           /\ \E place : KeptFrom(Cray!Keep(s, set), s, set, Len(s), place)
<1> DEFINE g == KeepTurns(s, set)
           P == {n \in 0 .. Len(s) : g[1 .. n] \in Seq(S) /\ \E place : KeptFrom(g[1 .. n], s, set, n, place)}
<1>1. /\ Cray!Keep(s, set) = g[1 .. Len(s)] /\ g[1 .. 0] = <<>>
      /\ \A n \in 1 .. Len(s) : g[1 .. n] = IF s[n] \in set THEN Append(g[1 .. (n - 1)], s[n])
                                                            ELSE g[1 .. (n - 1)]
  BY KeepTurnsStep
<1> HIDE DEF g
<1>2. 0 \in P
  <2>1. KeptFrom(<<>>, s, set, 0, [i \in 1 .. 0 |-> i])
    BY DEF KeptFrom
  <2>2. <<>> \in Seq(S) /\ 0 \in 0 .. Len(s)
    OBVIOUS
  <2> QED BY <1>1, <2>1, <2>2
<1>3. ASSUME NEW n \in 1 .. Len(s), n - 1 \in P PROVE n \in P
  <2> DEFINE k == g[1 .. (n - 1)]
  <2>1. k \in Seq(S) /\ s[n] \in S /\ n \in 0 .. Len(s) /\ n \in Int
    BY <1>3
  <2>2. PICK place : KeptFrom(k, s, set, n - 1, place)
    BY <1>3
  <2> HIDE DEF k
  <2>3. CASE s[n] \notin set
    <3>1. place \in [1 .. Len(k) -> 1 .. n]
      <4>1. ASSUME NEW i \in 1 .. Len(k) PROVE place[i] \in 1 .. n
        <5>1. place[i] \in 1 .. (n - 1)
          BY <2>2 DEF KeptFrom
        <5> QED BY <2>1, <5>1
      <4> QED BY <2>2, <4>1 DEF KeptFrom
    <3>2. ASSUME NEW m \in 1 .. n, s[m] \in set PROVE m \in 1 .. (n - 1)
      BY <2>1, <2>3, <3>2
    <3>3. KeptFrom(k, s, set, n, place)
      BY <2>2, <3>1, <3>2 DEF KeptFrom
    <3> QED BY <1>1, <2>1, <2>3, <3>3 DEF k
  <2>4. CASE s[n] \in set
    <3> DEFINE h == Append(k, s[n])
               l == Len(k)
               next == [i \in 1 .. (l + 1) |-> IF i = l + 1 THEN n ELSE place[i]]
    <3>1. h \in Seq(S) /\ l \in Nat /\ Len(h) = l + 1 /\ h[l + 1] = s[n]
          /\ \A i \in 1 .. l : h[i] = k[i]
      BY <2>1
    <3> HIDE DEF h
    <3>2. next \in [1 .. (l + 1) -> 1 .. n]
      BY <2>1, <2>2, <3>1 DEF KeptFrom
    <3>3. \A i \in 1 .. (l + 1) : h[i] = s[next[i]] /\ h[i] \in set
      BY <2>2, <2>4, <3>1 DEF KeptFrom
    <3>4. ASSUME NEW i \in 1 .. (l + 1), NEW j \in 1 .. (l + 1), i < j
          PROVE  next[i] < next[j]
      <4>1. i \in 1 .. l /\ next[i] = place[i] /\ place[i] \in 1 .. (n - 1)
        BY <2>2, <3>1, <3>4 DEF KeptFrom
      <4>2. CASE j = l + 1
        BY <2>1, <4>1, <4>2
      <4>3. CASE j # l + 1
        <5>1. j \in 1 .. l /\ next[j] = place[j]
          BY <3>1, <4>3
        <5>2. place[i] < place[j]
          BY <2>2, <3>4, <4>1, <5>1 DEF KeptFrom
        <5> QED BY <4>1, <5>1, <5>2
      <4> QED BY <4>2, <4>3
    <3>5. ASSUME NEW m \in 1 .. n, s[m] \in set PROVE \E i \in 1 .. (l + 1) : next[i] = m
      <4>1. CASE m = n
        BY <3>1, <4>1
      <4>2. CASE m # n
        <5>1. m \in 1 .. (n - 1)
          BY <2>1, <4>2
        <5>2. PICK i \in 1 .. l : place[i] = m
          BY <2>2, <3>5, <5>1 DEF KeptFrom
        <5>3. i \in 1 .. (l + 1) /\ i # l + 1
          BY <3>1
        <5> QED BY <5>2, <5>3
      <4> QED BY <4>1, <4>2
    <3>6. KeptFrom(h, s, set, n, next)
      BY <3>1, <3>2, <3>3, <3>4, <3>5 DEF KeptFrom
    <3> QED BY <1>1, <2>1, <2>4, <3>1, <3>6 DEF h, k
  <2> QED BY <2>3, <2>4
<1> HIDE DEF P
<1>4. Len(s) \in P
  <2>1. Len(s) \in Nat /\ Len(s) \in 0 .. Len(s)
    OBVIOUS
  <2>2. \A k \in 0 .. Len(s) : k \in P
    BY <1>2, <1>3, <2>1, Reaches
  <2> QED BY <2>1, <2>2
<1> QED BY <1>1, <1>4 DEF P

Injective(s) == \A i, j \in DOMAIN s : s[i] = s[j] => i = j

LEMMA KeepFacts ==
    ASSUME NEW S, NEW s \in Seq(S), Injective(s), NEW set
    PROVE  LET k == Cray!Keep(s, set)
           IN  /\ k \in Seq(S) /\ Injective(k)
               /\ Cray!ToSet(k) = Cray!ToSet(s) \cap set
               /\ \A i, j \in 1 .. Len(k) :
                     i < j => \E m, n \in 1 .. Len(s) : m < n /\ k[i] = s[m] /\ k[j] = s[n]
<1> DEFINE k == Cray!Keep(s, set)
<1>1. k \in Seq(S)
  BY KeepPlaces
<1>2. PICK place : KeptFrom(k, s, set, Len(s), place)
  BY KeepPlaces
<1> HIDE DEF k
<1>3. DOMAIN k = 1 .. Len(k) /\ DOMAIN s = 1 .. Len(s) /\ Len(k) \in Nat /\ Len(s) \in Nat
  BY <1>1
<1>4. \A i \in 1 .. Len(k) : place[i] \in 1 .. Len(s) /\ k[i] = s[place[i]] /\ k[i] \in set
  BY <1>2 DEF KeptFrom
<1>5. \A i, j \in 1 .. Len(k) : i < j => place[i] < place[j]
  BY <1>2 DEF KeptFrom
<1>6. Injective(k)
  <2> SUFFICES ASSUME NEW i \in 1 .. Len(k), NEW j \in 1 .. Len(k), k[i] = k[j] PROVE i = j
    BY <1>3 DEF Injective
  <2>1. place[i] = place[j]
    BY <1>3, <1>4 DEF Injective
  <2>2. ~(i < j) /\ ~(j < i)
    BY <1>4, <1>5, <2>1
  <2> QED BY <1>3, <2>2
<1>7. Cray!ToSet(k) = Cray!ToSet(s) \cap set
  <2>1. ASSUME NEW x \in Cray!ToSet(k) PROVE x \in Cray!ToSet(s) \cap set
    BY <1>3, <1>4 DEF Cray!ToSet
  <2>2. ASSUME NEW x \in Cray!ToSet(s) \cap set PROVE x \in Cray!ToSet(k)
    <3>1. PICK m \in 1 .. Len(s) : x = s[m]
      BY <1>3 DEF Cray!ToSet
    <3>2. PICK i \in 1 .. Len(k) : place[i] = m
      BY <1>2, <3>1 DEF KeptFrom
    <3> QED BY <1>3, <1>4, <3>1, <3>2 DEF Cray!ToSet
  <2> QED BY <2>1, <2>2
<1>8. ASSUME NEW i \in 1 .. Len(k), NEW j \in 1 .. Len(k), i < j
      PROVE  \E m, n \in 1 .. Len(s) : m < n /\ k[i] = s[m] /\ k[j] = s[n]
  BY <1>4, <1>5, <1>8
<1> QED BY <1>1, <1>6, <1>7, <1>8 DEF k

LEMMA ConcatFacts ==
    ASSUME NEW S, NEW a \in Seq(S), NEW b \in Seq(S)
    PROVE  /\ a \o b \in Seq(S) /\ DOMAIN (a \o b) = 1 .. Len(a \o b)
           /\ Len(a) \in Nat /\ Len(b) \in Nat /\ Len(a \o b) = Len(a) + Len(b)
           /\ \A i \in 1 .. Len(a) : (a \o b)[i] = a[i]
           /\ \A i \in 1 .. Len(b) : (a \o b)[Len(a) + i] = b[i]
           /\ \A i \in 1 .. Len(a \o b) : \/ i \in 1 .. Len(a)
                                          \/ \E k \in 1 .. Len(b) : i = Len(a) + k
<1>1. /\ a \o b \in Seq(S) /\ DOMAIN (a \o b) = 1 .. Len(a \o b)
      /\ Len(a) \in Nat /\ Len(b) \in Nat /\ Len(a \o b) = Len(a) + Len(b)
  OBVIOUS
<1>2. \A i \in 1 .. Len(a) : (a \o b)[i] = a[i]
  OBVIOUS
<1>3. \A i \in 1 .. Len(b) : (a \o b)[Len(a) + i] = b[i]
  OBVIOUS
<1>4. ASSUME NEW i \in 1 .. Len(a \o b), i \notin 1 .. Len(a)
      PROVE  \E k \in 1 .. Len(b) : i = Len(a) + k
  <2>1. i - Len(a) \in 1 .. Len(b) /\ i = Len(a) + (i - Len(a))
    BY <1>1, <1>4
  <2> QED BY <2>1
<1> QED BY <1>1, <1>2, <1>3, <1>4

NrAccel == 2 * Accelerators

AccelNames ==
    [i \in 1 .. NrAccel |->
        Cray!File("accel", (i - 1) \div 2, IF i % 2 = 1 THEN "power" ELSE "cap")]

OtherNames ==
    <<Cray!File("cpu", 0, "energy"), Cray!File("cpu", 0, "power"), Cray!File("hdd", 0, "power"),
      Cray!File("memory", 0, "power"), Cray!File("node", 0, "power"), Cray!File("node", 0, "cap")>>

LEMMA NamesFacts ==
    /\ Cray!Alphabetical \in Seq(Cray!Files)
    /\ Injective(Cray!Alphabetical)
    /\ Cray!Files = Cray!ToSet(Cray!Alphabetical)
    /\ \A f \in Cray!Files :
          /\ f.kind \in {"accel", "cpu", "hdd", "memory", "node"}
          /\ f.kind = "node" /\ f \in Cray!Counters => f = Cray!Node
    /\ Cray!Node \in Cray!Files /\ Cray!Node.kind = "node"
<1> DEFINE T == {AccelNames[i] : i \in 1 .. NrAccel} \cup {OtherNames[i] : i \in 1 .. 6}
           names == AccelNames \o OtherNames
<1>1. NrAccel \in Nat
  BY SizesAssumption DEF SizesAssumption, NrAccel
<1>2. AccelNames \in Seq(T) /\ Len(AccelNames) = NrAccel
  <2>1. AccelNames \in [1 .. NrAccel -> T]
    BY DEF AccelNames
  <2> HIDE DEF T
  <2> QED BY <1>1, <2>1
<1>3. OtherNames \in Seq(T) /\ Len(OtherNames) = 6
  <2>1. Len(OtherNames) = 6 /\ OtherNames = [i \in 1 .. 6 |-> OtherNames[i]]
    BY DEF OtherNames
  <2>2. OtherNames \in [1 .. 6 -> T]
    BY <2>1
  <2> HIDE DEF T
  <2> QED BY <2>1, <2>2
<1>4. Cray!Alphabetical = names
  BY DEF Cray!Alphabetical, AccelNames, OtherNames, NrAccel
<1> HIDE DEF T
<1>5. /\ names \in Seq(T) /\ DOMAIN names = 1 .. Len(names)
      /\ \A i \in 1 .. NrAccel : names[i] = AccelNames[i]
      /\ \A i \in 1 .. 6 : names[NrAccel + i] = OtherNames[i]
      /\ Len(names) = NrAccel + 6
      /\ \A i \in 1 .. Len(names) : \/ i \in 1 .. NrAccel
                                    \/ \E k \in 1 .. 6 : i = NrAccel + k
  <2>1. AccelNames \in Seq(T) /\ OtherNames \in Seq(T)
    BY <1>2, <1>3
  <2>2. /\ names \in Seq(T) /\ DOMAIN names = 1 .. Len(names)
        /\ Len(names) = Len(AccelNames) + Len(OtherNames)
        /\ \A i \in 1 .. Len(AccelNames) : names[i] = AccelNames[i]
        /\ \A i \in 1 .. Len(OtherNames) : names[Len(AccelNames) + i] = OtherNames[i]
        /\ \A i \in 1 .. Len(names) : \/ i \in 1 .. Len(AccelNames)
                                      \/ \E k \in 1 .. Len(OtherNames) : i = Len(AccelNames) + k
    BY <2>1, ConcatFacts, SMTT(60)
  <2> HIDE DEF names
  <2> QED BY <1>2, <1>3, <2>2
<1> HIDE DEF names
<1>6. \A i \in 1 .. NrAccel :
         /\ AccelNames[i].kind = "accel" /\ AccelNames[i].nr = (i - 1) \div 2
         /\ AccelNames[i].quantity = IF i % 2 = 1 THEN "power" ELSE "cap"
  BY DEF AccelNames, Cray!File
<1>7. \A i \in 1 .. 6 :
         /\ OtherNames[i].kind = IF i < 3 THEN "cpu" ELSE IF i = 3 THEN "hdd"
                                 ELSE IF i = 4 THEN "memory" ELSE "node"
         /\ OtherNames[i].quantity = IF i = 1 THEN "energy" ELSE IF i = 6 THEN "cap" ELSE "power"
         /\ i = 5 => OtherNames[i] = Cray!Node
  BY DEF OtherNames, Cray!File, Cray!Node
<1>8. \A a \in 1 .. NrAccel, b \in 1 .. NrAccel : AccelNames[a] = AccelNames[b] => a = b
  <2> TAKE a \in 1 .. NrAccel, b \in 1 .. NrAccel
  <2> HAVE AccelNames[a] = AccelNames[b]
  <2>1. (a - 1) \div 2 = (b - 1) \div 2
    BY <1>6
  <2>2. a % 2 = 1 <=> b % 2 = 1
    <3>1. "power" # "cap"
      OBVIOUS
    <3> QED BY <1>6, <3>1
  <2>3. a \in Int /\ b \in Int
    BY <1>1
  <2> QED BY <2>1, <2>2, <2>3
<1>9. \A a \in 1 .. 6, b \in 1 .. 6 : OtherNames[a] = OtherNames[b] => a = b
  BY <1>7
<1>10. \A a \in 1 .. NrAccel, b \in 1 .. 6 : AccelNames[a] # OtherNames[b]
  BY <1>6, <1>7
<1>11. Injective(names)
  <2> SUFFICES ASSUME NEW i \in 1 .. Len(names), NEW j \in 1 .. Len(names), names[i] = names[j]
               PROVE  i = j
    BY <1>5 DEF Injective
  <2>1. CASE i \in 1 .. NrAccel /\ j \in 1 .. NrAccel
    BY <1>5, <1>8, <2>1
  <2>2. ASSUME NEW k \in 1 .. 6, i = NrAccel + k, NEW l \in 1 .. 6, j = NrAccel + l
        PROVE  i = j
    BY <1>5, <1>9, <2>2
  <2>3. ASSUME i \in 1 .. NrAccel, NEW l \in 1 .. 6, j = NrAccel + l PROVE FALSE
    BY <1>5, <1>10, <2>3
  <2>4. ASSUME j \in 1 .. NrAccel, NEW l \in 1 .. 6, i = NrAccel + l PROVE FALSE
    BY <1>5, <1>10, <2>4
  <2> QED BY <1>5, <2>1, <2>2, <2>3, <2>4
<1>12. Cray!Files = {names[i] : i \in 1 .. Len(names)}
  BY <1>4, <1>5 DEF Cray!Files, Cray!ToSet
<1>13. ASSUME NEW f \in Cray!Files
       PROVE  /\ f.kind \in {"accel", "cpu", "hdd", "memory", "node"}
              /\ f.kind = "node" /\ f \in Cray!Counters => f = Cray!Node
  <2>1. PICK i \in 1 .. Len(names) : f = names[i]
    BY <1>12
  <2>2. CASE i \in 1 .. NrAccel
    BY <1>5, <1>6, <2>1, <2>2
  <2>3. ASSUME NEW k \in 1 .. 6, i = NrAccel + k
        PROVE  /\ f.kind \in {"accel", "cpu", "hdd", "memory", "node"}
               /\ f.kind = "node" /\ f \in Cray!Counters => f = Cray!Node
    <3>1. f = OtherNames[k]
      BY <1>5, <2>1, <2>3
    <3>2. f \in Cray!Counters => f.quantity = "power"
      BY DEF Cray!Counters
    <3> QED BY <1>7, <3>1, <3>2
  <2> QED BY <1>5, <2>2, <2>3
<1>14. Cray!Node \in Cray!Files /\ Cray!Node.kind = "node"
  <2>1. names[NrAccel + 5] = Cray!Node /\ NrAccel + 5 \in 1 .. Len(names)
    BY <1>1, <1>5, <1>7
  <2> QED BY <1>12, <2>1 DEF Cray!Node, Cray!File
<1>15. names \in Seq(Cray!Files)
  BY <1>5, <1>12
<1> QED BY <1>4, <1>11, <1>13, <1>14, <1>15 DEF Cray!Files

LEMMA RankFacts == \A n \in DOMAIN Cray!Alphabetical : Cray!Rank(Cray!Alphabetical[n]) = n
  BY NamesFacts DEF Injective, Cray!Rank

LEMMA PriorityFacts ==
    ASSUME NEW f \in Cray!Files
    PROVE  /\ Cray!Priority(f) \in 0 .. 4
           /\ Cray!Priority(f) = 0 <=> f.kind = "node"
           /\ Cray!Priority(f) = 1 <=> f.kind = "cpu"
           /\ Cray!Priority(f) = 2 <=> f.kind = "memory"
           /\ Cray!Priority(f) = 3 <=> f.kind = "accel"
  BY NamesFacts DEF Cray!Priority

Before(f, g) ==
    \/ Cray!Priority(f) < Cray!Priority(g)
    \/ /\ Cray!Priority(f) = Cray!Priority(g)
       /\ Cray!Priority(f) < 4 => Cray!Rank(f) < Cray!Rank(g)

InOrder(s) == \A i, j \in 1 .. Len(s) : i < j => Before(s[i], s[j])

\* The sorted files are those of s, in alphabetical order.
LEMMA SortFacts ==
    ASSUME NEW s \in Seq(Cray!Files)
    PROVE  LET t == Cray!OrderStringsAlphabetically(s)
           IN  /\ t \in Seq(Cray!Files) /\ Injective(t) /\ Cray!ToSet(t) = Cray!ToSet(s)
               /\ \A i, j \in 1 .. Len(t) : i < j => Cray!Rank(t[i]) < Cray!Rank(t[j])
<1> DEFINE t == Cray!OrderStringsAlphabetically(s)
           names == Cray!Alphabetical
<1>1. names \in Seq(Cray!Files) /\ Injective(names)
  BY NamesFacts
<1>2. t = Cray!Keep(names, Cray!ToSet(s))
  BY DEF Cray!OrderStringsAlphabetically
<1> HIDE DEF t, names
<1>3. /\ t \in Seq(Cray!Files) /\ Injective(t)
      /\ Cray!ToSet(t) = Cray!ToSet(names) \cap Cray!ToSet(s)
      /\ \A i, j \in 1 .. Len(t) :
            i < j => \E m, n \in 1 .. Len(names) : m < n /\ t[i] = names[m] /\ t[j] = names[n]
  BY <1>1, <1>2, KeepFacts
<1>4. Cray!ToSet(s) \subseteq Cray!ToSet(names)
  <2>1. Cray!Files = Cray!ToSet(names)
    BY NamesFacts DEF names
  <2> QED BY <2>1 DEF Cray!ToSet
<1>5. ASSUME NEW i \in 1 .. Len(t), NEW j \in 1 .. Len(t), i < j
      PROVE  Cray!Rank(t[i]) < Cray!Rank(t[j])
  <2>1. PICK m, n \in 1 .. Len(names) : m < n /\ t[i] = names[m] /\ t[j] = names[n]
    BY <1>3, <1>5
  <2>2. Cray!Rank(names[m]) = m /\ Cray!Rank(names[n]) = n
    BY <1>1, RankFacts DEF names
  <2> QED BY <2>1, <2>2
<1> QED BY <1>3, <1>4, <1>5 DEF t

\* The first priorities have been dealt with: their files are in front, in order.
Handled(files, filenames, priority) ==
    /\ files.ordered \in Seq(Cray!Files) /\ Injective(files.ordered) /\ InOrder(files.ordered)
    /\ files.left \in Seq(Cray!Files) /\ Injective(files.left)
    /\ Cray!ToSet(files.ordered) \cup Cray!ToSet(files.left) = Cray!ToSet(filenames)
    /\ \A f \in Cray!ToSet(files.ordered) : Cray!Priority(f) < priority
    /\ \A f \in Cray!ToSet(files.left) : Cray!Priority(f) >= priority

\* Files in order, followed by other files in order that come after them, are in order.
LEMMA ConcatInOrder ==
    ASSUME NEW a \in Seq(Cray!Files), NEW b \in Seq(Cray!Files),
           Injective(a), Injective(b), InOrder(a), InOrder(b),
           \A f \in Cray!ToSet(a), g \in Cray!ToSet(b) : Cray!Priority(f) < Cray!Priority(g)
    PROVE  /\ a \o b \in Seq(Cray!Files) /\ Injective(a \o b) /\ InOrder(a \o b)
           /\ Cray!ToSet(a \o b) = Cray!ToSet(a) \cup Cray!ToSet(b)
<1> DEFINE c == a \o b
<1>1. /\ c \in Seq(Cray!Files) /\ DOMAIN c = 1 .. Len(c)
      /\ Len(a) \in Nat /\ Len(b) \in Nat /\ Len(c) = Len(a) + Len(b)
      /\ \A i \in 1 .. Len(a) : c[i] = a[i]
      /\ \A i \in 1 .. Len(b) : c[Len(a) + i] = b[i]
      /\ \A i \in 1 .. Len(c) : i \in 1 .. Len(a) \/ \E k \in 1 .. Len(b) : i = Len(a) + k
  BY ConcatFacts, SMTT(60)
<1> HIDE DEF c
<1>2. DOMAIN a = 1 .. Len(a) /\ DOMAIN b = 1 .. Len(b)
  OBVIOUS
<1>3. \A i \in 1 .. Len(a), k \in 1 .. Len(b) : Cray!Priority(a[i]) < Cray!Priority(b[k])
  BY <1>2 DEF Cray!ToSet
<1>4. \A i \in 1 .. Len(a) : Cray!Priority(a[i]) \in Int
  BY PriorityFacts
<1>5. Cray!ToSet(c) = Cray!ToSet(a) \cup Cray!ToSet(b)
  <2>1. ASSUME NEW x \in Cray!ToSet(c) PROVE x \in Cray!ToSet(a) \cup Cray!ToSet(b)
    <3>1. PICK i \in 1 .. Len(c) : x = c[i]
      BY <1>1 DEF Cray!ToSet
    <3>2. CASE i \in 1 .. Len(a)
      BY <1>1, <1>2, <3>1, <3>2 DEF Cray!ToSet
    <3>3. ASSUME NEW k \in 1 .. Len(b), i = Len(a) + k PROVE x \in Cray!ToSet(b)
      BY <1>1, <1>2, <3>1, <3>3 DEF Cray!ToSet
    <3> QED BY <1>1, <3>2, <3>3
  <2>2. ASSUME NEW x \in Cray!ToSet(a) PROVE x \in Cray!ToSet(c)
    <3>1. PICK i \in 1 .. Len(a) : x = a[i]
      BY <1>2 DEF Cray!ToSet
    <3>2. i \in DOMAIN c /\ x = c[i]
      BY <1>1, <3>1
    <3> QED BY <3>2 DEF Cray!ToSet
  <2>3. ASSUME NEW x \in Cray!ToSet(b) PROVE x \in Cray!ToSet(c)
    <3>1. PICK k \in 1 .. Len(b) : x = b[k]
      BY <1>2 DEF Cray!ToSet
    <3>2. Len(a) + k \in DOMAIN c /\ x = c[Len(a) + k]
      BY <1>1, <3>1
    <3> QED BY <3>2 DEF Cray!ToSet
  <2> QED BY <2>1, <2>2, <2>3
<1>6. ASSUME NEW i \in 1 .. Len(c), NEW j \in 1 .. Len(c), i < j
      PROVE  c[i] # c[j] /\ Before(c[i], c[j])
  <2>1. CASE i \in 1 .. Len(a) /\ j \in 1 .. Len(a)
    <3>1. i # j /\ c[i] = a[i] /\ c[j] = a[j]
      BY <1>1, <1>6, <2>1
    <3>2. a[i] # a[j]
      BY <1>2, <2>1, <3>1 DEF Injective
    <3>3. Before(a[i], a[j])
      BY <1>6, <2>1 DEF InOrder
    <3> QED BY <3>1, <3>2, <3>3
  <2>2. ASSUME NEW k \in 1 .. Len(b), i = Len(a) + k, NEW l \in 1 .. Len(b), j = Len(a) + l
        PROVE  c[i] # c[j] /\ Before(c[i], c[j])
    <3>1. k < l /\ k # l
      BY <1>1, <1>6, <2>2
    <3>2. c[i] = b[k] /\ c[j] = b[l]
      BY <1>1, <2>2
    <3>3. b[k] # b[l]
      BY <1>2, <3>1 DEF Injective
    <3>4. Before(b[k], b[l])
      BY <3>1 DEF InOrder
    <3> QED BY <3>2, <3>3, <3>4
  <2>3. ASSUME i \in 1 .. Len(a), NEW l \in 1 .. Len(b), j = Len(a) + l
        PROVE  c[i] # c[j] /\ Before(c[i], c[j])
    BY <1>1, <1>3, <1>4, <2>3 DEF Before
  <2>4. ASSUME j \in 1 .. Len(a), NEW k \in 1 .. Len(b), i = Len(a) + k PROVE FALSE
    BY <1>1, <1>6, <2>4
  <2> QED BY <1>1, <2>1, <2>2, <2>3, <2>4
<1>7. Injective(c)
  <2> SUFFICES ASSUME NEW i \in 1 .. Len(c), NEW j \in 1 .. Len(c), i # j PROVE c[i] # c[j]
    BY <1>1 DEF Injective
  <2>1. i < j \/ j < i
    BY <1>1
  <2> QED BY <1>6, <2>1
<1>8. InOrder(c)
  BY <1>6 DEF InOrder
<1> QED BY <1>1, <1>5, <1>7, <1>8 DEF c

\* A turn of the loop over the substrings deals with the files of the next priority.
LEMMA HandleStep ==
    ASSUME NEW files, NEW filenames, NEW substring, NEW priority \in 1 .. 3,
           Handled(files, filenames, priority),
           \A f \in Cray!Files : Cray!Priority(f) = priority <=> f.kind = substring
    PROVE  Handled(Cray!HandleFilenamesWithSubstring(files, substring), filenames, priority + 1)
<1> DEFINE left     == files.left
           ofKind   == {f \in Cray!Files : f.kind = substring}
           matching == Cray!ExtractStringsContainingSubstring(left, substring)
           sorted   == Cray!OrderStringsAlphabetically(matching)
           rest     == Cray!Without(left, Cray!ToSet(matching))
           result   == Cray!HandleFilenamesWithSubstring(files, substring)
<1>1. result = [ordered |-> files.ordered \o sorted, left |-> rest]
  BY DEF Cray!HandleFilenamesWithSubstring
<1>2. left \in Seq(Cray!Files) /\ Injective(left) /\ Cray!ToSet(left) \subseteq Cray!Files
  BY DEF Handled, Cray!ToSet
<1>3. matching \in Seq(Cray!Files) /\ Cray!ToSet(matching) = Cray!ToSet(left) \cap ofKind
  BY <1>2, KeepFacts DEF Cray!ExtractStringsContainingSubstring
<1>4. /\ rest \in Seq(Cray!Files) /\ Injective(rest)
      /\ Cray!ToSet(rest) = Cray!ToSet(left) \cap (Cray!Files \ Cray!ToSet(matching))
  BY <1>2, KeepFacts DEF Cray!Without
<1>5. /\ sorted \in Seq(Cray!Files) /\ Injective(sorted)
      /\ Cray!ToSet(sorted) = Cray!ToSet(matching)
      /\ \A i, j \in 1 .. Len(sorted) : i < j => Cray!Rank(sorted[i]) < Cray!Rank(sorted[j])
  BY <1>3, SortFacts
<1> HIDE DEF left, matching, sorted, rest, result
<1>6. \A f \in Cray!ToSet(sorted) : f \in Cray!Files /\ Cray!Priority(f) = priority
  BY <1>2, <1>3, <1>5
<1>7. InOrder(sorted)
  <2>1. \A i \in 1 .. Len(sorted) : Cray!Priority(sorted[i]) = priority
    BY <1>5, <1>6 DEF Cray!ToSet
  <2> QED BY <1>5, <2>1 DEF InOrder, Before
<1>8. \A f \in Cray!ToSet(files.ordered), g \in Cray!ToSet(sorted) :
         Cray!Priority(f) < Cray!Priority(g)
  BY <1>6 DEF Handled
<1>9. /\ files.ordered \o sorted \in Seq(Cray!Files) /\ Injective(files.ordered \o sorted)
      /\ InOrder(files.ordered \o sorted)
      /\ Cray!ToSet(files.ordered \o sorted) = Cray!ToSet(files.ordered) \cup Cray!ToSet(sorted)
  BY <1>5, <1>7, <1>8, ConcatInOrder DEF Handled
<1>10. Cray!ToSet(sorted) \cup Cray!ToSet(rest) = Cray!ToSet(left)
  BY <1>2, <1>3, <1>4, <1>5
<1>11. \A f \in Cray!ToSet(files.ordered) \cup Cray!ToSet(sorted) : Cray!Priority(f) < priority + 1
  <2>1. \A f \in Cray!ToSet(files.ordered) : Cray!Priority(f) \in Int
    BY PriorityFacts DEF Handled, Cray!ToSet
  <2> QED BY <1>6, <2>1 DEF Handled
<1>12. ASSUME NEW f \in Cray!ToSet(rest) PROVE Cray!Priority(f) >= priority + 1
  <2>1. f \in Cray!ToSet(left) /\ f \in Cray!Files /\ f \notin ofKind
    BY <1>2, <1>3, <1>4
  <2>2. Cray!Priority(f) # priority /\ Cray!Priority(f) \in Int
    BY <2>1, PriorityFacts
  <2>3. Cray!Priority(f) >= priority
    BY <2>1 DEF Handled, left
  <2> QED BY <2>2, <2>3
<1> QED BY <1>1, <1>4, <1>9, <1>10, <1>11, <1>12 DEF Handled, left, result

LEMMA SameLength ==
    ASSUME NEW S, NEW s \in Seq(S), NEW t \in Seq(S), Injective(s), Injective(t),
           Cray!ToSet(s) = Cray!ToSet(t)
    PROVE  Len(s) = Len(t)
<1> DEFINE T == Cray!ToSet(s)
<1>1. ASSUME NEW r \in Seq(S), Injective(r), Cray!ToSet(r) = T
      PROVE  IsFiniteSet(T) /\ Cardinality(T) = Len(r)
  <2>1. Len(r) \in Nat /\ DOMAIN r = 1 .. Len(r)
    OBVIOUS
  <2>2. r \in Surjection(1 .. Len(r), T) /\ r \in Injection(1 .. Len(r), T)
    <3>1. r \in [1 .. Len(r) -> T] /\ \A x \in T : \E i \in 1 .. Len(r) : r[i] = x
      <4>1. T = {r[i] : i \in 1 .. Len(r)}
        BY <1>1, <2>1 DEF Cray!ToSet
      <4>2. r = [i \in 1 .. Len(r) |-> r[i]]
        BY <2>1
      <4> HIDE DEF T
      <4> QED BY <4>1, <4>2
    <3>2. IsInjective(r)
      BY <1>1 DEF Injective, IsInjective
    <3> HIDE DEF T
    <3> QED BY <3>1, <3>2 DEF Surjection, Injection
  <2>3. ExistsBijection(1 .. Len(r), T)
    BY <2>2 DEF ExistsBijection, Bijection
  <2>4. IsFiniteSet(1 .. Len(r)) /\ Cardinality(1 .. Len(r)) = Len(r)
    <3>1. 1 \in Int /\ Len(r) \in Int
      BY <2>1
    <3>2. /\ IsFiniteSet(1 .. Len(r))
          /\ Cardinality(1 .. Len(r)) = IF 1 > Len(r) THEN 0 ELSE Len(r) - 1 + 1
      BY <3>1, FS_Interval, Zenon
    <3> QED BY <2>1, <3>2
  <2> HIDE DEF T
  <2> QED BY <2>3, <2>4, FS_Bijection
<1> QED BY <1>1

\* However the directory is listed, its counters end up in order.
LEMMA ReorderOrders ==
    ASSUME NEW filenames \in Seq(Cray!Files), Injective(filenames),
           Cray!ToSet(filenames) \subseteq Cray!Counters
    PROVE  Cray!OrderedByKind(filenames, Cray!ReorderFilenames(filenames))
<1> DEFINE node   == [ordered |-> Cray!Keep(filenames, {Cray!Node}),
                      left |-> Cray!Without(filenames, {Cray!Node})]
           cpu    == Cray!HandleFilenamesWithSubstring(node, "cpu")
           memory == Cray!HandleFilenamesWithSubstring(cpu, "memory")
           accel  == Cray!HandleFilenamesWithSubstring(memory, "accel")
           result == accel.ordered \o accel.left
<1>1. Cray!ReorderFilenames(filenames) = result
  BY DEF Cray!ReorderFilenames
<1>2. Handled(node, filenames, 1)
  <2> DEFINE k == Cray!Keep(filenames, {Cray!Node})
             w == Cray!Without(filenames, {Cray!Node})
  <2>1. k \in Seq(Cray!Files) /\ Injective(k) /\ Cray!ToSet(k) = Cray!ToSet(filenames) \cap {Cray!Node}
    BY KeepFacts
  <2>2. /\ w \in Seq(Cray!Files) /\ Injective(w)
        /\ Cray!ToSet(w) = Cray!ToSet(filenames) \cap (Cray!Files \ {Cray!Node})
    BY KeepFacts DEF Cray!Without
  <2>3. node.ordered = k /\ node.left = w
    OBVIOUS
  <2> HIDE DEF k, w, node
  <2>4. InOrder(k)
    <3> SUFFICES ASSUME NEW i \in 1 .. Len(k), NEW j \in 1 .. Len(k), i < j PROVE FALSE
      BY DEF InOrder
    <3>1. DOMAIN k = 1 .. Len(k) /\ i # j
      BY <2>1
    <3>2. k[i] = Cray!Node /\ k[j] = Cray!Node
      BY <2>1, <3>1 DEF Cray!ToSet
    <3> QED BY <2>1, <3>1, <3>2 DEF Injective
  <2>5. Cray!ToSet(filenames) \subseteq Cray!Files
    BY DEF Cray!ToSet
  <2>6. Cray!Priority(Cray!Node) < 1
    BY NamesFacts, PriorityFacts
  <2>7. ASSUME NEW f \in Cray!ToSet(w) PROVE Cray!Priority(f) >= 1
    <3>1. f \in Cray!Files /\ f # Cray!Node /\ f \in Cray!Counters
      BY <2>2
    <3>2. f.kind # "node"
      BY <3>1, NamesFacts
    <3>3. Cray!Priority(f) \in 0 .. 4 /\ Cray!Priority(f) # 0
      BY <3>1, <3>2, PriorityFacts
    <3> QED BY <3>3
  <2> QED BY <2>1, <2>2, <2>3, <2>4, <2>5, <2>6, <2>7 DEF Handled
<1> HIDE DEF node
<1>3. Handled(cpu, filenames, 2)
  BY <1>2, HandleStep, PriorityFacts
<1> HIDE DEF cpu
<1>4. Handled(memory, filenames, 3)
  BY <1>3, HandleStep, PriorityFacts
<1> HIDE DEF memory
<1>5. Handled(accel, filenames, 4)
  BY <1>4, HandleStep, PriorityFacts
<1> HIDE DEF accel
<1>6. /\ accel.ordered \in Seq(Cray!Files) /\ Injective(accel.ordered) /\ InOrder(accel.ordered)
      /\ accel.left \in Seq(Cray!Files) /\ Injective(accel.left)
  BY <1>5 DEF Handled
<1>7. \A f \in Cray!ToSet(accel.left) : Cray!Priority(f) = 4
  <2> TAKE f \in Cray!ToSet(accel.left)
  <2>1. f \in Cray!Files /\ Cray!Priority(f) >= 4
    BY <1>5, <1>6 DEF Handled, Cray!ToSet
  <2> QED BY <2>1, PriorityFacts
<1>8. InOrder(accel.left)
  <2>1. \A i \in 1 .. Len(accel.left) : Cray!Priority(accel.left[i]) = 4
    BY <1>6, <1>7 DEF Cray!ToSet
  <2> QED BY <2>1 DEF InOrder, Before
<1>9. \A f \in Cray!ToSet(accel.ordered), g \in Cray!ToSet(accel.left) :
         Cray!Priority(f) < Cray!Priority(g)
  BY <1>5, <1>7 DEF Handled
<1>10. /\ result \in Seq(Cray!Files) /\ Injective(result) /\ InOrder(result)
       /\ Cray!ToSet(result) = Cray!ToSet(filenames)
  BY <1>5, <1>6, <1>8, <1>9, ConcatInOrder DEF Handled
<1> HIDE DEF result
<1>11. Len(result) = Len(filenames)
  BY <1>10, SameLength
<1>12. DOMAIN result = 1 .. Len(result)
  BY <1>10
<1> QED BY <1>1, <1>10, <1>11, <1>12 DEF Cray!OrderedByKind, InOrder, Before

\* In whatever order the files are listed, of any number of accelerators: each counter is
\* one entry, the node comes first, and the entries of a kind stand together, sorted
\* (FilenamesHelper.cpp:15-33, 85-108).
THEOREM CrayOrderedByKindCorrect == Spec => []CrayOrderedByKind
<1>1. IInv => CrayOrderedByKind
  <2> SUFFICES ASSUME IInv, created, backend = "cray"
               PROVE  Cray!OrderedByKind(Cray!GetFilenames(environment), pmt)
    BY DEF CrayOrderedByKind, Made
  <2>1. environment \in Directories
    BY DEF IInv, Environments
  <2>2. PICK n \in 0 .. MaxFilenames :
           environment \in {d \in [1 .. n -> Cray!Files] : Cray!IsInjective(d)}
    BY <2>1 DEF Directories
  <2>3. environment \in Seq(Cray!Files) /\ Injective(environment)
    BY <2>2 DEF Injective, Cray!IsInjective
  <2> DEFINE filenames == Cray!GetFilenames(environment)
  <2>4. /\ filenames \in Seq(Cray!Files) /\ Injective(filenames)
        /\ Cray!ToSet(filenames) \subseteq Cray!Counters
    BY <2>3, KeepFacts DEF Cray!GetFilenames
  <2>5. pmt = Cray!ReorderFilenames(filenames)
    BY DEF IInv, CrayObject
  <2> HIDE DEF filenames
  <2>6. Cray!OrderedByKind(filenames, Cray!ReorderFilenames(filenames))
    BY <2>4, ReorderOrders
  <2> QED BY <2>5, <2>6 DEF filenames
<1> QED BY <1>1, Inductive, PTL

=============================================================================
