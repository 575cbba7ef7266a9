--------------------------------- MODULE Setup ---------------------------------
(***************************************************************************)
(* The creation of a PMT, for every environment in which it may happen:    *)
(* the dispatch of Create() and the discovery that the constructors of the *)
(* NVML, Likwid, Cray and RAPL backends do. The algorithms are operators   *)
(* of modules of their own; here each is run once on each of its inputs.   *)
(***************************************************************************)
EXTENDS Integers, Sequences, FiniteSets

CONSTANTS
    Backends,      \* those whose creation is examined
    MaxThreads,    \* hardware threads of a Likwid topology: a bound for TLC only
    Accelerators,  \* of a Cray node
    MaxFilenames   \* files of a Cray directory: a bound for TLC only

ASSUME SizesAssumption == MaxThreads \in Nat /\ Accelerators \in Nat

NVML   == INSTANCE NVMLFields
Likwid == INSTANCE LikwidGroups
Cray   == INSTANCE CrayFiles
Rapl   == INSTANCE RaplZones
Maker  == INSTANCE Factory

VARIABLES
    backend,
    environment,  \* what the constructor finds
    created,
    pmt           \* what it makes of it

vars == <<backend, environment, created, pmt>>

\* Every socket has the same number of hardware threads, in any order in the pool.
Topologies ==
    UNION {{[sockets |-> s, threadPool |-> p] :
               p \in {q \in [1 .. MaxThreads -> [packageId : 0 .. (s - 1), inCpuSet : BOOLEAN]] :
                         \A socket \in 0 .. (s - 1) :
                             Cardinality({i \in 1 .. MaxThreads : q[i].packageId = socket}) * s
                                = MaxThreads}} : s \in 1 .. 2}

\* Any listing of up to MaxFilenames files.
Directories ==
    UNION {{d \in [1 .. n -> Cray!Files] : Cray!IsInjective(d)} :
              n \in 0 .. MaxFilenames}

Environments ==
    [nvml    |-> SUBSET NVML!Fields,
     likwid  |-> Topologies,
     cray    |-> Directories,
     rapl    |-> [machine : DOMAIN Rapl!Machines, online : SUBSET Rapl!Cpus,
                  affinity : SUBSET Rapl!Cpus],
     factory |-> [name : Maker!WithNumber, device : 0 .. 2, python : BOOLEAN,
                  PMT_DEVICE : {Maker!NoDevice, 1},
                  built : SUBSET (Maker!WithNumber \cup {"tegra"}), integrated : SUBSET {0, 1}]]

Possible(b, e) ==
    CASE b = "rapl"    -> e.affinity # {} /\ e.affinity \subseteq e.online
      [] b = "factory" -> e.name \in e.built
      [] OTHER         -> TRUE

Init ==
    /\ backend \in Backends
    /\ environment \in Environments[backend]
    /\ Possible(backend, environment)
    /\ created = FALSE
    /\ pmt = {}

Make(b, object) ==
    /\ backend = b
    /\ ~created
    /\ created' = TRUE
    /\ pmt' = object
    /\ UNCHANGED <<backend, environment>>

CreateNVML   == Make("nvml", NVML!Initialize(environment))
CreateLikwid == Make("likwid", Likwid!Groups(environment.threadPool, environment.sockets))
CreateCray   == Make("cray", Cray!ReorderFilenames(Cray!GetFilenames(environment)))
CreateRapl   == Make("rapl", Rapl!Counters(environment.machine, environment.affinity,
                                          environment.online))

CreatePMT ==
    LET e == environment
    IN  Make("factory", Maker!Create(e.name, IF e.python THEN Maker!PythonArgument(e.device)
                                                         ELSE Maker!CxxArgument(e.device),
                                     e.PMT_DEVICE, e.built, e.integrated))

Next == CreateNVML \/ CreateLikwid \/ CreateCray \/ CreateRapl \/ CreatePMT

Spec == Init /\ [][Next]_vars

-----------------------------------------------------------------------------
Made(b) == created /\ backend = b

\* NVMLFields!ReportsEachField for every set of fields that a device may lack.
NVMLReportsEachField == Made("nvml") => NVML!ReportsEachField(pmt, environment)

\* LikwidGroups!MeasuresEachSocket for every topology and CPU set.
LikwidMeasuresEachSocket ==
    Made("likwid") =>
        Likwid!MeasuresEachSocket(environment.threadPool, environment.sockets, pmt)

\* CrayFiles!OrderedByKind for every directory listing.
CrayOrderedByKind ==
    Made("cray") => Cray!OrderedByKind(Cray!GetFilenames(environment), pmt)

\* RaplZones!TotalIsUsedPackages for every affinity mask.
RaplTotalIsUsedPackages ==
    Made("rapl") => Rapl!TotalIsUsedPackages(pmt, environment.machine, environment.affinity,
                                             environment.online)

\* Factory!GivesDevice for every combination of backends that were built.
CreateGivesDevice ==
    Made("factory") => Maker!GivesDevice(pmt, environment.name, environment.device,
                                         environment.PMT_DEVICE, environment.built,
                                         environment.integrated)

=============================================================================
