# A verification project for PMT

PMT (Power Measurement Toolkit) is a C++ library that samples the power or
energy of a device through one of a dozen backends, in a thread that belongs to
the object. This directory holds TLA+ models of it, TLC configurations that
check them, and TLAPS proofs. Line numbers refer to `src/`.

1. [The system](#1-the-system)
2. [The modules](#2-the-modules)
3. [The runs](#3-the-runs)
4. [Claims that do not hold](#4-claims-that-do-not-hold)
5. [The proofs](#5-the-proofs)
6. [Assumptions and limits](#6-assumptions-and-limits)
7. [The plan](#7-the-plan)

## 1. The system

### The core: `common/PMT.cpp`, `common/PMT.h`, `common/State.h`

A `pmt::PMT` is owned by one client thread, which calls `StartDump()`,
`StopDump()`, `Mark()`, `Read()` and finally the destructor. The first `Read()`
starts a second thread, the *measurement thread*. The two share, besides the
object itself:

| state | written by | read by | guarded by |
|---|---|---|---|
| `thread_`, `thread_stop_` | owner | owner; thread reads `thread_stop_` | nothing (`volatile bool`) |
| `thread_mutex_` | locked by the owner, unlocked by the thread | `try_lock` of the owner | it is itself the hand-over signal |
| `thread_started_` | thread | both | nothing (`volatile bool`) |
| `state_latest_` | thread | owner, and the backend's `GetState()` | the hand-over at first, later nothing |
| `state_returned_` | owner | owner | not shared |
| `dump_file_` | owner | both | nothing; what is written through it: `dump_file_mutex_` |

| operation | what it does |
|---|---|
| `Read()` (184-216) | first call: lock `thread_mutex_`, start the thread, poll the mutex with `try_lock` up to `kNrRetriesInitialization` retries, return `state_latest_`. Later calls: `state_latest_`, or `state_returned_` moved on to the present when nothing newer has arrived |
| `StartThread()` (70-128) | the loop: sleep, `GetState()`, perhaps `Dump()`, derive energy or power, publish, hand over once |
| `StopThread()` (130-135) | `thread_stop_ = true`, join |
| `StartDump()`/`StopDump()` (137-151) | replace or reset `dump_file_`; `StartDump()` then calls `Read()` |
| `DumpHeader()`, `Dump()`, `Mark()` (153-182) | write one line each, in several statements |
| `~PMT()` (29-32) | `StopDump()`, `StopThread()` |

What is hard here: a mutex that one thread locks and the other unlocks; two
flags that are set after it; a bounded wait that may expire while the thread is
about to hand over; a State of several vectors that is assigned while it is
copied; exceptions that leave the thread function and end the process; a stream
that is destroyed while it is written to; and sums that grow over the whole life
of the object. It is correct when a `Read()` returns only measured states, whose
time and energy agree with the device and never run back; when the wait and the
destructor end; when no thread outlives the object; and when the lines of the
dump file are whole, in order and at their distance.

### The factory: `common/PMT.cpp:220-285`, `nvidia/NVIDIA.cpp`, `python/__init__.py`

`Create(name, argument)` makes the backend of that name if it was built, else
the dummy. The argument is a string, in which a number is recognised; `nvidia`
goes on to Tegra or NVML; NVML then takes `PMT_DEVICE` if that is set. It is
correct when the device one asks for is the device one gets.

### The backends

Each derives from `PMT` and implements `GetState()` (called by the measurement
thread only) and `GetDumpFilename()`.

| backend | state | what is hard, and what makes it correct |
|---|---|---|
| RAPL (`rapl/`) | a counter per zone: first and previous value, offset | the hardware counter wraps; unreadable files read as 0; zones of packages that the process does not run on. The total must hold each used package once |
| NVML (`nvml/`) | field names, requested values, index of the default | two vectors erased by index while they are walked; later failures leave old values |
| Likwid (`likwid/`) | perfmon groups, `state_latest_` | sockets are searched in a part of the thread pool; groups are taken for sockets; powers are energies over the time since `state_latest_` |
| Cray (`cray/`) | file names | the order of a directory is unspecified; entry 0 is what `joules()` uses |
| Tegra, PowerSensor3 | sensors | entry 0 has to be the sum of the others |
| Dummy | fixed watts or joules | builds on `state_latest_`; may be changed during a measurement |
| PowerSensor2, AMDSMI, ROCM, Xilinx | a handle each | clocks and errors of the device |
| NVIDIA | none | dispatch only |

### Around it

`bin/main.cpp` (the executable), `python/` (bindings and decorators), `example/`
and `test/dummy/` are sequential clients of the core. The executable either
prints a `Read()` per line, with one measurement interval of sleep for each
entry, or calls `Read()` before and after a command.

Every backend fails in its own way when its device does: with a `pmt::Exception`,
which the loop survives (Cray, AMDSMI, NVML, Xilinx); with another exception,
which ends the process (ROCM); with a zero for the reading (Tegra, RAPL, Xilinx);
or with the values and the time of the call before (NVML). The `GetState()`
before the loop may fail in the same ways; there every exception ends the process.

## 2. The modules

```
MeasurementThread ---- MeasurementThread_proofs      control of both threads
   |         |
   |     DumpFile ---- DumpFile_proofs               INSTANCE it, add the dump file
SharedState ---------- SharedState_proofs            INSTANCE it, add the two States
   :
Meter                                                what Read() promises (abstract)
   :
Accounting ----------- Accounting_proofs             the numbers of one entry
Sensors -------------- Sensors_proofs                several entries and the total
Polling -------------- Polling_proofs                how old the values of a Read() are
RaplCounter ---------- RaplCounter_proofs            one wrapping counter
NVMLFields  LikwidGroups  CrayFiles  RaplZones  Factory     pure algorithms
        \_______________|________|_________|______/
                      Setup ------ Setup_proofs      runs each on all its inputs
```

Dotted: SharedState and Accounting each implement Meter, under the mapping that
their `PublicMeter` gives. SharedState also implements MeasurementThread
(`ImplementsThread`). DumpFile does so with one more way to end the process: a
write through a destroyed stream, at a point where MeasurementThread has no step
that ends it (`ThreadCorrect` in DumpFile_proofs).

**MeasurementThread** is the life cycle. `pc` is where the owner is in `Read()`
or in the destructor, `tpc` where the thread is in its loop; the other variables
are the members of those names, `locked` being `thread_mutex_` and `joinable`
being `thread_.joinable()`. A State is only where it comes from: `default`,
`initial` (the `GetState()` before the loop) or `measured`. Actions follow the
statements that the other thread can tell apart:

| code | actions |
|---|---|
| `Read()`, test of `thread_started_` | `Read` |
| `StartThread()`: lock, `std::thread` | `LockThreadMutex`, `SpawnThread`, `SpawnOverThread` (assignment to a joinable thread), `SpawnFailure` |
| the wait loop | `TryLock`, `GiveUp`, `FirstRead` |
| the later `Read()` | `ReadLatest` |
| `~PMT()`, `StopThread()` | `Destroy`, `Join` |
| the thread before its loop | `InitialState`, `InitialFailure` |
| the loop | `TestStop`, `Sample`, `SampleFailure` (`continue`), `SampleCrash`, `Publish`, `UnlockThreadMutex`, `SignalStarted` |

`Faults` says which exceptions may occur: the library's own from `GetState()`,
any other from `GetState()`, and `std::system_error` from `std::thread`.

**SharedState** refines the two States into their members. Its steps are those
of MeasurementThread (by `INSTANCE`, so that the control cannot drift apart),
with `Publish`, `FirstRead` and `ReadLatest` taken apart into one step per
member assigned or copied: `PublishFirst`, `PublishSecond`, `Store`,
`CopyTimestamp`, `CopyJoules`. The device draws one watt, so that the energy of
a State should equal its time since the initial sample, and a torn copy is one
where it does not.

**DumpFile** is MeasurementThread with `dump_file_`, the streams behind it and
`dump_file_mutex_`. A line has a beginning and an end; each of the two
dereferences `dump_file_` and writes in separate steps, so that the owner may
destroy the stream at any point of a line. `WriteCrash` is the outcome of a
write through a null pointer or to a destroyed stream; `Write` may also survive
the latter, and then what it writes is lost.

**Meter** is the abstract specification: a client sees reports of time and
energy. A report is of the past or the present and never older than the one
before; its energy is what a device between `MinPower` and `MaxPower` may have
drawn since the time from which energy counts (`base`), except for the last
`lag`; when reports may be torn, the energy may be newer than the time, but never
more than has been drawn by now. Nothing is promised about the energy from one
report to the next: the code corrects extrapolated energy downwards. `base` is
usually the first sample, and moves when a count starts anew (see section 4,
samples of 0 W). `trusted` becomes false when a device has reported energy and a
power of 0 W at once, after which the code mixes two counts and nothing holds.

**Accounting** is the loop's arithmetic (`Derive`) and that of `Read()`
(`Extrapolate`), for one entry and a device whose power changes at every tick
between `MinPower` and `MaxPower`. Energy counts half watt-ticks, so that the
mean of two powers is an integer. A sample and a later Read are one step each,
since SharedState takes them apart. The first Read copies `state_latest_` twice,
into `state_returned_` and into its result (PMT.cpp:201-202), in two steps,
`FirstReadStores` and `FirstReadReturns`; what the client holds is `received`, and
`client` tells where it is. `latest_base`, `returned_base` and `received_base` are
not variables of the program: they remember the sample from which the energy of
each State counts, and `mixed` whether two counts have been mixed. All times are of
one clock; that of PowerSensor2, which counts from its first state
(PowerSensor2.cpp:38-40), is left out.

**Sensors** is the same arithmetic for several entries, of which entry 0 is
supposed to be the sum of the others, for five ways in which backends fill in a
State: powers (Tegra, Dummy), counters (RAPL), both (PowerSensor3), energies
that build on `state_latest_` (Dummy), powers since `state_latest_` (Likwid).
Sensors draw any power at any tick, 0 W included (those of a Dummy keep theirs).
When one that has counted something reports 0 W, its entry takes neither branch of
PMT.cpp:108-117 and starts anew while that of the total goes on; `stopped`, which is
not a variable of the program, remembers that this has happened (`Stops`).
The system clock may be set back once (`SetBack`), after which `seconds()` is
negative between a sample and the next.

**Polling** is about time: the measurement loop with sleeps that take between
`Interval` and `MaxSleep`, a `GetState()` that takes up to `MaxLatency`, and
failures as each of seven backends has them (`CrayFailure` and so on), in the loop
and in the `GetState()` before it (`InitialUnread`, `InitialFailure`); and a
client that waits for its first Read as `Read()` does, and then calls it whenever
it likes, back to back as the executable does or after any pause. There is no
clock: every time stamp is an *age* that
`Tick` lets grow, up to `Horizon`, so that behaviours need no last tick. Of a value
only its age and whether the device was really read is kept. `errno` is that of
the measurement thread, which Xilinx looks at and nothing resets (`Poisoned`).
`sampled` is not a variable of the program: as long as it is false, NVML has only
repeated what its constructor read, however long ago (`OnlyRepeated`).

**RaplCounter** is `rapl/RaplCounter.cpp`. `total` is what the hardware would
have counted without wrapping; `energy_uj` is its remainder. `Read` and
`ReadNothing` share `Account`, the arithmetic of `Read()`; the constructor's read
may yield nothing as well (`RaplCounterNothing`).

**NVMLFields, LikwidGroups, CrayFiles, RaplZones, Factory** are algorithms:
operators named after the functions they model, with folds in place of loops,
and a reference condition each that says what the result should be. **Setup**
picks a backend and an environment (the fields a device lacks, a topology and
CPU set, a directory listing, an affinity mask, the backends built and the
arguments), makes the object, and states the conditions of the five modules as
its invariants. Its reachable states are all the inputs within the bounds.
In CrayFiles a name is a record of what it is searched for, there are any number
of accelerators, and the loops that push some elements of a vector to another one
are `Keep`; since names are different, `std::sort` of some of them is to keep these
from the sequence of all names in alphabetical order.

Definitions whose comment begins with "Variant:" are never part of a
specification. Each is what a plausible mistake would make of the definition
that follows it, and is there to show that a property notices it
(`PROJECT.json`, "mutants").

## 3. The runs

Every module is run as it stands; the configurations give the constants values
and replace nothing.

| run | what it asks | bounds | states |
|---|---|---|---|
| `thread` | hand-over, mutex, termination, with all faults | the ten retries of PMT.h:68; nothing else is bounded | 505 |
| `thread_read_ends` | does every Read end? (no) | no faults | |
| `thread_started_once` | does only the first Read start the thread? (no) | no faults | |
| `shared` | what torn copies can do to time and energy; is it a Meter? | 6 ticks, 1 retry, all faults | 201 000 |
| `dump` | lines, rows, header, destructor | 5 ticks, 2 streams, 1 mark, interval of 1 | 713 000 |
| `dump_open` | is a line written to a stream that exists? (no) | as `dump` | |
| `accounting` | energy and power of one entry; is it a Meter? | powers 0..2, 6 ticks | 285 000 |
| `sensors` | the total | 2 sensors of 0 or 1 W, 3 ticks, the clock set back once | 402 000 |
| `polling` | how old the time and the power of a Read are | interval 1, sleeps of 1 or 2, latency 0 or 1, 2 failures in a row, 3 retries, 7 backends, ages up to 14 | 399 000 |
| `rapl` | wraps and failed reads | range 0..4, up to 13 units drawn | 4 800 |
| `rapl_wrap` | does one wrap add one range? (no) | as `rapl` | |
| `setup` | discovery and factory | all 64 sets of failed fields; 4 hardware threads on 1 or 2 sockets; listings of up to 6 of 10 files; 4 CPUs on two machines; every set of built backends that matters | 381 000 |

Why the bounds are enough for the case each run is after:

- `thread`: the number of retries only decides how long the owner polls; ten are
  the code's, and the proofs hold for any number. The other runs that contain
  this control use one retry, which gives a first turn, a retry and giving up.
- `shared`: three samples of different distances, with Reads before, between and
  during the assignments, fit into six ticks; a torn copy followed by two
  extrapolations does too.
- `dump`: with an interval of one tick a sample two ticks later makes a row, and
  five ticks allow two rows with a sample between them that makes none. Two
  streams give a replacement during a line; a Mark can fall into the header and
  into either row. `HeaderFirst` is about the streams made before the thread is:
  a dump started later has no header, by design of the code.
- `accounting`: three samples, accumulated over two intervals of up to four
  ticks with any powers, and Reads before and after each; 0, 1 and 2 W give a
  device that is idle, one that is not, and a mean that lies in between. With a
  least power of 0 W the lower bounds only say that energy never falls below
  where it counts from; the theorems have them for every least power.
- `polling`: with two failures in a row `Bound` is 10 ticks, and ages up to 14 tell
  one that is too old from one that is not, also four ticks after the latest sample
  that counts. Reads fall anywhere, from back to back to more than `Bound` apart, so
  that chains of extrapolations and late Reads both occur. The exceptions are
  needed: without any of them, with a smaller bound, or for Reads that follow each
  other more closely, TLC finds the property violated. Two failures are enough for
  NVML to repeat its constructor's values in both samples that the first Read rests
  on. The proofs hold for any of these numbers.
- `rapl`: 13 units over a range of 5 are two wraps; the constructor may run at
  any value, and any read may yield nothing, its own included.
- `sensors`: three ticks are an initial sample, a sample and either another one
  or a Read that extrapolates, with the clock set back before any of them, and a
  sensor that stops, or stops and starts again, between them.
  `Scale` is a multiple of all distances that occur, so that powers
  derived from energies divide evenly and a sum of quotients is the quotient of
  the sum (float rounding, which breaks this in the last digit, is left out).
- `setup`: Likwid's loop has at most two sockets to confuse, with the hardware
  threads in any order. With two
  accelerators Cray has ten files, six of which pass the filter of `GetFilenames`;
  the listings of up to six files include each order of each selection of them, so
  that `ReorderFilenames` is run on every input that two accelerators can give. The sets of fields of NVML are all there are.

`CHECK_DEADLOCK FALSE` is set where the system really stops: after the
destructor, after `std::terminate()`, or when the bounded clock has run out.

**Fairness.** `thread`, `thread_read_ends` and `dump` assume weak fairness of
the steps inside the owner's calls and of the steps of the measurement thread:
the operating system schedules both, sleeps end, and `GetState()` returns or
throws. Nothing obliges the client to make a call, and no fairness is assumed of
any single outcome: `GetState()` may fail for ever. In `dump` the clock is fair
as well, since a sample comes a positive time after the one before. No lock
needs strong fairness: `thread_mutex_` is polled, and in `lock()` it is not
contended; `dump_file_mutex_` is released for good after the last line of
either, and no thread can take it again and again while the other waits in a
destructor.

**What the passing runs show**

- `ReadIsMeasured`, `Handover`, `UnlockIsMatched`, `ThreadEndsBeforeObject`: the
  mutex really keeps the default and the initial state from the client, it is
  released once, and `~PMT()` leaves no thread behind, under all faults,
  including a wait that expired and a thread that started afterwards.
- `WaitEnds`, `DestructorEnds`, `ThreadStarts`: the wait of the first Read ends;
  the destructor ends wherever the thread is; and failed samples only delay the
  start of the thread.
- `NeverBackInTime`, `EnergyNeverAhead`, `LagBounded`: copies of two samples do
  reach the client, a new time with an old energy or the other way round. What is
  missing is one interval's energy at most, and extrapolation does not add to it.
  Energy may be newer than its time, but is never more than has been drawn by
  now: because time is both assigned and copied first (State.h:15-19), the next
  Read then finds a newer sample and does not extrapolate from such a copy. With
  the assignments the other way round `EnergyNeverAhead` fails.
- `ImplementsMeter` (`shared`, `accounting`): what the two threads do comes to
  the same small specification, once with torn copies and a device of one watt,
  once with whole States and any powers.
- `RecentTime`: through every failure of every backend, the initial sample included,
  and however Reads fall, the time of a Read is no older than the longest way from
  one sample to the next (`Bound`). Two exceptions: a Xilinx thread whose `errno` is
  set, which never samples again; and the first Read of NVML when the device has not
  been read since the constructor, whose time may be of any age.
- `RecentPower`: the power of the first Read, and of each Read that comes more than
  `Bound` after the one before, was read within `Bound`, and from the device unless
  the backend reports 0 for what it could not read. So what extrapolation hides from
  a client that polls fast, it shows again after one pause. The backends excepted
  are the same.
- `LinesNotMixed`, `RowsSpaced`, `HeaderFirst`: whatever the owner does to the
  stream meanwhile, a line is whole, rows are further apart than the interval,
  and those of a dump that was there first come after the header.
- `LatestWithinPower`, `ReturnedWithinPower`: accumulation, differentiation and
  extrapolation keep the energy since the count began within what the device can
  have drawn. A sample of 0 W begins a new count, which is why these two do not
  refute it (section 4).
- `ReadAdvances`: the time that the client receives never lies in the future, never
  goes back and advances when time has passed, except in the Read after a first one
  whose two copies of `state_latest_` differ (section 4).
- `LatestTotal`, `ReturnedTotal`: the total is the sum of the sensors until one that
  has counted something reports 0 W, also when the clock is set back. From then on
  its power still is the sum, and its energy no less than the sum if the clock only
  moves forward: what the sensor loses, the total keeps. For PowerSensor3, whose own
  count takes the place of the accumulated one, nothing is claimed from then on.
- `NoUnderflow`, `ExactBeforeWrap`: the unsigned difference never wraps below
  zero and is exact until the first wrap.
- The five of `setup`: no field, file, package or device is lost, doubled or
  taken for another one, on the inputs above. Three have conditions, outside of
  which the code does not keep them: `NVMLReportsEachField` asks for one field that
  works; `RaplTotalIsUsedPackages` asks for all used packages only while all CPUs
  are online, since cpu.h:26-33 looks at the first so many CPU numbers as there are
  online CPUs; `LikwidMeasuresEachSocket` asks for an active CPU of each socket among
  the entries of the thread pool that are searched for it.

## 4. Claims that do not hold

Four runs end in a counterexample to something that the repository says:

- `ReadEnds` and `StartedByFirstRead` (PMT.cpp:123-124). The mutex is unlocked
  before `thread_started_` is set. A second Read in between starts the thread a
  second time and blocks in `lock()` on the mutex the first Read holds. If the
  first Read has given up, the second instead gets the mutex and assigns a
  thread to a joinable one, which is `std::terminate()`.
- `WritesToOpenFile` (PMT.cpp:151). `StopDump()` destroys the stream without
  `dump_file_mutex_`, and the destructor calls it before it joins the thread. The
  thread tests the pointer before it locks that mutex (154-155, 165-166) and writes
  as if the test still held.
- `WrapCountedOnce` (RaplCounter.cpp:33). `energy_uj_previous_` keeps its first
  value, so after a wrap each Read adds the range again.

Other disagreements that the models show or rest on, without a run of their own:

- The first Read copies `state_latest_` twice (PMT.cpp:201-202). If the thread
  publishes between the two, the client holds a newer state than `state_returned_`,
  and the next Read may return that state again, although time has passed.
  test-dummy.cpp:39 expects that "Time advances". This is the exception of
  `ReadAdvances`: without it TLC finds that behaviour.
- The wait of the first Read is not "up to this number of measurement intervals"
  (PMT.h:66): turn *n* sleeps *n* intervals (PMT.cpp:194-196). The mutex is tried for
  the last time after 66, and the Read throws after 78, in twelve turns.
- For every socket, Likwid searches only the first `numHWThreads / numSockets`
  entries of the thread pool. If the pool lists one socket after the other, the
  second is never found, and skipped as if it had no active CPU (LikwidImpl.cpp:46,
  54). A socket that is skipped, rightly or not, adds no group, though the comment at
  68 assumes that a group's number is its socket's: `GetState()` reports the later
  sockets under the names of earlier ones. `LikwidMeasuresEachSocket` without its
  condition fails in both ways.
- A sample of 0 W from a backend that reports power takes neither branch of
  PMT.cpp:108-117, and the accumulated energy becomes that of the sample: 0 for
  a backend without a counter, so that the count starts anew (`latest_base`);
  the reading of the device for one with a counter (PowerSensor2, PowerSensor3),
  to which further accumulation is then added (`mixed`). With several sensors only
  the entry of the one that stopped starts anew, and the total is no longer their
  sum.
- The `GetState()` before the loop may fail without an exception. RAPL, Tegra and
  Xilinx then begin with 0; NVML begins with the values of its constructor, and if
  the first sample of the loop fails as well, the first Read returns those, with a
  time of any age.
- A dump that is started after the thread has no header: `DumpHeader()` is called once,
  before the loop.
- A client that polls faster than `GetState()` takes may be given extrapolated
  states for ever: each is newer than any sample that was begun before it. Its
  power is then the first one, however the device changes. `RecentPower` therefore
  speaks only of the first Read and of Reads that come more than `Bound` after the
  one before.
- When the clock is set back, `Read()` prefers the returned state, extrapolates
  it by a negative duration and returns less energy; samples count negative time.
- Xilinx: once `errno` is set in the thread, by a failed open or anything else,
  every later `GetPower()` throws and every Read extrapolates one old power. Its
  `State` has the one default entry, without name and with 0 W, in front of its
  own four, and `NrMeasurements()` stays 1, so that `joules()` is always 0.
- Extrapolation uses the last power. When the power falls, the next measured
  energy can be below the one returned before, so that `joules(first, second)`
  is negative although power never is.
- A row is written before power is derived (PMT.cpp:101-118): backends that
  report energy only dump rows of 0 W.
- Dummy.cpp:44 and 53 and LikwidImpl.cpp:125 write `name_[i]` where the value
  goes to entry `i + 1`: entry 0 loses the name "total".
- `~PMT()` is not virtual (PMT.h:21). Destruction through the
  `std::unique_ptr<PMT>` that `Create()` returns does not run the destructor of
  the backend, and has no defined behaviour.
- `TegraImpl` declares a `measurement_interval_` of its own, which hides that of
  `PMT` and is never used. PowerSensor2's timestamps are in a unit a thousand
  times too small, so that its time runs a thousand times too fast. `run()` of
  the executable joins the command from its second word on (bin/main.cpp:68).

## 5. The proofs

Eight modules have proofs, for every value of their constants.

**MeasurementThread_proofs.** `TypeCorrect` bounds the retry counter. The
inductive invariant is `TypeOK /\ Handover`. That a Read returns only measured
states (`ReadIsMeasured`) is not inductive: it needs that the owner gets out of
the wait loop only with a mutex that the thread has released, so that the mutex
is held from before the thread exists until the first sample is published
(`MutexUntilMeasured`), which again needs that a thread that has not started is
the only one (`JoinableThread`, `NoThreadYet`), that the loop is left only
through the destructor (`StopMeansDestroy`), and that the flag and the two
program counters of hand-over follow publication (`StartedIsMeasured`,
`OwnerSeesMeasured`). `HandoverCorrect` proves all of them, action by action;
`ReadIsMeasuredCorrect`, `UnlockIsMatchedCorrect` and
`ThreadEndsBeforeObjectCorrect` follow from it. The lemmas they are made of allow for
a `Terminate` at any step, so that `EndingCorrect` says the same of a process that
something outside this module may end: that is what DumpFile needs.
`OneThreadCorrect` is the other side of the finding `StartedByFirstRead`: in
`PatientSpec`, where no Read gives up, the first Read keeps the mutex that
`StartThread()` would have to lock (`MutexKept`), so that no Read assigns to a
`std::thread` that runs, whatever else fails.

**Accounting_proofs.** `TypeCorrect`; `TimelineCorrect` (initial, latest and
returned state and the present are in order, and what the first Read stored and
returned is the latest state or an earlier one, `FirstCopies`), with `ReadStep` for
the Reads; `ReadAdvancesCorrect` from it, with `ReceiveStep` for what each Read
hands out; and `WithinPowerCorrect`, the two energy invariants, for any powers and any history.
`MeterCorrect` is the refinement: the initial state is one of a Meter, `Tick`,
`InitialSample`, `Measure` and `FirstReadStores` are a `Pass` or a stutter,
`FirstReadReturns` and `Read` a `Report`, whose bounds are those of the received
state. Lemmas carry the arithmetic: the mean of two powers over a time lies within the
bounds for that time (`MeanWithinPower`), so does a constant power
(`ConstantWithinPower`), a quotient of a bounded energy by its time is a bounded
power (`QuotientWithinPower`), and consecutive bounds add up
(`WithinPowerAddsUp`). The strengthening `ReportsWithinPower` is needed for
backends that report energy: the power derived at the *next* sample is bounded
only because the device has drawn a bounded energy since the last one.

**SharedState_proofs.** What a client gets is put together from copies that fall
anywhere between the assignments of the other thread, so the invariant speaks of
every pair of time and energy that is in either State, on its way into it, or in
the hands of `Read()`: each is *possible*, its energy no later than its time and
no further behind it than one interval. The order of State.h:15-19 enters where
a copy that has the time but not yet the energy is described: the energy it will
find is that of a sample no older than the one the time came from, and never ahead of what
has been drawn. `EnergyNeverAheadCorrect`, `LagBoundedCorrect` and
`NeverBackInTimeCorrect` follow, and with them `MeterCorrect`, the refinement.
`ThreadCorrect` is the other refinement: every step is one of MeasurementThread
or changes none of its variables. `HandoverCorrect` takes the safety theorems of
MeasurementThread_proofs over by it, `ReadIsMeasured` included. `TypeCorrect` bounds every member by the
length of the run; it needs `Inductive`, since that `latest + 1 tick` stays within
that length holds only because no energy is ahead of its time.

**Polling_proofs.** The age of the latest sample is bounded by how many samples
have failed since and by where the thread is (`LatestIsFresh`): at most
`MaxLatency + failures * (MaxSleep + MaxLatency) + timer` while it sleeps, and
`MaxSleep` more while it samples; except while NVML only repeats what its
constructor read. `ReturnedIsOlder` says that the returned state is at least as old
as the last Read, and no older than values that are only repeated, so that a later
Read extrapolates rather than return them. With it, `Inductive` gives
`RecentTimeCorrect` directly; `RecentPowerCorrect` adds that when the last Read is
longer than `Bound` ago, the returned state is older than any possible latest one, so
that the latter is taken. Neither restricts when the client calls `Read()`.
`FastBackendStartsCorrect` is a race between two sums: the owner has slept for at
least `Interval` times the sum of its turns (`Turns`, `Elapsed`), and the thread
has used at most what the two samples and the sleep before them may take
(`AtMost`); `Race` relates the two at every pair of places. The wait is
longer than its comment says, and this shows that it is never too short: if
`Bound < Waited`, only a Read of a poisoned Xilinx gives up. No run checks it.

**Sensors_proofs.** The sum of the entries is `SumFunctionOnSet`, defined by
recursion over subsets. `SumsExist` shows that the recursion has a solution,
`SumsStep` what it computes in a step, and `SumLinear` that sums are linear, by
induction over the size of subsets (`SubsetInduction`). The theorem of the library
takes its hypothesis as an operator, which the provers cannot instantiate;
`SubsetInduction` takes it as the set of the subsets for which it holds, and gets
it from the well-foundedness of the numbers. Each step of `Derive` and
`Extrapolate` is then a linear combination of States whose entry 0 is a sum. The
quotients need more: `ScaleAssumption` makes `Scale` a multiple of every distance,
and `QuotientExact` turns that into `(e * Scale) \div t` being linear in `e`.
The invariant of `Inductive` says of both States that they have a total until a
sensor stops, and what is left of it afterwards (`TotalKeeps`). For the latter, a
sample in which some sensors are at 0 W leaves an entry of the total that only grows
and entries of sensors that are no more than accumulated (`Unsigned`, `SumPositive`,
`DerivedFromPower`); `OnlyPowerStops` says which backends this concerns.
`LatestTotalCorrect` and `ReturnedTotalCorrect` follow, for any number of sensors,
any powers, 0 W included, and any order in which they stop and start.

**Setup_proofs.** `Inductive` says that the object is what its constructor makes
of the environment; the rest is about the algorithms. The loops of Likwid and NVML
are folds, by recursion over subsets of the indices again: `LoopExists` and
`LoopStep` turn the fold into a sequence of turns. If each socket can be found
(`EachIsFound`), Likwid has after *n* turns a group for each of the first *n*
sockets, in their order (`Ordered`, `TurnKeepsOrder`), for any number of hardware
threads: only the limit of the search, or a socket without active CPU, makes it skip
one and shift the others. After *n* turns of NVML (`Scanned`) the fields in
front of the index are those among the first *n* that were kept, each with its
value, the fields from it on are those not looked at, and the index of the default
points to the default field if it is in front; `ScanErases` and `ScanKeeps` are
the two kinds of turn. RAPL and `Create()` are proved by cases. That proof found a
fault of the model: two cases of `Create` overlapped, and TLA+ leaves open which
one is taken where TLC takes the first.
`CrayOrderedByKindCorrect` rests on the loop of CrayFiles: what `Keep` returns has
an increasing sequence of places in what it is applied to and holds each kept
element there (`KeepPlaces`, `KeepFacts`). Names kept from the alphabetical
sequence are therefore in its order (`SortFacts`). `HandleStep` shows what one
substring does to the two vectors (`Handled`): the ordered ones hold exactly the
names of the priorities so far, in order and each once, and those that are left
hold the others. After the three substrings the rest follows, and both vectors
together have as many entries as the directory has counters (`SameLength`, by
cardinality).

**DumpFile_proofs.** Each line in progress is written by the holder of
`dump_file_mutex_` (`Mutex`), and the stream that it began in ends with its
beginning, or is a new one that is still empty (`Lines`): hence
`LinesNotMixedCorrect`. No row is later than `latest` and the next is further
than the interval from it (`Rows`): `RowsSpacedCorrect`. A stream that was
there before the thread has its header, is about to get it, or is empty and the
thread has written nothing (`Headers`): `HeaderFirstCorrect`. `ThreadCorrect` shows
that every step is one of MeasurementThread, its `Terminate` or none of it, and
`HandoverCorrect` concludes with `EndingCorrect`: whenever a dump is started, marked,
replaced or stopped, the `Read()` that `StartDump()` ends with, like any other,
returns a measured state.
`GuardedCorrect` is the other side of the finding `WritesToOpenFile`: if the owner
left `dump_file_` alone from the test of it in `DumpHeader()` or
`Dump()` to the end of the line (`GuardedSpec`), each line would go to a stream
that exists, no write would end the process, and every step would be one of
MeasurementThread. Holding `dump_file_mutex_` in `StopDump()` is not enough for it,
since the thread tests the pointer before it locks (PMT.cpp:151, 165-166).

**RaplCounter_proofs.** `CounterCorrect` is the inductive invariant: once
constructed, `energy_uj_previous` still is the first value; construction, last
read and present are in order; and as long as no read was after the first wrap
and none yielded nothing, that of the constructor included, the offset is zero and
the result exact.
`NoUnderflowCorrect` and `ExactBeforeWrapCorrect` follow. That the result cannot
be negative rests on `previous` being the first value, the very thing that makes
`WrapCountedOnce` fail.

Assumptions: those named `...Assumption` in the modules. `MaxTime`, `MaxTotal`
and `MaxOffset` only stop the clock, the hardware and the offset; the proofs hold
for every value of them, however large.

`SizesAssumption` of Sensors and SharedState asks for a run of at least one tick,
`ScaleAssumption` is what makes powers of integers possible at all (see the run
`sensors`), `RetriesAssumption`,
`FaultsAssumption` and the `SizesAssumption` of Setup only say what the constants
are.

Every safety property of the passing runs, each action property and each
refinement has a theorem, under the same exceptions as in the runs. Only model-checked are the liveness properties
(`WaitEnds`, `DestructorEnds`, `ThreadStarts`), since TLAPS treats neither
fairness nor ENABLED.

## 6. Assumptions and limits

- One thread owns the object; PMT makes no promise for two.
- `volatile bool` flags and word-sized members are read and written at once and
  in program order, which is what x86 processors do. The C++ standard calls these
  accesses data races; an out-of-order processor could add behaviours that are
  not modelled.
- Unlocking a `std::mutex` in another thread, and `try_lock` on one's own, are
  undefined in the standard. They are modelled as a glibc mutex behaves: the first
  releases it, the second fails.
- The clock only moves forward, except in Sensors, and a sample comes a nonzero
  time after the one before (the loop sleeps a positive interval). A duration of
  exactly zero, which a clock that is set back or a device clock could produce,
  is not modelled: the code divides by it.
- Sleeps and `GetState()` have an upper bound in Polling (any, but fixed). No
  operating system promises one; the bound of `RecentTime` is a function of it.
- `errno` of Polling is set by the thread's own failed samples; any other library
  call in the thread could set it as well.
- Numbers are integers: no float rounding, no infinities from a division by 0.
  The 64-bit offset of RaplCounter does not overflow.
- A State keeps its number of entries during a measurement.
- NVML with no field left indexes empty vectors (NVMLImpl.cpp:79-88), which is
  undefined; the model returns an empty State there and no property speaks of it.
- The clock of PowerSensor2 is not that of `Extrapolate()`; Accounting has one clock.
- The members of a derived backend live until `~PMT()` returns. In the code they
  are destroyed before it runs, while the thread may still use them.
- File names, formats, names of entries and debug output are left out.

Not modelled at all: the examples, tests and build files; the search for a
device in AMDSMI, Tegra and PowerSensor; the command that the executable measures;
and parsing of files and environment variables.

## 7. The plan

Order of work: the protocol of the two threads, then what they share, then the
numbers, then single backends.

1. Done: MeasurementThread, SharedState, DumpFile, Accounting, Polling and
   RaplCounter with their proofs; Meter and the refinements; Sensors, the five
   algorithms and Setup with theirs.
2. What could come next:
   - the numbers of floats: a duration of zero and the infinity it gives, sums
     over long runs;
   - the destruction of a backend, once it has a defined order; a Dummy whose
     sensors change during a measurement;
   - the contents of rows, and PMT_DUMP_INTERVAL with a value that does not parse;
   - packages of several dies in RAPL, fields of the legacy mode of NVML.
3. Proofs: done for every safety property. The theorems to add would be those of
   the extensions above.
