-------------------------------- MODULE Polling --------------------------------
(***************************************************************************)
(* How old the power is that a polling client gets: the measurement loop   *)
(* sleeps, calls GetState(), which takes its time and may fail as each     *)
(* backend fails, and publishes the sample; the client waits for the first *)
(* one and then calls Read() whenever it likes, back to back or after any  *)
(* pause, so that the PMT executable is among the clients (bin/main.cpp).  *)
(* Read() prefers whichever is newer, the latest sample or the state that  *)
(* it extrapolated before.                                                 *)
(*                                                                         *)
(* Time is relative: instead of a clock there are ages, which stop growing *)
(* at Horizon, so that runs need no last tick. A timestamp is taken        *)
(* somewhere in GetState(); the call includes the refresh period of a      *)
(* device that brings its own timestamps. Values are reduced to whether    *)
(* the device was really read. MeasurementThread.tla has the hand-over.    *)
(***************************************************************************)
EXTENDS Integers

CONSTANTS
    Interval,     \* measurement_interval_
    MaxSleep,     \* what sleep_for(Interval) takes at most
    MaxLatency,   \* what GetState() takes at most
    MaxFailures,  \* samples of the device that fail one after the other
    kNrRetriesInitialization,
    Backends,     \* those examined, a subset of AllBackends
    Horizon       \* ages grow up to here: a bound for TLC only

AllBackends == {"cray", "amdsmi", "nvml", "tegra", "rapl", "xilinx", "rocm"}

\* The longest time from the start of one sample to the end of the next that succeeds.
Bound == MaxLatency + (MaxFailures + 1) * (MaxSleep + MaxLatency)

\* The time after which Read() looks at the mutex for the last time.
Waited == Interval * (((kNrRetriesInitialization + 1) * (kNrRetriesInitialization + 2)) \div 2)

ASSUME TimesAssumption ==
    /\ Interval \in Nat /\ MaxSleep \in Nat /\ MaxLatency \in Nat /\ MaxFailures \in Nat
    /\ Horizon \in Nat /\ kNrRetriesInitialization \in Nat
    /\ Interval <= MaxSleep
ASSUME HorizonAssumption ==
    /\ Bound < Horizon
    /\ Interval * (kNrRetriesInitialization + 2) <= Horizon
ASSUME BackendsAssumption == Backends \subseteq AllBackends

VARIABLES
    backend,
    tpc,        \* the thread: "init", "sleep", "sample", "ended"
    timer,      \* since when it is there
    failures,   \* samples that have failed one after the other
    sampled,    \* the device has been read since the constructor: for the properties
    errno,      \* of the measurement thread: an error has occurred in it
    published,  \* the mutex has been unlocked
    pc,         \* the client: "wait", "idle", "failed", "ended"
    since,      \* the time since it went to sleep or since the last Read()
    retries,
    latest,     \* of state_latest: the age of the timestamp, and whether the power is real
    returned    \* of state_returned: the age of the timestamp, and the power with its own age

threadVars == <<tpc, timer, failures, sampled, errno, published, latest>>
clientVars == <<pc, since, retries, returned>>
vars       == <<backend, threadVars, clientVars>>

Ages == 0 .. Horizon

TypeOK ==
    /\ backend \in Backends
    /\ tpc \in {"init", "sleep", "sample", "ended"}
    /\ timer \in Nat
    /\ tpc = "sleep" => timer <= MaxSleep
    /\ tpc \in {"init", "sample"} => timer <= MaxLatency
    /\ failures \in 0 .. MaxFailures
    /\ sampled \in BOOLEAN
    /\ errno \in BOOLEAN
    /\ published \in BOOLEAN
    /\ pc \in {"wait", "idle", "failed", "ended"}
    /\ since \in Ages
    /\ retries \in 0 .. (kNrRetriesInitialization + 1)
    /\ latest \in [age : Ages, real : BOOLEAN]
    /\ returned \in [age : Ages, power : Ages, real : BOOLEAN]

Older(age) == IF age < Horizon THEN age + 1 ELSE age

-----------------------------------------------------------------------------
(* What GetState() comes to when the device fails: "thrown" is a            *)
(* pmt::Exception, "stale" the values and the timestamp of the call before, *)
(* "zero" a State with 0 for the reading, "uncaught" any other exception.   *)

\* A file that does not open, is empty or holds no number.
CrayFailure == {"thrown"}

\* AmdsmiError is a pmt::Exception.
AMDSMIFailure == {"thrown"}

\* Nobody looks at the return codes of the fields; the call itself may throw.
NVMLFailure == {"thrown", "stale"}

\* atoi() of a line that could not be read.
TegraFailure == {"zero"}

\* energy_uj of a file that yields no line.
RaplFailure == {"zero"}

\* The file was not opened, which also leaves its mark in errno, or holds no number.
XilinxFailure == {"thrown", "zero"}

\* RocmError is no pmt::Exception.
ROCMFailure == {"uncaught"}

\* GetState() is virtual: how it fails is up to the backend.
Failure ==
    CASE backend = "cray"   -> CrayFailure
      [] backend = "amdsmi" -> AMDSMIFailure
      [] backend = "nvml"   -> NVMLFailure
      [] backend = "tegra"  -> TegraFailure
      [] backend = "rapl"   -> RaplFailure
      [] backend = "xilinx" -> XilinxFailure
      [] backend = "rocm"   -> ROCMFailure

\* GetPower() of Xilinx fails whenever errno is set, and nothing in the thread resets
\* it. Here it is set by the thread's own failed samples only.
Poisoned == backend = "xilinx" /\ errno

-----------------------------------------------------------------------------
Init ==
    /\ backend \in Backends
    /\ tpc = "init" /\ timer = 0 /\ failures = 0
    /\ sampled = FALSE
    /\ errno = FALSE
    /\ published = FALSE
    /\ pc = "wait" /\ since = 0 /\ retries = 0
    /\ latest = [age |-> 0, real |-> FALSE]
    /\ returned = [age |-> 0, power |-> 0, real |-> FALSE]

\* Time passes, unless somebody must move on first.
Tick ==
    /\ tpc \in {"init", "sample"} => timer < MaxLatency
    /\ tpc = "sleep" => timer < MaxSleep
    /\ pc = "wait" => since < Interval * (retries + 1)
    /\ timer' = IF tpc = "ended" THEN timer ELSE timer + 1
    /\ since' = Older(since)
    /\ latest' = [latest EXCEPT !.age = Older(@)]
    /\ returned' = [returned EXCEPT !.age = Older(@), !.power = Older(@)]
    /\ UNCHANGED <<backend, tpc, failures, sampled, errno, published, pc, retries>>

GoTo(where) == tpc' = where /\ timer' = 0

\* The GetState() before the loop.
InitialState ==
    /\ tpc = "init"
    /\ \E age \in 0 .. timer : latest' = [age |-> age, real |-> TRUE]
    /\ sampled' = TRUE
    /\ GoTo("sleep")
    /\ UNCHANGED <<backend, failures, errno, published, clientVars>>

\* The device fails, and the GetState() before the loop returns a State nevertheless:
\* the values to repeat are those that the constructor has read, however long ago.
InitialUnread ==
    /\ tpc = "init"
    /\ failures < MaxFailures
    /\ failures' = failures + 1
    /\ \/ "zero" \in Failure /\ \E age \in 0 .. timer : latest' = [age |-> age, real |-> FALSE]
       \/ "stale" \in Failure /\ \E age \in timer .. Horizon : latest' = [age |-> age, real |-> TRUE]
    /\ GoTo("sleep")
    /\ UNCHANGED <<backend, sampled, errno, published, clientVars>>

\* An exception of the GetState() before the loop ends the process, of whatever type.
InitialFailure ==
    /\ tpc = "init"
    /\ Failure \cap {"thrown", "uncaught"} # {}
    /\ failures < MaxFailures
    /\ GoTo("ended")
    /\ pc' = "ended"
    /\ UNCHANGED <<backend, failures, sampled, errno, published, latest, since, retries, returned>>

WakeUp ==
    /\ tpc = "sleep" /\ timer >= Interval
    /\ GoTo("sample")
    /\ UNCHANGED <<backend, failures, sampled, errno, published, latest, clientVars>>

\* Variant: state_latest is assigned only until the thread has started.
SampleFirst ==
    /\ tpc = "sample" /\ ~Poisoned
    /\ latest' = IF published THEN latest ELSE [age |-> timer, real |-> TRUE]
    /\ failures' = 0 /\ sampled' = TRUE
    /\ published' = TRUE
    /\ GoTo("sleep")
    /\ UNCHANGED <<backend, errno, clientVars>>

\* GetState() returns a State, which is published; the first one unlocks the mutex.
Sample ==
    /\ tpc = "sample" /\ ~Poisoned
    /\ \E age \in 0 .. timer : latest' = [age |-> age, real |-> TRUE]
    /\ failures' = 0 /\ sampled' = TRUE
    /\ published' = TRUE
    /\ GoTo("sleep")
    /\ UNCHANGED <<backend, errno, clientVars>>

\* The device fails, and GetState() returns a State nevertheless.
SampleUnread ==
    /\ tpc = "sample" /\ ~Poisoned
    /\ failures < MaxFailures
    /\ failures' = failures + 1
    /\ \/ "zero" \in Failure /\ \E age \in 0 .. timer : latest' = [age |-> age, real |-> FALSE]
       \/ "stale" \in Failure /\ latest' = latest
    /\ published' = TRUE
    /\ GoTo("sleep")
    /\ UNCHANGED <<backend, sampled, errno, clientVars>>

\* GetState() throws a pmt::Exception: the loop continues. The call that failed has
\* set errno.
SampleFailure ==
    /\ tpc = "sample"
    /\ "thrown" \in Failure
    /\ \/ failures < MaxFailures /\ failures' = failures + 1
       \/ Poisoned /\ failures' = failures
    /\ errno' = TRUE
    /\ GoTo("sleep")
    /\ UNCHANGED <<backend, sampled, published, latest, clientVars>>

\* Nothing catches it: std::terminate().
SampleCrash ==
    /\ tpc = "sample"
    /\ "uncaught" \in Failure
    /\ failures < MaxFailures
    /\ GoTo("ended")
    /\ pc' = "ended"
    /\ UNCHANGED <<backend, failures, sampled, errno, published, latest, since, retries, returned>>

-----------------------------------------------------------------------------
(* The client. *)

\* Turn n of the wait of the first Read() sleeps n intervals and tries the mutex.
WaitOn ==
    /\ pc = "wait" /\ since >= Interval * (retries + 1)
    /\ retries <= kNrRetriesInitialization
    /\ ~published
    /\ retries' = retries + 1
    /\ since' = 0
    /\ UNCHANGED <<backend, threadVars, pc, returned>>

GiveUp ==
    /\ pc = "wait" /\ since >= Interval * (retries + 1)
    /\ retries > kNrRetriesInitialization
    /\ pc' = "failed"
    /\ UNCHANGED <<backend, threadVars, since, retries, returned>>

\* state_latest as it is, which also becomes state_returned.
Adopted == [age |-> latest.age, power |-> latest.age, real |-> latest.real]

FirstRead ==
    /\ pc = "wait" /\ since >= Interval * (retries + 1)
    /\ retries <= kNrRetriesInitialization
    /\ published
    /\ returned' = Adopted
    /\ pc' = "idle" /\ since' = 0
    /\ UNCHANGED <<backend, threadVars, retries>>

\* Variant: the comparison of the timestamps is the other way round.
ReadOlder ==
    /\ pc = "idle"
    /\ returned' = IF latest.age > returned.age THEN Adopted ELSE [returned EXCEPT !.age = 0]
    /\ since' = 0
    /\ UNCHANGED <<backend, threadVars, pc, retries>>

\* A later Read(), at any time: the newer of state_latest and state_returned, and the latter is
\* moved to the present, with the power that it had.
Read ==
    /\ pc = "idle"
    /\ returned' = IF latest.age < returned.age THEN Adopted ELSE [returned EXCEPT !.age = 0]
    /\ since' = 0
    /\ UNCHANGED <<backend, threadVars, pc, retries>>

ThreadStep ==
    \/ InitialState \/ InitialUnread \/ InitialFailure
    \/ WakeUp
    \/ Sample \/ SampleUnread \/ SampleFailure \/ SampleCrash

ClientStep == WaitOn \/ GiveUp \/ FirstRead \/ Read

Next == Tick \/ ThreadStep \/ ClientStep

Spec == Init /\ [][Next]_vars

-----------------------------------------------------------------------------
(* What the client gets. *)

\* All that the thread has of the device are the values that the constructor has read.
OnlyRepeated == "stale" \in Failure /\ ~sampled

\* The age of the latest sample, by the failures since and the place of the thread.
LatestIsFresh ==
    LET oldest == MaxLatency + failures * (MaxSleep + MaxLatency) + timer
    IN  ~Poisoned /\ ~OnlyRepeated =>
            /\ tpc = "sleep" => latest.age <= oldest
            /\ tpc = "sample" => latest.age <= oldest + MaxSleep

\* The returned state is at least as old as the last Read(), and no older than values
\* that are only repeated; what is published was read from the device, unless the
\* backend reports 0 when it was not.
ReturnedIsOlder ==
    /\ tpc = "init" => ~sampled
    /\ published => tpc # "init"
    /\ tpc = "ended" => pc = "ended"
    /\ pc = "idle" => published /\ returned.age >= since
    /\ pc = "idle" /\ OnlyRepeated => returned.age <= latest.age
    /\ "zero" \notin Failure =>
          (tpc # "init" /\ tpc # "ended" => latest.real) /\ (pc = "idle" => returned.real)

\* The time of a State that Read() returns is recent, however the Reads fall between
\* samples, failures and extrapolations (PMT.cpp:75, 87-120, 201-215). Two backends
\* are excepted: Xilinx once errno keeps it from sampling, and the first Read() of NVML
\* when only the values of its constructor have been repeated (NVMLImpl.cpp:49, 75-84).
RecentTime ==
    [][FirstRead \/ Read =>
          returned'.age <= Bound \/ Poisoned \/ (FirstRead /\ OnlyRepeated)]_vars

\* The power of the first Read(), and of each one that comes more than Bound after the
\* one before, was read from the device within Bound: what an extrapolated state may
\* hide from a client that polls faster, it shows again after one longer pause
\* (PMT.cpp:205-215). The power is a real one, if the backend throws or repeats when
\* the device fails. The exceptions are the two backends of RecentTime.
RecentPower ==
    [][FirstRead \/ (Read /\ since > Bound) =>
          \/ Poisoned \/ OnlyRepeated
          \/ /\ returned'.power <= Bound
             /\ "zero" \in Failure \/ returned'.real]_vars

\* The wait of the first Read() outlasts every backend whose first two samples take
\* less than the 1 + 2 + ... intervals of its turns (PMT.cpp:193-199).
FastBackendStarts == Bound < Waited /\ ~Poisoned => pc # "failed"

=============================================================================
