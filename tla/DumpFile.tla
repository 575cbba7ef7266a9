-------------------------------- MODULE DumpFile --------------------------------
(***************************************************************************)
(* The dump file of a pmt::PMT object: StartDump(), StopDump(), Mark() and *)
(* the destructor in the owner, DumpHeader() and Dump() in the measurement *)
(* thread (common/PMT.cpp). The control of both threads is that of         *)
(* MeasurementThread; this module adds the stream behind dump_file_, the   *)
(* dump_file_mutex_ and the clock that decides which samples are dumped.   *)
(*                                                                         *)
(* DumpHeader() and Dump() write a line in several statements, and each    *)
(* dereferences dump_file_ anew: a line is its "begin" and its "end" here. *)
(* Every StartDump() makes a stream of its own, numbered in order, also    *)
(* when the file name is the same.                                         *)
(***************************************************************************)
EXTENDS Integers, Sequences

CONSTANTS
    kNrRetriesInitialization, Faults,  \* as in MeasurementThread
    DumpInterval,                      \* GetDumpInterval(), in ticks of the clock
    MaxFiles, MaxMarks, MaxTime        \* bounds for TLC only

ASSUME DumpAssumption == DumpInterval \in Nat /\ MaxFiles \in Nat /\ MaxTime \in Nat
ASSUME RetriesAssumption == kNrRetriesInitialization \in Nat

VARIABLES
    pc, tpc, retries, joinable, locked, thread_started, thread_stop,
    state_latest, state_returned,  \* of MeasurementThread
    clock,
    latest, sample,  \* the timestamps of state_latest_ and of the local State
    op,              \* the call of this module that the owner is in
    dump_file_,      \* the stream it points to, 0 for nullptr
    opened,          \* the number of streams made so far
    early,           \* those made before the measurement thread was
    marks,           \* the number of lines that Mark() has written
    content,         \* what was written to each stream
    dump, line,      \* how far the thread is with dumping, and what it dumps
    target,          \* the stream it has dereferenced, 0 for none
    dump_locked      \* dump_file_mutex_ is held

threadVars == <<pc, tpc, retries, joinable, locked, thread_started, thread_stop,
                state_latest, state_returned>>
timeVars   == <<clock, latest, sample>>
ownerVars  == <<op, dump_file_, opened, early, marks>>
dumpVars   == <<dump, line, target>>
vars       == <<threadVars, timeVars, ownerVars, content, dumpVars, dump_locked>>

Thread == INSTANCE MeasurementThread

ASSUME FaultsAssumption == Faults \subseteq Thread!AllFaults

Files == 1 .. MaxFiles

Init ==
    /\ Thread!Init
    /\ clock = 1 /\ latest = 0 /\ sample = 0
    /\ op = "none"
    /\ dump_file_ = 0
    /\ opened = 0
    /\ early = {}
    /\ marks = 0
    /\ content = [f \in Files |-> <<>>]
    /\ dump = "no" /\ line = "header" /\ target = 0
    /\ dump_locked = FALSE

Tick ==
    /\ clock < MaxTime
    /\ clock' = clock + 1
    /\ UNCHANGED <<threadVars, latest, sample, ownerVars, content, dumpVars, dump_locked>>

\* A statement that writes to stream f.
Put(f, l, p, t) ==
    content' = [content EXCEPT ![f] = Append(@, [line |-> l, part |-> p, time |-> t])]

-----------------------------------------------------------------------------
(* The owner. *)

Idle == pc = "idle" /\ op = "none"

\* StartDump() up to its Read(): the new stream takes the place of the one before,
\* which is destroyed.
StartDump ==
    /\ Idle
    /\ opened < MaxFiles
    /\ opened' = opened + 1
    /\ dump_file_' = opened'
    /\ early' = IF tpc = "none" THEN early \cup {opened'} ELSE early
    /\ op' = "read"
    /\ UNCHANGED <<threadVars, timeVars, marks, content, dumpVars, dump_locked>>

\* Read(), by the client or at the end of StartDump().
Read ==
    /\ op \in {"none", "read"}
    /\ Thread!Read
    /\ op' = "none"
    /\ UNCHANGED <<timeVars, dump_file_, opened, early, marks, content, dumpVars, dump_locked>>

\* dump_file_.reset(), without dump_file_mutex_; in ~PMT() too, before StopThread().
StopDump ==
    /\ Idle
    /\ dump_file_' = 0
    /\ op' \in {"none", "destroy"}
    /\ UNCHANGED <<threadVars, timeVars, opened, early, marks, content, dumpVars, dump_locked>>

Destroy ==
    /\ op = "destroy"
    /\ Thread!Destroy
    /\ op' = "none"
    /\ UNCHANGED <<timeVars, dump_file_, opened, early, marks, content, dumpVars, dump_locked>>

\* Mark() when there is a dump file; without one it does nothing.
Mark ==
    /\ Idle
    /\ marks < MaxMarks
    /\ dump_file_ # 0
    /\ op' = "mark"
    /\ UNCHANGED <<threadVars, timeVars, dump_file_, opened, early, marks, content, dumpVars,
                   dump_locked>>

BeginMark ==
    /\ op = "mark"
    /\ ~dump_locked
    /\ dump_locked' = TRUE
    /\ Put(dump_file_, "mark", "begin", clock)
    /\ op' = "marking"
    /\ UNCHANGED <<threadVars, timeVars, dump_file_, opened, early, marks, dumpVars>>

EndMark ==
    /\ op = "marking"
    /\ Put(dump_file_, "mark", "end", clock)
    /\ dump_locked' = FALSE
    /\ marks' = marks + 1
    /\ op' = "none"
    /\ UNCHANGED <<threadVars, timeVars, dump_file_, opened, early, dumpVars>>

-----------------------------------------------------------------------------
(* The measurement thread. *)

\* Variant: the loop starts without a header.
InitialStateOnly ==
    /\ Thread!InitialState
    /\ latest' = clock
    /\ UNCHANGED <<clock, sample, ownerVars, content, dumpVars, dump_locked>>

\* After the initial sample: if (dump_file_) DumpHeader(state_latest_).
InitialState ==
    /\ Thread!InitialState
    /\ latest' = clock
    /\ dump' = IF dump_file_ # 0 THEN "check" ELSE "no"
    /\ line' = "header"
    /\ UNCHANGED <<clock, sample, ownerVars, content, target, dump_locked>>

\* A sample, which is later than the one before as long as the clock runs.
Sample ==
    /\ Thread!Sample
    /\ dump = "no"
    /\ clock > latest \/ clock = MaxTime
    /\ sample' = clock
    /\ dump' = "test"
    /\ line' = "row"
    /\ UNCHANGED <<clock, latest, ownerVars, content, target, dump_locked>>

\* Variant: every sample is dumped.
TestOpen ==
    /\ dump = "test"
    /\ dump' = IF dump_file_ # 0 THEN "check" ELSE "no"
    /\ UNCHANGED <<threadVars, timeVars, ownerVars, content, line, target, dump_locked>>

\* The condition of the loop: a dump file, and an interval longer than DumpInterval.
TestInterval ==
    /\ dump = "test"
    /\ dump' = IF dump_file_ # 0 /\ sample - latest > DumpInterval THEN "check" ELSE "no"
    /\ UNCHANGED <<threadVars, timeVars, ownerVars, content, line, target, dump_locked>>

\* The condition of DumpHeader() and Dump(), before they lock the mutex.
CheckOpen ==
    /\ dump = "check"
    /\ dump' = IF dump_file_ # 0 THEN "lock" ELSE "no"
    /\ UNCHANGED <<threadVars, timeVars, ownerVars, content, line, target, dump_locked>>

\* Variant: the line is written without dump_file_mutex_.
BeginWithoutLock ==
    /\ dump = "lock"
    /\ dump' = "begin"
    /\ UNCHANGED <<threadVars, timeVars, ownerVars, content, line, target, dump_locked>>

LockDumpFile ==
    /\ dump = "lock"
    /\ ~dump_locked
    /\ dump_locked' = TRUE
    /\ dump' = "begin"
    /\ UNCHANGED <<threadVars, timeVars, ownerVars, content, line, target>>

\* *dump_file_ at the start of a statement.
Dereference ==
    /\ dump \in {"begin", "end"}
    /\ target = 0
    /\ dump_file_ # 0
    /\ target' = dump_file_
    /\ UNCHANGED <<threadVars, timeVars, ownerVars, content, dump, line, dump_locked>>

\* The process dies: writing through nullptr, or to a stream that is destroyed.
WriteCrash ==
    /\ dump \in {"begin", "end"}
    /\ IF target = 0 THEN dump_file_ = 0 ELSE target # dump_file_
    /\ Thread!Terminate
    /\ UNCHANGED <<timeVars, ownerVars, content, dumpVars, dump_locked>>

\* Variant: the mutex is not released.
WriteAndKeep ==
    /\ dump \in {"begin", "end"}
    /\ target # 0
    /\ IF target = dump_file_
          THEN Put(target, line, dump, IF line = "row" THEN sample ELSE latest)
          ELSE UNCHANGED content
    /\ target' = 0
    /\ dump' = IF dump = "begin" THEN "end" ELSE "no"
    /\ UNCHANGED <<threadVars, timeVars, ownerVars, line, dump_locked>>

\* The rest of a statement, and after the last one the mutex is released. What is
\* written to a destroyed stream is lost, if the process survives it.
Write ==
    /\ dump \in {"begin", "end"}
    /\ target # 0
    /\ IF target = dump_file_
          THEN Put(target, line, dump, IF line = "row" THEN sample ELSE latest)
          ELSE UNCHANGED content
    /\ target' = 0
    /\ dump' = IF dump = "begin" THEN "end" ELSE "no"
    /\ dump_locked' = (dump = "begin")
    /\ UNCHANGED <<threadVars, timeVars, ownerVars, line>>

\* state_latest_ = state
Publish ==
    /\ Thread!Publish
    /\ dump = "no"
    /\ latest' = sample
    /\ UNCHANGED <<clock, sample, ownerVars, content, dumpVars, dump_locked>>

-----------------------------------------------------------------------------
\* The steps of MeasurementThread that do not touch the dump file.
OwnerControl ==
    /\ op = "none"
    /\ \/ Thread!LockThreadMutex
       \/ Thread!SpawnThread \/ Thread!SpawnOverThread \/ Thread!SpawnFailure
       \/ Thread!TryLock \/ Thread!GiveUp
       \/ Thread!FirstRead \/ Thread!ReadLatest
       \/ Thread!Join
    /\ UNCHANGED <<timeVars, ownerVars, content, dumpVars, dump_locked>>

ThreadControl ==
    /\ dump = "no"
    /\ \/ Thread!InitialFailure
       \/ Thread!TestStop
       \/ Thread!SampleFailure \/ Thread!SampleCrash
       \/ Thread!UnlockThreadMutex \/ Thread!SignalStarted
    /\ UNCHANGED <<timeVars, ownerVars, content, dumpVars, dump_locked>>

ClientCall == StartDump \/ StopDump \/ Mark \/ (op = "none" /\ Read)

OwnerStep ==
    /\ pc # "ended"
    /\ \/ (op = "read" /\ Read)
       \/ Destroy
       \/ BeginMark \/ EndMark
       \/ OwnerControl

ThreadStep ==
    /\ tpc # "ended"
    /\ \/ InitialState \/ Sample \/ Publish
       \/ TestInterval \/ CheckOpen \/ LockDumpFile
       \/ Dereference \/ Write \/ WriteCrash
       \/ ThreadControl

Next == Tick \/ ClientCall \/ OwnerStep \/ ThreadStep

Spec == Init /\ [][Next]_vars

\* Time passes, and the scheduler runs both threads.
FairSpec == Spec /\ WF_vars(Tick) /\ WF_vars(OwnerStep) /\ WF_vars(ThreadStep)

-----------------------------------------------------------------------------
\* A part that ends a line follows the part of the same line that began it, or opens
\* the stream; a part that begins one does not break into another.
Whole(s) ==
    \A i \in 1 .. (Len(s) - 1) :
        IF s[i].part = "begin"
        THEN s[i + 1].part = "end" /\ s[i + 1].line = s[i].line
        ELSE s[i + 1].part = "begin"

\* The lines of Mark() and those of the measurement thread are never mixed in one
\* stream, although both write while the other runs (PMT.cpp:153-182). Only the
\* stream that is replaced during a line may end, and the new one begin, in it.
LinesNotMixed ==
    \A f \in Files : Whole(content[f])

\* Two rows of one stream are more than GetDumpInterval() apart (PMT.cpp:101-104):
\* the interval is measured from the sample before, which a row cannot be later than.
RowsSpaced ==
    \A f \in Files :
        \A i, j \in DOMAIN content[f] :
            /\ i < j
            /\ content[f][i].line = "row" /\ content[f][j].line = "row"
            /\ content[f][i].part = content[f][j].part
            => content[f][j].time - content[f][i].time > DumpInterval

\* In a dump that is started before the first Read(), every row comes after the
\* header, however StartDump(), StopDump() and the thread overlap (PMT.cpp:83-85).
HeaderFirst ==
    \A f \in early :
        \A j \in DOMAIN content[f] :
            content[f][j].line = "row" =>
                \E i \in 1 .. (j - 1) : content[f][i].line = "header" /\ content[f][i].part = "end"

\* ~PMT() ends also while the thread dumps: neither of the two mutexes is left
\* locked in the other's way (PMT.cpp:29-32, 153-182).
DestructorEnds == (op = "destroy") ~> (pc = "gone" \/ pc = "ended")

-----------------------------------------------------------------------------
\* "if (dump_file_ != nullptr)" (PMT.cpp:165), by which the lines below are guarded,
\* though it is tested before dump_file_mutex_ is locked (166): while a line is written,
\* the stream that it goes to exists.
WritesToOpenFile ==
    dump \in {"begin", "end"} => dump_file_ # 0 /\ target \in {0, dump_file_}

=============================================================================
