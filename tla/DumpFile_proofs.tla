---------------------------- MODULE DumpFile_proofs ----------------------------
(***************************************************************************)
(* Proofs about DumpFile, for any interval, any number of streams and      *)
(* marks and any faults. The lines stay whole because whoever is inside a  *)
(* line holds dump_file_mutex_, and because a stream that took the place   *)
(* of another one during a line is empty until the line has ended.         *)
(***************************************************************************)
EXTENDS DumpFile, TLAPS

-----------------------------------------------------------------------------
(* The inductive invariant. *)

Part == [line : {"header", "row", "mark"}, part : {"begin", "end"}, time : Int]

InLine == dump \in {"begin", "end"}

Typed ==
    /\ clock \in Int /\ latest \in Int /\ sample \in Int /\ latest <= clock
    /\ sample <= clock
    /\ op \in {"none", "read", "destroy", "mark", "marking"}
    /\ opened \in 0 .. MaxFiles /\ dump_file_ \in 0 .. opened
    /\ early \subseteq 1 .. opened
    /\ content \in [Files -> Seq(Part)]
    /\ dump \in {"no", "test", "check", "lock", "begin", "end"}
    /\ line \in {"header", "row"}
    /\ target \in 0 .. opened

\* The thread is spawned once, and dumps only where its code dumps.
Places ==
    /\ ~joinable /\ pc \notin {"gone", "ended"} => tpc = "none"
    /\ tpc \in {"none", "init"} => dump = "no"
    /\ dump # "no" /\ line = "header" => tpc \in {"test", "ended"}
    /\ dump # "no" /\ line = "row" => tpc \in {"publish", "ended"}
    /\ dump = "test" => line = "row"
    /\ ~InLine => target = 0

\* dump_file_mutex_ is held by the one that is in a line.
Mutex ==
    /\ dump_locked = (InLine \/ op = "marking")
    /\ ~(InLine /\ op = "marking")
    /\ op \in {"mark", "marking"} => dump_file_ # 0

Closed(s)  == Len(s) = 0 \/ s[Len(s)].part = "end"
Open(s, l) == Len(s) # 0 /\ s[Len(s)].part = "begin" /\ s[Len(s)].line = l

\* How the current stream ends.
Lines ==
    /\ \A f \in Files : f > opened => Len(content[f]) = 0
    /\ dump_file_ # 0 =>
          /\ op = "marking" => Open(content[dump_file_], "mark")
          /\ dump = "end" =>
                Len(content[dump_file_]) = 0 \/ Open(content[dump_file_], line)
          /\ op # "marking" /\ dump # "end" => Closed(content[dump_file_])
          /\ target \notin {0, dump_file_} => Len(content[dump_file_]) = 0
    /\ LinesNotMixed

\* A part of a row is not newer than the latest sample, or it belongs to the next.
Past(e) ==
    \/ e.time <= latest
    \/ /\ tpc \in {"publish", "ended"} /\ line = "row" /\ dump \in {"end", "no"}
       /\ e.time = sample
       /\ dump = "end" => e.part = "begin"

Rows ==
    /\ tpc = "publish" => latest <= sample
    /\ line = "row" /\ dump \in {"check", "lock", "begin", "end"} => sample - latest > DumpInterval
    /\ \A f \in Files : \A i \in DOMAIN content[f] :
          content[f][i].line = "row" => Past(content[f][i])
    /\ RowsSpaced

HasHeader(s) == \E i \in DOMAIN s : s[i].line = "header" /\ s[i].part = "end"

\* Of the streams made before the thread, only the last can get rows, after its header.
Headers ==
    /\ dump_file_ \in early => target \in {0, dump_file_}
    /\ dump_file_ \in early /\ tpc \notin {"none", "init", "ended"} /\ (line = "row" \/ dump = "no")
          => HasHeader(content[dump_file_])
    /\ HeaderFirst

IInv == Typed /\ Places /\ Mutex /\ Lines /\ Rows /\ Headers

-----------------------------------------------------------------------------
(* Lines that are appended to a stream. *)

LEMMA AppendFacts ==
    ASSUME NEW s \in Seq(Part), NEW e \in Part
    PROVE  /\ Append(s, e) \in Seq(Part)
           /\ Len(s) \in Nat /\ Len(Append(s, e)) = Len(s) + 1
           /\ DOMAIN s = 1 .. Len(s) /\ DOMAIN Append(s, e) = 1 .. (Len(s) + 1)
           /\ \A i \in 1 .. Len(s) : Append(s, e)[i] = s[i]
           /\ Append(s, e)[Len(s) + 1] = e
  OBVIOUS

LEMMA AppendWhole ==
    ASSUME NEW s \in Seq(Part), NEW e \in Part, Whole(s),
           e.part = "begin" => Closed(s),
           e.part = "end" => Len(s) = 0 \/ Open(s, e.line)
    PROVE  Whole(Append(s, e))
<1>1. SUFFICES ASSUME NEW i \in 1 .. (Len(Append(s, e)) - 1)
               PROVE  IF Append(s, e)[i].part = "begin"
                      THEN /\ Append(s, e)[i + 1].part = "end"
                           /\ Append(s, e)[i + 1].line = Append(s, e)[i].line
                      ELSE Append(s, e)[i + 1].part = "begin"
  BY DEF Whole
<1>2. i \in 1 .. Len(s) /\ Append(s, e)[i] = s[i] /\ Len(s) # 0
  BY AppendFacts
<1>3. CASE i < Len(s)
  <2>1. i \in 1 .. (Len(s) - 1) /\ i + 1 \in 1 .. Len(s) /\ Append(s, e)[i + 1] = s[i + 1]
    BY <1>2, <1>3, AppendFacts
  <2> QED BY <1>2, <2>1 DEF Whole
<1>4. CASE i = Len(s)
  <2>1. Append(s, e)[i + 1] = e
    BY <1>4, AppendFacts
  <2>2. e.part \in {"begin", "end"}
    BY DEF Part
  <2> QED BY <1>2, <1>4, <2>1, <2>2 DEF Closed, Open
<1> QED BY <1>2, <1>3, <1>4

\* A statement that writes to one stream leaves the others alone.
LEMMA PutFacts ==
    ASSUME Typed, NEW f \in Files, NEW l \in {"header", "row", "mark"},
           NEW p \in {"begin", "end"}, NEW t \in Int, Put(f, l, p, t)
    PROVE  /\ [line |-> l, part |-> p, time |-> t] \in Part
           /\ content[f] \in Seq(Part)
           /\ content' \in [Files -> Seq(Part)]
           /\ content'[f] = Append(content[f], [line |-> l, part |-> p, time |-> t])
           /\ \A g \in Files : g # f => content'[g] = content[g]
<1>1. [line |-> l, part |-> p, time |-> t] \in Part /\ content[f] \in Seq(Part)
  BY DEF Typed, Part
<1>2. Append(content[f], [line |-> l, part |-> p, time |-> t]) \in Seq(Part)
  BY <1>1, AppendFacts
<1> QED BY <1>1, <1>2 DEF Typed, Put

\* What a part appended to the current stream does to the streams as a whole.
LEMMA PutLines ==
    ASSUME IInv, NEW l \in {"header", "row", "mark"}, NEW p \in {"begin", "end"}, NEW t \in Int,
           dump_file_ # 0, Put(dump_file_, l, p, t), UNCHANGED <<dump_file_, opened>>,
           p = "begin" => Closed(content[dump_file_]),
           p = "end" => Len(content[dump_file_]) = 0 \/ Open(content[dump_file_], l)
    PROVE  /\ dump_file_ \in Files /\ content' \in [Files -> Seq(Part)]
           /\ LinesNotMixed'
           /\ \A f \in Files : f > opened => Len(content'[f]) = 0
           /\ p = "begin" => Open(content'[dump_file_], l)
           /\ p = "end" => Closed(content'[dump_file_])
<1> DEFINE e == [line |-> l, part |-> p, time |-> t]
           c == dump_file_
<1>1. c \in Files
  BY DumpAssumption DEF IInv, Typed, Files
<1>2. /\ e \in Part /\ content[c] \in Seq(Part) /\ content' \in [Files -> Seq(Part)]
      /\ content'[c] = Append(content[c], e)
      /\ \A g \in Files : g # c => content'[g] = content[g]
  BY <1>1, PutFacts DEF IInv
<1>3. e.line = l /\ e.part = p
  OBVIOUS
<1> HIDE DEF e
<1>4. LinesNotMixed'
  <2>1. Whole(content[c])
    BY <1>1 DEF IInv, Lines, LinesNotMixed
  <2>2. Whole(Append(content[c], e))
    BY <1>2, <1>3, <2>1, AppendWhole
  <2> SUFFICES ASSUME NEW f \in Files PROVE Whole(content'[f])
    BY DEF LinesNotMixed, Whole
  <2> QED BY <1>2, <2>2 DEF IInv, Lines, LinesNotMixed
<1>5. \A f \in Files : f > opened => Len(content'[f]) = 0
  BY <1>2 DEF IInv, Typed, Lines
<1>6. Len(content'[c]) = Len(content[c]) + 1 /\ Len(content[c]) \in Nat
      /\ content'[c][Len(content[c]) + 1] = e
  BY <1>2, AppendFacts
<1> QED BY <1>1, <1>2, <1>3, <1>4, <1>5, <1>6 DEF Open, Closed

\* A part of a stream after the statement is one from before or the new one; a row
\* keeps its distance if no row of the same kind is newer than the latest sample.
LEMMA PutRows ==
    ASSUME IInv, NEW l \in {"header", "row", "mark"}, NEW p \in {"begin", "end"}, NEW t \in Int,
           dump_file_ # 0, Put(dump_file_, l, p, t),
           l = "row" =>
              /\ t - latest > DumpInterval
              /\ \A i \in DOMAIN content[dump_file_] :
                    /\ content[dump_file_][i].line = "row" /\ content[dump_file_][i].part = p
                       => content[dump_file_][i].time <= latest
    PROVE  /\ RowsSpaced'
           /\ \A f \in Files : \A i \in DOMAIN content'[f] :
                 \/ i \in DOMAIN content[f] /\ content'[f][i] = content[f][i]
                 \/ content'[f][i] = [line |-> l, part |-> p, time |-> t]
<1> DEFINE e == [line |-> l, part |-> p, time |-> t]
           c == dump_file_
<1>1. c \in Files
  BY DumpAssumption DEF IInv, Typed, Files
<1>2. /\ e \in Part /\ content[c] \in Seq(Part)
      /\ content'[c] = Append(content[c], e)
      /\ \A g \in Files : g # c => content'[g] = content[g]
  BY <1>1, PutFacts DEF IInv
<1>3. e.line = l /\ e.part = p /\ e.time = t
  OBVIOUS
<1> HIDE DEF e
<1>4. \A f \in Files : \A i \in DOMAIN content'[f] :
         \/ i \in DOMAIN content[f] /\ content'[f][i] = content[f][i]
         \/ f = c /\ i = Len(content[f]) + 1 /\ content'[f][i] = e
  <2>1. \A i \in DOMAIN Append(content[c], e) :
           \/ i \in DOMAIN content[c] /\ Append(content[c], e)[i] = content[c][i]
           \/ i = Len(content[c]) + 1 /\ Append(content[c], e)[i] = e
    BY <1>2, AppendFacts
  <2> QED BY <1>1, <1>2, <2>1
<1>5. RowsSpaced'
  <2> SUFFICES ASSUME NEW f \in Files, NEW i \in DOMAIN content'[f], NEW j \in DOMAIN content'[f],
                      i < j, content'[f][i].line = "row", content'[f][j].line = "row",
                      content'[f][i].part = content'[f][j].part
               PROVE  content'[f][j].time - content'[f][i].time > DumpInterval
    BY DEF RowsSpaced
  <2>1. content[f] \in Seq(Part) /\ DOMAIN content[f] = 1 .. Len(content[f])
        /\ Len(content[f]) \in Nat
    BY DEF IInv, Typed
  <2>2. CASE j \in DOMAIN content[f] /\ content'[f][j] = content[f][j]
    <3>1. i \in DOMAIN content[f] /\ content'[f][i] = content[f][i]
      BY <1>4, <2>1, <2>2
    <3> QED BY <2>2, <3>1 DEF IInv, Rows, RowsSpaced
  <2>3. CASE f = c /\ j = Len(content[f]) + 1 /\ content'[f][j] = e
    <3>1. i \in DOMAIN content[f] /\ content'[f][i] = content[f][i]
      BY <1>4, <2>1, <2>3
    <3>2. content[f][i] \in Part
      BY <2>1, <3>1
    <3>3. content[f][i].part = p /\ content[f][i].line = "row" /\ l = "row"
      BY <1>3, <2>3, <3>1
    <3>4. content[f][i].time <= latest /\ content[f][i].time \in Int /\ t - latest > DumpInterval
      BY <2>3, <3>1, <3>2, <3>3 DEF Part
    <3> QED BY <1>3, <2>3, <3>1, <3>4, DumpAssumption DEF IInv, Typed
  <2> QED BY <1>4, <2>2, <2>3
<1>6. \A f \in Files : \A i \in DOMAIN content'[f] :
         \/ i \in DOMAIN content[f] /\ content'[f][i] = content[f][i]
         \/ content'[f][i] = e
  BY <1>4
<1> QED BY <1>5, <1>6 DEF e

\* A header that has been written stays; a row behind it is in order.
LEMMA PutHeaders ==
    ASSUME IInv, NEW l \in {"header", "row", "mark"}, NEW p \in {"begin", "end"}, NEW t \in Int,
           dump_file_ # 0, Put(dump_file_, l, p, t), early' = early,
           l = "row" /\ dump_file_ \in early => HasHeader(content[dump_file_])
    PROVE  /\ HeaderFirst'
           /\ HasHeader(content[dump_file_]) => HasHeader(content'[dump_file_])
           /\ l = "header" /\ p = "end" => HasHeader(content'[dump_file_])
<1> DEFINE e == [line |-> l, part |-> p, time |-> t]
           c == dump_file_
<1>1. c \in Files /\ early \subseteq Files
  BY DumpAssumption DEF IInv, Typed, Files
<1>2. /\ e \in Part /\ content[c] \in Seq(Part)
      /\ content'[c] = Append(content[c], e)
      /\ \A g \in Files : g # c => content'[g] = content[g]
  BY <1>1, PutFacts DEF IInv
<1>3. e.line = l /\ e.part = p
  OBVIOUS
<1> HIDE DEF e
<1>4. /\ Len(content[c]) \in Nat /\ DOMAIN content[c] = 1 .. Len(content[c])
      /\ DOMAIN content'[c] = 1 .. (Len(content[c]) + 1)
      /\ \A i \in DOMAIN content[c] : content'[c][i] = content[c][i]
      /\ content'[c][Len(content[c]) + 1] = e
  <2> DEFINE s == content[c]
  <2>2. s \in Seq(Part) /\ e \in Part /\ content'[c] = Append(s, e)
    BY <1>2
  <2> HIDE DEF s
  <2>3. /\ Len(s) \in Nat /\ DOMAIN s = 1 .. Len(s) /\ DOMAIN Append(s, e) = 1 .. (Len(s) + 1)
        /\ \A i \in 1 .. Len(s) : Append(s, e)[i] = s[i]
        /\ Append(s, e)[Len(s) + 1] = e
    BY <2>2, AppendFacts
  <2>1. /\ Len(s) \in Nat /\ DOMAIN s = 1 .. Len(s) /\ DOMAIN content'[c] = 1 .. (Len(s) + 1)
        /\ \A i \in DOMAIN s : content'[c][i] = s[i]
        /\ content'[c][Len(s) + 1] = e
    BY <2>2, <2>3
  <2> QED BY <2>1 DEF s
<1>5. HeaderFirst'
  <2> SUFFICES ASSUME NEW f \in early, NEW j \in DOMAIN content'[f], content'[f][j].line = "row"
               PROVE  \E i \in 1 .. (j - 1) :
                         content'[f][i].line = "header" /\ content'[f][i].part = "end"
    BY DEF HeaderFirst
  <2>1. CASE f # c
    BY <1>1, <1>2, <2>1 DEF IInv, Headers, HeaderFirst
  <2>2. CASE f = c /\ j \in DOMAIN content[c]
    <3>1. PICK i \in 1 .. (j - 1) : content[c][i].line = "header" /\ content[c][i].part = "end"
      BY <1>4, <2>2 DEF IInv, Headers, HeaderFirst
    <3>2. i \in DOMAIN content[c]
      BY <1>4, <2>2
    <3> QED BY <1>4, <2>2, <3>1, <3>2
  <2>3. CASE f = c /\ j = Len(content[c]) + 1
    <3>1. PICK i \in DOMAIN content[c] : content[c][i].line = "header" /\ content[c][i].part = "end"
      BY <1>3, <1>4, <2>3 DEF HasHeader
    <3>2. i \in 1 .. (j - 1)
      BY <1>4, <2>3
    <3> QED BY <1>4, <2>3, <3>1, <3>2
  <2> QED BY <1>4, <2>1, <2>2, <2>3
<1>6. HasHeader(content[c]) => HasHeader(content'[c])
  BY <1>4 DEF HasHeader
<1>7. l = "header" /\ p = "end" => HasHeader(content'[c])
  BY <1>3, <1>4 DEF HasHeader
<1> QED BY <1>5, <1>6, <1>7

-----------------------------------------------------------------------------
(* Steps that write to no stream. *)

LEMMA PartsTyped ==
    ASSUME Typed
    PROVE  \A f \in Files : \A i \in DOMAIN content[f] : content[f][i] \in Part
  BY DEF Typed

LEMMA SameStreams ==
    ASSUME IInv, UNCHANGED <<content, early, opened>>
    PROVE  /\ LinesNotMixed' /\ RowsSpaced' /\ HeaderFirst'
           /\ \A f \in Files : f > opened' => Len(content'[f]) = 0
<1>1. LinesNotMixed'
  BY DEF IInv, Lines, LinesNotMixed, Whole
<1>2. RowsSpaced'
  BY DEF IInv, Rows, RowsSpaced
<1>3. HeaderFirst'
  BY DEF IInv, Headers, HeaderFirst
<1>4. \A f \in Files : f > opened' => Len(content'[f]) = 0
  BY DEF IInv, Lines
<1> QED BY <1>1, <1>2, <1>3, <1>4

\* The clock, the calls that do not touch the streams, and the control of both threads.
LEMMA ControlStep ==
    ASSUME IInv,
           UNCHANGED <<latest, sample, dump_file_, opened, early, content, dumpVars, dump_locked>>,
           clock' \in Int, clock' >= clock,
           op' \in {"none", "read", "destroy", "mark", "marking"},
           op = "marking" <=> op' = "marking",
           op' = "mark" => dump_file_ # 0,
           ~joinable' /\ pc' \notin {"gone", "ended"} => tpc' = "none",
           \/ tpc' \in {tpc, "ended"}
           \/ /\ dump = "no" /\ {tpc, tpc'} \cap {"publish", "ended"} = {}
              /\ tpc \in {"none", "init"} => tpc' \in {"none", "init"}
    PROVE  IInv'
<1>1. Typed'
  BY DEF IInv, Typed, dumpVars
<1>2. Places' /\ Mutex'
  BY DEF IInv, Places, Mutex, InLine, dumpVars
<1>3. Lines'
  BY SameStreams DEF IInv, Lines, Open, Closed, dumpVars
<1>4. Rows'
  BY SameStreams DEF IInv, Rows, Past, dumpVars
<1>5. Headers'
  BY SameStreams DEF IInv, Headers, HasHeader, dumpVars
<1> QED BY <1>1, <1>2, <1>3, <1>4, <1>5 DEF IInv

LEMMA ClientStep ==
    IInv /\ (Tick \/ Read \/ Destroy \/ Mark \/ WriteCrash) => IInv'
<1> SUFFICES ASSUME IInv, Tick \/ Read \/ Destroy \/ Mark \/ WriteCrash PROVE IInv'
  OBVIOUS
<1> USE DEF timeVars, ownerVars, Thread!threadVars
<1>1. clock' \in Int /\ clock' >= clock
  BY DEF Tick, Read, Destroy, Mark, WriteCrash, IInv, Typed
<1>2. CASE Tick
  BY <1>1, <1>2, ControlStep DEF Tick, threadVars, IInv, Typed, Places, Mutex
<1>3. CASE Read
  BY <1>1, <1>3, ControlStep DEF Read, Thread!Read, IInv, Places
<1>4. CASE Destroy
  BY <1>1, <1>4, ControlStep DEF Destroy, Thread!Destroy, IInv, Places
<1>5. CASE Mark
  BY <1>1, <1>5, ControlStep DEF Mark, Idle, threadVars, IInv, Places
<1>6. CASE WriteCrash
  BY <1>1, <1>6, ControlStep DEF WriteCrash, Thread!Terminate, IInv, Typed, Mutex
<1> QED BY <1>2, <1>3, <1>4, <1>5, <1>6

LEMMA OwnerControlStep == IInv /\ OwnerControl => IInv'
<1> SUFFICES ASSUME IInv, OwnerControl PROVE IInv'
  OBVIOUS
<1> USE DEF Thread!threadVars
<1>1. /\ ~joinable' /\ pc' \notin {"gone", "ended"} => tpc' = "none"
      /\ tpc' \in {tpc, "ended"} \/ (tpc = "none" /\ tpc' = "init")
  <2>1. CASE Thread!LockThreadMutex \/ Thread!SpawnFailure \/ Thread!TryLock \/ Thread!GiveUp
    BY <2>1 DEF Thread!LockThreadMutex, Thread!SpawnFailure, Thread!TryLock, Thread!GiveUp,
                IInv, Places
  <2>2. CASE Thread!SpawnThread
    BY <2>2 DEF Thread!SpawnThread, IInv, Places
  <2>3. CASE Thread!SpawnOverThread
    BY <2>3 DEF Thread!SpawnOverThread, Thread!Terminate
  <2>4. CASE Thread!FirstRead \/ Thread!ReadLatest \/ Thread!Join
    BY <2>4 DEF Thread!FirstRead, Thread!ReadLatest, Thread!Join, IInv, Places
  <2> QED BY <2>1, <2>2, <2>3, <2>4 DEF OwnerControl
<1>2. tpc = "none" => dump = "no"
  BY DEF IInv, Places
<1>3. clock' \in Int /\ clock' >= clock
  BY DEF OwnerControl, timeVars, IInv, Typed
<1> QED BY <1>1, <1>2, <1>3, ControlStep DEF OwnerControl, timeVars, ownerVars, IInv, Typed, Mutex

LEMMA ThreadControlStep == IInv /\ ThreadControl => IInv'
<1> SUFFICES ASSUME IInv, ThreadControl PROVE IInv'
  OBVIOUS
<1> USE DEF Thread!ownerVars
<1>1. /\ ~joinable' /\ pc' \notin {"gone", "ended"} => tpc' = "none"
      /\ \/ tpc' = "ended"
         \/ {tpc, tpc'} \cap {"none", "init", "publish", "ended"} = {}
  <2>1. CASE Thread!InitialFailure \/ Thread!SampleCrash
    BY <2>1 DEF Thread!InitialFailure, Thread!SampleCrash, Thread!Terminate
  <2>2. CASE Thread!TestStop \/ Thread!SampleFailure
    BY <2>2 DEF Thread!TestStop, Thread!SampleFailure, IInv, Places
  <2>3. CASE Thread!UnlockThreadMutex \/ Thread!SignalStarted
    BY <2>3 DEF Thread!UnlockThreadMutex, Thread!SignalStarted, IInv, Places
  <2> QED BY <2>1, <2>2, <2>3 DEF ThreadControl
<1>2. clock' \in Int /\ clock' >= clock
  BY DEF ThreadControl, timeVars, IInv, Typed
<1> QED BY <1>1, <1>2, ControlStep DEF ThreadControl, timeVars, ownerVars, IInv, Typed, Mutex

LEMMA StartDumpStep == IInv /\ StartDump => IInv'
<1> SUFFICES ASSUME IInv, StartDump PROVE IInv'
  OBVIOUS
<1> USE DEF StartDump, Idle, threadVars, timeVars, dumpVars, IInv
<1>1. /\ opened' = opened + 1 /\ dump_file_' = opened' /\ opened' \in 1 .. MaxFiles
      /\ opened' \in Files /\ Len(content[opened']) = 0
  BY DumpAssumption DEF Typed, Files, Lines
<1>2. early' \subseteq 1 .. opened' /\ (dump_file_' \in early' => tpc = "none")
  BY <1>1 DEF Typed
<1>3. Typed'
  BY <1>1, <1>2 DEF Typed
<1>4. Places' /\ Mutex'
  BY <1>1 DEF Places, Mutex, InLine
<1>5. Lines'
  <2>1. LinesNotMixed'
    BY DEF Lines, LinesNotMixed, Whole
  <2> QED BY <1>1, <2>1 DEF Lines, Typed, Closed
<1>6. Rows'
  <2>1. RowsSpaced'
    BY DEF Rows, RowsSpaced
  <2> QED BY <2>1 DEF Rows, Past
<1>7. Headers'
  <2>1. HeaderFirst'
    <3>1. \A f \in early' : f \in early \/ DOMAIN content[f] = {}
      <4>1. content[opened'] \in Seq(Part) /\ Len(content[opened']) = 0
        BY <1>1 DEF Typed
      <4> QED BY <1>1, <4>1
    <3> QED BY <3>1 DEF Headers, HeaderFirst
  <2>2. tpc = "none" => target = 0
    BY DEF Places, InLine
  <2> QED BY <1>2, <2>1, <2>2 DEF Headers
<1> QED BY <1>3, <1>4, <1>5, <1>6, <1>7

LEMMA StopDumpStep == IInv /\ StopDump => IInv'
<1> SUFFICES ASSUME IInv, StopDump PROVE IInv'
  OBVIOUS
<1> USE DEF StopDump, Idle, threadVars, timeVars, dumpVars, IInv
<1>1. Typed'
  BY DEF Typed
<1>2. Places' /\ Mutex'
  BY DEF Places, Mutex, InLine
<1>3. Lines' /\ Rows'
  BY SameStreams DEF Lines, Rows, Past
<1>4. Headers'
  BY <1>1, SameStreams DEF Headers, Typed
<1> QED BY <1>1, <1>2, <1>3, <1>4

-----------------------------------------------------------------------------
(* The loop of the thread around a line. *)

LEMMA InitialStateStep == IInv /\ InitialState => IInv'
<1> SUFFICES ASSUME IInv, InitialState PROVE IInv'
  OBVIOUS
<1> USE DEF InitialState, Thread!InitialState, Thread!ownerVars, ownerVars, IInv
<1>1. dump = "no" /\ target = 0 /\ ~InLine /\ latest <= latest'
  BY DEF Places, InLine, Typed
<1>2. Typed'
  BY DEF Typed
<1>3. Places' /\ Mutex'
  BY <1>1 DEF Places, Mutex, InLine
<1>4. Lines'
  BY <1>1, SameStreams DEF Lines, Closed, Open
<1>5. Rows'
  <2>1. \A f \in Files : \A i \in DOMAIN content[f] :
           content[f][i].line = "row" => content[f][i].time <= latest'
    BY <1>1, PartsTyped DEF Rows, Past, Typed, Part
  <2> QED BY <1>1, <2>1, SameStreams DEF Rows, Past
<1>6. Headers'
  BY <1>1, SameStreams DEF Headers, Typed
<1> QED BY <1>2, <1>3, <1>4, <1>5, <1>6

LEMMA SampleStep == IInv /\ Sample => IInv'
<1> SUFFICES ASSUME IInv, Sample PROVE IInv'
  OBVIOUS
<1> USE DEF Sample, Thread!Sample, Thread!ownerVars, ownerVars, IInv
<1>1. Typed'
  BY DEF Typed
<1>2. Places' /\ Mutex'
  BY DEF Places, Mutex, InLine
<1>3. Lines'
  BY SameStreams DEF Lines, Closed, Open
<1>4. Rows'
  BY SameStreams DEF Rows, Past, Typed
<1>5. Headers'
  BY SameStreams DEF Headers, HasHeader
<1> QED BY <1>1, <1>2, <1>3, <1>4, <1>5

LEMMA PublishStep == IInv /\ Publish => IInv'
<1> SUFFICES ASSUME IInv, Publish PROVE IInv'
  OBVIOUS
<1> USE DEF Publish, Thread!Publish, Thread!ownerVars, ownerVars, dumpVars, IInv
<1>1. latest <= latest' /\ latest' = sample
  BY DEF Rows
<1>2. Typed'
  BY DEF Typed
<1>3. Places' /\ Mutex'
  BY DEF Places, Mutex, InLine
<1>4. Lines'
  BY SameStreams DEF Lines, Closed, Open
<1>5. Rows'
  <2>1. \A f \in Files : \A i \in DOMAIN content[f] :
           content[f][i].line = "row" => content[f][i].time <= latest'
    BY <1>1, PartsTyped DEF Rows, Past, Typed, Part
  <2> QED BY <1>1, <2>1, SameStreams DEF Rows, Past
<1>6. Headers'
  BY SameStreams DEF Headers, HasHeader
<1> QED BY <1>2, <1>3, <1>4, <1>5, <1>6

LEMMA BeforeLineStep == IInv /\ (TestInterval \/ CheckOpen \/ LockDumpFile \/ Dereference) => IInv'
<1> SUFFICES ASSUME IInv, TestInterval \/ CheckOpen \/ LockDumpFile \/ Dereference PROVE IInv'
  OBVIOUS
<1> USE DEF TestInterval, CheckOpen, LockDumpFile, Dereference, threadVars, timeVars, ownerVars,
            IInv
<1>1. Typed'
  BY DEF Typed
<1>2. Places' /\ Mutex'
  BY DEF Places, Mutex, InLine
<1>3. Lines'
  BY SameStreams DEF Lines, Closed, Open, Mutex, Places, InLine
<1>4. Rows'
  BY SameStreams DEF Rows, Past, Typed, Places
<1>5. Headers'
  BY SameStreams DEF Headers, HasHeader, Typed, Places, InLine
<1> QED BY <1>1, <1>2, <1>3, <1>4, <1>5

-----------------------------------------------------------------------------
(* Lines. *)

LEMMA BeginMarkStep == IInv /\ BeginMark => IInv'
<1> SUFFICES ASSUME IInv, BeginMark PROVE IInv'
  OBVIOUS
<1> USE DEF BeginMark, threadVars, timeVars, dumpVars
<1>1. dump_file_ # 0 /\ ~InLine /\ op # "marking" /\ target = 0 /\ clock \in Int
  BY DEF IInv, Mutex, Places, Typed
<1>2. Closed(content[dump_file_])
  BY <1>1 DEF IInv, Lines, InLine
<1>3. /\ content' \in [Files -> Seq(Part)]
      /\ LinesNotMixed' /\ \A f \in Files : f > opened => Len(content'[f]) = 0
      /\ Open(content'[dump_file_], "mark")
  BY <1>1, <1>2, PutLines
<1>4. /\ RowsSpaced'
      /\ \A f \in Files : \A i \in DOMAIN content'[f] :
            \/ i \in DOMAIN content[f] /\ content'[f][i] = content[f][i]
            \/ content'[f][i] = [line |-> "mark", part |-> "begin", time |-> clock]
  BY <1>1, PutRows
<1>5. HeaderFirst' /\ (HasHeader(content[dump_file_]) => HasHeader(content'[dump_file_]))
  BY <1>1, PutHeaders
<1>6. Typed'
  BY <1>3 DEF IInv, Typed
<1>7. Places' /\ Mutex'
  BY <1>1 DEF IInv, Places, Mutex, InLine
<1>8. Lines'
  BY <1>1, <1>3 DEF IInv, Lines, InLine
<1>9. Rows'
  BY <1>4 DEF IInv, Rows, Past
<1>10. Headers'
  BY <1>5 DEF IInv, Headers
<1> QED BY <1>6, <1>7, <1>8, <1>9, <1>10 DEF IInv

LEMMA EndMarkStep == IInv /\ EndMark => IInv'
<1> SUFFICES ASSUME IInv, EndMark PROVE IInv'
  OBVIOUS
<1> USE DEF EndMark, threadVars, timeVars, dumpVars
<1>1. dump_file_ # 0 /\ ~InLine /\ target = 0 /\ clock \in Int
  BY DEF IInv, Mutex, Places, Typed
<1>2. Open(content[dump_file_], "mark")
  BY <1>1 DEF IInv, Lines
<1>3. /\ content' \in [Files -> Seq(Part)]
      /\ LinesNotMixed' /\ \A f \in Files : f > opened => Len(content'[f]) = 0
      /\ Closed(content'[dump_file_])
  BY <1>1, <1>2, PutLines
<1>4. /\ RowsSpaced'
      /\ \A f \in Files : \A i \in DOMAIN content'[f] :
            \/ i \in DOMAIN content[f] /\ content'[f][i] = content[f][i]
            \/ content'[f][i] = [line |-> "mark", part |-> "end", time |-> clock]
  BY <1>1, PutRows
<1>5. HeaderFirst' /\ (HasHeader(content[dump_file_]) => HasHeader(content'[dump_file_]))
  BY <1>1, PutHeaders
<1>6. Typed'
  BY <1>3 DEF IInv, Typed
<1>7. Places' /\ Mutex'
  BY <1>1 DEF IInv, Places, Mutex, InLine
<1>8. Lines'
  BY <1>1, <1>3 DEF IInv, Lines, InLine
<1>9. Rows'
  BY <1>4 DEF IInv, Rows, Past
<1>10. Headers'
  BY <1>5 DEF IInv, Headers
<1> QED BY <1>6, <1>7, <1>8, <1>9, <1>10 DEF IInv

\* A statement to a stream that has been destroyed since it was dereferenced.
LEMMA LostWriteStep == IInv /\ tpc # "ended" /\ Write /\ target # dump_file_ => IInv'
<1> SUFFICES ASSUME IInv, tpc # "ended", Write, target # dump_file_ PROVE IInv'
  OBVIOUS
<1> USE DEF Write, threadVars, timeVars, ownerVars
<1>1. UNCHANGED content /\ InLine /\ op # "marking" /\ target # 0
  BY DEF InLine, IInv, Mutex
<1>2. dump_file_ # 0 => Len(content[dump_file_]) = 0 /\ dump_file_ \notin early
  BY <1>1 DEF IInv, Lines, Headers
<1>3. Typed'
  BY <1>1 DEF IInv, Typed
<1>4. Places' /\ Mutex'
  BY <1>1 DEF IInv, Places, Mutex, InLine
<1>5. Lines'
  BY <1>1, <1>2, SameStreams DEF IInv, Lines, Closed, InLine
<1>6. Rows'
  BY <1>1, SameStreams DEF IInv, Rows, Past
<1>7. Headers'
  BY <1>1, <1>2, SameStreams DEF IInv, Headers, Typed
<1> QED BY <1>3, <1>4, <1>5, <1>6, <1>7 DEF IInv

LEMMA WriteStep == IInv /\ tpc # "ended" /\ Write => IInv'
<1> SUFFICES ASSUME IInv, tpc # "ended", Write, target = dump_file_ PROVE IInv'
  BY LostWriteStep
<1> USE DEF Write, threadVars, timeVars, ownerVars
<1> DEFINE time == IF line = "row" THEN sample ELSE latest
<1>1. /\ dump_file_ # 0 /\ InLine /\ op # "marking" /\ Put(dump_file_, line, dump, time)
      /\ line \in {"header", "row"} /\ dump \in {"begin", "end"} /\ time \in Int
      /\ UNCHANGED <<dump_file_, opened, early>>
  BY DEF InLine, IInv, Mutex, Typed
<1>2. /\ dump = "begin" => Closed(content[dump_file_])
      /\ dump = "end" => Len(content[dump_file_]) = 0 \/ Open(content[dump_file_], line)
  BY <1>1 DEF IInv, Lines
<1>3. line = "row" =>
         /\ tpc = "publish" /\ time = sample /\ time - latest > DumpInterval
         /\ \A i \in DOMAIN content[dump_file_] :
               content[dump_file_][i].line = "row" /\ content[dump_file_][i].part = dump
                  => content[dump_file_][i].time <= latest
  <2>1. dump_file_ \in Files
    BY <1>1, DumpAssumption DEF IInv, Typed, Files
  <2> QED BY <1>1, <2>1 DEF IInv, Rows, Past, Places
<1>4. line = "row" /\ dump_file_ \in early => HasHeader(content[dump_file_])
  BY <1>1, <1>3 DEF IInv, Headers
<1> HIDE DEF time
<1>5. /\ content' \in [Files -> Seq(Part)]
      /\ LinesNotMixed' /\ \A f \in Files : f > opened => Len(content'[f]) = 0
      /\ dump = "begin" => Open(content'[dump_file_], line)
      /\ dump = "end" => Closed(content'[dump_file_])
  BY <1>1, <1>2, PutLines
<1>6. /\ RowsSpaced'
      /\ \A f \in Files : \A i \in DOMAIN content'[f] :
            \/ i \in DOMAIN content[f] /\ content'[f][i] = content[f][i]
            \/ content'[f][i] = [line |-> line, part |-> dump, time |-> time]
  BY <1>1, <1>3, PutRows
<1>7. /\ HeaderFirst'
      /\ HasHeader(content[dump_file_]) => HasHeader(content'[dump_file_])
      /\ line = "header" /\ dump = "end" => HasHeader(content'[dump_file_])
  BY <1>1, <1>4, PutHeaders
<1>8. Typed'
  BY <1>5 DEF IInv, Typed
<1>9. Places' /\ Mutex'
  BY <1>1 DEF IInv, Places, Mutex, InLine
<1>10. Lines'
  BY <1>1, <1>5 DEF IInv, Lines
<1>11. Rows'
  <2>1. tpc' = "publish" => latest' <= sample'
    BY DEF IInv, Rows
  <2>2. line' = "row" /\ dump' \in {"check", "lock", "begin", "end"}
           => sample' - latest' > DumpInterval
    BY <1>1 DEF IInv, Rows, InLine
  <2>3. \A f \in Files : \A i \in DOMAIN content'[f] :
           content'[f][i].line = "row" => Past(content[f][i])'
    <3> SUFFICES ASSUME NEW f \in Files, NEW i \in DOMAIN content'[f],
                        content'[f][i].line = "row"
                 PROVE  Past(content[f][i])'
      OBVIOUS
    <3>1. CASE i \in DOMAIN content[f] /\ content'[f][i] = content[f][i]
      <4>1. Past(content[f][i])
        BY <3>1 DEF IInv, Rows
      <4> QED BY <1>1, <3>1, <4>1 DEF Past, InLine
    <3>2. CASE content'[f][i] = [line |-> line, part |-> dump, time |-> time]
      BY <1>1, <1>3, <3>2 DEF Past
    <3> QED BY <1>6, <3>1, <3>2
  <2> QED BY <1>6, <2>1, <2>2, <2>3 DEF Rows
<1>12. Headers'
  BY <1>1, <1>4, <1>7 DEF IInv, Headers
<1> QED BY <1>8, <1>9, <1>10, <1>11, <1>12 DEF IInv

-----------------------------------------------------------------------------
\* The invariant is inductive: who is in a line, how the current stream ends, and how
\* its rows and its header compare with the sample that is dumped.
THEOREM Inductive == Spec => []IInv
<1>1. Init => IInv
  <2> SUFFICES ASSUME Init PROVE IInv
    OBVIOUS
  <2>1. /\ clock = 1 /\ latest = 0 /\ sample = 0 /\ op = "none" /\ dump_file_ = 0 /\ opened = 0
        /\ early = {} /\ content = [f \in Files |-> <<>>] /\ dump = "no" /\ line = "header"
        /\ target = 0 /\ dump_locked = FALSE /\ tpc = "none" /\ pc = "idle"
    BY DEF Init, Thread!Init
  <2>2. \A f \in Files : content[f] = <<>> /\ Len(content[f]) = 0 /\ DOMAIN content[f] = {}
    BY <2>1
  <2>3. Typed
    BY <2>1, DumpAssumption DEF Typed
  <2>4. Places /\ Mutex
    BY <2>1 DEF Places, Mutex, InLine
  <2>5. Lines
    BY <2>1, <2>2 DEF Lines, LinesNotMixed, Whole
  <2>6. Rows
    BY <2>1, <2>2 DEF Rows, RowsSpaced
  <2>7. Headers
    BY <2>1 DEF Headers, HeaderFirst
  <2> QED BY <2>3, <2>4, <2>5, <2>6, <2>7 DEF IInv
<1>2. IInv /\ [Next]_vars => IInv'
  <2> SUFFICES ASSUME IInv, [Next]_vars PROVE IInv'
    OBVIOUS
  <2>1. CASE Tick \/ ClientCall
    BY <2>1, ClientStep, StartDumpStep, StopDumpStep DEF ClientCall
  <2>2. CASE OwnerStep
    BY <2>2, ClientStep, BeginMarkStep, EndMarkStep, OwnerControlStep DEF OwnerStep
  <2>3. CASE ThreadStep
    BY <2>3, ClientStep, InitialStateStep, SampleStep, PublishStep, BeforeLineStep, WriteStep,
       ThreadControlStep DEF ThreadStep
  <2>4. CASE UNCHANGED vars
    BY <2>4, ControlStep DEF vars, threadVars, timeVars, ownerVars, IInv, Typed, Places, Mutex
  <2> QED BY <2>1, <2>2, <2>3, <2>4 DEF Next
<1> QED BY <1>1, <1>2, PTL DEF Spec

\* The lines of Mark() and of the thread are never mixed, for any number of streams
\* and marks and whenever a stream is replaced (PMT.cpp:153-182).
THEOREM LinesNotMixedCorrect == Spec => []LinesNotMixed
<1>1. IInv => LinesNotMixed
  BY DEF IInv, Lines
<1> QED BY <1>1, Inductive, PTL

\* Rows are further apart than any dump interval (PMT.cpp:101-104).
THEOREM RowsSpacedCorrect == Spec => []RowsSpaced
<1>1. IInv => RowsSpaced
  BY DEF IInv, Rows
<1> QED BY <1>1, Inductive, PTL

\* In every dump started before the first Read(), rows follow the header (PMT.cpp:83-85).
THEOREM HeaderFirstCorrect == Spec => []HeaderFirst
<1>1. IInv => HeaderFirst
  BY DEF IInv, Headers
<1> QED BY <1>1, Inductive, PTL

-----------------------------------------------------------------------------
(* The protocol of MeasurementThread. *)

ThreadEnding == Thread!Init /\ [][Thread!Next \/ Thread!Terminate]_(Thread!vars)

LEMMA ThreadNext ==
    /\ Next => WriteCrash \/ Thread!Next \/ UNCHANGED Thread!vars
    /\ WriteCrash => Thread!Terminate
    /\ UNCHANGED vars => UNCHANGED Thread!vars
<1> USE DEF threadVars, Thread!vars
<1>1. ASSUME Tick \/ ClientCall PROVE Thread!Next \/ UNCHANGED Thread!vars
  <2>1. Tick \/ StartDump \/ StopDump \/ Mark => UNCHANGED threadVars
    BY DEF Tick, StartDump, StopDump, Mark
  <2>2. Read => Thread!Next
    BY DEF Read, Thread!Next, Thread!ClientCall
  <2> QED BY <1>1, <2>1, <2>2 DEF ClientCall
<1>2. ASSUME OwnerStep PROVE Thread!Next \/ UNCHANGED Thread!vars
  <2>1. BeginMark \/ EndMark => UNCHANGED threadVars
    BY DEF BeginMark, EndMark
  <2>2. Read \/ Destroy => Thread!Next
    BY DEF Read, Destroy, Thread!Next, Thread!ClientCall
  <2>3. OwnerControl => Thread!Next
    BY DEF OwnerControl, Thread!Next, Thread!OwnerStep
  <2> QED BY <1>2, <2>1, <2>2, <2>3 DEF OwnerStep
<1>3. ASSUME ThreadStep PROVE WriteCrash \/ Thread!Next \/ UNCHANGED Thread!vars
  <2>1. InitialState \/ Sample \/ Publish \/ ThreadControl => Thread!Next
    BY DEF InitialState, Sample, Publish, ThreadControl, Thread!Next, Thread!ThreadStep
  <2>2. TestInterval \/ CheckOpen \/ LockDumpFile \/ Dereference \/ Write
           => UNCHANGED threadVars
    BY DEF TestInterval, CheckOpen, LockDumpFile, Dereference, Write
  <2> QED BY <1>3, <2>1, <2>2 DEF ThreadStep
<1>4. WriteCrash => Thread!Terminate
  BY DEF WriteCrash
<1>5. UNCHANGED vars => UNCHANGED Thread!vars
  BY DEF vars
<1> QED BY <1>1, <1>2, <1>3, <1>4, <1>5 DEF Next

\* Dumping adds one thing to the protocol of the threads: a write through a pointer that
\* the owner has reset may end the process (PMT.cpp:145-182). Any other step is
\* one of MeasurementThread or none of it.
THEOREM ThreadCorrect == Spec => ThreadEnding
<1>1. Init => Thread!Init
  BY DEF Init
<1>2. [Next]_vars => [Thread!Next \/ Thread!Terminate]_(Thread!vars)
  BY ThreadNext
<1> QED BY <1>1, <1>2, PTL DEF Spec, ThreadEnding

\* The theorems of MeasurementThread are about the module that they are proved in.
ThreadProofs == INSTANCE MeasurementThread_proofs

LEMMA SameThread ==
    /\ Thread!Init => ThreadProofs!Init
    /\ [Thread!Next \/ Thread!Terminate]_(Thread!vars)
          => [ThreadProofs!Next \/ ThreadProofs!Terminate]_(ThreadProofs!vars)
<1> USE DEF Thread!vars, ThreadProofs!vars, Thread!ownerVars, ThreadProofs!ownerVars,
            Thread!threadVars, ThreadProofs!threadVars, Thread!Terminate, ThreadProofs!Terminate
<1>1. Thread!Init => ThreadProofs!Init
  BY DEF Thread!Init, ThreadProofs!Init
<1>2. Thread!ClientCall => ThreadProofs!ClientCall
  BY DEF
     Thread!ClientCall, ThreadProofs!ClientCall, Thread!Read, ThreadProofs!Read,
     Thread!Destroy, ThreadProofs!Destroy
<1>3. Thread!OwnerStep => ThreadProofs!OwnerStep
  BY DEF
     Thread!OwnerStep, ThreadProofs!OwnerStep, Thread!LockThreadMutex,
     ThreadProofs!LockThreadMutex, Thread!SpawnThread, ThreadProofs!SpawnThread,
     Thread!SpawnOverThread, ThreadProofs!SpawnOverThread, Thread!SpawnFailure,
     ThreadProofs!SpawnFailure, Thread!TryLock, ThreadProofs!TryLock, Thread!GiveUp,
     ThreadProofs!GiveUp, Thread!FirstRead, ThreadProofs!FirstRead, Thread!ReadLatest,
     ThreadProofs!ReadLatest, Thread!Join, ThreadProofs!Join
<1>4. Thread!ThreadStep => ThreadProofs!ThreadStep
  BY DEF
     Thread!ThreadStep, ThreadProofs!ThreadStep, Thread!InitialState,
     ThreadProofs!InitialState, Thread!InitialFailure, ThreadProofs!InitialFailure,
     Thread!TestStop, ThreadProofs!TestStop, Thread!Sample, ThreadProofs!Sample,
     Thread!SampleFailure, ThreadProofs!SampleFailure, Thread!SampleCrash,
     ThreadProofs!SampleCrash, Thread!Publish, ThreadProofs!Publish, Thread!UnlockThreadMutex,
     ThreadProofs!UnlockThreadMutex, Thread!SignalStarted, ThreadProofs!SignalStarted
<1> QED BY <1>1, <1>2, <1>3, <1>4 DEF Thread!Next, ThreadProofs!Next

\* With a dump that is started, marked, replaced and stopped at any time, the hand-over is
\* what it was (PMT.cpp:29-32, 73-182, 186-216): no Read(), nor the one in StartDump(),
\* returns a state that was not measured, the thread unlocks a mutex that is held, and is
\* gone when the object is.
THEOREM HandoverCorrect ==
    Spec => /\ [](ThreadProofs!Handover /\ ThreadProofs!UnlockIsMatched
                  /\ ThreadProofs!ThreadEndsBeforeObject)
            /\ ThreadProofs!ReadIsMeasured
<1>1. ThreadProofs!RetriesAssumption /\ ThreadProofs!FaultsAssumption
  BY RetriesAssumption, FaultsAssumption
     DEF Thread!AllFaults, ThreadProofs!AllFaults, ThreadProofs!RetriesAssumption,
         ThreadProofs!FaultsAssumption
<1>2. ThreadProofs!EndingSpec
          => /\ [](ThreadProofs!Handover /\ ThreadProofs!UnlockIsMatched
                   /\ ThreadProofs!ThreadEndsBeforeObject)
             /\ ThreadProofs!ReadIsMeasured
  BY <1>1, ThreadProofs!EndingCorrect
<1>3. ThreadEnding => ThreadProofs!EndingSpec
  BY SameThread, PTL DEF ThreadEnding, ThreadProofs!EndingSpec
<1> QED BY <1>2, <1>3, ThreadCorrect, PTL

-----------------------------------------------------------------------------
(* What would keep the lines in streams that exist. *)

\* The owner leaves dump_file_ alone from the test of it in DumpHeader() and Dump() to
\* the end of the line: more than dump_file_mutex_ could give, which is locked after the test.
GuardedSpec ==
    Init /\ [][Next /\ (dump \in {"lock", "begin", "end"} => UNCHANGED dump_file_)]_vars

Attached ==
    /\ dump \in {"lock", "begin", "end"} => dump_file_ # 0
    /\ InLine => target \in {0, dump_file_}

LEMMA AttachedStep ==
    IInv /\ Attached
    /\ [Next /\ (dump \in {"lock", "begin", "end"} => UNCHANGED dump_file_)]_vars
        => Attached'
<1> SUFFICES ASSUME IInv, Attached, Next \/ UNCHANGED vars,
                    UNCHANGED vars \/ (dump \in {"lock", "begin", "end"} => UNCHANGED dump_file_)
             PROVE  Attached'
  OBVIOUS
<1>0. (tpc = "init" => dump = "no") /\ (~InLine => target = 0)
  BY DEF IInv, Places
<1> USE DEF Attached, InLine, ownerVars, dumpVars
<1>1. CASE /\ UNCHANGED dumpVars
           /\ dump_file_' = dump_file_ \/ dump \notin {"lock", "begin", "end"}
  BY <1>1
<1>2. CASE Tick \/ ClientCall
  <2>1. UNCHANGED dumpVars
    BY <1>2 DEF Tick, ClientCall, StartDump, StopDump, Mark, Read
  <2> QED BY <1>1, <2>1 DEF vars
<1>3. CASE OwnerStep
  <2>1. UNCHANGED dumpVars
    BY <1>3 DEF OwnerStep, Read, Destroy, BeginMark, EndMark, OwnerControl
  <2> QED BY <1>1, <2>1 DEF vars
<1>4. CASE ThreadStep
  <2>1. CASE WriteCrash \/ ThreadControl
    <3>1. UNCHANGED dumpVars /\ UNCHANGED dump_file_
      BY <2>1 DEF WriteCrash, ThreadControl
    <3> QED BY <1>1, <3>1
  <2>2. CASE Publish
    <3>1. UNCHANGED dumpVars /\ UNCHANGED dump_file_
      BY <2>2 DEF Publish
    <3> QED BY <1>1, <3>1
  <2>3. CASE InitialState \/ Sample
    BY <1>0, <2>3 DEF InitialState, Sample, Thread!InitialState
  <2>4. CASE TestInterval \/ CheckOpen \/ LockDumpFile
    BY <1>0, <2>4 DEF TestInterval, CheckOpen, LockDumpFile
  <2>5. CASE Dereference \/ Write
    BY <2>5 DEF Dereference, Write
  <2> QED BY <1>4, <2>1, <2>2, <2>3, <2>4, <2>5 DEF ThreadStep
<1>5. CASE UNCHANGED vars
  BY <1>1, <1>5 DEF vars
<1> QED BY <1>2, <1>3, <1>4, <1>5 DEF Next

\* Replacing or resetting the stream between the test of dump_file_ and the end of a line
\* is the only cause of lines that are lost and of a write that ends the process
\* (PMT.cpp:147, 151, 154-182): without it each line goes to a stream that exists, and
\* dumping leaves the protocol of MeasurementThread as it is.
THEOREM GuardedCorrect == GuardedSpec => []WritesToOpenFile /\ Thread!Spec
<1>1. Init => Attached /\ Thread!Init
  BY DEF Init, Attached, InLine
<1>2. GuardedSpec => Spec
  BY PTL DEF GuardedSpec, Spec
<1>3. GuardedSpec => []Attached
  BY <1>1, <1>2, Inductive, AttachedStep, PTL DEF GuardedSpec
<1>4. Attached => WritesToOpenFile
  BY DEF Attached, InLine, WritesToOpenFile
<1>5. Attached => ~WriteCrash
  BY DEF Attached, InLine, WriteCrash
<1>6. /\ Attached
      /\ [Next /\ (dump \in {"lock", "begin", "end"} => UNCHANGED dump_file_)]_vars
      => [Thread!Next]_(Thread!vars)
  BY <1>5, ThreadNext
<1> QED BY <1>1, <1>3, <1>4, <1>6, PTL DEF GuardedSpec, Thread!Spec

=============================================================================
