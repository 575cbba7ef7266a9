----------------------------- MODULE LikwidGroups -----------------------------
(***************************************************************************)
(* The event sets that LikwidImpl (likwid/LikwidImpl.cpp) sets up: one for *)
(* each socket on which it finds a CPU it may use. A socket is searched    *)
(* among the first numHWThreads / numSockets entries of the thread pool    *)
(* only. The perfmon library, which is not part of the repository, numbers *)
(* the event sets in the order in which they are added.                    *)
(***************************************************************************)
EXTENDS SequencesExt, Integers

\* The entries of the thread pool that the search for a socket looks at.
Searched(threadPool, nr_sockets) == 1 .. (Len(threadPool) \div nr_sockets)

\* Variant: without the comparison of the socket.
CandidatesOfAnySocket(threadPool, nr_sockets, socket) ==
    {i \in Searched(threadPool, nr_sockets) : threadPool[i].inCpuSet}

\* The CPUs that stand for a socket; the first of them is taken.
Candidates(threadPool, nr_sockets, socket) ==
    {i \in Searched(threadPool, nr_sockets) :
        threadPool[i].packageId = socket /\ threadPool[i].inCpuSet}

\* One turn of the constructor's loop: a socket without a CPU is skipped.
AddEventSet(groups, threadPool, nr_sockets, socket) ==
    LET found == Candidates(threadPool, nr_sockets, socket)
    IN  IF found = {} THEN groups ELSE Append(groups, Min(found))

\* The CPU of each event set, by group id (counted from 1 here).
Groups(threadPool, nr_sockets) ==
    FoldLeft(LAMBDA groups, socket : AddEventSet(groups, threadPool, nr_sockets, socket),
             <<>>, [n \in 1 .. nr_sockets |-> n - 1])

-----------------------------------------------------------------------------
\* "We don't have any active CPUs in the current socket, so we skip it"
\* (LikwidImpl.cpp:54): a socket with an active CPU has an event set.
SkipsInactiveOnly(threadPool, groups) ==
    \A i \in DOMAIN threadPool :
        threadPool[i].inCpuSet =>
            \E g \in DOMAIN groups : threadPool[groups[g]].packageId = threadPool[i].packageId

\* "Assumption: groupId is equal to socket number" (LikwidImpl.cpp:68), by which
\* GetState() names the entries (LikwidImpl.cpp:125).
GroupIsSocket(threadPool, groups) ==
    \A g \in DOMAIN groups : threadPool[groups[g]].packageId = g - 1

\* When each socket has an active CPU among the entries that are searched, no socket is
\* skipped and no group moves up to the number of another one (LikwidImpl.cpp:41-69).
MeasuresEachSocket(threadPool, nr_sockets, groups) ==
    (\A socket \in 0 .. (nr_sockets - 1) : \E i \in 1 .. (Len(threadPool) \div nr_sockets) :
        threadPool[i].packageId = socket /\ threadPool[i].inCpuSet) =>
    SkipsInactiveOnly(threadPool, groups) /\ GroupIsSocket(threadPool, groups)

=============================================================================
