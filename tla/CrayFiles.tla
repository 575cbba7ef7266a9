------------------------------- MODULE CrayFiles -------------------------------
(***************************************************************************)
(* The counters of a Cray node (cray/FilenamesHelper.cpp): which files of  *)
(* the directory are read, and in which order they become the entries of a *)
(* State. The first entry is the one PMT::joules() and PMT::watts() use.   *)
(***************************************************************************)
EXTENDS SequencesExt, Integers

CONSTANT Accelerators  \* those that have counters

\* A name by what it is searched for: "accel0_power_cap" is the "cap" of "accel" 0, the
\* accelerators being counted as their names are sorted, and "power", of the whole node,
\* has the kind "node".
File(kind, nr, quantity) == [kind |-> kind, nr |-> nr, quantity |-> quantity]

\* The names of the files in alphabetical order.
Alphabetical ==
    [i \in 1 .. 2 * Accelerators |->
        File("accel", (i - 1) \div 2, IF i % 2 = 1 THEN "power" ELSE "cap")]
    \o <<File("cpu", 0, "energy"), File("cpu", 0, "power"), File("hdd", 0, "power"),
         File("memory", 0, "power"), File("node", 0, "power"), File("node", 0, "cap")>>

Files == ToSet(Alphabetical)
Node  == File("node", 0, "power")

Rank(f) == CHOOSE n \in DOMAIN Alphabetical : Alphabetical[n] = f

\* Names with "power" and without "cap"; a "power_cap" has both.
Counters == {f \in Files : f.quantity = "power"}

\* The loop over s that pushes the elements of a set to a vector.
Keep(s, set) ==
    FoldLeft(LAMBDA kept, f : IF f \in set THEN Append(kept, f) ELSE kept, <<>>, s)

\* The files of the directory, in the order in which it is listed.
GetFilenames(directory) == Keep(directory, Counters)

\* std::sort: the names are different, so that each has one place among all names.
OrderStringsAlphabetically(s) == Keep(Alphabetical, ToSet(s))

ExtractStringsContainingSubstring(s, substring) == Keep(s, {f \in Files : f.kind = substring})

\* PopString(), of each of a set of names.
Without(s, popped) == Keep(s, Files \ popped)

\* Variant: the files are copied to the ordered ones and not popped.
CopyFilenamesWithSubstring(files, substring) ==
    LET matching == ExtractStringsContainingSubstring(files.left, substring)
    IN  [files EXCEPT !.ordered = @ \o OrderStringsAlphabetically(matching)]

\* The files with a substring move, sorted, to the end of the ordered ones.
HandleFilenamesWithSubstring(files, substring) ==
    LET matching == ExtractStringsContainingSubstring(files.left, substring)
    IN  [ordered |-> files.ordered \o OrderStringsAlphabetically(matching),
         left    |-> Without(files.left, ToSet(matching))]

ReorderFilenames(filenames) ==
    LET node   == [ordered |-> Keep(filenames, {Node}), left |-> Without(filenames, {Node})]
        cpu    == HandleFilenamesWithSubstring(node, "cpu")
        memory == HandleFilenamesWithSubstring(cpu, "memory")
        accel  == HandleFilenamesWithSubstring(memory, "accel")
    IN  accel.ordered \o accel.left

-----------------------------------------------------------------------------
\* Where the entry of a counter belongs: the node, the CPUs, the memory, the
\* accelerators, anything else.
Priority(f) ==
    CASE f.kind = "node"   -> 0
      [] f.kind = "cpu"    -> 1
      [] f.kind = "memory" -> 2
      [] f.kind = "accel"  -> 3
      [] OTHER             -> 4

\* In whatever order the directory is listed, each counter becomes one entry, the
\* node comes first, and the entries of one kind stand together in alphabetical order
\* (FilenamesHelper.cpp:85-108).
OrderedByKind(filenames, ordered) ==
    /\ Len(ordered) = Len(filenames)
    /\ ToSet(ordered) = ToSet(filenames)
    /\ \A i, j \in DOMAIN ordered :
          i < j => \/ Priority(ordered[i]) < Priority(ordered[j])
                   \/ /\ Priority(ordered[i]) = Priority(ordered[j])
                      /\ Priority(ordered[i]) < 4 => Rank(ordered[i]) < Rank(ordered[j])

=============================================================================
