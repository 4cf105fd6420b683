------------------------------ MODULE ScriptList ------------------------------
(***************************************************************************)
(* The list of the test and repair scripts, as CreateLinkedListOfExes and  *)
(* DeleteDuplicates of testdir.cpp build it from a directory: a circular   *)
(* list of list.cpp, linked by pointers, which list_for_each_entry of      *)
(* list.hpp walks while the loop's body deletes from it.                   *)
(*                                                                         *)
(* Pointer 0 is the head in ProcessList, pointer n the node made for the   *)
(* n-th entry of the directory.  A node in no list points to itself, which *)
(* is what list_del leaves; one that is not allocated yet does so too.     *)
(***************************************************************************)
EXTENDS Integers, FiniteSets, Sequences

CONSTANTS
    MaxEntries,   \* entries of the largest directory
    Paths         \* the files scripts and configurations name

ASSUME MaxEntriesAssumption == MaxEntries \in Nat

Nodes    == 1..MaxEntries
Pointers == 0..MaxEntries
NoPath   == "NULL"

\* What the reading of a directory asks of an entry: does its name begin with a
\* dot, what follows the last dot ("none": there is no dot), what does fstatat
\* say ("refused": it is not a regular file, or neither run nor read by its
\* owner, or a configuration that cannot be opened), the path of the script
\* (for a configuration, that of its ExecStart), and does IsExe accept it.
EntryType == [hidden : BOOLEAN, ext : {"none", "other", "repair"},
              file : {"gone", "refused", "good"}, path : Paths \cup {NoPath},
              exe : BOOLEAN]

VARIABLES
    dir,            \* the directory, in the order of readdir
    at,             \* the entry readdir returns next
    next, prev,     \* the links
    freed,          \* nodes given back to malloc
    number,         \* numberOfRepairScripts
    c, cNext,       \* the outer loop's node and its saved successor
    b, bNext,       \* the inner loop's
    walk            \* where CreateLinkedListOfExes is, or how it ended

links    == <<next, prev>>
cursors  == <<c, cNext, b, bNext>>
listVars == <<dir, at, links, freed, number, cursors, walk>>

Legacy(n) == dir[n].ext = "other"

ListInitial ==
    /\ at = 1
    /\ next = [n \in Pointers |-> n] /\ prev = [n \in Pointers |-> n]
    /\ freed = {} /\ number = 0
    /\ c = 0 /\ cNext = 0 /\ b = 0 /\ bNext = 0
    /\ walk = "idle"

\* list_init of the head.  A directory that cannot be opened is an empty list:
\* haveConfigFile is FALSE, whether there is a file or not.  fdopendir may fail.
OpenDirectory(opens) ==
    /\ walk = "idle"
    /\ next' = [next EXCEPT ![0] = 0] /\ prev' = [prev EXCEPT ![0] = 0]
    /\ walk' \in IF opens THEN {"read", "failed"} ELSE {"done"}
    /\ UNCHANGED <<dir, at, freed, number, cursors>>
-----------------------------------------------------------------------------
(* list_add, list_del.                                                     *)

\* The new node goes to the front.
ListAdd(n) ==
    /\ next' = [next EXCEPT ![n] = next[0], ![0] = n]
    /\ prev' = [prev EXCEPT ![next[0]] = n, ![n] = 0]

\* The neighbours are joined and the node is made a list of its own.
ListDel(n) ==
    /\ next' = [next EXCEPT ![prev[n]] = next[n], ![n] = n]
    /\ prev' = [prev EXCEPT ![next[n]] = prev[n], ![n] = n]
-----------------------------------------------------------------------------
(* CreateLinkedListOfExes: one entry of the directory.                     *)

\* A name with a dot in front is left out unless FORCE is on, and so is a file
\* that is not there.
Looked(force, n) == (dir[n].hidden => force) /\ dir[n].file # "gone"

\* IsRepairScriptConfig compares what strrchr found, which is NULL where the
\* name has no dot; strdup copies the ExecStart, which may be missing.
Crashes(force, n) ==
    /\ Looked(force, n)
    /\ \/ dir[n].ext = "none"
       \/ dir[n].ext = "repair" /\ dir[n].file = "good" /\ dir[n].path = NoPath

Kept(force, n) ==
    /\ Looked(force, n) /\ dir[n].file = "good"
    /\ dir[n].ext = "repair" => dir[n].exe

ReadEntry(force) ==
    /\ walk = "read" /\ at <= Len(dir)
    /\ at' = at + 1
    /\ IF Crashes(force, at)
       THEN walk' = "crashed" /\ UNCHANGED links
       ELSE /\ UNCHANGED walk
            /\ IF Kept(force, at) THEN ListAdd(at) ELSE UNCHANGED links
    /\ UNCHANGED <<dir, freed, number, cursors>>

\* calloc or Wasprintf returns NULL.
ReadFails(force) ==
    /\ walk = "read" /\ at <= Len(dir)
    /\ Looked(force, at) /\ dir[at].file = "good" /\ dir[at].ext # "none"
    /\ walk' = "failed"
    /\ UNCHANGED <<dir, at, links, freed, number, cursors>>

\* DeleteDuplicates starts its outer loop, unless the list is empty.
EndOfDirectory ==
    /\ walk = "read" /\ at > Len(dir)
    /\ c' = next[0] /\ cNext' = next[next[0]]
    /\ walk' = IF next[0] = 0 THEN "done" ELSE "outer"
    /\ UNCHANGED <<dir, at, links, freed, number, b, bNext>>
-----------------------------------------------------------------------------
(* DeleteDuplicates.  The loops save the successor before the body runs;   *)
(* the step "pos = tmp, tmp = next of pos" comes after it.                 *)

AdvanceOuter == c' = cNext /\ cNext' = next[cNext]
AdvanceInner == b' = bNext /\ bNext' = next'[bNext]

Visit ==
    /\ walk = "outer" /\ c # 0
    /\ number' = number + 1
    /\ IF Legacy(c)
       THEN /\ walk' = "inner"
            /\ b' = next[0] /\ bNext' = next[next[0]]
            /\ UNCHANGED <<c, cNext>>
       ELSE AdvanceOuter /\ UNCHANGED <<b, bNext, walk>>
    /\ UNCHANGED <<dir, at, links, freed>>

VisitEnds ==
    /\ walk = "outer" /\ c = 0
    /\ walk' = "done"
    /\ UNCHANGED <<dir, at, links, freed, number, cursors>>

Matches == ~Legacy(b) /\ dir[b].path = dir[c].path

\* Slip: the loop does not save the successor of the node it goes on to.
CompareUnsaved ==
    /\ walk = "inner" /\ b # 0
    /\ ~Matches
    /\ b' = bNext
    /\ UNCHANGED <<dir, at, links, freed, number, c, cNext, bNext, walk>>

\* A node that is not a configuration of the outer loop's script.
Compare ==
    /\ walk = "inner" /\ b # 0
    /\ ~Matches
    /\ UNCHANGED <<dir, at, links, freed, number, c, cNext, walk>>
    /\ AdvanceInner

\* Slip: the script stays counted.
DropScriptCounted ==
    /\ walk = "inner" /\ b # 0
    /\ Matches /\ c \notin freed
    /\ ListDel(c) /\ freed' = freed \cup {c}
    /\ AdvanceInner
    /\ UNCHANGED <<dir, at, number, c, cNext, walk>>

\* The script has a configuration, which stands for it from now on.
DropScript ==
    /\ walk = "inner" /\ b # 0
    /\ Matches /\ c \notin freed
    /\ number' = number - 1
    /\ ListDel(c) /\ freed' = freed \cup {c}
    /\ AdvanceInner
    /\ UNCHANGED <<dir, at, c, cNext, walk>>

\* A second configuration of the script: its path is read after it was freed,
\* and is no longer the same, or still is and is freed again.
DropAgain ==
    /\ walk = "inner" /\ b # 0
    /\ Matches /\ c \in freed
    /\ UNCHANGED <<dir, at, links, freed, c, cNext>>
    /\ \/ AdvanceInner /\ UNCHANGED <<number, walk>>
       \/ walk' = "crashed" /\ number' = number - 1 /\ UNCHANGED <<b, bNext>>

CompareEnds ==
    /\ walk = "inner" /\ b = 0
    /\ walk' = "outer"
    /\ AdvanceOuter
    /\ UNCHANGED <<dir, at, links, freed, number, b, bNext>>

ListStep(force) ==
    \/ ReadEntry(force) \/ ReadFails(force) \/ EndOfDirectory
    \/ Visit \/ VisitEnds \/ Compare \/ DropScript \/ DropAgain \/ CompareEnds

\* The inner loop has gone on to the node its body has deleted: the node points
\* to itself, and the loop stays there.
Trapped == walk = "inner" /\ b \in freed
=============================================================================
