----------------------------- MODULE StartupProofs ----------------------------
(***************************************************************************)
(* Proof that the list of the scripts is the one that was promised, for    *)
(* directories of any length: the links stay inverse to each other and in  *)
(* the order of the directory, the outer loop has left behind no script    *)
(* that has a configuration, and what it has counted is still in the list. *)
(* No thread is started before what it works on is ready.  The startup has *)
(* finitely many steps and never stops before its end, but in the trap of  *)
(* a script that DeleteDuplicates has freed under its own feet.            *)
(***************************************************************************)
EXTENDS Startup, FiniteSetTheorems, TLAPS

USE MaxEntriesAssumption DEF Nodes, Pointers

-----------------------------------------------------------------------------
(* What a step of the list leaves alone: the directory and the options.    *)

LEMMA Static ==
    ASSUME UNCHANGED <<dir, start>>
    PROVE  /\ \A n : Legacy(n)' <=> Legacy(n)
           /\ \A n : Kept(Forced, n)' <=> Kept(Forced, n)
           /\ \A n : Shadowed(n)' <=> Shadowed(n)
           /\ Wanted' = Wanted /\ Forced' = Forced
           /\ Stands("s")' <=> Stands("s")
  <1>1. dir' = dir /\ start' = start
    OBVIOUS
  <1>2. Forced' = Forced
    BY <1>1 DEF Forced, Stands
  <1>6. Stands("s")' <=> Stands("s")
    BY <1>1 DEF Stands
  <1>3. \A n : (Legacy(n)' <=> Legacy(n)) /\ (Kept(Forced, n)' <=> Kept(Forced, n))
    BY <1>1, <1>2 DEF Legacy, Kept, Looked
  <1>4. \A n : Shadowed(n)' <=> Shadowed(n)
    BY <1>1, <1>2 DEF Shadowed, Legacy, Kept, Looked
  <1>5. Wanted' = Wanted
    BY <1>1, <1>2 DEF Wanted, Shadowed, Legacy, Kept, Looked
  <1> QED
    BY <1>2, <1>3, <1>4, <1>5, <1>6

\* What ParseCommandLine leaves of -f and -s are those that no later option clears.
LEMMA Standing ==
    ASSUME start \in Starts
    PROVE  /\ "FORCE" \in ParseCommandLine(start.line) <=> Forced
           /\ "SYNC" \in ParseCommandLine(start.line) <=> Stands("s")
  <1> DEFINE line == start.line
             kept == {j \in DOMAIN line : \A n \in j..Len(line) : line[n] \notin Clearing}
  <1>1. line \in Seq(Letters)
    BY StartsAssumption
  <1>2. /\ DOMAIN line = 1..Len(line) /\ Len(line) \in Nat
        /\ \A k \in DOMAIN line : line[k] \in Letters
    BY <1>1
  <1> HIDE DEF line
  <1>3. ASSUME NEW letter \in {"f", "s"}, NEW k \in DOMAIN line, line[k] = letter
        PROVE  k \in kept <=> \A j \in DOMAIN line : j > k => line[j] \notin {"n", "d", "F"}
    <2>1. k \in kept <=> \A n \in k..Len(line) : line[n] \notin {"n", "d", "F"}
      BY DEF Clearing
    <2>2. \A n : n \in k..Len(line) <=> n = k \/ (n \in DOMAIN line /\ n > k)
      BY <1>2
    <2> QED
      BY <1>3, <2>1, <2>2
  <1>4. \A k \in kept : line[k] \in DOMAIN Flag
    <2> SUFFICES ASSUME NEW k \in kept PROVE line[k] \in DOMAIN Flag
      OBVIOUS
    <2>1. k \in DOMAIN line /\ k \in k..Len(line) /\ line[k] \in Letters
      BY <1>2
    <2> QED
      BY <2>1 DEF Letters
  <1>5. \A x \in DOMAIN Flag : (Flag[x] = "FORCE" <=> x = "f") /\ (Flag[x] = "SYNC" <=> x = "s")
    BY DEF Flag
  <1>6. ParseCommandLine(line) = {Flag[line[k]] : k \in kept}
    BY DEF ParseCommandLine
  <1>7. /\ "FORCE" \in ParseCommandLine(line) <=> \E k \in kept : line[k] = "f"
        /\ "SYNC" \in ParseCommandLine(line) <=> \E k \in kept : line[k] = "s"
    <2> HIDE DEF kept
    <2> QED
      BY <1>4, <1>5, <1>6
  <1>8. \A letter \in {"f", "s"} :
          (\E k \in kept : line[k] = letter) <=>
          \E k \in DOMAIN line :
              line[k] = letter /\ \A j \in DOMAIN line : j > k => line[j] \notin {"n", "d", "F"}
    BY <1>3
  <1> QED
    BY <1>7, <1>8 DEF Forced, Stands, line

LEMMA AddedStatic ==
    ASSUME UNCHANGED <<dir, start, at>>
    PROVE  Added' = Added
  BY Static DEF Added, Kept, Looked

LEMMA HeldStatic ==
    ASSUME UNCHANGED <<dir, start, at, freed>>
    PROVE  Held' = Held
  BY AddedStatic DEF Held

LEMMA AddedNodes ==
    ASSUME TypeOK
    PROVE  Added \subseteq Nodes /\ Added \subseteq DOMAIN dir
  <1>1. DOMAIN dir = 1..Len(dir) /\ Len(dir) \in Nat /\ Len(dir) <= MaxEntries
    BY DEF TypeOK
  <1> QED
    BY <1>1 DEF Added

LEMMA HeldFinite ==
    ASSUME TypeOK
    PROVE  IsFiniteSet(Held) /\ Held \subseteq Nodes
  BY AddedNodes, FS_Interval, FS_Subset DEF Held

-----------------------------------------------------------------------------
(* What comes after what when a set gains its largest element, or loses any. *)

LEMMA FollowsOne ==
    ASSUME NEW S \in SUBSET Nodes, NEW m \in S \cup {0}, NEW q, NEW r,
           Follows(q, m, S), Follows(r, m, S)
    PROVE  q = r
  BY DEF Follows

LEMMA FollowsFirst ==
    ASSUME NEW S \in SUBSET Nodes, NEW n \in Nodes, \A k \in S : k < n,
           NEW f, Follows(f, 0, S)
    PROVE  /\ n \notin S /\ f # n /\ n # 0
           /\ Follows(f, n, S \cup {n}) /\ Follows(n, 0, S \cup {n})
  BY DEF Follows

LEMMA FollowsAdd ==
    ASSUME NEW S \in SUBSET Nodes, NEW n \in Nodes, \A k \in S : k < n,
           NEW m \in S, NEW q, Follows(q, m, S)
    PROVE  Follows(q, m, S \cup {n})
  BY DEF Follows

LEMMA FollowsDel ==
    ASSUME NEW S \in SUBSET Nodes, NEW n \in S, NEW p \in S \cup {0}, NEW s,
           Follows(n, p, S), Follows(s, n, S)
    PROVE  p # n /\ s # n /\ Follows(s, p, S \ {n})
  BY DEF Follows

LEMMA FollowsKeep ==
    ASSUME NEW S \in SUBSET Nodes, NEW n \in S, NEW m \in S \cup {0}, NEW q,
           Follows(q, m, S), q # n
    PROVE  Follows(q, m, S \ {n})
  BY DEF Follows

\* A node that is left out still has a place.
LEMMA FollowsGone ==
    ASSUME NEW S \in SUBSET Nodes, NEW n \in S, NEW s, Follows(s, n, S)
    PROVE  Follows(s, n, S \ {n}) /\ s # n
  BY DEF Follows

-----------------------------------------------------------------------------
(* The two operations on the list, for any set it may hold.                *)

LEMMA InPointers ==
    ASSUME NEW S \in SUBSET Nodes
    PROVE  /\ \A m \in S : m \in Pointers /\ m # 0
           /\ \A m \in S \cup {0} : m \in Pointers
  <1>1. \A m \in S : m \in Pointers /\ m # 0
    OBVIOUS
  <1>2. 0 \in Pointers
    OBVIOUS
  <1> QED
    BY <1>1, <1>2

LEMMA AddKeepsList ==
    ASSUME NEW S \in SUBSET Nodes, NEW n \in Nodes, \A k \in S : k < n,
           next \in [Pointers -> Pointers], prev \in [Pointers -> Pointers],
           LinksAre(next, prev, S), ListAdd(n)
    PROVE  LinksAre(next', prev', S \cup {n})
  <1> DEFINE T == S \cup {n}
             f == next[0]
  <1>1. Follows(f, 0, S) /\ prev[f] = 0
    BY DEF LinksAre
  <1>2. f \in S \cup {0}
    BY <1>1 DEF Follows
  <1>3. /\ next' = [next EXCEPT ![n] = f, ![0] = n]
        /\ prev' = [prev EXCEPT ![f] = n, ![n] = 0]
    BY DEF ListAdd
  <1>4. /\ n \notin S /\ f # n /\ n # 0
        /\ Follows(f, n, T) /\ Follows(n, 0, T)
    BY <1>1, FollowsFirst
  <1> HIDE DEF f
  <1>5. next'[n] = f /\ next'[0] = n /\ prev'[n] = 0 /\ prev'[f] = n
    <2>1. f \in Pointers /\ n \in Pointers /\ 0 \in Pointers
      BY <1>2, InPointers
    <2> QED
      BY <1>3, <1>4, <2>1
  <1>6. ASSUME NEW m \in S \cup {0}
        PROVE  /\ m # 0 => next'[m] = next[m]
               /\ m # f => prev'[m] = prev[m]
    <2>1. m \in Pointers /\ m # n
      BY <1>4, InPointers
    <2> QED
      BY <1>3, <2>1
  <1>7. ASSUME NEW m \in T \cup {0}
        PROVE  Follows(next'[m], m, T) /\ prev'[next'[m]] = m
    <2>1. CASE m = 0 \/ m = n
      BY <1>4, <1>5, <2>1
    <2>2. CASE m \in S
      <3> DEFINE q == next[m]
      <3>1. Follows(q, m, S) /\ prev[q] = m /\ m # 0
        BY <2>2 DEF LinksAre
      <3> HIDE DEF q
      <3>2. q \in S \cup {0} /\ q # f
        BY <1>1, <3>1 DEF Follows, f
      <3>3. Follows(q, m, T)
        BY <2>2, <3>1, FollowsAdd
      <3>4. next'[m] = q /\ prev'[q] = m
        BY <1>6, <2>2, <3>1, <3>2 DEF q
      <3> QED
        BY <3>3, <3>4
    <2> QED
      BY <2>1, <2>2
  <1>8. ASSUME NEW m \in T \cup {0}
        PROVE  prev'[m] \in T \cup {0} /\ next'[prev'[m]] = m
    <2>1. CASE m = n \/ m = f
      BY <1>5, <2>1
    <2>2. CASE m \in S \cup {0} /\ m # f
      <3> DEFINE q == prev[m]
      <3>1. q \in S \cup {0} /\ next[q] = m
        BY <2>2 DEF LinksAre
      <3> HIDE DEF q
      <3>2. q # 0
        BY <2>2, <3>1 DEF f
      <3>3. prev'[m] = q /\ next'[q] = m
        BY <1>6, <2>2, <3>1, <3>2 DEF q
      <3> QED
        BY <3>1, <3>3
    <2> QED
      BY <2>1, <2>2
  <1> HIDE DEF T
  <1> QED
    BY <1>7, <1>8 DEF LinksAre, T

LEMMA DelKeepsList ==
    ASSUME NEW S \in SUBSET Nodes, NEW n \in S,
           next \in [Pointers -> Pointers], prev \in [Pointers -> Pointers],
           LinksAre(next, prev, S), ListDel(n)
    PROVE  LinksAre(next', prev', S \ {n})
  <1> DEFINE T == S \ {n}
             p == prev[n]
             s == next[n]
  <1>1. p \in S \cup {0} /\ next[p] = n /\ Follows(s, n, S) /\ prev[s] = n
    BY DEF LinksAre
  <1>2. s \in S \cup {0} /\ Follows(n, p, S)
    BY <1>1 DEF Follows, LinksAre
  <1>3. /\ next' = [next EXCEPT ![p] = s, ![n] = n]
        /\ prev' = [prev EXCEPT ![s] = p, ![n] = n]
    BY DEF ListDel
  <1> HIDE DEF p, s
  <1>4. p # n /\ s # n /\ Follows(s, p, T)
    BY <1>1, <1>2, FollowsDel
  <1>5. p \in Pointers /\ s \in Pointers /\ n \in Pointers /\ n # 0
    BY <1>1, <1>2, InPointers
  <1>6. next'[p] = s /\ prev'[s] = p
    BY <1>3, <1>4, <1>5
  <1>7. ASSUME NEW m \in T \cup {0}
        PROVE  /\ m # p => next'[m] = next[m]
               /\ m # s => prev'[m] = prev[m]
    <2>1. m \in Pointers /\ m # n
      BY <1>5, InPointers
    <2> QED
      BY <1>3, <1>5, <2>1
  <1>8. ASSUME NEW m \in T \cup {0}
        PROVE  Follows(next'[m], m, T) /\ prev'[next'[m]] = m
    <2>1. CASE m = p
      BY <1>4, <1>6, <2>1
    <2>2. CASE m # p
      <3> DEFINE q == next[m]
      <3>1. Follows(q, m, S) /\ prev[q] = m
        BY DEF LinksAre
      <3> HIDE DEF q
      <3>2. q # n /\ q # s
        BY <1>1, <1>5, <2>2, <3>1 DEF p
      <3>3. Follows(q, m, T)
        BY <3>1, <3>2, FollowsKeep
      <3>4. q \in T \cup {0}
        BY <3>3 DEF Follows
      <3>5. next'[m] = q /\ prev'[q] = m
        BY <1>7, <2>2, <3>1, <3>2, <3>4 DEF q
      <3> QED
        BY <3>3, <3>5
    <2> QED
      BY <2>1, <2>2
  <1>9. ASSUME NEW m \in T \cup {0}
        PROVE  prev'[m] \in T \cup {0} /\ next'[prev'[m]] = m
    <2>1. CASE m = s
      BY <1>1, <1>4, <1>6, <2>1
    <2>2. CASE m # s
      <3> DEFINE q == prev[m]
      <3>1. q \in S \cup {0} /\ next[q] = m
        BY DEF LinksAre
      <3> HIDE DEF q
      <3>2. q # n /\ q # p
        BY <1>1, <1>5, <2>2, <3>1 DEF s
      <3>3. prev'[m] = q /\ next'[q] = m
        BY <1>7, <2>2, <3>1, <3>2 DEF q
      <3> QED
        BY <3>1, <3>2, <3>3
    <2> QED
      BY <2>1, <2>2
  <1> HIDE DEF T
  <1> QED
    BY <1>8, <1>9 DEF LinksAre, T

-----------------------------------------------------------------------------
(* The steps of CreateLinkedListOfExes and DeleteDuplicates.               *)

ListOK == walk # "crashed" => CursorsOK /\ ListInv

\* The part of IInv a step of the list has to keep; phase follows from the rest.
Kernel == TypeOK /\ InStep /\ ListOK

LEMMA AddsLast ==
    ASSUME TypeOK
    PROVE  /\ \A k \in Added : k < at
           /\ (at \in DOMAIN dir /\ Kept(Forced, at)) => at \in Nodes
  BY AddedNodes DEF TypeOK, Added

\* The list while the directory is read: no node is freed yet, so that what is
\* held is what was added.
LEMMA ReadEntryStep ==
    ASSUME Kernel, ReadEntry(Forced), UNCHANGED <<start, flags>>, phase = "list",
           phase' \in {"list", "crashed"}
    PROVE  Kernel'
  <1> USE DEF Kernel, ListOK
  <1>1. /\ at \in Nat /\ at' = at + 1 /\ walk = "read" /\ at \in DOMAIN dir
        /\ at \in Nodes /\ UNCHANGED <<dir, freed, number, cursors>>
    BY DEF ReadEntry, TypeOK
  <1>2. CASE Crashes(Forced, at)
    <2>1. walk' = "crashed" /\ UNCHANGED links
      BY <1>1, <1>2 DEF ReadEntry
    <2>2. TypeOK'
      <3>1. at' \in 1..(Len(dir') + 1)
        BY <1>1 DEF TypeOK
      <3> QED
        BY <1>1, <2>1, <3>1 DEF TypeOK, Walks, links, cursors, Phases
    <2>3. InStep'
      BY <1>1, <2>1 DEF InStep
    <2> QED
      BY <2>1, <2>2, <2>3
  <1>3. CASE ~Crashes(Forced, at)
    <2>1. walk' = "read"
      BY <1>1, <1>3 DEF ReadEntry
    <2>2. Added' = IF Kept(Forced, at) THEN Added \cup {at} ELSE Added
      <3>1. \A n \in DOMAIN dir : n < at' <=> (n < at \/ n = at)
        <4>1. DOMAIN dir = 1..Len(dir) /\ Len(dir) \in Nat
          BY DEF TypeOK
        <4> QED
          BY <1>1, <4>1
      <3>2. Added' = {n \in DOMAIN dir : (n < at \/ n = at) /\ Kept(Forced, n)}
        BY <1>1, <3>1, Static DEF Added
      <3> QED
        BY <1>1, <3>2 DEF Added
    <2>3. \A k \in Added : k < at
      BY AddsLast
    <2>4. freed \subseteq Added /\ at \notin freed
      BY <1>1, <2>3 DEF ListInv
    <2>5. Held' = IF Kept(Forced, at) THEN Held \cup {at} ELSE Held
      BY <1>1, <2>2, <2>4 DEF Held
    <2>6. TypeOK'
      <3>1. /\ next' \in [Pointers -> Pointers]
            /\ prev' \in [Pointers -> Pointers]
        <4>1. next[0] \in Pointers /\ at \in Pointers /\ 0 \in Pointers
          BY <1>1 DEF TypeOK
        <4>2. CASE ListAdd(at)
          BY <4>1, <4>2 DEF ListAdd, TypeOK
        <4>3. CASE UNCHANGED links
          BY <4>3 DEF links, TypeOK
        <4> QED
          BY <1>3, <4>2, <4>3 DEF ReadEntry
      <3>2. at' \in 1..(Len(dir') + 1)
        BY <1>1 DEF TypeOK
      <3> QED
        BY <1>1, <2>1, <3>1, <3>2 DEF TypeOK, Walks, cursors, Phases
    <2>7. InStep'
      BY <1>1, <2>1 DEF InStep
    <2>8. LinksAre(next', prev', Held')
      <3>1. CASE Kept(Forced, at)
        <4>1. ListAdd(at)
          BY <1>3, <3>1 DEF ReadEntry
        <4>2. LinksAre(next', prev', Held \cup {at})
          BY <1>1, <2>3, <4>1, HeldFinite, AddKeepsList DEF TypeOK, ListInv, Held
        <4> QED
          BY <2>5, <3>1, <4>2
      <3>2. CASE ~Kept(Forced, at)
        BY <1>1, <1>3, <2>5, <3>2 DEF ReadEntry, ListInv, links
      <3> QED
        BY <3>1, <3>2
    <2>9. ListInv'
      <3>1. freed' \subseteq {n \in Added' : Shadowed(n)'}
        BY <1>1, <2>2, Static DEF ListInv
      <3>2. \A n : Ahead(n)'
        BY <2>1 DEF Ahead
      <3>3. Counted = {} /\ Counted' = {}
        BY <1>1, <2>1 DEF Counted
      <3> QED
        BY <1>1, <2>8, <3>1, <3>2, <3>3 DEF ListInv
    <2> QED
      BY <2>1, <2>6, <2>7, <2>9 DEF CursorsOK
  <1> QED
    BY <1>2, <1>3

LEMMA ReadFailsStep ==
    ASSUME Kernel, ReadFails(Forced), UNCHANGED <<start, flags, phase>>
    PROVE  Kernel'
  <1> USE DEF Kernel, ListOK
  <1>1. /\ walk = "read" /\ walk' = "failed"
        /\ UNCHANGED <<dir, at, links, freed, number, cursors>>
    BY DEF ReadFails
  <1>2. TypeOK' /\ InStep'
    BY <1>1 DEF ReadFails, TypeOK, InStep, Walks, links, cursors
  <1>3. Held' = Held /\ Added' = Added
    BY <1>1, HeldStatic, AddedStatic
  <1>4. LinksAre(next', prev', Held')
    BY <1>1, <1>3 DEF ListInv, links
  <1>5. Counted = {} /\ Counted' = {}
    BY <1>1 DEF Counted
  <1>6. ListInv'
    BY <1>1, <1>3, <1>4, <1>5, Static DEF ListInv, Ahead
  <1> QED
    BY <1>1, <1>2, <1>6 DEF CursorsOK

\* The outer loop begins, with nothing counted and all of the list ahead.
LEMMA EndOfDirectoryStep ==
    ASSUME Kernel, EndOfDirectory, UNCHANGED <<start, flags, phase>>
    PROVE  Kernel'
  <1> USE DEF Kernel, ListOK
  <1>1. /\ walk = "read" /\ c' = next[0] /\ cNext' = next[next[0]]
        /\ walk' = IF next[0] = 0 THEN "done" ELSE "outer"
        /\ UNCHANGED <<dir, at, links, freed, number, b, bNext>>
    BY DEF EndOfDirectory
  <1>2. at = Len(dir) + 1
    <2>1. at \in 1..(Len(dir) + 1) /\ Len(dir) \in Nat /\ at > Len(dir)
      BY DEF EndOfDirectory, TypeOK
    <2> QED
      BY <2>1
  <1>3. next[0] \in Pointers /\ next[next[0]] \in Pointers
    BY DEF TypeOK
  <1>4. TypeOK'
    BY <1>1, <1>3 DEF TypeOK, Walks, links
  <1>5. InStep'
    BY <1>1, <1>2 DEF InStep
  <1>6. Held' = Held /\ Added' = Added
    BY <1>1, HeldStatic, AddedStatic
  <1>7. /\ Follows(next[0], 0, Held) /\ next[0] \in Held \cup {0}
        /\ \A k \in Held : k <= next[0]
    <2>1. Follows(next[0], 0, Held)
      BY <1>1 DEF ListInv, LinksAre
    <2> QED
      BY <2>1 DEF Follows
  <1>8. Counted = {} /\ number = 0
    BY <1>1, FS_EmptySet DEF Counted, ListInv
  <1>9. Held \subseteq Nodes
    BY HeldFinite
  <1>10. LinksAre(next', prev', Held') /\ freed' \subseteq {n \in Added' : Shadowed(n)'}
    BY <1>1, <1>6, Static DEF ListInv, links
  <1>11. CASE next[0] = 0
    <2>1. Held = {}
      BY <1>7, <1>9, <1>11
    <2>2. Counted' = {}
      BY <1>6, <2>1 DEF Counted
    <2>3. ListInv'
      BY <1>1, <1>6, <1>8, <1>10, <2>1, <2>2, FS_EmptySet DEF ListInv
    <2> QED
      BY <1>1, <1>4, <1>5, <1>11, <2>3 DEF CursorsOK
  <1>12. CASE next[0] # 0
    <2>1. walk' = "outer" /\ c' \in Held /\ c' # 0
      BY <1>1, <1>7, <1>12
    <2>2. Follows(cNext', c', Held)
      BY <1>1, <1>7, <1>12 DEF ListInv, LinksAre
    <2>3. CursorsOK'
      BY <1>6, <2>1, <2>2 DEF CursorsOK
    <2>4. \A n \in Held' : Ahead(n)'
      BY <1>1, <1>6, <1>7, <2>1 DEF Ahead
    <2>5. Counted' = {}
      <3>1. \A k \in Held : ~(k > c')
        BY <1>1, <1>3, <1>7, <1>9
      <3> QED
        BY <1>6, <2>1, <3>1 DEF Counted
    <2>6. ListInv'
      BY <1>1, <1>8, <1>10, <2>4, <2>5, FS_EmptySet DEF ListInv
    <2> QED
      BY <1>4, <1>5, <2>3, <2>6
  <1> QED
    BY <1>11, <1>12

\* Steps of the two loops that leave the list and the count alone.
LEMMA LoopFrame ==
    ASSUME Kernel, walk \in {"outer", "inner"}, UNCHANGED <<start, flags, phase>>,
           UNCHANGED <<dir, at, links, freed>>, walk' \in Walks,
           c' \in Pointers, cNext' \in Pointers, b' \in Pointers, bNext' \in Pointers
    PROVE  /\ TypeOK' /\ (walk' \in {"outer", "inner", "done"} => InStep')
           /\ Held' = Held /\ Added' = Added
           /\ (\A n : Shadowed(n)' <=> Shadowed(n)) /\ (\A n : Legacy(n)' <=> Legacy(n))
           /\ freed' \subseteq {n \in Added' : Shadowed(n)'}
           /\ LinksAre(next', prev', Held')
  <1>1. TypeOK'
    BY DEF Kernel, TypeOK, links
  <1>2. walk' \in {"outer", "inner", "done"} => InStep'
    BY DEF Kernel, InStep, TypeOK
  <1>3. Held' = Held /\ Added' = Added
    BY HeldStatic, AddedStatic
  <1>4. /\ \A n : Shadowed(n)' <=> Shadowed(n)
        /\ \A n : Legacy(n)' <=> Legacy(n)
    BY Static
  <1>5. /\ freed' \subseteq {n \in Added' : Shadowed(n)'}
        /\ LinksAre(next', prev', Held')
    BY <1>3, <1>4 DEF Kernel, ListOK, ListInv, links
  <1> QED
    BY <1>1, <1>2, <1>3, <1>4, <1>5

\* A node that is counted joins those the loop has left behind.
LEMMA VisitStep ==
    ASSUME Kernel, Visit, UNCHANGED <<start, flags, phase>>
    PROVE  Kernel'
  <1>1. /\ walk = "outer" /\ c # 0 /\ number' = number + 1
        /\ UNCHANGED <<dir, at, links, freed>>
    BY DEF Visit
  <1>2. /\ c \in Held /\ c \in Added /\ Follows(cNext, c, Held) /\ c \notin freed
        /\ cNext \in Pointers /\ LinksAre(next, prev, Held)
        /\ number = Cardinality(Counted)
        /\ \A n \in Held : Shadowed(n) => n <= c
    BY <1>1 DEF Kernel, ListOK, CursorsOK, ListInv, Held, TypeOK, Ahead
  <1>3. Held \subseteq Nodes /\ IsFiniteSet(Held)
    BY HeldFinite DEF Kernel
  <1>4. next[0] \in Pointers /\ next[next[0]] \in Pointers /\ next[cNext] \in Pointers
    BY <1>2 DEF Kernel, TypeOK
  <1>5. Counted = {n \in Held : n > c} /\ IsFiniteSet(Counted) /\ c \notin Counted
    <2>1. Counted = {n \in Held : n > c}
      BY <1>1 DEF Counted
    <2>2. IsFiniteSet(Counted)
      BY <1>3, <2>1, FS_Subset
    <2> QED
      BY <1>2, <1>3, <2>1, <2>2
  <1>6. Cardinality(Counted \cup {c}) = number + 1
    BY <1>2, <1>5, FS_AddElement
  <1>7. Counted \cup {c} = {n \in Held : n >= c}
    <2>1. \A n \in Held : n >= c <=> (n > c \/ n = c)
      BY <1>2, <1>3
    <2>2. {n \in Held : n > c} \cup {c} = {n \in Held : n >= c}
      BY <1>2, <2>1
    <2> QED
      BY <1>5, <2>2
  <1>8. CASE Legacy(c)
    <2>1. /\ walk' = "inner" /\ b' = next[0] /\ bNext' = next[next[0]]
          /\ c' = c /\ cNext' = cNext
      BY <1>8 DEF Visit
    <2>2. /\ TypeOK' /\ InStep' /\ Held' = Held /\ Added' = Added
          /\ \A n : Shadowed(n)' <=> Shadowed(n)
          /\ \A n : Legacy(n)' <=> Legacy(n)
          /\ freed' \subseteq {n \in Added' : Shadowed(n)'}
          /\ LinksAre(next', prev', Held')
      BY <1>1, <1>2, <1>4, <2>1, LoopFrame DEF Walks, Kernel, TypeOK
    <2>3. /\ next[0] \in Held \cup {0}
          /\ \A m \in Held : ~(next[0] = 0 \/ next[0] < m)
      <3>1. Follows(next[0], 0, Held)
        BY <1>2 DEF LinksAre
      <3> QED
        BY <1>3, <1>4, <3>1 DEF Follows
    <2>4. CursorsOK'
      BY <1>1, <1>2, <1>8, <2>1, <2>2, <2>3 DEF CursorsOK, links
    <2>5. Counted' = {n \in Held : n >= c}
      BY <2>1, <2>2 DEF Counted
    <2>6. ListInv'
      BY <1>1, <1>2, <1>6, <1>7, <2>1, <2>2, <2>5 DEF ListInv, Ahead
    <2> QED
      BY <2>2, <2>4, <2>6 DEF Kernel, ListOK
  <1>9. CASE ~Legacy(c)
    <2>1. /\ walk' = "outer" /\ c' = cNext /\ cNext' = next[cNext]
          /\ b' = b /\ bNext' = bNext
      BY <1>1, <1>9 DEF Visit, AdvanceOuter
    <2>2. /\ TypeOK' /\ InStep' /\ Held' = Held /\ Added' = Added
          /\ \A n : Shadowed(n)' <=> Shadowed(n)
          /\ freed' \subseteq {n \in Added' : Shadowed(n)'}
          /\ LinksAre(next', prev', Held')
      BY <1>1, <1>2, <1>4, <2>1, LoopFrame DEF Walks, Kernel, TypeOK
    <2>3. cNext \in Held \cup {0} /\ \A k \in Held : (k < c) <=> (k <= cNext)
      BY <1>1, <1>2 DEF Follows
    <2>4. CursorsOK'
      BY <1>2, <2>1, <2>2, <2>3 DEF CursorsOK, LinksAre
    <2>5. \A n \in Held' : Shadowed(n)' => Ahead(n)'
      <3>1. ~Shadowed(c)
        BY <1>9 DEF Shadowed
      <3>2. ASSUME NEW n \in Held, Shadowed(n)
            PROVE  cNext # 0 /\ n <= cNext
        <4>1. n < c
          BY <1>2, <1>3, <3>1, <3>2
        <4> QED
          BY <1>2, <1>3, <2>3, <4>1
      <3> QED
        BY <2>1, <2>2, <3>2 DEF Ahead
    <2>6. Counted' = {n \in Held : n >= c}
      <3>1. \A n \in Held : (cNext = 0 \/ n > cNext) <=> n >= c
        BY <1>2, <1>3, <2>3
      <3> QED
        BY <2>1, <2>2, <3>1 DEF Counted
    <2>7. ListInv'
      BY <1>1, <1>6, <1>7, <2>2, <2>5, <2>6 DEF ListInv
    <2> QED
      BY <2>2, <2>4, <2>7 DEF Kernel, ListOK
  <1> QED
    BY <1>8, <1>9

\* No script is ahead: the list is what was wanted.
LEMMA VisitEndsStep ==
    ASSUME Kernel, VisitEnds, UNCHANGED <<start, flags, phase>>
    PROVE  Kernel'
  <1>1. /\ walk = "outer" /\ c = 0 /\ walk' = "done"
        /\ UNCHANGED <<dir, at, links, freed, number, cursors>>
    BY DEF VisitEnds
  <1>2. /\ TypeOK' /\ InStep' /\ Held' = Held
        /\ \A n : Shadowed(n)' <=> Shadowed(n)
        /\ freed' \subseteq {n \in Added' : Shadowed(n)'}
        /\ LinksAre(next', prev', Held')
    BY <1>1, LoopFrame DEF Walks, Kernel, TypeOK, cursors
  <1>3. Counted' = Counted /\ number' = Cardinality(Counted')
    BY <1>1, <1>2 DEF Counted, Kernel, ListOK, ListInv
  <1>4. \A n \in Held' : ~Shadowed(n)'
    BY <1>1, <1>2 DEF Kernel, ListOK, ListInv, Ahead
  <1>5. ListInv'
    BY <1>2, <1>3, <1>4 DEF ListInv
  <1> QED
    BY <1>1, <1>2, <1>5 DEF Kernel, ListOK, CursorsOK

\* The inner loop goes on: what it has passed is no configuration of the script.
LEMMA CompareStep ==
    ASSUME Kernel, Compare, UNCHANGED <<start, flags, phase>>
    PROVE  Kernel'
  <1>1. /\ walk = "inner" /\ b # 0 /\ ~Matches
        /\ b' = bNext /\ bNext' = next'[bNext]
        /\ UNCHANGED <<dir, at, links, freed, number, c, cNext, walk>>
    BY DEF Compare, AdvanceInner
  <1>2. next'[bNext] = next[bNext] /\ next[bNext] \in Pointers /\ bNext \in Pointers
    BY <1>1 DEF Kernel, TypeOK, links
  <1>3. /\ TypeOK' /\ InStep' /\ Held' = Held /\ Added' = Added
        /\ \A n : Shadowed(n)' <=> Shadowed(n)
        /\ \A n : Legacy(n)' <=> Legacy(n)
        /\ freed' \subseteq {n \in Added' : Shadowed(n)'}
        /\ LinksAre(next', prev', Held')
    BY <1>1, <1>2, LoopFrame DEF Walks, Kernel, TypeOK
  <1>4. ListInv'
    <2>1. Counted' = Counted
      BY <1>1, <1>3 DEF Counted
    <2>2. \A n \in Held' : Shadowed(n)' => Ahead(n)'
      BY <1>1, <1>3 DEF Kernel, ListOK, ListInv, Ahead
    <2> QED
      BY <1>1, <1>3, <2>1, <2>2 DEF Kernel, ListOK, ListInv
  <1>5. /\ c \in Added /\ Legacy(c)
        /\ c # 0 => Follows(cNext, c, Held)
    BY <1>1 DEF Kernel, ListOK, CursorsOK
  <1>6. ASSUME c \notin freed
        PROVE  /\ bNext \in Held \cup {0}
               /\ \A m \in Held : (bNext = 0 \/ bNext < m) =>
                                   Legacy(m) \/ dir[m].path # dir[c].path
    <2>1. /\ b \in Held /\ bNext = next[b]
          /\ \A m \in Held : b < m => Legacy(m) \/ dir[m].path # dir[c].path
          /\ Legacy(b) \/ dir[b].path # dir[c].path
      BY <1>1, <1>6 DEF Kernel, ListOK, CursorsOK, Matches
    <2>2. Follows(bNext, b, Held)
      BY <1>1, <2>1 DEF Kernel, ListOK, ListInv, LinksAre
    <2>3. bNext \in Held \cup {0} /\ \A k \in Held : k < b <=> k <= bNext
      BY <1>1, <2>2 DEF Follows
    <2>4. ASSUME NEW m \in Held, bNext = 0 \/ bNext < m
          PROVE  m = b \/ b < m
      <3>1. Held \subseteq Nodes
        BY HeldFinite DEF Kernel
      <3>2. ~(m <= bNext)
        BY <1>2, <2>4, <3>1
      <3> QED
        BY <2>1, <2>3, <3>1, <3>2
    <2> QED
      BY <2>1, <2>3, <2>4
  <1>7. CursorsOK'
    BY <1>1, <1>2, <1>3, <1>5, <1>6 DEF CursorsOK
  <1> QED
    BY <1>3, <1>4, <1>7 DEF Kernel, ListOK

\* The script goes: it has a configuration, and what was counted with it is not.
LEMMA DropScriptStep ==
    ASSUME Kernel, DropScript, UNCHANGED <<start, flags, phase>>
    PROVE  Kernel'
  <1>1. /\ walk = "inner" /\ b # 0 /\ Matches /\ c \notin freed
        /\ number' = number - 1 /\ ListDel(c) /\ freed' = freed \cup {c}
        /\ b' = bNext /\ bNext' = next'[bNext]
        /\ UNCHANGED <<dir, at, c, cNext, walk, start, flags, phase>>
    BY DEF DropScript, AdvanceInner
  <1>2. /\ c \in Added /\ Legacy(c) /\ b \in Held
        /\ c # 0 => Follows(cNext, c, Held)
        /\ LinksAre(next, prev, Held) /\ number = Cardinality(Counted)
        /\ freed \subseteq {n \in Added : Shadowed(n)}
        /\ \A n \in Held : Shadowed(n) => n <= c
    BY <1>1 DEF Kernel, ListOK, CursorsOK, ListInv, Ahead
  <1>3. Held \subseteq Nodes /\ IsFiniteSet(Held)
    BY HeldFinite DEF Kernel
  <1>4. c \in Held /\ c \in Nodes /\ c # 0
    BY <1>1, <1>2, <1>3 DEF Held
  <1>5. Shadowed(c)
    <2>1. b \in DOMAIN dir /\ Kept(Forced, b) /\ ~Legacy(b)
      BY <1>1, <1>2 DEF Held, Added, Matches
    <2> QED
      BY <1>1, <1>2, <2>1 DEF Shadowed, Matches
  <1>6. /\ next' \in [Pointers -> Pointers]
        /\ prev' \in [Pointers -> Pointers]
    <2>1. /\ next[c] \in Pointers /\ prev[c] \in Pointers /\ c \in Pointers
          /\ next \in [Pointers -> Pointers] /\ prev \in [Pointers -> Pointers]
      BY <1>4 DEF Kernel, TypeOK
    <2>2. /\ next' = [next EXCEPT ![prev[c]] = next[c], ![c] = c]
          /\ prev' = [prev EXCEPT ![next[c]] = prev[c], ![c] = c]
      BY <1>1 DEF ListDel
    <2> QED
      BY <2>1, <2>2
  <1>7. TypeOK'
    <2>1. freed' \subseteq Nodes
      BY <1>1, <1>4 DEF Kernel, TypeOK
    <2>2. b' \in Pointers /\ bNext' \in Pointers
      BY <1>1, <1>6 DEF Kernel, TypeOK
    <2> QED
      BY <1>1, <1>6, <2>1, <2>2 DEF Kernel, TypeOK
  <1>8. InStep'
    BY <1>1 DEF Kernel, InStep
  <1>9. Added' = Added /\ Held' = Held \ {c}
    <2>1. Added' = Added
      BY <1>1, AddedStatic
    <2> QED
      BY <1>1, <2>1 DEF Held
  <1>10. /\ \A n : Shadowed(n)' <=> Shadowed(n)
         /\ \A n : Legacy(n)' <=> Legacy(n)
    BY <1>1, Static
  <1>11. LinksAre(next', prev', Held')
    BY <1>1, <1>2, <1>3, <1>4, <1>9, DelKeepsList DEF Kernel, TypeOK
  <1>12. Follows(cNext, c, Held')
    BY <1>2, <1>3, <1>4, <1>9, FollowsGone
  <1>13. CursorsOK'
    BY <1>1, <1>2, <1>9, <1>10, <1>12 DEF CursorsOK
  <1>14. number' = Cardinality(Counted')
    <2>1. Counted = {n \in Held : n >= c} /\ Counted' = {n \in Held \ {c} : n >= c}
      BY <1>1, <1>9 DEF Counted
    <2>2. c >= c
      BY <1>4
    <2>3. c \in Counted /\ Counted' = Counted \ {c}
      BY <1>4, <2>1, <2>2
    <2>4. IsFiniteSet(Counted)
      BY <1>3, <2>1, FS_Subset
    <2> QED
      BY <1>1, <1>2, <2>3, <2>4, FS_RemoveElement
  <1>15. ListInv'
    <2>1. freed' \subseteq {n \in Added' : Shadowed(n)'}
      BY <1>1, <1>2, <1>5, <1>9, <1>10
    <2>2. \A n \in Held' : Shadowed(n)' => Ahead(n)'
      BY <1>1, <1>2, <1>9, <1>10 DEF Ahead
    <2> QED
      BY <1>11, <1>14, <2>1, <2>2 DEF ListInv
  <1> QED
    BY <1>7, <1>8, <1>13, <1>15 DEF Kernel, ListOK

\* The second configuration of a script that is gone: nothing, or a crash.
LEMMA DropAgainStep ==
    ASSUME Kernel, DropAgain, UNCHANGED <<start, flags>>, phase = "list",
           phase' = IF walk' = "crashed" THEN "crashed" ELSE phase
    PROVE  Kernel'
  <1>1. /\ walk = "inner" /\ c \in freed
        /\ UNCHANGED <<dir, at, links, freed, c, cNext>>
    BY DEF DropAgain
  <1>2. CASE AdvanceInner /\ UNCHANGED <<number, walk>>
    <2>1. b' = bNext /\ bNext' = next'[bNext] /\ UNCHANGED <<number, walk>>
      BY <1>2 DEF AdvanceInner
    <2>2. b' \in Pointers /\ bNext' \in Pointers /\ phase' = phase
      BY <1>1, <2>1 DEF Kernel, TypeOK, links
    <2>3. /\ TypeOK' /\ InStep' /\ Held' = Held /\ Added' = Added
          /\ \A n : Shadowed(n)' <=> Shadowed(n)
          /\ \A n : Legacy(n)' <=> Legacy(n)
          /\ freed' \subseteq {n \in Added' : Shadowed(n)'}
          /\ LinksAre(next', prev', Held')
      BY <1>1, <2>1, <2>2, LoopFrame DEF Walks, Kernel, TypeOK
    <2>4. CursorsOK'
      BY <1>1, <2>1, <2>3 DEF Kernel, ListOK, CursorsOK
    <2>5. Counted' = Counted /\ \A n \in Held' : Shadowed(n)' => Ahead(n)'
      BY <1>1, <2>1, <2>3 DEF Kernel, ListOK, ListInv, Ahead, Counted
    <2>6. ListInv'
      BY <2>1, <1>1, <2>3, <2>5 DEF Kernel, ListOK, ListInv
    <2> QED
      BY <2>3, <2>4, <2>6 DEF Kernel, ListOK
  <1>3. CASE walk' = "crashed" /\ UNCHANGED <<b, bNext>>
    <2>1. TypeOK'
      BY <1>1, <1>3 DEF Walks, Phases, Kernel, TypeOK, links
    <2>2. InStep'
      BY <1>1, <1>3 DEF Kernel, InStep
    <2> QED
      BY <1>3, <2>1, <2>2 DEF Kernel, ListOK
  <1> QED
    BY <1>2, <1>3 DEF DropAgain

\* A script that is still there has no configuration; the outer loop goes on.
LEMMA CompareEndsStep ==
    ASSUME Kernel, CompareEnds, UNCHANGED <<start, flags, phase>>
    PROVE  Kernel'
  <1>1. /\ walk = "inner" /\ b = 0 /\ walk' = "outer"
        /\ c' = cNext /\ cNext' = next[cNext]
        /\ UNCHANGED <<dir, at, links, freed, number, b, bNext>>
    BY DEF CompareEnds, AdvanceOuter
  <1>2. next[cNext] \in Pointers /\ cNext \in Pointers
    BY DEF Kernel, TypeOK
  <1>3. /\ TypeOK' /\ InStep' /\ Held' = Held /\ Added' = Added
        /\ \A n : Shadowed(n)' <=> Shadowed(n)
        /\ freed' \subseteq {n \in Added' : Shadowed(n)'}
        /\ LinksAre(next', prev', Held')
    BY <1>1, <1>2, LoopFrame DEF Walks, Kernel, TypeOK
  <1>4. /\ c \in Added /\ Legacy(c) /\ (c # 0 => Follows(cNext, c, Held))
        /\ LinksAre(next, prev, Held) /\ number = Cardinality(Counted)
        /\ freed \subseteq {n \in Added : Shadowed(n)}
        /\ \A n \in Held : Shadowed(n) => n <= c
        /\ c \notin freed => \A m \in Held : Legacy(m) \/ dir[m].path # dir[c].path
    BY <1>1 DEF Kernel, ListOK, CursorsOK, ListInv, Ahead
  <1>5. Held \subseteq Nodes /\ Added \subseteq Nodes
    BY HeldFinite, AddedNodes DEF Kernel
  <1>6. c \in Nodes /\ c # 0
    BY <1>4, <1>5
  <1>7. cNext \in Held \cup {0} /\ \A k \in Held : k < c <=> k <= cNext
    BY <1>4, <1>6 DEF Follows
  <1>8. c \notin Held \/ ~Shadowed(c)
    <2>1. SUFFICES ASSUME c \in Held, Shadowed(c)
                   PROVE  FALSE
      OBVIOUS
    <2>2. PICK m \in DOMAIN dir : /\ Kept(Forced, m) /\ ~Legacy(m)
                                  /\ dir[m].path = dir[c].path
      BY <2>1 DEF Shadowed
    <2>3. m \in Added
      <3>1. at = Len(dir) + 1 /\ DOMAIN dir = 1..Len(dir) /\ Len(dir) \in Nat
        BY <1>1 DEF Kernel, InStep, TypeOK
      <3> QED
        BY <2>2, <3>1 DEF Added
    <2>4. m \notin freed
      BY <1>4, <2>2 DEF Shadowed
    <2> QED
      BY <1>4, <2>1, <2>2, <2>3, <2>4 DEF Held
  <1>9. CursorsOK'
    BY <1>1, <1>3, <1>4, <1>7 DEF CursorsOK, LinksAre
  <1>10. \A n \in Held' : Shadowed(n)' => Ahead(n)'
    <2>1. ASSUME NEW n \in Held, Shadowed(n)
          PROVE  cNext # 0 /\ n <= cNext
      <3>1. n < c
        BY <1>4, <1>5, <1>6, <1>8, <2>1
      <3>2. n <= cNext /\ n \in Nodes
        BY <1>5, <1>7, <2>1, <3>1
      <3> QED
        BY <3>2
    <2> QED
      BY <1>1, <1>3, <2>1 DEF Ahead
  <1>11. Counted' = Counted
    <2>1. \A n \in Held : (cNext = 0 \/ n > cNext) <=> n >= c
      BY <1>2, <1>5, <1>6, <1>7
    <2>2. {n \in Held : cNext = 0 \/ n > cNext} = {n \in Held : n >= c}
      BY <2>1
    <2>3. /\ Counted' = {n \in Held : cNext = 0 \/ n > cNext}
          /\ Counted = {n \in Held : n >= c}
      BY <1>1, <1>3 DEF Counted
    <2> QED
      BY <2>2, <2>3
  <1>12. ListInv'
    BY <1>1, <1>3, <1>4, <1>10, <1>11 DEF ListInv
  <1> QED
    BY <1>3, <1>9, <1>12 DEF Kernel, ListOK

\* The call of CreateLinkedListOfExes: the head alone.
LEMMA OpenDirectoryStep ==
    ASSUME Kernel, OpenDirectory(start.opens), UNCHANGED <<start, flags>>,
           phase = "file", phase' = "list"
    PROVE  Kernel'
  <1>1. /\ walk = "idle" /\ walk' \in {"read", "failed", "done"}
        /\ walk' = "done" <=> ~start.opens
        /\ next' = [next EXCEPT ![0] = 0] /\ prev' = [prev EXCEPT ![0] = 0]
        /\ UNCHANGED <<dir, at, freed, number, cursors>>
    BY DEF OpenDirectory
  <1>2. at = 1
    BY <1>1 DEF Kernel, InStep
  <1>3. TypeOK'
    BY <1>1 DEF Kernel, TypeOK, Walks, Phases, cursors
  <1>4. InStep'
    BY <1>1, <1>2 DEF Kernel, InStep
  <1>5. Held = {} /\ Held' = {} /\ Added' = Added
    <2>1. DOMAIN dir = 1..Len(dir)
      BY DEF Kernel, TypeOK
    <2>2. Added = {}
      BY <1>2, <2>1 DEF Added
    <2> QED
      BY <1>1, <2>2, AddedStatic DEF Held
  <1>6. LinksAre(next', prev', Held')
    <2>1. next'[0] = 0 /\ prev'[0] = 0
      BY <1>1 DEF Kernel, TypeOK
    <2> QED
      BY <1>5, <2>1 DEF LinksAre, Follows
  <1>7. Counted = {} /\ Counted' = {}
    BY <1>5 DEF Counted
  <1>8. ListInv'
    BY <1>1, <1>5, <1>6, <1>7, Static DEF Kernel, ListOK, ListInv
  <1> QED
    BY <1>1, <1>3, <1>4, <1>8 DEF Kernel, ListOK, CursorsOK
-----------------------------------------------------------------------------
(* ServiceMain.                                                            *)

\* A step that leaves the list alone.
LEMMA Frame ==
    ASSUME Kernel, UNCHANGED <<listVars, start>>, phase' \in Phases,
           phase' \in {"line", "file"} => walk = "idle",
           phase' \in {"file", "list"} => flags' = ParseCommandLine(start.line)
    PROVE  Kernel'
  <1>1. UNCHANGED <<dir, at, next, prev, freed, number, c, cNext, b, bNext, walk, start>>
    BY DEF listVars, links, cursors
  <1>2. TypeOK'
    BY <1>1 DEF Kernel, TypeOK
  <1>3. InStep'
    BY <1>1 DEF Kernel, InStep
  <1>4. /\ Held' = Held /\ Added' = Added
        /\ \A n : Shadowed(n)' <=> Shadowed(n)
        /\ \A n : Legacy(n)' <=> Legacy(n)
    BY <1>1, HeldStatic, AddedStatic, Static
  <1>5. CursorsOK' <=> CursorsOK
    BY <1>1, <1>4 DEF CursorsOK
  <1>6. Counted' = Counted /\ \A n : Ahead(n)' <=> Ahead(n)
    BY <1>1, <1>4 DEF Counted, Ahead
  <1>7. ListInv => ListInv'
    BY <1>1, <1>4, <1>6 DEF ListInv
  <1> QED
    BY <1>1, <1>2, <1>3, <1>5, <1>7 DEF Kernel, ListOK

LEMMA ReadListStep ==
    ASSUME Kernel, ReadList
    PROVE  Kernel'
  <1>1. /\ phase = "list" /\ ListStep("FORCE" \in flags)
        /\ phase' = IF walk' = "crashed" THEN "crashed" ELSE phase
        /\ UNCHANGED <<start, flags>>
    BY DEF ReadList, settings
  <1>2. ("FORCE" \in flags) <=> Forced
    BY <1>1, Standing DEF Kernel, InStep, TypeOK
  <1>3. ListStep(Forced)
    BY <1>1, <1>2 DEF ListStep, ReadEntry, ReadFails, Crashes, Kept, Looked
  <1>4. CASE ReadEntry(Forced)
    BY <1>1, <1>4, ReadEntryStep
  <1>5. CASE ReadFails(Forced)
    BY <1>1, <1>5, ReadFailsStep DEF ReadFails
  <1>6. CASE EndOfDirectory
    BY <1>1, <1>6, EndOfDirectoryStep DEF EndOfDirectory
  <1>7. CASE Visit
    <2>1. walk' # "crashed"
      BY <1>7 DEF Visit
    <2> QED
      BY <1>1, <1>7, <2>1, VisitStep
  <1>8. CASE VisitEnds
    BY <1>1, <1>8, VisitEndsStep DEF VisitEnds
  <1>9. CASE Compare
    BY <1>1, <1>9, CompareStep DEF Compare
  <1>10. CASE DropScript
    BY <1>1, <1>10, DropScriptStep DEF DropScript
  <1>11. CASE DropAgain
    BY <1>1, <1>11, DropAgainStep
  <1>12. CASE CompareEnds
    BY <1>1, <1>12, CompareEndsStep DEF CompareEnds
  <1> QED
    BY <1>3, <1>4, <1>5, <1>6, <1>7, <1>8, <1>9, <1>10, <1>11, <1>12 DEF ListStep

LEMMA Start == Init => IInv
  <1> SUFFICES ASSUME Init PROVE IInv
    OBVIOUS
  <1>1. /\ dir \in Seq(EntryType) /\ Len(dir) <= MaxEntries /\ Len(dir) \in Nat
        /\ start \in Starts
        /\ at = 1 /\ freed = {} /\ walk = "idle" /\ phase = "line" /\ number = 0
        /\ next = [n \in Pointers |-> n] /\ prev = [n \in Pointers |-> n]
        /\ c = 0 /\ cNext = 0 /\ b = 0 /\ bNext = 0
    BY StartsAssumption DEF Init, ListInitial
  <1>2. TypeOK
    BY <1>1 DEF TypeOK, Walks, Phases
  <1>3. InStep
    BY <1>1 DEF InStep
  <1>4. Held = {}
    <2>1. DOMAIN dir = 1..Len(dir)
      BY <1>1
    <2> QED
      BY <1>1, <2>1 DEF Held, Added
  <1>5. ListInv
    <2>1. LinksAre(next, prev, Held)
      BY <1>1, <1>4 DEF LinksAre, Follows
    <2>2. Counted = {}
      BY <1>4 DEF Counted
    <2> QED
      BY <1>1, <1>4, <2>1, <2>2, FS_EmptySet DEF ListInv
  <1> QED
    BY <1>1, <1>2, <1>3, <1>5 DEF IInv, CursorsOK

\* Every step of the startup keeps the list as it is, or makes one step of it.
LEMMA Step == IInv /\ [Next]_vars => IInv'
  <1> SUFFICES ASSUME Kernel, [Next]_vars PROVE Kernel'
    BY DEF IInv, Kernel, ListOK
  <1> USE DEF settings, objects, Phases
  <1>1. InStep
    BY DEF Kernel
  <1>2. CASE CommandLine
    BY <1>1, <1>2, Frame DEF CommandLine, InStep
  <1>3. CASE FileUnreadable
    BY <1>3, OpenDirectoryStep DEF FileUnreadable
  <1>4. CASE FileForIdentify
    BY <1>4, Frame DEF FileForIdentify
  <1>5. CASE FileFirstHalf
    <2>1. CASE File.logTarget = "invalid"
      BY <1>5, <2>1, Frame DEF FileFirstHalf
    <2>2. CASE File.logTarget # "invalid"
      BY <1>5, <2>2, OpenDirectoryStep DEF FileFirstHalf
    <2> QED
      BY <2>1, <2>2
  <1>6. CASE ReadList
    BY <1>6, ReadListStep
  <1>7. CASE ListRead
    BY <1>7, Frame DEF ListRead
  <1>8. CASE SettingsTaken
    BY <1>8, Frame DEF SettingsTaken
  <1>9. CASE Arrays
    BY <1>9, Frame DEF Arrays
  <1>10. CASE DaemonOrNot
    BY <1>10, Frame DEF DaemonOrNot
  <1>11. CASE PingInit
    BY <1>11, Frame DEF PingInit
  <1>12. CASE ExecuteRepairScriptsPreFork
    BY <1>12, Frame DEF ExecuteRepairScriptsPreFork
  <1>13. CASE StartHelperThreads
    BY <1>13, Frame DEF StartHelperThreads
  <1>14. CASE HelperThreadsStarted
    BY <1>14, Frame DEF HelperThreadsStarted
  <1>15. CASE LinkThreadWalks
    BY <1>15, Frame DEF LinkThreadWalks
  <1>16. CASE UNCHANGED vars
    <2>1. UNCHANGED <<listVars, start, phase, flags>> /\ phase \in Phases
      BY <1>16 DEF vars, Kernel, TypeOK
    <2> QED
      BY <1>1, <2>1, Frame DEF InStep
  <1> QED
    BY <1>2, <1>3, <1>4, <1>5, <1>6, <1>7, <1>8, <1>9, <1>10, <1>11, <1>12, <1>13,
       <1>14, <1>15, <1>16 DEF Next, ServiceMain, Terminated

\* For directories of any length and of any entries: types, phases, cursors and
\* the list, at every step of the startup.
THEOREM Invariance == Spec => []IInv
  <1>1. Init => IInv
    BY Start
  <1>2. IInv /\ [Next]_vars => IInv'
    BY Step
  <1> QED
    BY <1>1, <1>2, PTL DEF Spec

\* When the walk is over, nothing is ahead, and what is held is what was wanted.
LEMMA AsPromised == IInv => ListAsPromised
  <1> SUFFICES ASSUME IInv, walk = "done" PROVE
               /\ LinksAre(next, prev, Wanted) /\ Wanted \cap freed = {}
               /\ number = Cardinality(Wanted)
    BY DEF ListAsPromised
  <1>1. /\ ListInv /\ TypeOK /\ InStep
        /\ freed \subseteq {n \in Added : Shadowed(n)}
        /\ \A n \in Held : ~Shadowed(n)
    BY DEF IInv, ListInv, Ahead
  <1>2. DOMAIN dir = 1..Len(dir) /\ Len(dir) \in Nat
    BY <1>1 DEF TypeOK
  <1>3. Held = Wanted
    <2>1. CASE start.opens
      <3>1. at = Len(dir) + 1
        BY <1>1, <2>1 DEF InStep
      <3>2. Added = {n \in DOMAIN dir : Kept(Forced, n)}
        BY <1>2, <3>1 DEF Added
      <3>3. Wanted = {n \in Added : ~Shadowed(n)}
        BY <2>1, <3>2 DEF Wanted
      <3> QED
        BY <1>1, <3>3 DEF Held
    <2>2. CASE ~start.opens
      <3>1. at = 1
        BY <1>1, <2>2 DEF InStep
      <3>2. Added = {}
        BY <1>2, <3>1 DEF Added
      <3> QED
        BY <2>2, <3>2 DEF Wanted, Held
    <2> QED
      BY <2>1, <2>2
  <1>4. Counted = Held
    BY DEF Counted
  <1>5. Held \cap freed = {}
    BY DEF Held
  <1> QED
    BY <1>1, <1>3, <1>4, <1>5 DEF ListInv

\* The list of the scripts that the startup hands over, for every directory.
THEOREM ListKept == Spec => []ListAsPromised
  BY Invariance, AsPromised, PTL
-----------------------------------------------------------------------------
(* What each phase of ServiceMain has made ready for the threads.          *)

Before == {"line", "file", "list", "settings", "arrays", "daemon", "ping", "executor"}

\* Past the arrays of the file, which IDENTIFY skips.
PastArrays == \/ phase \in {"ping", "executor", "threads", "running"}
              \/ phase = "daemon" /\ "IDENTIFY" \notin flags

\* What the settings before the list leave for the threads, ...
BinaryRead ==
    /\ File.testBinary = "exe" => cfg.testBinary
    /\ File.minMemory = 1 => cfg.minFreePages

\* ... those from there up to sigterm-delay, ...
SettingsRead ==
    /\ (Stands("s") \/ "SYNC" \in File.on) /\ File.usePidFile # "false"
         => "SYNC" \in flags
    /\ File.maxLoad1 = 1 => cfg.maxLoadOne

\* ... and the arrays.
ArraysRead ==
    /\ File.pidFiles = "some" => "ENABLEPIDCHECKER" \in flags
    /\ File.hosts = "some" => "ENABLEPING" \in flags
    /\ File.interfaces = "some" => cfg.interfaces
    /\ cfg.interfaces => devices # "zero" \/ File.interfaces = "empty"

\* StartHelperThreads has started what was asked for so far; it ends if it cannot,
\* but for its last thread.
TurnsTaken ==
    /\ turn \in 1..(Len(Order) + 1)
    /\ \A i \in 1..(turn - 1) :
         Asks(Order[i]) => Order[i] \in started \/ i = Len(Order)

PhasesInv ==
    /\ start \in Starts
    /\ DOMAIN cfg = {"testBinary", "minFreePages", "maxLoadOne", "interfaces"}
    /\ phase \in Before => turn = 1 /\ started = {} /\ ~executor
    /\ phase \in {"settings", "arrays", "ping", "executor", "threads", "running"}
         => walk = "done"
    /\ phase = "daemon" => walk = "done" \/ "IDENTIFY" \in flags
    /\ phase = "settings" => flags = ParseCommandLine(start.line)
    /\ phase = "list" /\ File.parses => BinaryRead
    /\ phase \in {"settings", "arrays"} \/ PastArrays => BinaryRead
    /\ phase = "arrays" \/ PastArrays => SettingsRead
    /\ PastArrays => ArraysRead
    /\ phase \in {"executor", "threads", "running"} /\ "ENABLEPING" \in flags
         => pingObj = "filled"
    /\ phase \in {"threads", "running"} => (executor <=> Wanted # {})

ReadyInv ==
    /\ PhasesInv
    /\ phase = "threads" => TurnsTaken
    /\ AskedIsReady

\* While no thread is started, all that was started is ready.
LEMMA NoneStarted ==
    ASSUME started' = {}, turn' = 1, phase' # "running", PhasesInv'
    PROVE  ReadyInv'
  <1>1. AskedIsReady'
    BY DEF AskedIsReady
  <1>2. Len(Order) = 11
    BY DEF Order
  <1>3. TurnsTaken'
    BY <1>2 DEF TurnsTaken
  <1> QED
    BY <1>1, <1>3 DEF ReadyInv

\* Up to the end of the list.
LEMMA ReadyBegins ==
    ASSUME IInv, ReadyInv, \/ CommandLine \/ FileUnreadable \/ FileForIdentify
                           \/ FileFirstHalf \/ ReadList \/ ListRead
    PROVE  ReadyInv'
  <1> USE DEF settings, objects
  <1>1. /\ phase \in {"line", "file", "list"} /\ UNCHANGED <<start, turn, started>>
        /\ start \in Starts /\ turn = 1 /\ started = {}
    BY DEF CommandLine, FileUnreadable, FileForIdentify, FileFirstHalf, ReadList,
           ListRead, ReadyInv, PhasesInv, Before
  <1>2. \/ phase' \in {"file", "list", "failed", "crashed"}
        \/ phase' = "daemon" /\ "IDENTIFY" \in flags'
        \/ phase' = "settings" /\ walk' = "done" /\ flags' = ParseCommandLine(start.line)
    <2>1. CASE CommandLine \/ FileUnreadable \/ FileForIdentify
      BY <2>1 DEF CommandLine, FileUnreadable, FileForIdentify
    <2>2. CASE FileFirstHalf
      BY <2>2 DEF FileFirstHalf
    <2>3. CASE ReadList
      BY <2>3 DEF ReadList
    <2>4. CASE ListRead
      BY <2>4 DEF ListRead, IInv, InStep, listVars
    <2> QED
      BY <2>1, <2>2, <2>3, <2>4
  <1>3. cfg' = cfg \/ cfg' = [cfg EXCEPT !.testBinary = File.testBinary = "exe",
                                        !.minFreePages = File.minMemory > 0]
    BY DEF CommandLine, FileUnreadable, FileForIdentify, FileFirstHalf, ReadList,
           ListRead
  <1>4. DOMAIN cfg' = DOMAIN cfg
    BY <1>3 DEF ReadyInv, PhasesInv
  <1>5. ~executor'
    BY <1>1 DEF CommandLine, FileUnreadable, FileForIdentify, FileFirstHalf, ReadList,
           ListRead, ReadyInv, PhasesInv, Before
  <1>6. phase' \in {"list", "settings"} /\ File'.parses => BinaryRead'
    <2>1. UNCHANGED File
      BY <1>1 DEF File
    <2>2. CASE FileFirstHalf
      <3>1. cfg' = [cfg EXCEPT !.testBinary = File.testBinary = "exe",
                               !.minFreePages = File.minMemory > 0]
        BY <2>2 DEF FileFirstHalf
      <3>2. /\ cfg'.testBinary = (File.testBinary = "exe")
            /\ cfg'.minFreePages = (File.minMemory > 0)
        BY <3>1, Zenon DEF ReadyInv, PhasesInv
      <3>3. File.minMemory = 1 => (File.minMemory > 0) = TRUE
        OBVIOUS
      <3> QED
        BY <2>1, <3>2, <3>3 DEF BinaryRead
    <2>3. CASE ReadList \/ ListRead
      <3>1. phase = "list" /\ cfg' = cfg
        BY <2>3 DEF ReadList, ListRead
      <3>2. File.parses => BinaryRead
        BY <3>1 DEF ReadyInv, PhasesInv
      <3> QED
        BY <2>1, <3>1, <3>2 DEF BinaryRead
    <2>4. CASE CommandLine \/ FileUnreadable \/ FileForIdentify
      BY <2>1, <2>4 DEF CommandLine, FileUnreadable, FileForIdentify
    <2> QED
      BY <2>2, <2>3, <2>4
  <1>7. phase' = "settings" => File'.parses
    BY <1>1, <1>2 DEF CommandLine, FileUnreadable, FileForIdentify, FileFirstHalf,
       ReadList, ListRead, File
  <1>8. PhasesInv'
    BY <1>1, <1>2, <1>4, <1>5, <1>6, <1>7 DEF ReadyInv, PhasesInv, PastArrays
  <1> QED
    BY <1>1, <1>2, <1>8, NoneStarted

\* The settings and the arrays.
LEMMA ReadySettings ==
    ASSUME ReadyInv, SettingsTaken \/ Arrays
    PROVE  ReadyInv'
  <1> USE DEF settings, objects
  <1>1. /\ phase \in {"settings", "arrays"}
        /\ UNCHANGED <<start, turn, started, walk>> /\ walk = "done"
        /\ start \in Starts /\ turn = 1 /\ started = {}
    BY DEF SettingsTaken, Arrays, ReadyInv, PhasesInv, Before, listVars
  <1>2. /\ File \in StartFile /\ UNCHANGED File
        /\ Stands("s")' <=> Stands("s")
        /\ "SYNC" \in ParseCommandLine(start.line) <=> Stands("s")
    BY <1>1, Standing, StartsAssumption DEF File, Stands
  <1> DEFINE Settings == {"testBinary", "minFreePages", "maxLoadOne", "interfaces"}
  <1>a. DOMAIN cfg = Settings /\ ~executor'
    BY <1>1 DEF ReadyInv, PhasesInv, Before, SettingsTaken, Arrays
  <1>b. DOMAIN cfg' = Settings
    <2>1. \/ cfg' = cfg
          \/ cfg' = [cfg EXCEPT !.maxLoadOne = File.maxLoad1 > 0]
          \/ cfg' = [cfg EXCEPT !.interfaces = File.interfaces # "absent"]
      BY DEF SettingsTaken, Arrays
    <2> QED
      BY <1>a, <2>1
  <1>c. BinaryRead'
    <2>1. BinaryRead
      BY <1>1 DEF ReadyInv, PhasesInv
    <2>2. /\ cfg'.testBinary = cfg.testBinary /\ cfg'.minFreePages = cfg.minFreePages
      BY <1>a DEF SettingsTaken, Arrays
    <2> QED
      BY <1>2, <2>1, <2>2 DEF BinaryRead
  <1>3. PhasesInv'
    <2>1. CASE SettingsTaken
      <3>1. /\ phase = "settings" /\ phase' \in {"failed", "arrays"}
            /\ flags = ParseCommandLine(start.line)
            /\ flags' = ReadConfigurationFile(flags, File)
                        \cup (IF File.realtime = "false" THEN {} ELSE {"REALTIME"})
            /\ cfg' = [cfg EXCEPT !.maxLoadOne = File.maxLoad1 > 0]
        BY <2>1 DEF SettingsTaken, ReadyInv, PhasesInv
      <3>2. SettingsRead'
        <4>1. File.maxLoad1 = 1 => cfg'.maxLoadOne
          <5>1. cfg'.maxLoadOne = (File.maxLoad1 > 0)
            BY <1>a, <3>1, Zenon
          <5>2. File.maxLoad1 = 1 => (File.maxLoad1 > 0) = TRUE
            OBVIOUS
          <5> QED
            BY <5>1, <5>2
        <4>2. \/ File.usePidFile = "false"
              \/ flags \cup File.on \subseteq flags'
          BY <1>2, <3>1 DEF ReadConfigurationFile, StartFile
        <4>3. (Stands("s") \/ "SYNC" \in File.on) /\ File.usePidFile # "false"
                => "SYNC" \in flags'
          BY <1>2, <3>1, <4>2
        <4>4. start' = start /\ File' = File
          BY <1>1, <1>2
        <4> HIDE DEF Settings
        <4> QED
          BY <1>2, <4>1, <4>3, <4>4 DEF SettingsRead
      <3> QED
        BY <1>1, <1>a, <1>b, <1>c, <3>1, <3>2 DEF PhasesInv, PastArrays
    <2>2. CASE Arrays
      <3>1. phase = "arrays" /\ SettingsRead
        BY <2>2 DEF Arrays, ReadyInv, PhasesInv
      <3>2. CASE phase' # "daemon"
        <4>1. phase' \in {"failed", "aborted"}
          BY <2>2, <3>2 DEF Arrays
        <4> QED
          BY <1>1, <1>a, <1>b, <4>1 DEF PhasesInv, PastArrays
      <3>3. CASE phase' = "daemon"
        <4>1. /\ flags' = flags \cup ArrayFlags
              /\ cfg' = [cfg EXCEPT !.interfaces = File.interfaces # "absent"]
              /\ File.interfaces # "notArray"
              /\ File.interfaces = "some" => devices' \in {"empty", "filled"}
          BY <2>2, <3>3 DEF Arrays
        <4>2. File.interfaces \in ArrayType
          BY <1>2 DEF StartFile
        <4>3. cfg'.interfaces = (File.interfaces # "absent")
          BY <1>a, <4>1, Zenon
        <4>4. ArraysRead'
          BY <1>2, <4>1, <4>2, <4>3 DEF ArraysRead, ArrayFlags, ArrayType
        <4>5. SettingsRead'
          <5>1. cfg'.maxLoadOne = cfg.maxLoadOne
            BY <1>a, <4>1
          <5> QED
            BY <1>1, <1>2, <3>1, <4>1, <5>1 DEF SettingsRead
        <4> QED
          BY <1>1, <1>a, <1>b, <1>c, <3>3, <4>4, <4>5 DEF PhasesInv, PastArrays
      <3> QED
        BY <3>2, <3>3
    <2> QED
      BY <2>1, <2>2
  <1>4. phase' # "running"
    BY DEF SettingsTaken, Arrays
  <1> QED
    BY <1>1, <1>3, <1>4, NoneStarted

\* The daemon, the hosts and the executor.
LEMMA ReadyObjects ==
    ASSUME IInv, ReadyInv, DaemonOrNot \/ PingInit \/ ExecuteRepairScriptsPreFork
    PROVE  ReadyInv'
  <1> USE DEF settings, objects
  <1>1. /\ phase \in {"daemon", "ping", "executor"}
        /\ UNCHANGED <<start, turn, started, walk, flags, cfg, devices, next, dir>>
        /\ start \in Starts /\ turn = 1 /\ started = {} /\ ~executor
    BY DEF DaemonOrNot, PingInit, ExecuteRepairScriptsPreFork, ReadyInv, PhasesInv,
           Before, listVars, links
  <1>2. /\ Wanted' = Wanted /\ UNCHANGED File
        /\ Stands("s")' <=> Stands("s")
    BY <1>1, Static DEF File
  <1>d. DOMAIN cfg' = {"testBinary", "minFreePages", "maxLoadOne", "interfaces"}
    BY <1>1 DEF ReadyInv, PhasesInv
  <1>3. PastArrays => BinaryRead' /\ SettingsRead' /\ ArraysRead'
    BY <1>1, <1>2 DEF ReadyInv, PhasesInv, BinaryRead, SettingsRead, ArraysRead
  <1>4. PhasesInv'
    <2>1. CASE DaemonOrNot
      <3>1. \/ phase' = "identified"
            \/ /\ phase' = "ping" /\ "IDENTIFY" \notin flags /\ phase = "daemon"
               /\ executor' = executor
        BY <2>1 DEF DaemonOrNot
      <3> QED
        BY <1>1, <1>3, <1>d, <3>1 DEF PhasesInv, PastArrays, ReadyInv, Before
    <2>2. CASE PingInit
      <3>1. /\ phase = "ping"
            /\ executor' = executor
            /\ \/ phase' = "failed"
               \/ /\ phase' = "executor"
                  /\ "ENABLEPING" \in flags => pingObj' = "filled"
        BY <2>2 DEF PingInit
      <3> QED
        BY <1>1, <1>3, <1>d, <3>1 DEF PhasesInv, PastArrays, ReadyInv, Before
    <2>3. CASE ExecuteRepairScriptsPreFork
      <3>1. /\ phase = "executor" /\ UNCHANGED pingObj
            /\ \/ phase' = "aborted"
               \/ phase' = "threads" /\ (executor' <=> next[0] # 0)
        BY <1>1, <2>3 DEF ExecuteRepairScriptsPreFork
      <3>2. next[0] # 0 <=> Wanted # {}
        <4>1. LinksAre(next, prev, Wanted)
          BY <3>1, AsPromised DEF ReadyInv, PhasesInv, ListAsPromised
        <4>2. Follows(next[0], 0, Wanted)
          BY <4>1 DEF LinksAre
        <4>3. Wanted \subseteq Nat \ {0}
          <5>1. DOMAIN dir = 1..Len(dir) /\ Len(dir) \in Nat
            BY DEF IInv, TypeOK
          <5> QED
            BY <5>1 DEF Wanted
        <4>4. next[0] \in Wanted \cup {0} /\ \A k \in Wanted : k <= next[0]
          BY <4>2 DEF Follows
        <4>5. CASE next[0] = 0
          <5>1. ASSUME NEW k \in Wanted PROVE FALSE
            <6>1. k \in Nat \ {0} /\ k <= 0
              BY <4>3, <4>4, <4>5
            <6> QED
              BY <6>1
          <5> QED
            BY <4>5, <5>1
        <4> QED
          BY <4>4, <4>5
      <3> QED
        BY <1>1, <1>2, <1>3, <1>d, <3>1, <3>2 DEF PhasesInv, PastArrays, ReadyInv, Before
    <2> QED
      BY <2>1, <2>2, <2>3
  <1>5. phase' # "running"
    BY DEF DaemonOrNot, PingInit, ExecuteRepairScriptsPreFork
  <1> QED
    BY <1>1, <1>4, <1>5, NoneStarted

\* The threads, and the link test of an array without elements.
LEMMA ReadyThreads ==
    ASSUME ReadyInv, StartHelperThreads \/ HelperThreadsStarted \/ LinkThreadWalks
    PROVE  ReadyInv'
  <1> USE DEF settings, objects
  <1>1. /\ phase \in {"threads", "running"}
        /\ UNCHANGED <<start, walk, flags, cfg, pingObj, devices, executor, dir>>
        /\ phase' \in {"threads", "running", "aborted", "crashed"}
    BY DEF StartHelperThreads, HelperThreadsStarted, LinkThreadWalks, listVars
  <1>2. /\ Wanted' = Wanted /\ UNCHANGED File /\ start' = start
        /\ Stands("s")' <=> Stands("s")
        /\ Asked' = Asked
        /\ \A t : Ready(t)' <=> Ready(t)
        /\ \A t : Asks(t)' <=> Asks(t)
    <2>1. Wanted' = Wanted /\ UNCHANGED File /\ (Stands("s")' <=> Stands("s"))
      BY <1>1, Static DEF File
    <2> QED
      BY <1>1, <2>1 DEF Asked, Ready, Asks
  <1>3. PastArrays /\ BinaryRead /\ SettingsRead /\ ArraysRead
        /\ ("ENABLEPING" \in flags => pingObj = "filled")
        /\ (executor <=> Wanted # {}) /\ walk = "done" /\ start \in Starts
        /\ DOMAIN cfg = {"testBinary", "minFreePages", "maxLoadOne", "interfaces"}
    BY <1>1 DEF ReadyInv, PhasesInv, PastArrays
  <1>4. PhasesInv'
    <2>1. BinaryRead' /\ SettingsRead' /\ ArraysRead'
      BY <1>1, <1>2, <1>3 DEF BinaryRead, SettingsRead, ArraysRead
    <2> QED
      BY <1>1, <1>2, <1>3, <2>1 DEF PhasesInv, Before, PastArrays
  <1>5. \A t : Asks(t) => Ready(t)
    BY <1>3 DEF Asks, Ready, ArraysRead
  <1>6. \A t \in started' : Ready(t)'
    BY <1>2, <1>5 DEF StartHelperThreads, HelperThreadsStarted, LinkThreadWalks,
                      ReadyInv, AskedIsReady
  <1>7. Len(Order) = 11
    BY DEF Order
  <1>8. CASE StartHelperThreads
    <2>1. /\ phase = "threads" /\ turn <= Len(Order) /\ turn' = turn + 1
          /\ started \subseteq started'
          /\ phase' # "running"
          /\ phase' = "threads" /\ Asks(Order[turn])
               => Order[turn] \in started' \/ turn = Len(Order)
      BY <1>8 DEF StartHelperThreads
    <2>2. TurnsTaken
      BY <2>1 DEF ReadyInv
    <2>3. phase' = "threads" => TurnsTaken'
      <3> SUFFICES ASSUME phase' = "threads" PROVE TurnsTaken'
        OBVIOUS
      <3>1. turn' \in 1..(Len(Order) + 1)
        BY <1>7, <2>1, <2>2 DEF TurnsTaken
      <3>2. ASSUME NEW i \in 1..(turn' - 1), Asks(Order[i])
            PROVE  Order[i] \in started' \/ i = Len(Order)
        <4>1. i \in 1..(turn - 1) \/ i = turn
          BY <1>7, <2>1, <2>2 DEF TurnsTaken
        <4> QED
          BY <2>1, <2>2, <3>2, <4>1 DEF TurnsTaken
      <3> QED
        BY <1>2, <3>1, <3>2 DEF TurnsTaken
    <2> QED
      BY <1>4, <1>6, <2>1, <2>3 DEF ReadyInv, AskedIsReady
  <1>9. CASE HelperThreadsStarted
    <2>1. /\ phase = "threads" /\ turn > Len(Order) /\ phase' = "running"
          /\ started' = started
      BY <1>9 DEF HelperThreadsStarted
    <2>2. \A i \in 1..10 : Asks(Order[i]) => Order[i] \in started
      BY <1>7, <2>1 DEF ReadyInv, TurnsTaken
    <2>3. \A t \in Asked : Asks(t) /\ (t \in started \/ t = Order[Len(Order)])
      <3> SUFFICES ASSUME NEW t \in Asked
                   PROVE  Asks(t) /\ (t \in started \/ t = Order[Len(Order)])
        OBVIOUS
      <3>1. Asks(t)
        BY <1>3 DEF Asked, Asks, BinaryRead, SettingsRead, ArraysRead
      <3>2. DOMAIN Order = 1..11
        BY DEF Order
      <3>3. PICK i \in 1..11 : t = Order[i]
        BY <3>2 DEF Asked
      <3> QED
        BY <1>7, <2>2, <3>1, <3>3
    <2> QED
      BY <1>2, <1>4, <1>6, <2>1, <2>3 DEF ReadyInv, AskedIsReady
  <1>10. CASE LinkThreadWalks
    BY <1>4, <1>6, <1>10 DEF LinkThreadWalks, ReadyInv, AskedIsReady
  <1> QED
    BY <1>8, <1>9, <1>10

LEMMA ReadyKept == Spec => []ReadyInv
  <1>1. Init => ReadyInv
    <2> SUFFICES ASSUME Init PROVE ReadyInv
      OBVIOUS
    <2>1. PhasesInv
      BY DEF Init, PhasesInv, PastArrays, ListInitial
    <2> QED
      BY <2>1 DEF Init, ReadyInv, AskedIsReady
  <1>2. IInv /\ ReadyInv /\ [Next]_vars => ReadyInv'
    <2> SUFFICES ASSUME IInv, ReadyInv, [Next]_vars PROVE ReadyInv'
      OBVIOUS
    <2>1. CASE UNCHANGED vars
      <3>1. UNCHANGED <<start, walk, flags, cfg, pingObj, devices, executor, dir,
                        turn, started, phase>>
        BY <2>1 DEF vars, listVars, settings, objects
      <3>2. Wanted' = Wanted /\ UNCHANGED File /\ (Stands("s")' <=> Stands("s"))
        BY <3>1, Static DEF File
      <3>3. PhasesInv' /\ (phase' = "threads" => TurnsTaken')
        BY <3>1, <3>2 DEF ReadyInv, PhasesInv, PastArrays, BinaryRead, SettingsRead, ArraysRead,
                          TurnsTaken, Asks
      <3>4. AskedIsReady'
        BY <3>1, <3>2 DEF ReadyInv, AskedIsReady, Ready, Asked, Asks
      <3> QED
        BY <3>3, <3>4 DEF ReadyInv
    <2> QED
      BY <2>1, ReadyBegins, ReadySettings, ReadyObjects, ReadyThreads
         DEF Next, ServiceMain, Terminated
  <1> QED
    BY <1>1, <1>2, Invariance, PTL DEF Spec

\* Whatever the line, the file and the directory: each test that was asked for
\* runs in a service that runs, and has what it works on.
THEOREM TestsReady == Spec => []AskedIsReady
  <1>1. ReadyInv => AskedIsReady
    BY DEF ReadyInv
  <1> QED
    BY <1>1, ReadyKept, PTL
-----------------------------------------------------------------------------
(* Why the startup ends: the part of StartEnds that needs no fairness.     *)

\* How far ServiceMain has come, backwards.
Rank ==
    CASE phase = "line"     -> 9
      [] phase = "file"     -> 8
      [] phase = "list"     -> 7
      [] phase = "settings" -> 6
      [] phase = "arrays"   -> 5
      [] phase = "daemon"   -> 4
      [] phase = "ping"     -> 3
      [] phase = "executor" -> 2
      [] phase = "threads"  -> 1
      [] OTHER              -> 0

\* What the loop of a phase has before it: entries, nodes (a node counts twice,
\* for its visit and for its comparisons), or threads.
Loop ==
    CASE phase = "threads"                  -> Len(Order) + 1 - turn
      [] phase = "list" /\ walk = "read"  -> 3 * MaxEntries + 3 - at
      [] phase = "list" /\ walk = "outer" -> 2 * c + 1
      [] phase = "list" /\ walk = "inner" -> 2 * c
      [] OTHER                              -> 0

\* What the inner loop of DeleteDuplicates has.
Inner == IF walk = "inner" THEN b ELSE 0

Measured == Rank \in Nat /\ Loop \in Nat /\ Inner \in Nat

\* The three in lexicographic order, in which nothing descends forever.
Descends ==
    \/ Rank' < Rank
    \/ Rank' = Rank /\ Loop' < Loop
    \/ Rank' = Rank /\ Loop' = Loop /\ Inner' < Inner

\* In each phase the guard of an action holds.
Goes ==
    \/ phase \in {"line", "settings", "arrays", "daemon", "ping", "executor", "threads"}
    \/ phase = "file" /\ walk = "idle"
    \/ phase = "list" /\ walk \in {"read", "outer", "inner", "done", "failed"}

\* The inner loop is at a node of the list, whose successor it has saved, or at
\* the script it has itself deleted, which points to itself.
InnerKnown ==
    \/ b \in Held \cup {0} /\ (b # 0 => bNext = next[b])
    \/ b = c /\ c \in freed /\ bNext = c /\ next[c] = c

WalkInv ==
    /\ phase = "list" => walk \notin {"idle", "crashed"}
    /\ walk = "inner" => InnerKnown

\* After a node that is not the head comes one with a smaller number.
LEMMA FollowsDown ==
    ASSUME NEW S \in SUBSET Nodes, NEW n \in Nodes, NEW m, Follows(m, n, S)
    PROVE  m \in Pointers /\ m < n
  <1>1. m \in S \cup {0} /\ \A k \in S : k < n <=> k <= m
    BY DEF Follows
  <1>2. CASE m = 0
    BY <1>2
  <1>3. CASE m \in S
    BY <1>1, <1>3
  <1> QED
    BY <1>1, <1>2, <1>3

\* The inner loop goes down the list unless it is trapped.
LEMMA InnerDown ==
    ASSUME IInv, WalkInv, walk = "inner", b # 0
    PROVE  \/ /\ b \in Held /\ b \in Nodes /\ bNext = next[b]
              /\ bNext \in Held \cup {0} /\ bNext < b /\ ~Trapped
           \/ /\ b = c /\ c \in freed /\ bNext = c /\ next[c] = c
              /\ Legacy(b) /\ ~Matches /\ Trapped
  <1>1. Held \subseteq Nodes /\ LinksAre(next, prev, Held) /\ Legacy(c)
    BY HeldFinite DEF IInv, ListInv, CursorsOK
  <1>2. CASE b \in Held /\ bNext = next[b]
    <2>1. Follows(next[b], b, Held) /\ b \in Nodes
      BY <1>1, <1>2 DEF LinksAre
    <2>2. bNext < b /\ bNext \in Held \cup {0}
      BY <1>1, <1>2, <2>1, FollowsDown DEF Follows
    <2> QED
      BY <1>2, <2>1, <2>2 DEF Trapped, Held
  <1>3. CASE b = c /\ c \in freed /\ bNext = c /\ next[c] = c
    BY <1>1, <1>3 DEF Trapped, Matches
  <1> QED
    BY <1>2, <1>3 DEF WalkInv, InnerKnown

\* A step of the list from outside the inner loop.
LEMMA OuterDescends ==
    ASSUME IInv, WalkInv, phase = "list",
           phase' = IF walk' = "crashed" THEN "crashed" ELSE phase,
           UNCHANGED <<start, turn>>, NEW force \in BOOLEAN,
           \/ ReadEntry(force) \/ ReadFails(force) \/ EndOfDirectory
           \/ Visit \/ VisitEnds \/ CompareEnds
    PROVE  WalkInv' /\ Descends
  <1>1. /\ Held \subseteq Nodes /\ MaxEntries \in Nat
        /\ at \in Nat /\ at <= MaxEntries + 1 /\ c \in 0..MaxEntries
        /\ next \in [Pointers -> Pointers]
    <2>1. Len(dir) \in Nat /\ Len(dir) <= MaxEntries /\ at \in 1..(Len(dir) + 1)
      BY DEF IInv, TypeOK
    <2>2. c \in Pointers /\ next \in [Pointers -> Pointers]
      BY DEF IInv, TypeOK
    <2> QED
      BY <2>1, <2>2, HeldFinite DEF IInv
  <1>2. Rank = 7 /\ (phase' = "list" => Rank' = 7) /\ (phase' = "crashed" => Rank' = 0)
    BY DEF Rank
  <1>3. CASE ReadEntry(force)
    <2>1. walk = "read" /\ walk' \in {"read", "crashed"} /\ at' = at + 1
      BY <1>3 DEF ReadEntry
    <2>2. WalkInv'
      BY <2>1 DEF WalkInv
    <2>3. walk' = "read" => Loop = 3 * MaxEntries + 3 - at /\ Loop' = 3 * MaxEntries + 3 - (at + 1)
      BY <2>1 DEF Loop
    <2> QED
      BY <1>1, <1>2, <2>1, <2>2, <2>3 DEF Descends
  <1>4. CASE ReadFails(force)
    <2>1. walk = "read" /\ walk' = "failed"
      BY <1>4 DEF ReadFails
    <2>2. Loop = 3 * MaxEntries + 3 - at /\ Loop' = 0 /\ WalkInv' /\ Rank' = 7
      BY <1>2, <2>1 DEF Loop, WalkInv
    <2> QED
      BY <1>1, <1>2, <2>2 DEF Descends
  <1>5. CASE EndOfDirectory
    <2>1. walk = "read" /\ c' = next[0] /\ walk' \in {"done", "outer"}
      BY <1>5 DEF EndOfDirectory
    <2>2. /\ Loop = 3 * MaxEntries + 3 - at /\ WalkInv' /\ Rank' = 7
          /\ Loop' = 0 \/ Loop' = 2 * next[0] + 1
      BY <1>2, <2>1 DEF Loop, WalkInv
    <2>3. next[0] \in 0..MaxEntries
      BY <1>1
    <2> QED
      BY <1>1, <1>2, <2>2, <2>3 DEF Descends
  <1>6. CASE Visit /\ Legacy(c)
    <2>1. /\ walk = "outer" /\ walk' = "inner" /\ c' = c
          /\ b' = next[0] /\ bNext' = next[next[0]]
          /\ UNCHANGED <<dir, at, freed, next>>
      BY <1>6 DEF Visit, links
    <2>2. LinksAre(next, prev, Held)
      BY <2>1 DEF IInv, ListInv
    <2>3. next[0] \in Held \cup {0} /\ Held' = Held
      BY <2>1, <2>2, HeldStatic DEF LinksAre, Follows
    <2>4. WalkInv'
      BY <2>1, <2>3 DEF WalkInv, InnerKnown
    <2>5. Loop = 2 * c + 1 /\ Loop' = 2 * c /\ Rank' = 7
      BY <1>2, <2>1 DEF Loop
    <2> QED
      BY <1>1, <1>2, <2>4, <2>5 DEF Descends
  <1>7. CASE Visit /\ ~Legacy(c)
    <2>1. walk = "outer" /\ walk' = "outer" /\ c # 0 /\ c' = cNext
      BY <1>7 DEF Visit, AdvanceOuter
    <2>2. Follows(cNext, c, Held)
      BY <2>1 DEF IInv, CursorsOK
    <2>3. cNext \in Pointers /\ cNext < c
      BY <1>1, <2>1, <2>2, FollowsDown
    <2>4. Loop = 2 * c + 1 /\ Loop' = 2 * cNext + 1 /\ Rank' = 7 /\ WalkInv'
      BY <1>2, <2>1 DEF Loop, WalkInv
    <2> QED
      BY <1>1, <1>2, <2>3, <2>4 DEF Descends
  <1>8. CASE VisitEnds
    <2>1. walk = "outer" /\ c = 0 /\ walk' = "done"
      BY <1>8 DEF VisitEnds
    <2>2. Loop = 1 /\ Loop' = 0 /\ Rank' = 7 /\ WalkInv'
      BY <1>2, <2>1 DEF Loop, WalkInv
    <2> QED
      BY <1>2, <2>2 DEF Descends
  <1>9. CASE CompareEnds
    <2>1. walk = "inner" /\ walk' = "outer" /\ c' = cNext
      BY <1>9 DEF CompareEnds, AdvanceOuter
    <2>2. c \in Nodes /\ c # 0
      BY <2>1, AddedNodes DEF IInv, CursorsOK
    <2>3. Follows(cNext, c, Held)
      BY <2>1, <2>2 DEF IInv, CursorsOK
    <2>4. cNext \in Pointers /\ cNext < c
      BY <1>1, <2>2, <2>3, FollowsDown
    <2>5. Loop = 2 * c /\ Loop' = 2 * cNext + 1 /\ Rank' = 7 /\ WalkInv'
      BY <1>2, <2>1 DEF Loop, WalkInv
    <2> QED
      BY <1>1, <1>2, <2>4, <2>5 DEF Descends
  <1> QED
    BY <1>3, <1>4, <1>5, <1>6, <1>7, <1>8, <1>9

\* A step of the inner loop, which is trapped from now on or goes down.
LEMMA InnerDescends ==
    ASSUME IInv, WalkInv, phase = "list",
           phase' = IF walk' = "crashed" THEN "crashed" ELSE phase,
           UNCHANGED <<start, turn>>, Compare \/ DropScript \/ DropAgain
    PROVE  /\ WalkInv' /\ (Trapped \/ Descends)
           /\ Trapped => Trapped'
  <1>1. walk = "inner" /\ b # 0 /\ UNCHANGED <<dir, at, c>>
    BY DEF Compare, DropScript, DropAgain
  <1>2. /\ Rank = 7 /\ (phase' = "list" => Rank' = 7) /\ (phase' = "crashed" => Rank' = 0)
        /\ Inner = b /\ Loop = 2 * c
        /\ walk' = "inner" => Inner' = b' /\ Loop' = 2 * c /\ Rank' = 7
    BY <1>1 DEF Rank, Inner, Loop
  <1>3. CASE Compare \/ (DropAgain /\ walk' # "crashed")
    <2>1. /\ walk' = "inner" /\ b' = bNext /\ bNext' = next'[bNext]
          /\ UNCHANGED <<next, freed>>
      BY <1>3, <1>1 DEF Compare, DropAgain, AdvanceInner, links
    <2>2. Held' = Held
      BY <1>1, <2>1, HeldStatic
    <2>3. CASE ~Trapped
      <3>1. /\ b \in Nodes /\ bNext < b /\ bNext \in Held \cup {0}
        BY <1>1, <2>3, InnerDown
      <3>2. WalkInv'
        BY <2>1, <2>2, <3>1 DEF WalkInv, InnerKnown
      <3> QED
        BY <1>2, <2>1, <2>3, <3>1, <3>2 DEF Descends
    <2>4. CASE Trapped
      <3>1. b = c /\ c \in freed /\ bNext = c /\ next[c] = c
        BY <1>1, <2>4, InnerDown
      <3> QED
        BY <1>1, <2>1, <2>4, <3>1 DEF WalkInv, InnerKnown, Trapped
    <2> QED
      BY <2>3, <2>4
  <1>4. CASE DropScript
    <2>1. /\ walk' = "inner" /\ b' = bNext /\ bNext' = next'[bNext]
          /\ Matches /\ c \notin freed /\ freed' = freed \cup {c}
          /\ next' = [next EXCEPT ![prev[c]] = next[c], ![c] = c]
      BY <1>1, <1>4 DEF DropScript, AdvanceInner, ListDel
    <2>2. ~Trapped /\ b \in Nodes /\ bNext < b /\ bNext \in Held \cup {0}
      BY <1>1, <2>1, InnerDown
    <2>3. c \in Held /\ c \in Pointers /\ next'[c] = c
      BY <1>1, <2>1, AddedNodes DEF IInv, CursorsOK, TypeOK, Held
    <2>4. Added' = Added /\ Held' = Held \ {c}
      <3>1. Added' = Added
        BY <1>1, AddedStatic
      <3> QED
        BY <2>1, <3>1 DEF Held
    <2>5. InnerKnown'
      <3>1. CASE bNext = c
        BY <1>1, <2>1, <2>3, <3>1 DEF InnerKnown
      <3>2. CASE bNext # c
        BY <2>1, <2>2, <2>4, <3>2 DEF InnerKnown
      <3> QED
        BY <3>1, <3>2
    <2>6. WalkInv'
      BY <2>1, <2>5 DEF WalkInv
    <2> QED
      BY <1>2, <2>1, <2>2, <2>6 DEF Descends
  <1>5. CASE DropAgain /\ walk' = "crashed"
    <2>1. Matches
      BY <1>5 DEF DropAgain
    <2>2. ~Trapped
      BY <1>1, <2>1, InnerDown
    <2> QED
      BY <1>2, <1>5, <2>2 DEF Descends, WalkInv
  <1> QED
    BY <1>3, <1>4, <1>5

\* A step of ServiceMain that is not one of the list: to a later phase, or on to
\* the next thread.
LEMMA PhaseDescends ==
    ASSUME IInv, WalkInv, phase = "threads" => TurnsTaken, ServiceMain, ~ReadList
    PROVE  WalkInv' /\ Descends
  <1> USE DEF settings, objects
  <1>1. CASE CommandLine
    <2>1. /\ phase = "line" /\ phase' \in {"file", "failed"}
          /\ walk = "idle" /\ walk' = walk
      BY <1>1 DEF CommandLine, listVars, IInv, InStep
    <2> QED
      BY <2>1 DEF WalkInv, Rank, Descends
  <1>2. CASE FileUnreadable \/ FileForIdentify \/ FileFirstHalf
    <2>1. /\ phase = "file" /\ phase' \in {"list", "daemon", "failed"}
          /\ walk = "idle" /\ walk' \in {"idle", "read", "failed", "done"}
          /\ phase' = "list" => walk' # "idle"
      BY <1>2 DEF FileUnreadable, FileForIdentify, FileFirstHalf, OpenDirectory,
                  listVars, IInv, InStep
    <2> QED
      BY <2>1 DEF WalkInv, Rank, Descends
  <1>3. CASE ListRead
    <2>1. /\ phase = "list" /\ phase' \in {"settings", "failed"} /\ walk' = walk
          /\ walk # "inner"
      BY <1>3 DEF ListRead, listVars
    <2> QED
      BY <2>1 DEF WalkInv, Rank, Descends
  <1>4. ASSUME UNCHANGED listVars, phase # "list", phase' # "list"
        PROVE  WalkInv'
    <2>1. Held' = Held \/ start' # start
      BY <1>4, HeldStatic DEF listVars
    <2>2. UNCHANGED <<next, freed, b, bNext, c, walk>>
      BY <1>4 DEF listVars, links, cursors
    <2>3. start' = start
      BY DEF ServiceMain, CommandLine, FileUnreadable, FileForIdentify, FileFirstHalf,
             ReadList, ListRead, SettingsTaken, Arrays, DaemonOrNot, PingInit,
             ExecuteRepairScriptsPreFork, StartHelperThreads, HelperThreadsStarted
    <2>4. InnerKnown => InnerKnown'
      BY <2>1, <2>2, <2>3 DEF InnerKnown
    <2> QED
      BY <1>4, <2>2, <2>4 DEF WalkInv
  <1>5. CASE SettingsTaken \/ Arrays \/ DaemonOrNot \/ PingInit
             \/ ExecuteRepairScriptsPreFork \/ HelperThreadsStarted
    <2>1. UNCHANGED listVars /\ phase # "list" /\ phase' # "list"
      BY <1>5 DEF SettingsTaken, Arrays, DaemonOrNot, PingInit,
                  ExecuteRepairScriptsPreFork, HelperThreadsStarted
    <2>2. Rank' < Rank
      BY <1>5 DEF SettingsTaken, Arrays, DaemonOrNot, PingInit,
                  ExecuteRepairScriptsPreFork, HelperThreadsStarted, Rank
    <2> QED
      BY <1>4, <2>1, <2>2 DEF Descends
  <1>6. CASE StartHelperThreads
    <2>1. /\ phase = "threads" /\ phase' \in {"threads", "aborted"}
          /\ turn' = turn + 1 /\ UNCHANGED listVars
      BY <1>6 DEF StartHelperThreads
    <2>2. turn \in Nat /\ Len(Order) = 11
      BY <2>1 DEF TurnsTaken, Order
    <2>3. Rank = 1 /\ Loop = Len(Order) + 1 - turn
      BY <2>1 DEF Rank, Loop
    <2>4. /\ phase' = "aborted" => Rank' = 0
          /\ phase' = "threads" => Rank' = 1 /\ Loop' = Len(Order) + 1 - (turn + 1)
      BY <2>1 DEF Rank, Loop
    <2> QED
      BY <1>4, <2>1, <2>2, <2>3, <2>4 DEF Descends
  <1> QED
    BY <1>1, <1>2, <1>3, <1>5, <1>6 DEF ServiceMain

LEMMA ListDescends ==
    ASSUME IInv, WalkInv, ReadList
    PROVE  /\ WalkInv' /\ (Trapped \/ Descends)
           /\ Trapped => Trapped'
  <1>1. /\ phase = "list" /\ ListStep("FORCE" \in flags)
        /\ phase' = IF walk' = "crashed" THEN "crashed" ELSE phase
        /\ UNCHANGED <<start, turn>>
    BY DEF ReadList
  <1>2. PICK force \in BOOLEAN : force <=> "FORCE" \in flags
    OBVIOUS
  <1>3. \/ ReadEntry(force) \/ ReadFails(force) \/ EndOfDirectory
        \/ Visit \/ VisitEnds \/ CompareEnds
        \/ Compare \/ DropScript \/ DropAgain
    BY <1>1, <1>2 DEF ListStep, ReadEntry, ReadFails, Crashes, Kept, Looked
  <1>4. Trapped => ~CompareEnds /\ walk = "inner"
    BY DEF Trapped, CompareEnds, IInv, TypeOK
  <1>5. CASE Compare \/ DropScript \/ DropAgain
    BY <1>1, <1>5, InnerDescends
  <1>6. CASE ~(Compare \/ DropScript \/ DropAgain)
    <2>1. ~Trapped
      BY <1>3, <1>4, <1>6 DEF ReadEntry, ReadFails, EndOfDirectory, Visit, VisitEnds
    <2> QED
      BY <1>1, <1>3, <1>6, <2>1, OuterDescends
  <1> QED
    BY <1>5, <1>6

LEMMA WalkStep ==
    ASSUME IInv, WalkInv, phase = "threads" => TurnsTaken, [Next]_vars
    PROVE  /\ WalkInv'
           /\ Trapped => Trapped'
           /\ ServiceMain => Trapped \/ Descends
  <1>1. CASE ReadList
    BY <1>1, ListDescends
  <1>2. CASE ServiceMain /\ ~ReadList
    <2>1. WalkInv' /\ Descends
      BY <1>2, PhaseDescends
    <2>2. UNCHANGED listVars \/ walk = "idle"
      BY <1>2 DEF ServiceMain, CommandLine, FileUnreadable, FileForIdentify, FileFirstHalf,
             OpenDirectory, ListRead, SettingsTaken, Arrays, DaemonOrNot, PingInit,
             ExecuteRepairScriptsPreFork, StartHelperThreads, HelperThreadsStarted
    <2>3. Trapped => Trapped'
      BY <2>2 DEF Trapped, listVars, cursors
    <2> QED
      BY <2>1, <2>3
  <1>3. CASE ~ServiceMain
    <2>1. UNCHANGED <<listVars, start>> /\ (phase' = phase \/ phase' = "crashed")
      BY <1>3 DEF Next, LinkThreadWalks, Terminated, vars
    <2>2. UNCHANGED <<dir, at, freed, start, next, b, bNext, c, walk>>
      BY <2>1 DEF listVars, links, cursors
    <2>3. Held' = Held
      BY <2>2, HeldStatic
    <2> QED
      BY <1>3, <2>1, <2>2, <2>3 DEF WalkInv, InnerKnown, Trapped
  <1> QED
    BY <1>1, <1>2, <1>3

LEMMA WalkKept == Spec => []WalkInv
  <1>1. Init => WalkInv
    BY DEF Init, ListInitial, WalkInv
  <1>2. IInv /\ ReadyInv /\ WalkInv /\ [Next]_vars => WalkInv'
    BY WalkStep DEF ReadyInv
  <1> QED
    BY <1>1, <1>2, Invariance, ReadyKept, PTL DEF Spec

\* Every step of ServiceMain descends, unless DeleteDuplicates is trapped at the
\* node it has freed: whatever the line, the file and the directory, the startup
\* has finitely many steps.
THEOREM StartDescends == Spec => [][ServiceMain => Trapped \/ Descends]_vars
  <1>1. IInv /\ ReadyInv /\ WalkInv /\ [Next]_vars
          => [ServiceMain => Trapped \/ Descends]_vars
    BY WalkStep DEF ReadyInv
  <1> QED
    BY <1>1, Invariance, ReadyKept, WalkKept, PTL DEF Spec

\* What descends is made of natural numbers, and before its end the startup is
\* at the guard of an action: it neither goes on forever nor waits for anything.
THEOREM StartGoesOn == Spec => [](Measured /\ (phase \notin Ends => Goes))
  <1>1. IInv /\ ReadyInv /\ WalkInv => Measured /\ (phase \notin Ends => Goes)
    <2> SUFFICES ASSUME IInv, ReadyInv, WalkInv
                 PROVE  Measured /\ (phase \notin Ends => Goes)
      OBVIOUS
    <2>1. /\ at \in 1..(Len(dir) + 1) /\ Len(dir) \in Nat /\ Len(dir) <= MaxEntries
          /\ c \in Nat /\ b \in Nat /\ walk \in Walks /\ phase \in Phases
      BY DEF IInv, TypeOK
    <2>2. Rank \in Nat /\ Inner \in Nat
      BY <2>1 DEF Rank, Inner
    <2>3. Loop \in Nat
      <3>1. CASE phase = "threads"
        <4>1. Len(Order) = 11 /\ turn \in 1..(Len(Order) + 1)
          BY <3>1 DEF ReadyInv, TurnsTaken, Order
        <4>2. Loop = Len(Order) + 1 - turn
          BY <3>1 DEF Loop
        <4> QED
          BY <4>1, <4>2
      <3>2. CASE phase = "list" /\ walk = "read"
        <4>1. Loop = 3 * MaxEntries + 3 - at
          BY <3>2 DEF Loop
        <4> QED
          BY <2>1, <4>1
      <3>3. CASE phase # "threads" /\ ~(phase = "list" /\ walk = "read")
        <4>1. Loop \in {0, 2 * c, 2 * c + 1}
          BY <3>3 DEF Loop
        <4> QED
          BY <2>1, <4>1
      <3> QED
        BY <3>1, <3>2, <3>3
    <2>4. phase \notin Ends => Goes
      BY <2>1 DEF Ends, Phases, Walks, Goes, WalkInv, IInv, InStep
    <2> QED
      BY <2>2, <2>3, <2>4 DEF Measured
  <1> QED
    BY <1>1, Invariance, ReadyKept, WalkKept, PTL

\* A loop that has gone on to the freed node never leaves it: the trap is no
\* step of the way to an end.
THEOREM TrapHolds == Spec => [][Trapped => Trapped']_vars
  <1>1. IInv /\ ReadyInv /\ WalkInv /\ [Next]_vars => [Trapped => Trapped']_vars
    BY WalkStep DEF ReadyInv
  <1> QED
    BY <1>1, Invariance, ReadyKept, WalkKept, PTL DEF Spec
=============================================================================
