----------------------------- MODULE ScriptsProofs ----------------------------
(***************************************************************************)
(* Proofs about Scripts, for any number of scripts and any length of the   *)
(* pool's table: the types; that no wakeup of the main thread is lost;     *)
(* and, as long as the main thread has waited for each script it gave,     *)
(* that tests come before repairs, that a script is in the hands of one    *)
(* worker, in the mode of its loop, that the answer tells what has failed, *)
(* and that a round, which has finitely many steps, never stands still.    *)
(***************************************************************************)
EXTENDS Scripts, FiniteSetTheorems, TLAPS

\* The facts about the constants that the proofs use.
LEMMA ConstantsKnown ==
    /\ NumScripts \in Nat \ {0} /\ MaxWorkers \in Nat \ {0}
    /\ Scripts = 1..NumScripts /\ 1 \in Scripts
    /\ Workers \subseteq Nat
BY CountAssumption DEF Scripts, Workers

\* The executor starts with the types the code gives it.
LEMMA InitTyped == Init => TypeOK
<1> SUFFICES ASSUME Init PROVE TypeOK
  OBVIOUS
<1>1. reported \in BOOLEAN /\ answer \in BOOLEAN /\ strayed \in BOOLEAN
  BY Zenon DEF Init
<1>2. mode \in [Scripts -> {"test", "repair"}]
  BY DEF Init
<1>3. worker \in [Workers -> Places]
  BY DEF Init, Places
<1>4. script \in [Workers -> Scripts \cup {NoScript}]
  BY DEF Init
<1>5. at \in Scripts
  BY ConstantsKnown DEF Init
<1> QED BY <1>1, <1>2, <1>3, <1>4, <1>5 DEF Init, TypeOK

\* NextScript leaves the loop at a script of the list.
LEMMA NextScriptType ==
    ASSUME at \in Scripts, NextScript
    PROVE  at' \in Scripts /\ exec' \in {"give", "barrier"}
BY ConstantsKnown DEF NextScript

\* Moves changes the place of one worker.
LEMMA MovesType ==
    ASSUME NEW w \in Workers, NEW from, NEW to \in Places,
           worker \in [Workers -> Places], Moves(w, from, to)
    PROVE  worker' \in [Workers -> Places]
BY DEF Moves

\* A step of the service or of the executor's main thread keeps the types.
LEMMA ThreadsTyped ==
    ASSUME TypeOK, ReaderStep \/ MainStep
    PROVE  TypeOK'
<1> USE DEF TypeOK, vars, service, main, container, pool, history
<1>1. CASE WakeExecutor
  BY <1>1 DEF WakeExecutor
<1>2. CASE ReadAnswer
  BY <1>2 DEF ReadAnswer
<1>3. CASE BeginRound
  BY <1>3, ConstantsKnown DEF BeginRound
<1>4. CASE SkipScript
  BY <1>4, NextScriptType DEF SkipScript
<1>5. CASE PrepareScript
  BY <1>5 DEF PrepareScript
<1>6. CASE AddTask
  BY <1>6 DEF AddTask, Free, Places
<1>7. CASE AddTaskPastEnd
  <2>1. strayed' \in BOOLEAN
    BY <1>7, Zenon DEF AddTaskPastEnd
  <2> QED BY <1>7, <2>1 DEF AddTaskPastEnd
<1>8. CASE WaitForStart
  BY <1>8 DEF WaitForStart
<1>9. CASE ClearSem
  <2>1. strayed' \in BOOLEAN
    BY <1>9, Zenon DEF ClearSem
  <2> QED BY <1>9, <2>1, NextScriptType DEF ClearSem
<1>10. CASE Barrier
  BY <1>10, ConstantsKnown DEF Barrier
<1>11. CASE Answer
  <2>1. answer' \in BOOLEAN
    BY <1>11, Zenon DEF Answer
  <2> QED BY <1>11, <2>1 DEF Answer
<1> QED
  BY <1>1, <1>2, <1>3, <1>4, <1>5, <1>6, <1>7, <1>8, <1>9, <1>10, <1>11
     DEF ReaderStep, MainStep

\* A step of a worker keeps the types.
LEMMA WorkersTyped ==
    ASSUME TypeOK, NEW w \in Workers, WorkerStep(w)
    PROVE  TypeOK'
<1> USE DEF TypeOK, service, main, container, pool, history
<1>0. \A p \in {"idle", "posted", "count", "sem", "wake", "run", "leave", "free"} :
         p \in Places
  BY DEF Places
<1>1. CASE TakeScript(w)
  BY <1>0, <1>1, MovesType DEF TakeScript
<1>2. CASE CountUp(w)
  BY <1>0, <1>2, MovesType DEF CountUp
<1>3. CASE SetSem(w)
  BY <1>0, <1>3, MovesType DEF SetSem
<1>4. CASE WakeMain(w)
  BY <1>0, <1>4, MovesType DEF WakeMain
<1>5. CASE RunScript(w)
  <2>1. CASE script[w] # NoScript
    <3>1. script[w] \in Scripts
      BY <2>1
    <3>2. Moves(w, "run", "leave") /\ failed' \subseteq Scripts /\ tested' \subseteq Scripts
      BY <1>5, <2>1, <3>1 DEF RunScript
    <3> QED BY <1>0, <1>5, <2>1, <3>2, MovesType DEF RunScript
  <2>2. CASE script[w] = NoScript
    BY <1>5, <2>2 DEF RunScript
  <2> QED BY <2>1, <2>2
<1>6. CASE CountDown(w)
  BY <1>0, <1>6, MovesType DEF CountDown
<1>7. CASE BecomeFree(w)
  BY <1>0, <1>7, MovesType DEF BecomeFree
<1> QED
  BY <1>1, <1>2, <1>3, <1>4, <1>5, <1>6, <1>7 DEF WorkerStep

\* Every variable of the service's thread, the executor and its workers keeps
\* the type the code gives it.
THEOREM TypeCorrect == Spec => []TypeOK
<1>1. TypeOK /\ [Next]_vars => TypeOK'
  <2> SUFFICES ASSUME TypeOK, [Next]_vars PROVE TypeOK'
    OBVIOUS
  <2>1. CASE ReaderStep \/ MainStep
    BY <2>1, ThreadsTyped
  <2>2. ASSUME NEW w \in Workers, WorkerStep(w) PROVE TypeOK'
    BY <2>2, WorkersTyped
  <2>3. CASE UNCHANGED vars
    BY <2>3 DEF TypeOK, vars, service, main, container, pool, history
  <2> QED BY <2>1, <2>2, <2>3 DEF Next
<1> QED BY InitTyped, <1>1, PTL DEF Spec
-----------------------------------------------------------------------------
\* The strengthening of NoLostWakeup: before the main thread looks at sem, it
\* is set, or a worker is still to set it.
WakeupInv ==
    /\ TypeOK
    /\ exec = "futex"
         => sem = 1 \/ \E w \in Workers : worker[w] \in {"posted", "count", "sem"}
    /\ NoLostWakeup

\* A step of a worker that leaves the main thread waiting keeps a waker: only
\* WakeMain ends the work of one, and it wakes.
LEMMA WorkersWake ==
    ASSUME WakeupInv, NEW w \in Workers, WorkerStep(w)
    PROVE  WakeupInv'
<1>1. TypeOK'
  BY WorkersTyped DEF WakeupInv
<1> DEFINE Waker == {"posted", "count", "sem", "wake"}
           Setter == {"posted", "count", "sem"}
<1>2. CASE TakeScript(w)
  <2>1. worker'[w] = "count" /\ exec' = exec /\ sem' = sem /\ Workers' = Workers
    BY <1>2 DEF TakeScript, Moves, main, WakeupInv, TypeOK
  <2> QED BY <1>1, <2>1 DEF WakeupInv, NoLostWakeup
<1>3. CASE CountUp(w)
  <2>1. worker'[w] = "sem" /\ exec' = exec /\ sem' = sem
    BY <1>3 DEF CountUp, Moves, main, WakeupInv, TypeOK
  <2> QED BY <1>1, <2>1 DEF WakeupInv, NoLostWakeup
<1>4. CASE SetSem(w)
  <2>1. worker'[w] = "wake" /\ exec' = exec /\ sem' = 1
    BY <1>4 DEF SetSem, Moves, main, WakeupInv, TypeOK
  <2> QED BY <1>1, <2>1 DEF WakeupInv, NoLostWakeup
<1>5. CASE WakeMain(w)
  <2>1. /\ worker[w] = "wake" /\ sem' = sem
        /\ exec' = IF exec = "asleep" THEN "clear" ELSE exec
        /\ \A v \in Workers \ {w} : worker'[v] = worker[v]
    BY <1>5 DEF WakeMain, Moves, WakeupInv, TypeOK
  <2>2. exec' # "asleep"
    BY <2>1
  <2>3. exec' = "futex" => exec = "futex"
    BY <2>1
  <2>4. \A v \in Workers : worker[v] \in Setter => worker'[v] \in Setter
    BY <2>1
  <2> QED BY <1>1, <2>1, <2>2, <2>3, <2>4 DEF WakeupInv, NoLostWakeup
<1>6. CASE RunScript(w) \/ CountDown(w) \/ BecomeFree(w)
  <2>1. worker[w] \notin Waker
    BY <1>6 DEF RunScript, CountDown, BecomeFree, Moves
  <2>2. /\ exec' \in {exec, "dead"} /\ sem' = sem
        /\ \A v \in Workers \ {w} : worker'[v] = worker[v]
    <3>1. CASE RunScript(w)
      <4>1. CASE script[w] = NoScript
        BY <3>1, <4>1 DEF RunScript, pool
      <4>2. CASE script[w] # NoScript
        BY <3>1, <4>2 DEF RunScript, Moves, main, WakeupInv, TypeOK
      <4> QED BY <4>1, <4>2
    <3>2. CASE CountDown(w)
      BY <3>2 DEF CountDown, Moves, main, WakeupInv, TypeOK
    <3>3. CASE BecomeFree(w)
      BY <3>3 DEF BecomeFree, Moves, main, WakeupInv, TypeOK
    <3> QED BY <1>6, <3>1, <3>2, <3>3
  <2>3. \A v \in Workers : worker[v] \in Waker => worker'[v] = worker[v]
    BY <2>1, <2>2
  <2> QED BY <1>1, <2>2, <2>3 DEF WakeupInv, NoLostWakeup
<1> QED
  BY <1>2, <1>3, <1>4, <1>5, <1>6 DEF WorkerStep

\* A step of the main thread that leads to its wait has given a worker a task.
LEMMA ThreadsWake ==
    ASSUME WakeupInv, NumScripts <= MaxWorkers \/ ~strayed', ReaderStep \/ MainStep
    PROVE  WakeupInv'
<1>1. TypeOK'
  BY ThreadsTyped DEF WakeupInv
<1>2. CASE AddTask
  <2>1. \E w \in Workers : worker'[w] = "posted"
    BY <1>2 DEF AddTask, Free, WakeupInv, TypeOK
  <2>2. exec' = "futex"
    BY <1>2 DEF AddTask
  <2> QED BY <1>1, <2>1, <2>2 DEF WakeupInv, NoLostWakeup
<1>3. CASE WaitForStart
  <2>1. /\ exec = "futex" /\ exec' = IF sem = 0 THEN "asleep" ELSE "clear"
        /\ worker' = worker
    BY <1>3 DEF WaitForStart, pool
  <2> QED BY <1>1, <2>1 DEF WakeupInv, NoLostWakeup
<1>4. CASE AddTaskPastEnd
  BY <1>4, CountAssumption DEF AddTaskPastEnd
<1>5. CASE WakeExecutor \/ ReadAnswer
  <2>1. /\ exec' \in {exec, "init"} /\ worker' = worker /\ sem' = sem
    BY <1>5 DEF WakeExecutor, ReadAnswer, main, pool
  <2> QED BY <1>1, <2>1 DEF WakeupInv, NoLostWakeup
<1>6. CASE BeginRound \/ SkipScript \/ PrepareScript \/ ClearSem \/ Barrier \/ Answer
  <2>1. exec' \notin {"futex", "asleep"}
    <3>1. CASE SkipScript \/ ClearSem
      BY <3>1 DEF SkipScript, ClearSem, NextScript
    <3>2. CASE Barrier
      BY <3>2 DEF Barrier
    <3>3. CASE BeginRound \/ PrepareScript \/ Answer
      BY <3>3 DEF BeginRound, PrepareScript, Answer
    <3> QED BY <1>6, <3>1, <3>2, <3>3
  <2> QED BY <1>1, <2>1 DEF WakeupInv, NoLostWakeup
<1> QED
  BY <1>2, <1>3, <1>4, <1>5, <1>6 DEF ReaderStep, MainStep

\* While the pool's table holds a worker for every script, the executor's main
\* thread never sleeps on sem without a worker that is still to wake it, although
\* late wakeups end its waits early and it clears what others have set.
THEOREM WakeupKept == Spec /\ NumScripts <= MaxWorkers => []NoLostWakeup
<1> SUFFICES ASSUME NumScripts <= MaxWorkers PROVE Spec => []NoLostWakeup
  OBVIOUS
<1>1. Init => WakeupInv
  BY InitTyped DEF Init, WakeupInv, NoLostWakeup
<1>2. WakeupInv /\ [Next]_vars => WakeupInv'
  <2> SUFFICES ASSUME WakeupInv, [Next]_vars PROVE WakeupInv'
    OBVIOUS
  <2>1. CASE ReaderStep \/ MainStep
    BY <2>1, ThreadsWake
  <2>2. ASSUME NEW w \in Workers, WorkerStep(w) PROVE WakeupInv'
    BY <2>2, WorkersWake
  <2>3. CASE UNCHANGED vars
    BY <2>3 DEF WakeupInv, NoLostWakeup, TypeOK, vars, service, main, container, pool,
                history
  <2> QED BY <2>1, <2>2, <2>3 DEF Next
<1>3. WakeupInv => NoLostWakeup
  BY DEF WakeupInv
<1> QED BY <1>1, <1>2, <1>3, PTL DEF Spec
-----------------------------------------------------------------------------
(* What a round is, as long as the main thread has waited for each script. *)

Busy   == {w \in Workers : worker[w] \in {"sem", "wake", "run", "leave"}}
Coming == {w \in Workers : worker[w] \in {"posted", "count"}}
Giving == {"futex", "asleep", "clear"}
InLoop == Giving \cup {"give", "add", "barrier"}

\* The first loop has given c to somebody ...
Given(c) == c < at \/ (c = at /\ exec \in Giving \cup {"barrier"})

\* ... who has tested it, has it, or is about to take it.
InHand(c) ==
    /\ mode[c] = "test"
    /\ \/ c \in tested
       \/ \E w \in Workers : worker[w] \in {"count", "sem", "wake", "run"} /\ script[w] = c
       \/ /\ c = at /\ exec \in Giving
          /\ \E w \in Workers : worker[w] = "posted"

GivenInv ==
    /\ exec \notin Giving \cup {"dead"} => Coming = {}
    /\ exec \in Giving \cup {"add"} => cmd = at /\ mode[at] = pass
    /\ exec = "barrier" => at = NumScripts
    /\ exec = "answer" => pass = "repair"
    /\ exec \in {"answer", "idle", "init"} => Busy = {}
    /\ pass = "repair" => tested = Scripts
    /\ pass = "test" /\ exec \in InLoop => \A c \in Scripts : Given(c) => InHand(c)

RoundInv == TypeOK /\ (~strayed => count = Cardinality(Busy) /\ GivenInv)

LEMMA BusyFinite == IsFiniteSet(Busy) /\ (Cardinality(Busy) = 0 <=> Busy = {})
<1>1. IsFiniteSet(Workers)
  BY CountAssumption, FS_Interval DEF Workers
<1> QED BY <1>1, FS_Subset, FS_EmptySet DEF Busy

\* A step of a worker: the number of the busy ones is the count, nobody is sent
\* for a script, and who has one tests it before it gives it back.
LEMMA WorkersRound ==
    ASSUME RoundInv, NEW w \in Workers, WorkerStep(w), exec # "dead"
    PROVE  RoundInv'
<1>1. TypeOK /\ TypeOK'
  BY WorkersTyped DEF RoundInv
<1> SUFFICES ASSUME ~strayed' PROVE count' = Cardinality(Busy') /\ GivenInv'
  BY <1>1 DEF RoundInv
<1> USE DEF Moves, main, container, pool, history
<1>2. /\ strayed' = strayed /\ pass' = pass /\ at' = at /\ cmd' = cmd /\ mode' = mode
      /\ tested \subseteq tested'
      /\ exec' = exec \/ exec' = "dead" \/ (exec = "asleep" /\ exec' = "clear")
  <2>1. CASE TakeScript(w) \/ CountUp(w) \/ SetSem(w) \/ WakeMain(w)
    BY <2>1 DEF TakeScript, CountUp, SetSem, WakeMain
  <2>2. CASE RunScript(w)
    BY <2>2 DEF RunScript
  <2>3. CASE CountDown(w) \/ BecomeFree(w)
    BY <2>3 DEF CountDown, BecomeFree
  <2> QED BY <2>1, <2>2, <2>3 DEF WorkerStep
<1>3. ~strayed /\ count = Cardinality(Busy) /\ GivenInv
  BY <1>2 DEF RoundInv
<1>4. worker \in [Workers -> Places] /\ script \in [Workers -> Scripts \cup {NoScript}]
  BY <1>1 DEF TypeOK
<1>5. tested' \subseteq Scripts
  BY <1>1 DEF TypeOK
<1>6. /\ count' = Cardinality(Busy')
      /\ Coming' \subseteq Coming
      /\ Busy = {} /\ Coming = {} => Busy' = {}
  <2>1. CASE TakeScript(w) \/ SetSem(w) \/ WakeMain(w) \/ RunScript(w) \/ BecomeFree(w)
    <3>1. count' = count
      BY <2>1 DEF TakeScript, SetSem, WakeMain, RunScript, BecomeFree
    <3>2. Busy' = Busy /\ Coming' \subseteq Coming
      <4>1. CASE TakeScript(w) \/ SetSem(w)
        BY <1>4, <4>1 DEF TakeScript, SetSem, Busy, Coming
      <4>2. CASE WakeMain(w) \/ BecomeFree(w)
        BY <1>4, <4>2 DEF WakeMain, BecomeFree, Busy, Coming
      <4>3. CASE RunScript(w)
        BY <1>4, <4>3 DEF RunScript, Busy, Coming
      <4> QED BY <2>1, <4>1, <4>2, <4>3
    <3> QED BY <1>3, <3>1, <3>2
  <2>2. CASE CountUp(w)
    <3>1. w \in Coming /\ w \notin Busy /\ Busy' = Busy \cup {w} /\ Coming' \subseteq Coming
      BY <1>4, <2>2 DEF CountUp, Busy, Coming
    <3>2. Cardinality(Busy') = Cardinality(Busy) + 1
      BY <3>1, BusyFinite, FS_AddElement
    <3> QED BY <1>3, <2>2, <3>1, <3>2 DEF CountUp
  <2>3. CASE CountDown(w)
    <3>1. w \in Busy /\ Busy' = Busy \ {w} /\ Coming' \subseteq Coming
      BY <1>4, <2>3 DEF CountDown, Busy, Coming
    <3>2. Cardinality(Busy') = Cardinality(Busy) - 1
      BY <3>1, BusyFinite, FS_RemoveElement
    <3> QED BY <1>3, <2>3, <3>1, <3>2 DEF CountDown
  <2> QED BY <2>1, <2>2, <2>3 DEF WorkerStep
<1>7. CASE exec' = "dead"
  BY <1>2, <1>3, <1>5, <1>6, <1>7 DEF GivenInv, InLoop, Giving
<1>8. CASE exec' # "dead"
  <2>1. /\ exec \in Giving <=> exec' \in Giving
        /\ exec = exec' \/ exec \in Giving
    BY <1>2, <1>8 DEF Giving
  <2>2. ASSUME NEW c \in Scripts, pass = "test", exec \in InLoop, Given(c)
        PROVE  InHand(c)'
    <3>1. InHand(c)
      BY <1>3, <2>2 DEF GivenInv
    <3>2. mode'[c] = "test"
      BY <1>2, <3>1 DEF InHand
    <3>3. CASE c \in tested
      BY <1>2, <3>2, <3>3 DEF InHand
    <3>4. ASSUME NEW v \in Workers, worker[v] \in {"count", "sem", "wake", "run"},
                 script[v] = c
          PROVE  InHand(c)'
      <4>1. CASE v # w
        <5>1. worker'[v] = worker[v] /\ script'[v] = script[v]
          BY <1>4, <4>1 DEF WorkerStep, TakeScript, CountUp, SetSem, WakeMain,
                            RunScript, CountDown, BecomeFree
        <5> QED BY <3>2, <3>4, <5>1 DEF InHand
      <4>2. CASE v = w /\ RunScript(w)
        <5>1. c # NoScript
          BY <2>2, ConstantsKnown DEF NoScript
        <5>2. c \in tested'
          BY <1>8, <3>1, <3>4, <4>2, <5>1 DEF RunScript, InHand
        <5> QED BY <3>2, <5>2 DEF InHand
      <4>3. CASE v = w /\ ~RunScript(w)
        <5>1. /\ worker'[w] \in {"sem", "wake", "run"} /\ script'[w] = script[w]
          BY <1>4, <3>4, <4>3 DEF WorkerStep, TakeScript, CountUp, SetSem, WakeMain,
                                  CountDown, BecomeFree
        <5> QED BY <3>2, <3>4, <4>3, <5>1 DEF InHand
      <4> QED BY <4>1, <4>2, <4>3
    <3>5. ASSUME c = at, exec \in Giving, NEW v \in Workers, worker[v] = "posted"
          PROVE  InHand(c)'
      <4>1. CASE worker'[v] = "posted"
        BY <1>2, <2>1, <3>2, <3>5, <4>1 DEF InHand
      <4>2. CASE worker'[v] # "posted"
        <5>1. v = w /\ TakeScript(w)
          BY <1>4, <3>5, <4>2 DEF WorkerStep, TakeScript, CountUp, SetSem, WakeMain,
                                  RunScript, CountDown, BecomeFree
        <5>2. worker'[w] = "count" /\ script'[w] = cmd
          BY <1>4, <5>1 DEF TakeScript
        <5>3. cmd = at
          BY <1>3, <3>5 DEF GivenInv
        <5> QED BY <3>2, <3>5, <5>1, <5>2, <5>3 DEF InHand
      <4> QED BY <4>1, <4>2
    <3> QED BY <3>1, <3>3, <3>4, <3>5 DEF InHand
  <2>3. \A c \in Scripts : Given(c)' <=> Given(c)
    BY <1>2, <2>1 DEF Given, Giving
  <2>4. exec' \in InLoop <=> exec \in InLoop
    BY <2>1 DEF InLoop
  <2>5. pass' = "test" /\ exec' \in InLoop => \A c \in Scripts : Given(c)' => InHand(c)'
    BY <1>2, <2>2, <2>3, <2>4
  <2>6. /\ exec' \notin Giving \cup {"dead"} => Coming' = {}
        /\ exec' \in {"answer", "idle", "init"} => Busy' = {}
    BY <1>3, <1>6, <1>8, <2>1 DEF GivenInv, Giving
  <2>7. /\ exec' \in Giving \cup {"add"} => cmd' = at' /\ mode'[at'] = pass'
        /\ exec' = "barrier" => at' = NumScripts
        /\ exec' = "answer" => pass' = "repair"
    BY <1>2, <1>3, <1>8, <2>1 DEF GivenInv, Giving
  <2>8. pass' = "repair" => tested' = Scripts
    BY <1>2, <1>3, <1>5 DEF GivenInv
  <2> QED BY <1>6, <2>5, <2>6, <2>7, <2>8 DEF GivenInv
<1> QED BY <1>7, <1>8

\* A step of the service or of the main thread: a script is given to a worker that
\* was idle, and no loop ends before those it has sent are back.
LEMMA ThreadsRound ==
    ASSUME RoundInv, ReaderStep \/ (exec # "dead" /\ MainStep)
    PROVE  RoundInv'
<1>1. TypeOK /\ TypeOK'
  BY ThreadsTyped DEF RoundInv
<1> SUFFICES ASSUME ~strayed' PROVE count' = Cardinality(Busy') /\ GivenInv'
  BY <1>1 DEF RoundInv
<1> USE DEF main, container, pool, history
<1>2. ~strayed /\ ~AddTaskPastEnd
  <2>1. CASE AddTaskPastEnd
    BY <2>1 DEF AddTaskPastEnd
  <2>2. CASE ClearSem
    <3>1. ~strayed
      BY <2>2, Zenon DEF ClearSem
    <3>2. ~AddTaskPastEnd
      BY <2>2 DEF ClearSem, AddTaskPastEnd
    <3> QED BY <3>1, <3>2
  <2>3. CASE ~AddTaskPastEnd /\ ~ClearSem
    <3>1. strayed' = strayed
      BY <2>3, Zenon DEF ReaderStep, MainStep, WakeExecutor, ReadAnswer, BeginRound,
         SkipScript, PrepareScript, AddTask, WaitForStart, Barrier, Answer
    <3> QED BY <2>3, <3>1
  <2> QED BY <2>1, <2>2, <2>3
<1>3. count = Cardinality(Busy) /\ GivenInv
  BY <1>2 DEF RoundInv
<1>4. /\ worker \in [Workers -> Places] /\ at \in Scripts /\ Scripts = 1..NumScripts
      /\ NumScripts \in Nat /\ mode \in [Scripts -> {"test", "repair"}]
      /\ pass \in {"test", "repair"}
  BY <1>1, ConstantsKnown DEF TypeOK
<1>5. CASE WakeExecutor \/ ReadAnswer \/ WaitForStart \/ Answer
  <2>1. /\ UNCHANGED <<pass, at, cmd, count, mode, tested, worker, script>>
        /\ Busy' = Busy /\ Coming' = Coming
    BY <1>5 DEF WakeExecutor, ReadAnswer, WaitForStart, Answer, Busy, Coming
  <2>2. \/ exec' = exec
        \/ exec \in Giving /\ exec' \in Giving
        \/ exec \in {"idle", "answer"} /\ exec' \in {"idle", "init"}
    BY <1>5 DEF WakeExecutor, ReadAnswer, WaitForStart, Answer, Giving
  <2>3. exec \in InLoop \/ exec' \in InLoop =>
          \A c \in Scripts : (Given(c)' <=> Given(c)) /\ (InHand(c)' <=> InHand(c))
    BY <2>1, <2>2 DEF Given, InHand, Giving, InLoop
  <2>4. exec' \in InLoop => exec \in InLoop
    BY <2>2 DEF Giving, InLoop
  <2> QED BY <1>3, <2>1, <2>2, <2>3, <2>4 DEF GivenInv, Giving
<1>6. CASE BeginRound
  <2>1. /\ Busy' = {} /\ Coming' = {} /\ count' = 0
        /\ exec' = "give" /\ pass' = "test" /\ at' = 1
    BY <1>3, <1>6 DEF BeginRound, GivenInv, Giving, Busy, Coming
  <2>2. \A c \in Scripts : ~Given(c)'
    BY <1>4, <2>1 DEF Given, Giving
  <2>3. count' = Cardinality(Busy')
    BY <2>1, FS_EmptySet
  <2> QED BY <2>1, <2>2, <2>3 DEF GivenInv, Giving
<1>7. CASE SkipScript
  <2>1. /\ exec = "give" /\ pass = "repair"
        /\ UNCHANGED <<pass, cmd, count, mode, tested, worker, script>>
        /\ Busy' = Busy /\ Coming' = Coming
        /\ (at = NumScripts /\ exec' = "barrier" /\ at' = at) \/ exec' = "give"
    BY <1>4, <1>7 DEF SkipScript, Wanted, NextScript, Busy, Coming
  <2> QED BY <1>3, <2>1 DEF GivenInv, Giving
<1>8. CASE PrepareScript
  <2>1. /\ exec = "give" /\ exec' = "add" /\ cmd' = at
        /\ mode' = [mode EXCEPT ![at] = pass]
        /\ UNCHANGED <<pass, at, count, tested, worker, script>>
        /\ Busy' = Busy /\ Coming' = Coming
    BY <1>8 DEF PrepareScript, Busy, Coming
  <2>2. mode'[at] = pass
    BY <1>4, <2>1
  <2>3. ASSUME NEW c \in Scripts, pass = "test", Given(c)'
        PROVE  InHand(c)'
    <3>1. Given(c)
      BY <2>1, <2>3 DEF Given, Giving
    <3>2. InHand(c)
      BY <1>3, <2>1, <2>3, <3>1 DEF GivenInv, InLoop
    <3>3. mode'[c] = "test"
      BY <1>4, <2>1, <2>3, <3>2 DEF InHand
    <3> QED BY <2>1, <3>2, <3>3 DEF InHand, Giving
  <2> QED BY <1>3, <2>1, <2>2, <2>3 DEF GivenInv, Giving
<1>9. CASE AddTask
  <2>1. PICK w \in Workers : worker[w] = "idle" /\ worker' = [worker EXCEPT ![w] = "posted"]
    BY <1>9 DEF AddTask, Free
  <2>2. /\ exec = "add" /\ exec' = "futex"
        /\ UNCHANGED <<pass, at, cmd, count, mode, tested, script>>
    BY <1>9 DEF AddTask
  <2>3. Busy' = Busy /\ worker'[w] = "posted"
    BY <1>4, <2>1 DEF Busy
  <2>4. ASSUME NEW c \in Scripts, pass = "test", Given(c)'
        PROVE  InHand(c)'
    <3>1. CASE c = at
      <4>1. mode'[c] = "test"
        BY <1>3, <2>2, <2>4, <3>1 DEF GivenInv
      <4> QED BY <2>2, <2>3, <3>1, <4>1 DEF InHand, Giving
    <3>2. CASE c # at
      <4>1. Given(c)
        BY <2>2, <2>4, <3>2 DEF Given
      <4>2. InHand(c)
        BY <1>3, <2>2, <2>4, <4>1 DEF GivenInv, InLoop
      <4>3. \A v \in Workers : worker[v] \in {"count", "sem", "wake", "run"}
                                 => worker'[v] = worker[v]
        BY <1>4, <2>1
      <4> QED BY <2>2, <3>2, <4>2, <4>3 DEF InHand
    <3> QED BY <3>1, <3>2
  <2> QED BY <1>3, <2>2, <2>3, <2>4 DEF GivenInv, Giving
<1>10. CASE ClearSem
  <2>1. /\ exec = "clear" /\ Coming = {}
        /\ UNCHANGED <<pass, cmd, count, mode, tested, worker, script>>
        /\ \/ at = NumScripts /\ exec' = "barrier" /\ at' = at
           \/ exec' = "give" /\ at' = at + 1
    BY <1>10 DEF ClearSem, NextScript, Coming
  <2>2. Busy' = Busy /\ Coming' = Coming
    BY <2>1 DEF Busy, Coming
  <2>3. ASSUME NEW c \in Scripts, pass = "test", Given(c)'
        PROVE  InHand(c)'
    <3>1. Given(c)
      BY <1>4, <2>1, <2>3 DEF Given, Giving
    <3>2. InHand(c)
      BY <1>3, <2>1, <2>3, <3>1 DEF GivenInv, InLoop, Giving
    <3>3. \A v \in Workers : worker[v] # "posted"
      BY <2>1 DEF Coming
    <3> QED BY <2>1, <3>2, <3>3 DEF InHand
  <2> QED BY <1>3, <2>1, <2>2, <2>3 DEF GivenInv, Giving
<1>11. CASE Barrier
  <2>1. /\ exec = "barrier" /\ count = 0
        /\ UNCHANGED <<cmd, count, mode, tested, worker, script>>
        /\ \/ pass = "test" /\ pass' = "repair" /\ exec' = "give"
           \/ pass = "repair" /\ pass' = "repair" /\ exec' = "answer"
    BY <1>4, <1>11 DEF Barrier
  <2>2. Busy = {} /\ Coming = {}
    BY <1>3, <2>1, BusyFinite DEF GivenInv, Giving
  <2>3. Busy' = {} /\ Coming' = {}
    BY <2>1, <2>2 DEF Busy, Coming
  <2>4. tested = Scripts
    <3>1. CASE pass = "repair"
      BY <1>3, <3>1 DEF GivenInv
    <3>2. CASE pass = "test"
      <4>1. ASSUME NEW c \in Scripts PROVE c \in tested
        <5>1. Given(c)
          BY <1>3, <1>4, <2>1 DEF GivenInv, Given
        <5>2. InHand(c)
          BY <1>3, <2>1, <3>2, <5>1 DEF GivenInv, InLoop
        <5> QED BY <2>1, <2>2, <5>2 DEF InHand, Busy, Coming, Giving
      <4> QED BY <1>1, <4>1 DEF TypeOK
    <3> QED BY <1>4, <3>1, <3>2
  <2> QED BY <1>3, <2>1, <2>2, <2>3, <2>4 DEF GivenInv, Giving
<1> QED
  BY <1>2, <1>5, <1>6, <1>7, <1>8, <1>9, <1>10, <1>11 DEF ReaderStep, MainStep

LEMMA RoundKept == Spec => []RoundInv
<1>1. Init => RoundInv
  <2> SUFFICES ASSUME Init PROVE RoundInv
    OBVIOUS
  <2>1. Busy = {} /\ Coming = {}
    BY DEF Init, Busy, Coming
  <2> QED BY <2>1, InitTyped, FS_EmptySet DEF Init, RoundInv, GivenInv, Giving, InLoop
<1>2. RoundInv /\ [Next]_vars => RoundInv'
  <2> SUFFICES ASSUME RoundInv, [Next]_vars PROVE RoundInv'
    OBVIOUS
  <2>1. CASE UNCHANGED vars
    <3> USE <2>1 DEF vars, service, main, container, pool, history
    <3>1. Busy' = Busy /\ Coming' = Coming
      BY DEF Busy, Coming
    <3>2. \A c : (Given(c)' <=> Given(c)) /\ (InHand(c)' <=> InHand(c))
      BY DEF Given, InHand
    <3> QED BY <3>1, <3>2 DEF RoundInv, TypeOK, GivenInv
  <2>2. ASSUME NEW w \in Workers, WorkerStep(w), exec # "dead" PROVE RoundInv'
    BY <2>2, WorkersRound
  <2> QED BY <2>1, <2>2, ThreadsRound DEF Next
<1> QED BY <1>1, <1>2, PTL DEF Spec

\* Every test of a round has run when its first repair begins, for any number of
\* scripts and workers, as long as the main thread has waited for each script.
THEOREM TestsBeforeRepairs == Spec => []TakenAndExecuted
<1>1. RoundInv => TakenAndExecuted
  BY DEF RoundInv, GivenInv, TakenAndExecuted, AllExecuted
<1> QED BY <1>1, RoundKept, PTL

\* So it has: no worker is with a script when the executor answers, and none when
\* the next round's container takes the place of the last.
THEOREM RoundsApart == Spec => []Quiet
<1>1. RoundInv => Quiet
  <2> SUFFICES ASSUME RoundInv, exec \in {"answer", "idle", "init"}, ~strayed,
                      NEW w \in Workers
               PROVE  worker[w] \in {"idle", "free"}
    BY DEF Quiet
  <2>1. w \notin Busy /\ w \notin Coming
    BY DEF RoundInv, GivenInv, Giving
  <2> QED BY <2>1 DEF RoundInv, TypeOK, Places, Busy, Coming
<1> QED BY <1>1, RoundKept, PTL

\* The count that __WaitForWorkers waits for is the number of those at work.
THEOREM CountTrue == Spec => []CountExact
<1>1. RoundInv => CountExact
  BY DEF RoundInv, CountExact, Busy
<1> QED BY <1>1, RoundKept, PTL
-----------------------------------------------------------------------------
(* Who has which script, as long as the main thread has waited for each.   *)

HasScript(w) == worker[w] \in {"count", "sem", "wake", "run", "leave"}
Reads(w)     == worker[w] \in {"count", "sem", "wake", "run"}

\* What a worker has was given to it in this loop ...
ScriptsGiven ==
    \A w \in Workers :
        HasScript(w) => /\ script[w] \in Scripts /\ Given(script[w])
                        /\ mode[script[w]] = pass

\* ... and to nobody else ...
ScriptsApart ==
    /\ \A v, w \in Workers :
         HasScript(v) /\ HasScript(w) /\ v # w => script[v] # script[w]
    /\ \A v, w \in Workers :
         worker[w] = "posted" /\ v # w
           => worker[v] # "posted" /\ (HasScript(v) => script[v] # at)

\* ... and for repair, because it failed.
RepairsDue ==
    pass = "repair" =>
        /\ \A w \in Workers : Reads(w) => script[w] \in failed
        /\ exec = "add" => at \in failed
        /\ \A w \in Workers : worker[w] = "posted" => at \in failed

OwnInv == exec # "dead" /\ ScriptsGiven /\ ScriptsApart /\ RepairsDue

\* A step of a worker.
LEMMA WorkersOwn ==
    ASSUME RoundInv, ~strayed, OwnInv, NEW w \in Workers, WorkerStep(w)
    PROVE  OwnInv'
<1>1. TypeOK /\ GivenInv
  BY DEF RoundInv
<1> USE DEF Moves, main, container, pool, history
<1>2. CASE TakeScript(w)
  <2>1. /\ worker[w] = "posted" /\ worker' = [worker EXCEPT ![w] = "count"]
        /\ script' = [script EXCEPT ![w] = cmd]
        /\ UNCHANGED <<exec, pass, at, mode, failed>>
    BY <1>2 DEF TakeScript
  <2>2. exec \in Giving
    BY <1>1, <2>1 DEF GivenInv, Coming, OwnInv
  <2>3. cmd = at /\ mode[at] = pass /\ at \in Scripts
    BY <1>1, <2>2 DEF GivenInv, TypeOK
  <2>4. /\ worker'[w] = "count" /\ script'[w] = at
        /\ \A v \in Workers : v # w => worker'[v] = worker[v] /\ script'[v] = script[v]
    BY <1>1, <2>1, <2>3 DEF TypeOK
  <2>5. ScriptsGiven'
    BY <2>1, <2>2, <2>3, <2>4 DEF OwnInv, ScriptsGiven, HasScript, Given
  <2>6. ScriptsApart'
    BY <2>1, <2>4 DEF OwnInv, ScriptsApart, HasScript
  <2>7. RepairsDue'
    BY <2>1, <2>4 DEF OwnInv, RepairsDue, Reads
  <2> QED BY <2>1, <2>5, <2>6, <2>7 DEF OwnInv
<1>3. CASE CountUp(w) \/ SetSem(w) \/ WakeMain(w)
  <2>1. /\ worker[w] \in {"count", "sem", "wake"} /\ worker'[w] \in {"sem", "wake", "run"}
        /\ \A v \in Workers : v # w => worker'[v] = worker[v]
        /\ UNCHANGED <<pass, at, mode, failed, script>>
        /\ exec' = exec \/ (exec = "asleep" /\ exec' = "clear")
    BY <1>1, <1>3 DEF CountUp, SetSem, WakeMain, TypeOK
  <2>2. ScriptsGiven'
    BY <2>1 DEF OwnInv, ScriptsGiven, HasScript, Given, Giving
  <2>3. ScriptsApart'
    BY <2>1 DEF OwnInv, ScriptsApart, HasScript
  <2>4. RepairsDue'
    BY <2>1 DEF OwnInv, RepairsDue, Reads
  <2> QED BY <2>1, <2>2, <2>3, <2>4 DEF OwnInv
<1>4. CASE RunScript(w)
  <2>1. worker[w] = "run"
    BY <1>4 DEF RunScript
  <2>2. script[w] \in Scripts /\ script[w] # NoScript /\ Given(script[w])
    BY <2>1 DEF OwnInv, ScriptsGiven, HasScript, NoScript, Scripts
  <2>3. /\ worker'[w] = "leave"
        /\ \A v \in Workers : v # w => worker'[v] = worker[v]
        /\ UNCHANGED <<exec, pass, at, mode, script>>
        /\ \A c \in failed : c # script[w] => c \in failed'
    BY <1>1, <1>4, <2>2 DEF RunScript, TypeOK
  <2>4. ScriptsGiven' /\ ScriptsApart'
    BY <2>1, <2>3 DEF OwnInv, ScriptsGiven, ScriptsApart, HasScript, Given
  <2>5. exec = "add" => script[w] # at
    BY <1>1, <2>2 DEF Given, Giving, TypeOK, Scripts
  <2>6. \A v \in Workers : worker[v] = "posted" => script[w] # at
    BY <2>1 DEF OwnInv, ScriptsApart, HasScript
  <2>7. RepairsDue'
    <3>1. \A v \in Workers : Reads(v)' => v # w /\ Reads(v) /\ script[v] # script[w]
      BY <2>1, <2>3 DEF OwnInv, ScriptsApart, HasScript, Reads
    <3> QED BY <2>3, <2>5, <2>6, <3>1 DEF OwnInv, RepairsDue
  <2> QED BY <2>3, <2>4, <2>7 DEF OwnInv
<1>5. CASE CountDown(w) \/ BecomeFree(w)
  <2>1. /\ worker'[w] \in {"free", "idle"}
        /\ \A v \in Workers : v # w => worker'[v] = worker[v]
        /\ UNCHANGED <<exec, pass, at, mode, failed, script>>
    BY <1>1, <1>5 DEF CountDown, BecomeFree, TypeOK
  <2> QED
    BY <2>1 DEF OwnInv, ScriptsGiven, ScriptsApart, RepairsDue, HasScript, Reads, Given
<1> QED BY <1>2, <1>3, <1>4, <1>5 DEF WorkerStep

\* Where nobody is with a script or sent for one, nothing is claimed of it.
LEMMA NobodyOwns ==
    ASSUME TypeOK', Busy' = {}, Coming' = {}, exec' \notin {"dead", "add"}
    PROVE  OwnInv'
<1>1. \A w \in Workers : ~HasScript(w)' /\ ~Reads(w)' /\ worker'[w] # "posted"
  BY DEF Busy, Coming, HasScript, Reads
<1> QED BY <1>1 DEF OwnInv, ScriptsGiven, ScriptsApart, RepairsDue

\* A step of the main thread or of the service.
LEMMA ThreadsOwn ==
    ASSUME RoundInv, ~strayed, OwnInv, ReaderStep \/ MainStep, ~strayed'
    PROVE  OwnInv'
<1>1. TypeOK /\ GivenInv /\ TypeOK' /\ count = Cardinality(Busy)
  BY ThreadsTyped DEF RoundInv
<1> USE DEF main, container, pool, history, service
<1>2. CASE ReadAnswer
  <2>1. UNCHANGED <<worker, script, exec, pass, at, mode, failed>>
    BY <1>2 DEF ReadAnswer
  <2> QED
    BY <2>1 DEF OwnInv, ScriptsGiven, ScriptsApart, RepairsDue, HasScript, Reads, Given
<1>3. CASE WakeExecutor
  <2>1. /\ UNCHANGED <<worker, script, pass, at, mode, failed>>
        /\ exec' = exec \/ (exec = "idle" /\ exec' = "init")
    BY <1>3 DEF WakeExecutor
  <2>2. CASE exec' = exec
    BY <2>1, <2>2
       DEF OwnInv, ScriptsGiven, ScriptsApart, RepairsDue, HasScript, Reads, Given
  <2>3. CASE exec = "idle" /\ exec' = "init"
    <3>1. Busy' = {} /\ Coming' = {}
      BY <1>1, <2>1, <2>3 DEF GivenInv, Giving, Busy, Coming
    <3> QED BY <1>1, <2>3, <3>1, NobodyOwns
  <2> QED BY <2>1, <2>2, <2>3
<1>4. CASE BeginRound \/ Barrier \/ Answer
  <2>1. /\ exec \in {"init", "barrier", "answer"} /\ (exec = "barrier" => count = 0)
        /\ exec' \in {"give", "answer", "idle"} /\ worker' = worker
    BY <1>4 DEF BeginRound, Barrier, Answer
  <2>2. Busy = {} /\ Coming = {}
    BY <1>1, <2>1, BusyFinite DEF GivenInv, Giving
  <2>3. Busy' = {} /\ Coming' = {}
    BY <2>1, <2>2 DEF Busy, Coming
  <2> QED BY <1>1, <2>1, <2>3, NobodyOwns
<1>5. CASE SkipScript \/ ClearSem
  <2>1. /\ UNCHANGED <<worker, script, pass, mode, failed>>
        /\ exec \in {"give", "clear"} /\ NextScript
    BY <1>5 DEF SkipScript, ClearSem
  <2>2. \A v \in Workers : worker[v] # "posted"
    <3>1. CASE SkipScript
      BY <1>1, <3>1 DEF SkipScript, GivenInv, Giving, Coming
    <3>2. CASE ClearSem
      BY <3>2 DEF ClearSem
    <3> QED BY <1>5, <3>1, <3>2
  <2>3. /\ exec' \in {"give", "barrier"}
        /\ (at' = at /\ exec' = "barrier") \/ at' = at + 1
    BY <2>1 DEF NextScript
  <2>4. \A c \in Scripts : Given(c) => Given(c)'
    BY <1>1, <2>1, <2>3 DEF Given, Giving, TypeOK, Scripts
  <2>5. ScriptsGiven'
    BY <2>1, <2>4 DEF OwnInv, ScriptsGiven, HasScript
  <2>6. ScriptsApart' /\ RepairsDue'
    BY <2>1, <2>2, <2>3 DEF OwnInv, ScriptsApart, RepairsDue, HasScript, Reads
  <2> QED BY <2>3, <2>5, <2>6 DEF OwnInv
<1>6. CASE PrepareScript
  <2>1. /\ exec = "give" /\ exec' = "add" /\ Wanted(at)
        /\ UNCHANGED <<worker, script, pass, at, failed>>
        /\ mode' = [mode EXCEPT ![at] = pass]
    BY <1>6 DEF PrepareScript
  <2>2. Coming = {}
    BY <1>1, <2>1 DEF GivenInv, Giving
  <2>3. \A v \in Workers : HasScript(v) => script[v] # at
    BY <1>1, <2>1 DEF OwnInv, ScriptsGiven, Given, Giving, TypeOK, Scripts
  <2>4. ScriptsGiven'
    BY <1>1, <2>1, <2>3 DEF OwnInv, ScriptsGiven, HasScript, Given, Giving, TypeOK
  <2>5. ScriptsApart'
    BY <2>1 DEF OwnInv, ScriptsApart, HasScript
  <2>6. RepairsDue'
    BY <2>1, <2>2 DEF OwnInv, RepairsDue, Reads, Wanted, Coming
  <2> QED BY <2>1, <2>4, <2>5, <2>6 DEF OwnInv
<1>7. CASE AddTask
  <2>1. /\ exec = "add" /\ exec' = "futex"
        /\ UNCHANGED <<script, pass, at, mode, failed>>
    BY <1>7 DEF AddTask
  <2>2. PICK w \in Workers : /\ worker[w] = "idle"
                             /\ worker' = [worker EXCEPT ![w] = "posted"]
    BY <1>7 DEF AddTask, Free
  <2>3. /\ worker'[w] = "posted"
        /\ \A v \in Workers : v # w => worker'[v] = worker[v] /\ worker[v] # "posted"
    BY <1>1, <2>1, <2>2 DEF GivenInv, Giving, Coming, TypeOK
  <2>4. \A v \in Workers : HasScript(v) => script[v] # at
    BY <1>1, <2>1 DEF OwnInv, ScriptsGiven, Given, Giving, TypeOK, Scripts
  <2>5. ScriptsGiven'
    BY <2>1, <2>3 DEF OwnInv, ScriptsGiven, HasScript, Given, Giving
  <2>6. ScriptsApart'
    BY <2>1, <2>3, <2>4 DEF OwnInv, ScriptsApart, HasScript
  <2>7. RepairsDue'
    BY <2>1, <2>3 DEF OwnInv, RepairsDue, Reads
  <2> QED BY <2>1, <2>5, <2>6, <2>7 DEF OwnInv
<1>8. CASE WaitForStart
  <2>1. /\ exec = "futex" /\ exec' \in {"asleep", "clear"}
        /\ UNCHANGED <<worker, script, pass, at, mode, failed>>
    BY <1>8 DEF WaitForStart
  <2> QED
    BY <2>1 DEF OwnInv, ScriptsGiven, ScriptsApart, RepairsDue, HasScript, Reads, Given,
                Giving
<1>9. CASE AddTaskPastEnd
  BY <1>9 DEF AddTaskPastEnd
<1> QED
  BY <1>2, <1>3, <1>4, <1>5, <1>6, <1>7, <1>8, <1>9 DEF ReaderStep, MainStep

LEMMA StrayedStays == [Next]_vars /\ strayed => strayed'
<1> SUFFICES ASSUME [Next]_vars, strayed PROVE strayed'
  OBVIOUS
<1> USE DEF history
<1>1. CASE ReaderStep \/ MainStep
  BY <1>1 DEF ReaderStep, MainStep, WakeExecutor, ReadAnswer, BeginRound, SkipScript,
              PrepareScript, AddTask, AddTaskPastEnd, WaitForStart, ClearSem, Barrier,
              Answer
<1>2. ASSUME NEW w \in Workers, WorkerStep(w) PROVE strayed'
  BY <1>2 DEF WorkerStep, TakeScript, CountUp, SetSem, WakeMain, RunScript, CountDown,
              BecomeFree
<1>3. CASE UNCHANGED vars
  BY <1>3 DEF vars
<1> QED BY <1>1, <1>2, <1>3 DEF Next

LEMMA OwnKept == Spec => [](~strayed => OwnInv)
<1>1. Init => OwnInv
  BY DEF Init, OwnInv, ScriptsGiven, ScriptsApart, RepairsDue, HasScript
<1>2. RoundInv /\ (~strayed => OwnInv) /\ [Next]_vars => (~strayed => OwnInv)'
  <2> SUFFICES ASSUME RoundInv, ~strayed => OwnInv, [Next]_vars, ~strayed' PROVE OwnInv'
    OBVIOUS
  <2>1. ~strayed /\ OwnInv
    BY StrayedStays
  <2>2. CASE UNCHANGED vars
    BY <2>1, <2>2 DEF vars, main, pool, OwnInv, ScriptsGiven, ScriptsApart, RepairsDue,
                      HasScript, Reads, Given
  <2> QED BY <2>1, <2>2, WorkersOwn, ThreadsOwn DEF Next
<1> QED BY <1>1, <1>2, RoundKept, PTL DEF Spec

\* As long as the main thread has waited for each script, no two workers have the
\* same one, and each runs its script in the mode of the loop that gave it,
\* although the container has room for one script and the mode is in the list.
THEOREM ScriptsOwned == Spec => [](~strayed => ScriptsGiven /\ ScriptsApart)
<1>1. OwnInv => ScriptsGiven /\ ScriptsApart
  BY DEF OwnInv
<1> QED BY <1>1, OwnKept, PTL

\* A worker is sent to repair only what has failed, and it is still failed when
\* the worker begins, whatever other workers report in the meantime.
THEOREM OnlyFailedRepaired == Spec => [](~strayed => RepairsDue)
<1>1. OwnInv => RepairsDue
  BY DEF OwnInv
<1> QED BY <1>1, OwnKept, PTL

\* No worker finds the container empty and takes the executor down with it, unless
\* the main thread has gone on before.
THEOREM NoneAstray == Spec => [](exec = "dead" => strayed)
<1>1. (~strayed => OwnInv) => (exec = "dead" => strayed)
  BY DEF OwnInv
<1> QED BY <1>1, OwnKept, PTL
-----------------------------------------------------------------------------
(* What the answer says of the scripts, as long as none was hurried past.  *)

\* The loop has passed c over, or given it to somebody.
Passed(c) ==
    \/ exec \in {"barrier", "answer"}
    \/ c < at
    \/ c = at /\ exec \in Giving \cup {"add"}

\* Between two rounds the answer is that of the scripts, and whatever has failed
\* is the failure of a repair.
AnswerTells ==
    exec \in {"idle", "init"} =>
        /\ answer = (failed # {})
        /\ \A c \in failed : mode[c] = "repair"

\* In the second loop no failed script has been passed over.
RepairsTried ==
    pass = "repair" /\ exec \in InLoop \cup {"answer"} =>
        \A c \in failed : Passed(c) => mode[c] = "repair"

AnswerInv == AnswerTells /\ RepairsTried

\* A step of a worker: what it finds failed in the second loop, it has repaired.
LEMMA WorkersAnswer ==
    ASSUME RoundInv, ~strayed, OwnInv, AnswerInv, NEW w \in Workers, WorkerStep(w)
    PROVE  AnswerInv'
<1>1. TypeOK /\ GivenInv
  BY DEF RoundInv
<1> USE DEF Moves, main, container, pool, history
<1>2. CASE RunScript(w)
  <2>1. worker[w] = "run" /\ w \in Busy
    BY <1>2 DEF RunScript, Busy
  <2>2. exec \notin {"idle", "init"}
    BY <1>1, <2>1 DEF GivenInv
  <2>3. script[w] \in Scripts /\ script[w] # NoScript /\ mode[script[w]] = pass
    BY <2>1 DEF OwnInv, ScriptsGiven, HasScript, NoScript, Scripts
  <2>4. /\ UNCHANGED <<exec, pass, at, mode>>
        /\ \A c \in failed' : c \in failed \/ c = script[w]
    BY <1>2, <2>3 DEF RunScript
  <2> QED BY <2>2, <2>3, <2>4 DEF AnswerInv, AnswerTells, RepairsTried, Passed
<1>3. CASE ~RunScript(w)
  <2>1. /\ UNCHANGED <<answer, failed, mode, pass, at>>
        /\ exec' = exec \/ (exec = "asleep" /\ exec' = "clear")
    BY <1>3 DEF WorkerStep, TakeScript, CountUp, SetSem, WakeMain, CountDown, BecomeFree
  <2> QED
    BY <2>1 DEF AnswerInv, AnswerTells, RepairsTried, Passed, Giving, InLoop
<1> QED BY <1>2, <1>3

\* A step of the main thread or of the service.
LEMMA ThreadsAnswer ==
    ASSUME RoundInv, ~strayed, AnswerInv, ReaderStep \/ MainStep, ~strayed'
    PROVE  AnswerInv'
<1>1. TypeOK /\ GivenInv
  BY DEF RoundInv
<1>2. at \in Nat /\ NumScripts \in Nat /\ Scripts \subseteq Nat /\ \A c \in Scripts : 1 <= c
  BY <1>1, ConstantsKnown DEF TypeOK, Scripts
<1>3. failed \subseteq Scripts /\ mode \in [Scripts -> {"test", "repair"}] /\ at \in Scripts
  BY <1>1 DEF TypeOK
<1> USE DEF main, container, pool, history, service, AnswerInv, AnswerTells,
            RepairsTried, Passed, Giving, InLoop
<1>4. CASE ReaderStep
  BY <1>4 DEF ReaderStep, ReadAnswer, WakeExecutor
<1>5. CASE BeginRound
  BY <1>5 DEF BeginRound
<1>6. CASE SkipScript
  <2>1. /\ exec = "give" /\ UNCHANGED <<failed, mode, pass>>
        /\ pass = "repair" => at \notin failed
        /\ \/ exec' = "barrier" /\ at' = at /\ at = NumScripts
           \/ exec' = "give" /\ at' = at + 1
    BY <1>6, <1>1 DEF SkipScript, Wanted, NextScript, TypeOK
  <2>2. \A c \in Scripts : Passed(c)' => Passed(c) \/ c = at
    BY <1>2, <2>1 DEF Scripts
  <2> QED BY <1>3, <2>1, <2>2
<1>7. CASE PrepareScript
  <2>1. /\ exec' = "add" /\ UNCHANGED <<failed, at, pass>>
        /\ mode' = [mode EXCEPT ![at] = pass]
    BY <1>7 DEF PrepareScript
  <2> QED BY <1>3, <2>1, <1>7 DEF PrepareScript
<1>8. CASE AddTask \/ WaitForStart
  BY <1>8 DEF AddTask, WaitForStart
<1>9. CASE AddTaskPastEnd
  BY <1>9 DEF AddTaskPastEnd
<1>10. CASE ClearSem
  <2>1. /\ exec = "clear" /\ UNCHANGED <<failed, mode, pass>>
        /\ \/ exec' = "barrier" /\ at' = at /\ at = NumScripts
           \/ exec' = "give" /\ at' = at + 1
    BY <1>10 DEF ClearSem, NextScript
  <2>2. \A c \in Scripts : Passed(c)' => Passed(c)
    BY <1>2, <2>1 DEF Scripts
  <2> QED BY <1>3, <2>1, <2>2
<1>11. CASE Barrier
  <2>1. /\ exec = "barrier" /\ UNCHANGED <<failed, mode>>
        /\ \/ pass' = "repair" /\ at' = 1 /\ exec' = "give"
           \/ pass = "repair" /\ pass' = pass /\ exec' = "answer"
    BY <1>1, <1>11 DEF Barrier, TypeOK
  <2>2. exec' = "give" /\ at' = 1 => \A c \in Scripts : ~Passed(c)'
    BY <1>2
  <2> QED BY <1>3, <2>1, <2>2
<1>12. CASE Answer
  BY <1>1, <1>12 DEF Answer, GivenInv
<1> QED
  BY <1>4, <1>5, <1>6, <1>7, <1>8, <1>9, <1>10, <1>11, <1>12 DEF MainStep

\* Between two rounds the answer says whether a script is failed now, for any number
\* of scripts and workers; and such a script has failed as a repair of that round,
\* whose first loop has set every mode back to "test": none has failed its test so
\* late that the second loop was past it.
THEOREM AnswerTrue == Spec => [](~strayed => AnswerTells)
<1>1. Init => (~strayed => AnswerInv)
  BY DEF Init, AnswerInv, AnswerTells, RepairsTried
<1>2. RoundInv /\ (~strayed => OwnInv) /\ (~strayed => AnswerInv) /\ [Next]_vars
        => (~strayed => AnswerInv)'
  <2> SUFFICES ASSUME RoundInv, ~strayed => OwnInv, ~strayed => AnswerInv, [Next]_vars,
                      ~strayed'
               PROVE  AnswerInv'
    OBVIOUS
  <2>1. ~strayed
    BY StrayedStays
  <2>2. CASE UNCHANGED vars
    BY <2>1, <2>2 DEF vars, main, history, AnswerInv, AnswerTells, RepairsTried, Passed
  <2>3. CASE Next
    BY <2>1, <2>3, WorkersAnswer, ThreadsAnswer DEF Next
  <2> QED BY <2>2, <2>3
<1>3. AnswerInv => AnswerTells
  BY DEF AnswerInv
<1> QED BY <1>1, <1>2, <1>3, RoundKept, OwnKept, PTL DEF Spec
-----------------------------------------------------------------------------
(* Why a round ends.                                                       *)

\* The guards of the main thread's steps.
MainGoes ==
    CASE exec = "add"     -> \E w \in Workers : worker[w] = "idle"
      [] exec = "asleep"  -> FALSE
      [] exec = "barrier" -> count = 0
      [] OTHER            -> exec \in {"init", "give", "futex", "clear", "answer"}

\* A worker that is not idle has a step to make wherever it is.
WorkersGo == \E w \in Workers : worker[w] # "idle"

\* The main thread's round, its loops, and the steps for one script.
Leg ==
    CASE exec = "init"            -> 4
      [] exec = "answer"          -> 1
      [] exec \in {"idle", "dead"} -> 0
      [] OTHER                    -> IF pass = "test" THEN 3 ELSE 2

Behind == IF exec \in {"init", "answer", "idle", "dead"} THEN 0 ELSE NumScripts - at

Stage ==
    CASE exec = "give"    -> 6
      [] exec = "add"     -> 5
      [] exec = "futex"   -> 4
      [] exec = "asleep"  -> 3
      [] exec = "clear"   -> 2
      [] exec = "barrier" -> 1
      [] OTHER            -> 0

MainDescends ==
    \/ Leg' < Leg
    \/ Leg' = Leg /\ Behind' < Behind
    \/ Leg' = Leg /\ Behind' = Behind /\ Stage' < Stage

\* What a worker has to do for the script it was sent for.
Due(w) ==
    CASE worker[w] = "posted" -> 7
      [] worker[w] = "count"  -> 6
      [] worker[w] = "sem"    -> 5
      [] worker[w] = "wake"   -> 4
      [] worker[w] = "run"    -> 3
      [] worker[w] = "leave"  -> 2
      [] worker[w] = "free"   -> 1
      [] OTHER                -> 0

\* A worker's step takes the worker on and holds nobody up.
WorkerDescends(w) ==
    /\ Due(w)' < Due(w)
    /\ \A v \in Workers : v # w => Due(v)' = Due(v)
    /\ UNCHANGED <<Leg, Behind, Stage>> \/ MainDescends

RoundDescends ==
    /\ MainStep => MainDescends
    /\ \A w \in Workers : WorkerStep(w) /\ exec' # "dead" => WorkerDescends(w)

LEMMA NextScriptDescends ==
    ASSUME TypeOK, exec \in {"give", "clear"}, NextScript, pass' = pass
    PROVE  MainDescends
<1>1. NumScripts \in Nat /\ at \in 1..NumScripts
  BY ConstantsKnown DEF TypeOK
<1>2. CASE at = NumScripts
  BY <1>2 DEF NextScript, MainDescends, Leg, Behind, Stage
<1>3. CASE at # NumScripts
  <2>1. exec' = "give" /\ at' = at + 1
    BY <1>3 DEF NextScript
  <2>2. Behind = NumScripts - at /\ Behind' = NumScripts - (at + 1) /\ Leg' = Leg
    BY <2>1 DEF Behind, Leg
  <2> QED BY <1>1, <2>2 DEF MainDescends
<1> QED BY <1>2, <1>3

LEMMA MainStepDescends ==
    ASSUME TypeOK, MainStep
    PROVE  MainDescends
<1> USE DEF main, container, pool, history
<1>1. CASE SkipScript \/ ClearSem
  BY <1>1, NextScriptDescends DEF SkipScript, ClearSem
<1>2. CASE BeginRound \/ Barrier \/ Answer
  <2>1. Leg' < Leg
    <3>1. CASE BeginRound
      BY <3>1 DEF BeginRound, Leg
    <3>2. CASE Barrier
      <4>1. \/ pass = "test" /\ pass' = "repair" /\ exec' = "give"
            \/ pass # "test" /\ pass' = pass /\ exec' = "answer"
        BY <3>2 DEF Barrier
      <4> QED BY <3>2, <4>1 DEF Barrier, Leg
    <3>3. CASE Answer
      BY <3>3 DEF Answer, Leg
    <3> QED BY <1>2, <3>1, <3>2, <3>3
  <2> QED BY <2>1 DEF MainDescends
<1>3. CASE PrepareScript \/ AddTask \/ AddTaskPastEnd \/ WaitForStart
  <2>1. /\ UNCHANGED <<pass, at>>
        /\ \/ exec = "give" /\ exec' = "add"
           \/ exec = "add" /\ exec' = "futex"
           \/ exec = "futex" /\ exec' \in {"asleep", "clear"}
    BY <1>3 DEF PrepareScript, AddTask, AddTaskPastEnd, WaitForStart
  <2> QED BY <2>1 DEF MainDescends, Leg, Behind, Stage
<1> QED BY <1>1, <1>2, <1>3 DEF MainStep

LEMMA WorkerStepDescends ==
    ASSUME TypeOK, NEW w \in Workers, WorkerStep(w), exec' # "dead"
    PROVE  WorkerDescends(w)
<1> USE DEF Moves, main, container, pool, history
<1>1. /\ UNCHANGED <<pass, at>>
      /\ exec' = exec \/ (exec = "asleep" /\ exec' = "clear")
  BY DEF WorkerStep, TakeScript, CountUp, SetSem, WakeMain, RunScript, CountDown,
         BecomeFree
<1>2. UNCHANGED <<Leg, Behind, Stage>> \/ MainDescends
  BY <1>1 DEF MainDescends, Leg, Behind, Stage
<1>3. PICK to \in Places :
        /\ <<worker[w], to>> \in {<<"posted", "count">>, <<"count", "sem">>,
               <<"sem", "wake">>, <<"wake", "run">>, <<"run", "leave">>,
               <<"leave", "free">>, <<"free", "idle">>}
        /\ worker' = [worker EXCEPT ![w] = to]
  BY DEF WorkerStep, TakeScript, CountUp, SetSem, WakeMain, RunScript, CountDown,
         BecomeFree, Places
<1>4. /\ worker'[w] = to
      /\ \A v \in Workers : v # w => worker'[v] = worker[v]
  BY <1>3 DEF TypeOK
<1>5. Due(w)' < Due(w) /\ \A v \in Workers : v # w => Due(v)' = Due(v)
  BY <1>3, <1>4 DEF Due
<1> QED BY <1>2, <1>5 DEF WorkerDescends

\* Every step of a round descends: the main thread's in its loops, a worker's in
\* what it has to do for its script.  A round has finitely many steps.
THEOREM RoundsDescend == Spec => [][RoundDescends]_vars
<1>1. TypeOK /\ [Next]_vars => [RoundDescends]_vars
  BY MainStepDescends, WorkerStepDescends DEF RoundDescends
<1> QED BY <1>1, TypeCorrect, PTL DEF Spec

\* The strengthening of NoLostWakeup for a table of any length: the main thread
\* sleeps without a waker only if it has found no free worker.
WakersInv == ~strayed => WakeupInv

LEMMA WakersKept == Spec => []WakersInv
<1>1. Init => WakersInv
  BY InitTyped DEF Init, WakersInv, WakeupInv, NoLostWakeup
<1>2. WakersInv /\ [Next]_vars => WakersInv'
  <2> SUFFICES ASSUME WakeupInv, [Next]_vars, ~strayed' PROVE WakeupInv'
    BY StrayedStays DEF WakersInv
  <2>1. ASSUME NEW w \in Workers, WorkerStep(w) PROVE WakeupInv'
    BY <2>1, WorkersWake
  <2>2. CASE ReaderStep \/ MainStep
    BY <2>2, ThreadsWake
  <2>3. CASE UNCHANGED vars
    BY <2>3 DEF WakeupInv, NoLostWakeup, TypeOK, vars, service, main, container, pool,
                history
  <2> QED BY <2>1, <2>2, <2>3 DEF Next
<1> QED BY <1>1, <1>2, PTL DEF Spec

\* A round never stands still: until the executor is idle again its main thread
\* or a worker can go on, so that no worker, no wakeup and no count is waited for
\* in vain, as long as the main thread has waited for each script.
THEOREM RoundGoesOn == Spec => [](exec # "idle" /\ ~strayed => MainGoes \/ WorkersGo)
<1>1. RoundInv /\ WakersInv /\ (~strayed => OwnInv)
        => (exec # "idle" /\ ~strayed => MainGoes \/ WorkersGo)
  <2> SUFFICES ASSUME RoundInv, WakeupInv, OwnInv, exec # "idle", ~strayed, ~WorkersGo
               PROVE  MainGoes
    BY DEF WakersInv
  <2>1. TypeOK /\ count = Cardinality(Busy) /\ exec # "dead"
    BY DEF RoundInv, OwnInv
  <2>2. Busy = {} /\ \A w \in Workers : worker[w] = "idle"
    BY DEF Busy, WorkersGo
  <2>3. count = 0 /\ exec # "asleep"
    BY <2>1, <2>2, BusyFinite DEF WakeupInv, NoLostWakeup
  <2>4. 1 \in Workers
    BY CountAssumption DEF Workers
  <2> QED BY <2>1, <2>2, <2>3, <2>4 DEF TypeOK, MainGoes
<1> QED BY <1>1, RoundKept, WakersKept, OwnKept, PTL
=============================================================================
