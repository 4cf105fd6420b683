-------------------------------- MODULE Scripts --------------------------------
(***************************************************************************)
(* The test and repair scripts (testdir.cpp, threadpool.cpp, futex.cpp):   *)
(* TestDirThread of the service wakes an executor process, forked at the   *)
(* start, whose main thread hands each script to a thread of a pool, first *)
(* to test and then, where the test failed, to repair.  The two processes  *)
(* share a futex and the answer; the executor's threads share a container, *)
(* a futex and the list of the scripts.                                    *)
(***************************************************************************)
EXTENDS Integers, FiniteSets

CONSTANTS
    NumScripts,   \* numberOfRepairScripts
    MaxWorkers    \* the length of the pool's table (16)

ASSUME CountAssumption ==
    /\ NumScripts \in Nat \ {0}
    /\ MaxWorkers \in Nat \ {0}

Scripts == 1..NumScripts
Workers == 1..(IF NumScripts > MaxWorkers THEN MaxWorkers ELSE NumScripts)
NoScript == 0

VARIABLES
    reader,    \* TestDirThread: about to "wake" the executor or "read" the answer
    reported,  \* SCRIPTFAILED
    answer,    \* rst->ret: did the last round fail?
    exec,      \* where the executor's main thread is
    pass,      \* its loop: "test" or "repair"
    at,        \* the script its loop is at
    cmd,       \* container.cmd
    count,     \* container.workerThreadCount
    sem,       \* sem, the futex the main thread waits at
    failed,    \* scripts with ret # 0
    mode,      \* each script's mode
    worker,    \* where each worker is
    script,    \* c, the script each worker has taken from the container
    tested,    \* history: the scripts whose test has run in this round
    strayed    \* history: the main thread has gone on, or waits, although the
               \* script it gave was not taken

service   == <<reader, reported>>
container == <<cmd, count>>
main      == <<exec, pass, at>>
pool      == <<worker, script>>
history   == <<tested, strayed>>
vars      == <<service, answer, main, container, sem, failed, mode, pool, history>>

Init ==
    /\ reader = "wake" /\ reported = FALSE /\ answer = FALSE
    /\ exec = "idle" /\ pass = "test" /\ at = 1
    /\ cmd = NoScript /\ count = 0 /\ sem = 0
    /\ failed = {} /\ mode = [c \in Scripts |-> "test"]
    /\ worker = [w \in Workers |-> "idle"]
    /\ script = [w \in Workers |-> NoScript]
    /\ tested = {} /\ strayed = FALSE
-----------------------------------------------------------------------------
(* The service: ExecuteRepairScripts.                                      *)

\* FutexWake: lost if the executor is not waiting.
WakeExecutor ==
    /\ reader = "wake"
    /\ reader' = "read"
    /\ exec' = IF exec = "idle" THEN "init" ELSE exec
    /\ UNCHANGED <<reported, answer, pass, at, container, sem, failed, mode,
                   pool, history>>

\* The answer is read without waiting for the round.
ReadAnswer ==
    /\ reader = "read"
    /\ reader' = "wake"
    /\ reported' = answer
    /\ UNCHANGED <<answer, main, container, sem, failed, mode, pool, history>>
-----------------------------------------------------------------------------
(* The executor's main thread: __ExecuteRepairScripts.                     *)

\* The container is a new one, in the place of the last.
BeginRound ==
    /\ exec = "init"
    /\ cmd' = NoScript /\ count' = 0
    /\ exec' = "give" /\ pass' = "test" /\ at' = 1
    /\ tested' = {}
    /\ UNCHANGED <<service, answer, sem, failed, mode, pool, strayed>>

\* The second loop passes over what has succeeded.
Wanted(c) == pass = "test" \/ c \in failed

NextScript ==
    IF at = NumScripts THEN exec' = "barrier" /\ UNCHANGED at
    ELSE exec' = "give" /\ at' = at + 1

SkipScript ==
    /\ exec = "give" /\ ~Wanted(at)
    /\ NextScript
    /\ UNCHANGED <<service, answer, pass, container, sem, failed, mode, pool,
                   history>>

\* The mode is set, then ThreadPoolAddTask.
PrepareScript ==
    /\ exec = "give" /\ Wanted(at)
    /\ cmd' = at
    /\ mode' = [mode EXCEPT ![at] = pass]
    /\ exec' = "add"
    /\ UNCHANGED <<service, answer, pass, at, count, sem, failed, pool,
                   history>>

Free == {w \in Workers : worker[w] = "idle"}

\* The first free worker gets the task.
AddTask ==
    /\ exec = "add"
    /\ \E w \in Free :
         /\ \A v \in Free : w <= v
         /\ worker' = [worker EXCEPT ![w] = "posted"]
    /\ exec' = "futex"
    /\ UNCHANGED <<service, answer, pass, at, container, sem, failed, mode,
                   script, history>>

\* With more scripts than MaxWorkers the search goes on past the end of the
\* table, where memory may look like a free worker: nobody gets the task.
AddTaskPastEnd ==
    /\ exec = "add" /\ Free = {} /\ NumScripts > MaxWorkers
    /\ exec' = "futex"
    /\ strayed' = TRUE
    /\ UNCHANGED <<service, answer, pass, at, container, sem, failed, mode,
                   pool, tested>>

\* Slip: it sleeps whatever sem is.
SleepAlways ==
    /\ exec = "futex"
    /\ exec' = "asleep"
    /\ UNCHANGED <<service, answer, pass, at, container, sem, failed, mode,
                   pool, history>>

\* FutexWait(&sem, 0) sleeps only if sem is 0.
WaitForStart ==
    /\ exec = "futex"
    /\ exec' = IF sem = 0 THEN "asleep" ELSE "clear"
    /\ UNCHANGED <<service, answer, pass, at, container, sem, failed, mode,
                   pool, history>>

ClearSem ==
    /\ exec = "clear"
    /\ sem' = 0
    /\ NextScript
    /\ strayed' = (strayed \/ \E w \in Workers : worker[w] \in {"posted", "count"})
    /\ UNCHANGED <<service, answer, pass, container, failed, mode, pool,
                   tested>>

\* Slip: the repairs are started without waiting for the tests.
BarrierForgotten ==
    /\ exec = "barrier"
    /\ IF pass = "test" THEN pass' = "repair" /\ at' = 1 /\ exec' = "give"
                        ELSE count = 0 /\ exec' = "answer" /\ UNCHANGED <<pass, at>>
    /\ UNCHANGED <<service, answer, container, sem, failed, mode, pool,
                   history>>

\* Slip: the answer is given without waiting for the repairs.
BarrierOnce ==
    /\ exec = "barrier"
    /\ pass = "test" => count = 0
    /\ IF pass = "test" THEN pass' = "repair" /\ at' = 1 /\ exec' = "give"
                        ELSE exec' = "answer" /\ UNCHANGED <<pass, at>>
    /\ UNCHANGED <<service, answer, container, sem, failed, mode, pool,
                   history>>

\* __WaitForWorkers.
Barrier ==
    /\ exec = "barrier" /\ count = 0
    /\ IF pass = "test" THEN pass' = "repair" /\ at' = 1 /\ exec' = "give"
                        ELSE exec' = "answer" /\ UNCHANGED <<pass, at>>
    /\ UNCHANGED <<service, answer, container, sem, failed, mode, pool,
                   history>>

\* Slip: the answer of a round that failed stays.
AnswerSticks ==
    /\ exec = "answer"
    /\ answer' = (answer \/ failed # {})
    /\ exec' = "idle"
    /\ UNCHANGED <<service, pass, at, container, sem, failed, mode, pool,
                   history>>

Answer ==
    /\ exec = "answer"
    /\ answer' = (failed # {})
    /\ exec' = "idle"
    /\ UNCHANGED <<service, pass, at, container, sem, failed, mode, pool,
                   history>>
-----------------------------------------------------------------------------
(* A worker: __ExecScriptWorkerThread, called by Worker.                   *)

Moves(w, from, to) ==
    worker[w] = from /\ worker' = [worker EXCEPT ![w] = to]

TakeScript(w) ==
    /\ Moves(w, "posted", "count")
    /\ script' = [script EXCEPT ![w] = cmd]
    /\ UNCHANGED <<service, answer, main, container, sem, failed, mode,
                   history>>

CountUp(w) ==
    /\ Moves(w, "count", "sem")
    /\ count' = count + 1
    /\ UNCHANGED <<service, answer, main, cmd, sem, failed, mode, script,
                   history>>

SetSem(w) ==
    /\ Moves(w, "sem", "wake")
    /\ sem' = 1
    /\ UNCHANGED <<service, answer, main, container, failed, mode, script,
                   history>>

\* FutexWake, whomever the main thread is waiting for by now.
WakeMain(w) ==
    /\ Moves(w, "wake", "run")
    /\ exec' = IF exec = "asleep" THEN "clear" ELSE exec
    /\ UNCHANGED <<service, answer, pass, at, container, sem, failed, mode,
                   script, history>>

\* SpawnAttr with the script's mode.  A worker that found no script in the
\* container crashes the executor.
RunScript(w) ==
    LET c == script[w] IN
    \/ /\ c # NoScript
       /\ Moves(w, "run", "leave")
       /\ failed' \in {failed \ {c}, failed \cup {c}}
       /\ tested' = IF mode[c] = "test" THEN tested \cup {c} ELSE tested
       /\ UNCHANGED <<service, answer, main, container, sem, mode, script,
                      strayed>>
    \/ /\ c = NoScript /\ worker[w] = "run"
       /\ exec' = "dead"
       /\ UNCHANGED <<service, answer, pass, at, container, sem, failed, mode,
                      pool, history>>

\* Slip: the count goes down only where the script succeeded.
CountDownOnSuccess(w) ==
    /\ Moves(w, "leave", "free")
    /\ count' = IF script[w] \in failed THEN count ELSE count - 1
    /\ UNCHANGED <<service, answer, main, cmd, sem, failed, mode, script,
                   history>>

CountDown(w) ==
    /\ Moves(w, "leave", "free")
    /\ count' = count - 1
    /\ UNCHANGED <<service, answer, main, cmd, sem, failed, mode, script,
                   history>>

BecomeFree(w) ==
    /\ Moves(w, "free", "idle")
    /\ UNCHANGED <<service, answer, main, container, sem, failed, mode,
                   script, history>>

ReaderStep == WakeExecutor \/ ReadAnswer

MainStep ==
    \/ BeginRound \/ SkipScript \/ PrepareScript \/ AddTask \/ AddTaskPastEnd
    \/ WaitForStart \/ ClearSem \/ Barrier \/ Answer

WorkerStep(w) ==
    \/ TakeScript(w) \/ CountUp(w) \/ SetSem(w) \/ WakeMain(w)
    \/ RunScript(w) \/ CountDown(w) \/ BecomeFree(w)

Next ==
    \/ ReaderStep
    \/ exec # "dead" /\ (MainStep \/ \E w \in Workers : WorkerStep(w))

Spec == Init /\ [][Next]_vars

\* The threads run, the scripts end, and TestDirThread asks every 30 seconds.
Fairness ==
    /\ WF_vars(ReaderStep)
    /\ WF_vars(MainStep)
    /\ \A w \in Workers : WF_vars(WorkerStep(w))

FairSpec == Spec /\ Fairness
-----------------------------------------------------------------------------
(* Properties.                                                             *)

Places == {"idle", "posted", "count", "sem", "wake", "run", "leave", "free"}

\* The variables have the types the code gives them.
TypeOK ==
    /\ reader \in {"wake", "read"}
    /\ reported \in BOOLEAN /\ answer \in BOOLEAN
    /\ exec \in {"idle", "init", "give", "add", "futex", "asleep", "clear",
                 "barrier", "answer", "dead"}
    /\ pass \in {"test", "repair"} /\ at \in Scripts
    /\ cmd \in Scripts \cup {NoScript}
    /\ count \in Int /\ sem \in {0, 1}
    /\ failed \subseteq Scripts /\ tested \subseteq Scripts /\ strayed \in BOOLEAN
    /\ mode \in [Scripts -> {"test", "repair"}]
    /\ worker \in [Workers -> Places]
    /\ script \in [Workers -> Scripts \cup {NoScript}]

\* "All scripts in this folder will be automatically executed": when the
\* repairs of a round begin, every script's test has run in it.
AllExecuted == pass = "repair" /\ exec \in {"give", "answer"} => tested = Scripts

\* So they are as long as the main thread has waited for each script to be
\* taken: the container with the script and the list with the modes are not
\* changed under a worker that still reads them.
TakenAndExecuted == ~strayed => AllExecuted

\* When the executor answers, no worker is still to run a script: the answer is
\* the state of every script, and the next round's container is no longer in
\* use by a worker of this one.
Quiet ==
    exec \in {"answer", "idle", "init"} /\ ~strayed
        => \A w \in Workers : worker[w] \in {"idle", "free"}

\* The count __WaitForWorkers waits for is the number of workers that are with
\* a script.  (It is not once a round has set it to 0 while a worker that was
\* late in the last one has counted itself.)
CountExact ==
    ~strayed =>
        count = Cardinality({w \in Workers :
                                worker[w] \in {"sem", "wake", "run", "leave"}})

\* No wakeup is lost: while the main thread sleeps on sem, a worker is still to
\* set sem and wake it, although sem is cleared without a look at who set it.
NoLostWakeup ==
    exec = "asleep" =>
        \E w \in Workers : worker[w] \in {"posted", "count", "sem", "wake"}

\* Where something always fails this is reported in the end, for good, although
\* no request waits for its answer and requests are lost.
FailureReported == <>[](failed # {}) => <>[]reported \/ <>strayed

\* Once nothing fails any more, neither does the answer: a round that failed is
\* not held against the next.
FailureForgotten == <>[](failed = {}) => <>[]~reported \/ <>strayed
=============================================================================
