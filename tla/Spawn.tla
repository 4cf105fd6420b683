--------------------------------- MODULE Spawn ---------------------------------
(***************************************************************************)
(* SpawnAttr (exe.cpp): a caller forks an intermediate process, which forks *)
(* the worker that becomes the program and, where there is a time limit,   *)
(* clones a timer; it waits for the first of them to end, kills the other, *)
(* and answers with its own exit status.  The callers are threads of one   *)
(* process, so that any of them can reap the intermediate of another.      *)
(*                                                                         *)
(* A worker that cannot become the program returns into a copy of its      *)
(* caller's code, which serves for ever.                                   *)
(***************************************************************************)
EXTENDS Naturals

CONSTANTS
    Callers,       \* the threads that call
    Limited,       \* those with spawnattr->timeout > 0; Spawn's are without
    MaxFailures    \* bound: how many calls of fork and clone fail

ASSUME CallersAssumption == Limited \subseteq Callers /\ MaxFailures \in Nat

NoResult == 2   \* in the place of an exit status

VARIABLES
    call,      \* the caller: "idle" or in waitpid ("wait")
    forked,    \* did its fork succeed?  (if not, it waits for process -1)
    status,    \* the exit status its last waitpid left
    result,    \* what the last call returned
    inter,     \* the intermediate process
    verdict,   \* the exit status it has or will have
    aborted,   \* has it been aborted?
    worker,    \* the worker process
    ended,     \* how the program ended: its error code is 0 or not, or it was killed
    timer,     \* the timer process
    exceeded,  \* "binary %s exceeded time limit %i" was logged
    failures,  \* how many calls failed
    alive      \* FALSE: a SIGKILL to process -1 has ended the system

processes == <<inter, worker, timer>>
vars == <<call, forked, status, result, processes, verdict, aborted, ended,
          exceeded, failures, alive>>

Init ==
    /\ call = [c \in Callers |-> "idle"]
    /\ forked = [c \in Callers |-> FALSE]
    /\ status = [c \in Callers |-> 0]
    /\ result = [c \in Callers |-> NoResult]
    /\ inter = [c \in Callers |-> "none"]
    /\ verdict = [c \in Callers |-> 0]
    /\ aborted = [c \in Callers |-> FALSE]
    /\ worker = [c \in Callers |-> "none"]
    /\ ended = [c \in Callers |-> "none"]
    /\ timer = [c \in Callers |-> "none"]
    /\ exceeded = [c \in Callers |-> FALSE]
    /\ failures = 0
    /\ alive = TRUE

Moves(p, c, from, to) == p[c] = from /\ p' = [p EXCEPT ![c] = to]

Fails == failures < MaxFailures /\ failures' = failures + 1
-----------------------------------------------------------------------------
(* The caller.                                                             *)

\* What an earlier call has left behind is forgotten.
Call(c) ==
    /\ Moves(call, c, "idle", "wait")
    /\ status' = [status EXCEPT ![c] = 0]
    /\ result' = [result EXCEPT ![c] = NoResult]
    /\ verdict' = [verdict EXCEPT ![c] = 0]
    /\ aborted' = [aborted EXCEPT ![c] = FALSE]
    /\ worker' = [worker EXCEPT ![c] = "none"]
    /\ ended' = [ended EXCEPT ![c] = "none"]
    /\ timer' = [timer EXCEPT ![c] = "none"]
    /\ exceeded' = [exceeded EXCEPT ![c] = FALSE]
    /\ \/ /\ forked' = [forked EXCEPT ![c] = TRUE]
          /\ inter' = [inter EXCEPT ![c] = "fork"]
          /\ UNCHANGED failures
       \/ /\ Fails
          /\ forked' = [forked EXCEPT ![c] = FALSE]
          /\ inter' = [inter EXCEPT ![c] = "none"]
    /\ UNCHANGED alive

\* waitpid(intermediate): WEXITSTATUS of one that was aborted is 0.
Reap(c) ==
    /\ forked[c]
    /\ Moves(inter, c, "zombie", "reaped")
    /\ Moves(call, c, "wait", "idle")
    /\ status' = [status EXCEPT ![c] = verdict[c]]
    /\ result' = [result EXCEPT ![c] = verdict[c]]
    /\ UNCHANGED <<forked, worker, timer, verdict, aborted, ended, exceeded, failures,
                   alive>>

\* waitpid(-1), after fork has failed: any child will do, and it is lost to the
\* caller that waits for it.
ReapAny(c) ==
    /\ ~forked[c] /\ call[c] = "wait"
    /\ \E d \in Callers :
         /\ Moves(inter, d, "zombie", "reaped")
         /\ status' = [status EXCEPT ![c] = verdict[d]]
    /\ UNCHANGED <<call, forked, result, worker, timer, verdict, aborted, ended,
                   exceeded, failures, alive>>

\* It ends when there are no children at all.
NoChildren(c) ==
    /\ ~forked[c]
    /\ \A d \in Callers : inter[d] \in {"none", "reaped"}
    /\ Moves(call, c, "wait", "idle")
    /\ result' = [result EXCEPT ![c] = status[c]]
    /\ UNCHANGED <<forked, status, processes, verdict, aborted, ended, exceeded,
                   failures, alive>>
-----------------------------------------------------------------------------
(* The intermediate.                                                       *)

ForkWorker(c) ==
    /\ Moves(inter, c, "fork", IF c \in Limited THEN "timer" ELSE "wait")
    /\ \/ worker' = [worker EXCEPT ![c] = "run"] /\ UNCHANGED failures
       \/ Fails /\ UNCHANGED worker
    /\ UNCHANGED <<call, forked, status, result, timer, verdict, aborted, ended,
                   exceeded, alive>>

\* A failed clone is an abort.
CloneTimer(c) ==
    /\ inter[c] = "timer"
    /\ \/ /\ inter' = [inter EXCEPT ![c] = "wait"]
          /\ timer' = [timer EXCEPT ![c] = "run"]
          /\ UNCHANGED <<aborted, failures>>
       \/ /\ Fails
          /\ inter' = [inter EXCEPT ![c] = "zombie"]
          /\ aborted' = [aborted EXCEPT ![c] = TRUE]
          /\ UNCHANGED timer
    /\ UNCHANGED <<call, forked, status, result, worker, verdict, ended, exceeded,
                   alive>>

\* Slip: a program that ended first is taken to be in order.
ExitStatusLost(c) == 0

\* WEXITSTATUS: that of a program which was killed is 0.
ExitStatus(c) == IF ended[c] = "error" THEN 1 ELSE 0

\* Slip: the timer is not stopped, and the intermediate waits for it.
WorkerFirstWaitsOn(c) ==
    /\ inter[c] = "wait"
    /\ Moves(worker, c, "zombie", "reaped")
    /\ verdict' = [verdict EXCEPT ![c] = ExitStatus(c)]
    /\ inter' = [inter EXCEPT ![c] = IF c \in Limited THEN "wait" ELSE "zombie"]
    /\ UNCHANGED <<call, forked, status, result, timer, aborted, ended, exceeded,
                   failures, alive>>

\* The worker was the first.
WorkerFirst(c) ==
    /\ inter[c] = "wait"
    /\ Moves(worker, c, "zombie", "reaped")
    /\ verdict' = [verdict EXCEPT ![c] = ExitStatus(c)]
    /\ timer' = IF timer[c] = "run" THEN [timer EXCEPT ![c] = "zombie"] ELSE timer
    /\ inter' = [inter EXCEPT ![c] = IF c \in Limited THEN "second" ELSE "zombie"]
    /\ UNCHANGED <<call, forked, status, result, aborted, ended, exceeded, failures,
                   alive>>

\* Slip: the worker is not killed.
TimerFirstSpares(c) ==
    /\ inter[c] = "wait"
    /\ Moves(timer, c, "zombie", "reaped")
    /\ exceeded' = [exceeded EXCEPT ![c] = TRUE]
    /\ verdict' = [verdict EXCEPT ![c] = 1]
    /\ inter' = [inter EXCEPT ![c] = "second"]
    /\ alive' = (worker[c] # "none")
    /\ UNCHANGED <<call, forked, status, result, worker, aborted, ended, failures>>

\* The timer was the first: kill(worker, SIGKILL), which with a worker of -1
\* kills every process there is.
TimerFirst(c) ==
    /\ inter[c] = "wait"
    /\ Moves(timer, c, "zombie", "reaped")
    /\ exceeded' = [exceeded EXCEPT ![c] = TRUE]
    /\ verdict' = [verdict EXCEPT ![c] = 1]
    /\ inter' = [inter EXCEPT ![c] = "second"]
    /\ alive' = (worker[c] # "none")
    /\ IF worker[c] \in {"run", "copy"}
       THEN /\ worker' = [worker EXCEPT ![c] = "zombie"]
            /\ ended' = [ended EXCEPT ![c] = "killed"]
       ELSE UNCHANGED <<worker, ended>>
    /\ UNCHANGED <<call, forked, status, result, aborted, failures>>

\* Without a limit and without a worker wait() fails at once.
NothingToWaitFor(c) ==
    /\ c \notin Limited /\ worker[c] = "none"
    /\ Moves(inter, c, "wait", "zombie")
    /\ UNCHANGED <<call, forked, status, result, worker, timer, verdict, aborted,
                   ended, exceeded, failures, alive>>

\* Slip: it does not wait for the second.
SecondNotAwaited(c) ==
    /\ Moves(inter, c, "second", "zombie")
    /\ UNCHANGED <<call, forked, status, result, worker, timer, verdict, aborted,
                   ended, exceeded, failures, alive>>

\* The second wait() reaps the other of the two, and the intermediate ends.
WaitSecond(c) ==
    /\ Moves(inter, c, "second", "zombie")
    /\ \/ Moves(worker, c, "zombie", "reaped") /\ UNCHANGED timer
       \/ Moves(timer, c, "zombie", "reaped") /\ UNCHANGED worker
    /\ UNCHANGED <<call, forked, status, result, verdict, aborted, ended, exceeded,
                   failures, alive>>
-----------------------------------------------------------------------------
(* The worker and the timer.                                               *)

\* dup2 or execv fails.
ExecFails(c) ==
    /\ Moves(worker, c, "run", "copy")
    /\ UNCHANGED <<call, forked, status, result, inter, timer, verdict, aborted,
                   ended, exceeded, failures, alive>>

ProgramEnds(c) ==
    /\ Moves(worker, c, "run", "zombie")
    /\ \E how \in {"ok", "error", "killed"} : ended' = [ended EXCEPT ![c] = how]
    /\ UNCHANGED <<call, forked, status, result, inter, timer, verdict, aborted,
                   exceeded, failures, alive>>

\* At the limit, or before it: tv_nsec of the timer's sleep is not initialised.
TimerEnds(c) ==
    /\ Moves(timer, c, "run", "zombie")
    /\ UNCHANGED <<call, forked, status, result, inter, worker, verdict, aborted,
                   ended, exceeded, failures, alive>>

CallerStep(c) == Reap(c) \/ ReapAny(c) \/ NoChildren(c)

InterStep(c) ==
    \/ ForkWorker(c) \/ CloneTimer(c)
    \/ WorkerFirst(c) \/ TimerFirst(c) \/ NothingToWaitFor(c) \/ WaitSecond(c)

Next ==
    /\ alive
    /\ \E c \in Callers :
         \/ Call(c) \/ CallerStep(c) \/ InterStep(c)
         \/ ExecFails(c) \/ ProgramEnds(c) \/ TimerEnds(c)

Spec == Init /\ [][Next]_vars

\* The kernel runs the processes and the timer ends; the program need not.
Fairness ==
    \A c \in Callers :
        /\ WF_vars(alive /\ CallerStep(c))
        /\ WF_vars(alive /\ InterStep(c))
        /\ WF_vars(alive /\ TimerEnds(c))

FairSpec == Spec /\ Fairness
-----------------------------------------------------------------------------
(* Properties.                                                             *)

\* The variables have the types the code gives them.
TypeOK ==
    /\ call \in [Callers -> {"idle", "wait"}]
    /\ forked \in [Callers -> BOOLEAN]
    /\ status \in [Callers -> {0, 1}]
    /\ result \in [Callers -> {0, 1, NoResult}]
    /\ inter \in [Callers -> {"none", "fork", "timer", "wait", "second", "zombie",
                              "reaped"}]
    /\ verdict \in [Callers -> {0, 1}]
    /\ aborted \in [Callers -> BOOLEAN]
    /\ worker \in [Callers -> {"none", "run", "copy", "zombie", "reaped"}]
    /\ ended \in [Callers -> {"none", "ok", "error", "killed"}]
    /\ timer \in [Callers -> {"none", "run", "zombie", "reaped"}]
    /\ exceeded \in [Callers -> BOOLEAN]
    /\ failures \in 0..MaxFailures
    /\ alive \in BOOLEAN

\* An intermediate that ended by itself has left no process behind: the program
\* and the timer are dead and reaped, whichever was the first, also when both ended
\* at once, and whoever has reaped it: its own caller or, after a failed fork,
\* another, whose own caller then waits for ever.  (One that aborts for want of a
\* timer leaves its program behind.)
NothingLeft ==
    \A c \in Callers :
        inter[c] \in {"zombie", "reaped"} /\ ~aborted[c] =>
            /\ worker[c] \in {"none", "reaped"}
            /\ timer[c] \in {"none", "reaped"}

Returned(c) == call[c] = "idle" /\ result[c] # NoResult /\ forked[c] /\ ~aborted[c]

\* The result of a call that forked its intermediate and has returned is a failure
\* exactly if the time limit was logged as exceeded or the program exited with an
\* error code, whatever the timer and the other callers do.  (A program that was
\* killed counts as one that succeeded, which the log does not say either.)
ResultTrue ==
    \A c \in Callers :
        Returned(c) => (result[c] = 1 <=> exceeded[c] \/ ended[c] = "error")

\* kill and tgkill strike a child that nobody has reaped, whose number is still its
\* own, in whatever order the program, the timer and the other callers move; every
\* process is killed only where a limit ran out on a worker whose fork had failed.
KillsOnlyOwn ==
    /\ \A c \in Callers :
         inter[c] = "second" /\ alive => {worker[c], timer[c]} = {"zombie", "reaped"}
    /\ ~alive => \E c \in Limited :
                   worker[c] = "none" /\ exceeded[c] /\ failures > 0

\* A call with a time limit returns, also when the program does not end and while
\* another caller waits for one without a limit, unless a fork or clone has failed.
CallReturns ==
    \A c \in Limited : call[c] = "wait" ~> call[c] = "idle" \/ failures > 0
=============================================================================
