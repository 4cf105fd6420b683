------------------------------ MODULE SpawnProofs ------------------------------
(***************************************************************************)
(* Proofs about Spawn, for any set of callers, any of them with a time     *)
(* limit, and any number of failing calls: the types, that a call leaves   *)
(* no process behind, that its result is the true one, and what is killed; *)
(* that it has finitely many steps, and that with a limit its caller is    *)
(* never left waiting for nobody.                                          *)
(***************************************************************************)
EXTENDS Spawn, TLAPS

Gone(c) == worker[c] \in {"none", "reaped"} /\ timer[c] \in {"none", "reaped"}

VerdictTrue(c) == verdict[c] = 1 <=> exceeded[c] \/ ended[c] = "error"

\* The strengthening: what each place of the intermediate says of the worker, of
\* the timer and of the verdict, and what a result says of the intermediate.
ProcessInv(c) ==
    /\ inter[c] = "fork" => worker[c] = "none" /\ timer[c] = "none"
    /\ inter[c] = "timer" => worker[c] # "reaped" /\ timer[c] = "none" /\ c \in Limited
    /\ inter[c] = "wait" => /\ worker[c] # "reaped"
                            /\ c \in Limited => timer[c] \in {"run", "zombie"}
                            /\ c \notin Limited => timer[c] = "none"
    /\ inter[c] \in {"fork", "timer", "wait"}
         => verdict[c] = 0 /\ ~exceeded[c] /\ ~aborted[c]
    /\ inter[c] = "second" /\ alive
         => \/ worker[c] = "reaped" /\ timer[c] = "zombie"
            \/ worker[c] = "zombie" /\ timer[c] = "reaped"
    /\ inter[c] \in {"zombie", "reaped"} /\ ~aborted[c] => Gone(c)
    /\ inter[c] \in {"second", "zombie", "reaped"} /\ ~aborted[c] => VerdictTrue(c)
    /\ worker[c] \in {"none", "run", "copy"} => ended[c] = "none"
    /\ result[c] # NoResult /\ forked[c] => inter[c] = "reaped" /\ result[c] = verdict[c]

IInv == TypeOK /\ \A c \in Callers : ProcessInv(c)

\* What is true of a caller stays true while its own values do.
LEMMA Frame ==
    ASSUME NEW d \in Callers, ProcessInv(d), alive,
           /\ inter'[d] = inter[d] /\ worker'[d] = worker[d] /\ timer'[d] = timer[d]
           /\ verdict'[d] = verdict[d] /\ exceeded'[d] = exceeded[d]
           /\ aborted'[d] = aborted[d] /\ ended'[d] = ended[d]
           /\ result'[d] = result[d] /\ forked'[d] = forked[d]
    PROVE  ProcessInv(d)'
BY DEF ProcessInv, Gone, VerdictTrue

\* The callers and their processes start with the types the code gives them.
LEMMA InitTyped == Init => TypeOK
<1> SUFFICES ASSUME Init PROVE TypeOK
  OBVIOUS
<1>1. /\ forked \in [Callers -> BOOLEAN] /\ aborted \in [Callers -> BOOLEAN]
      /\ exceeded \in [Callers -> BOOLEAN] /\ alive \in BOOLEAN
  BY Zenon DEF Init
<1>2. /\ call \in [Callers -> {"idle", "wait"}]
      /\ result \in [Callers -> {0, 1, NoResult}]
      /\ inter \in [Callers -> {"none", "fork", "timer", "wait", "second", "zombie",
                                "reaped"}]
  BY DEF Init
<1>3. /\ status \in [Callers -> {0, 1}] /\ verdict \in [Callers -> {0, 1}]
  BY DEF Init
<1>4. /\ worker \in [Callers -> {"none", "run", "copy", "zombie", "reaped"}]
      /\ ended \in [Callers -> {"none", "ok", "error", "killed"}]
      /\ timer \in [Callers -> {"none", "run", "zombie", "reaped"}]
  BY DEF Init
<1>5. failures \in 0..MaxFailures
  BY CallersAssumption DEF Init
<1> QED BY <1>1, <1>2, <1>3, <1>4, <1>5 DEF TypeOK

\* A call starts from nothing.
LEMMA CallKeeps ==
    ASSUME IInv, alive, NEW c \in Callers, Call(c)
    PROVE  IInv'
<1> USE DEF IInv
<1>1. forked' \in [Callers -> BOOLEAN]
  <2>1. forked' \in {[forked EXCEPT ![c] = TRUE], [forked EXCEPT ![c] = FALSE]}
    BY DEF Call
  <2> QED BY <2>1 DEF TypeOK
<1>2. inter'[c] \in {"fork", "none"}
      /\ inter' \in [Callers -> {"none", "fork", "timer", "wait", "second", "zombie",
                                 "reaped"}]
  BY DEF Call, TypeOK
<1>3. failures' \in 0..MaxFailures
  BY CallersAssumption DEF Call, Fails, TypeOK
<1>4. /\ aborted' = [aborted EXCEPT ![c] = FALSE]
      /\ exceeded' = [exceeded EXCEPT ![c] = FALSE]
      /\ alive' = alive
  BY DEF Call
<1>5. aborted' \in [Callers -> BOOLEAN] /\ exceeded' \in [Callers -> BOOLEAN]
  BY <1>4 DEF TypeOK
<1>6. /\ call' \in [Callers -> {"idle", "wait"}]
      /\ status' \in [Callers -> {0, 1}]
      /\ result' \in [Callers -> {0, 1, NoResult}]
      /\ verdict' \in [Callers -> {0, 1}]
      /\ worker' \in [Callers -> {"none", "run", "copy", "zombie", "reaped"}]
      /\ ended' \in [Callers -> {"none", "ok", "error", "killed"}]
      /\ timer' \in [Callers -> {"none", "run", "zombie", "reaped"}]
  BY DEF Call, Moves, TypeOK
<1>7. TypeOK'
  BY <1>1, <1>2, <1>3, <1>4, <1>5, <1>6 DEF TypeOK
<1>8. /\ worker'[c] = "none" /\ timer'[c] = "none" /\ ended'[c] = "none"
      /\ verdict'[c] = 0 /\ result'[c] = NoResult /\ ~exceeded'[c] /\ ~aborted'[c]
  BY <1>4 DEF Call, TypeOK
<1>9. ProcessInv(c)'
  BY <1>2, <1>8 DEF ProcessInv
<1>10. ASSUME NEW d \in Callers, d # c PROVE ProcessInv(d)'
  <2>1. inter'[d] = inter[d] /\ forked'[d] = forked[d]
    BY <1>10 DEF Call, TypeOK
  <2>2. /\ worker'[d] = worker[d] /\ timer'[d] = timer[d] /\ verdict'[d] = verdict[d]
        /\ exceeded'[d] = exceeded[d] /\ aborted'[d] = aborted[d]
        /\ ended'[d] = ended[d] /\ result'[d] = result[d]
    BY <1>10 DEF Call, TypeOK
  <2> QED BY <2>1, <2>2, Frame
<1> QED BY <1>7, <1>9, <1>10

\* The waits of a caller reap an intermediate, and say what it said.
LEMMA CallerKeeps ==
    ASSUME IInv, alive, NEW c \in Callers, CallerStep(c)
    PROVE  IInv'
<1> USE DEF IInv
<1>1. CASE Reap(c)
  <2>1. TypeOK'
    BY <1>1 DEF Reap, Moves, TypeOK
  <2>2. /\ inter[c] = "zombie" /\ inter'[c] = "reaped" /\ result'[c] = verdict[c]
        /\ UNCHANGED <<forked, worker, timer, verdict, aborted, ended, exceeded, alive>>
        /\ \A d \in Callers \ {c} : inter'[d] = inter[d] /\ result'[d] = result[d]
    BY <1>1 DEF Reap, Moves, TypeOK
  <2>3. ProcessInv(c)'
    BY <2>2 DEF ProcessInv, Gone, VerdictTrue
  <2>4. ASSUME NEW d \in Callers, d # c PROVE ProcessInv(d)'
    BY <2>2, <2>4, Frame
  <2> QED BY <2>1, <2>3, <2>4
<1>2. CASE ReapAny(c)
  <2>1. PICK e \in Callers : /\ Moves(inter, e, "zombie", "reaped")
                             /\ status' = [status EXCEPT ![c] = verdict[e]]
    BY <1>2 DEF ReapAny
  <2>2. UNCHANGED <<call, forked, result, worker, timer, verdict, aborted, ended,
                    exceeded, failures, alive>>
    BY <1>2 DEF ReapAny
  <2>3. /\ inter[e] = "zombie" /\ inter'[e] = "reaped"
        /\ \A d \in Callers \ {e} : inter'[d] = inter[d]
    BY <2>1 DEF Moves, TypeOK
  <2>4. TypeOK'
    BY <2>1, <2>2 DEF Moves, TypeOK
  <2>5. ProcessInv(e)'
    BY <2>2, <2>3 DEF ProcessInv, Gone, VerdictTrue
  <2>6. ASSUME NEW d \in Callers, d # e PROVE ProcessInv(d)'
    BY <2>2, <2>3, <2>6, Frame
  <2> QED BY <2>4, <2>5, <2>6
<1>3. CASE NoChildren(c)
  <2>1. TypeOK'
    BY <1>3 DEF NoChildren, Moves, TypeOK, processes
  <2>2. /\ UNCHANGED <<forked, inter, worker, timer, verdict, aborted, ended, exceeded,
                       alive>>
        /\ ~forked[c]
        /\ \A d \in Callers \ {c} : result'[d] = result[d]
    BY <1>3 DEF NoChildren, processes, TypeOK
  <2>3. ProcessInv(c)'
    BY <2>2 DEF ProcessInv, Gone, VerdictTrue
  <2>4. ASSUME NEW d \in Callers, d # c PROVE ProcessInv(d)'
    BY <2>2, <2>4, Frame
  <2> QED BY <2>1, <2>3, <2>4
<1> QED BY <1>1, <1>2, <1>3 DEF CallerStep

\* What a step of the intermediate, the worker or the timer of c leaves alone:
\* the callers, and everything of the other calls.
Others(c) ==
    /\ UNCHANGED <<call, forked, status, result>>
    /\ \A d \in Callers \ {c} :
         /\ inter'[d] = inter[d] /\ worker'[d] = worker[d] /\ timer'[d] = timer[d]
         /\ verdict'[d] = verdict[d] /\ exceeded'[d] = exceeded[d]
         /\ aborted'[d] = aborted[d] /\ ended'[d] = ended[d]

\* The other calls keep what is true of them.
LEMMA OthersKeep ==
    ASSUME IInv, alive, NEW c \in Callers, Others(c), ProcessInv(c)'
    PROVE  \A d \in Callers : ProcessInv(d)'
<1> SUFFICES ASSUME NEW d \in Callers, d # c PROVE ProcessInv(d)'
  OBVIOUS
<1> QED BY Frame DEF Others, IInv

\* The intermediate starts the worker and the timer.
LEMMA StartKeeps ==
    ASSUME IInv, alive, NEW c \in Callers, ForkWorker(c) \/ CloneTimer(c)
    PROVE  IInv'
<1> USE DEF IInv
<1>1. CASE ForkWorker(c)
  <2>1. /\ inter[c] = "fork" /\ inter' = [inter EXCEPT ![c] =
                                  IF c \in Limited THEN "timer" ELSE "wait"]
        /\ worker' \in {worker, [worker EXCEPT ![c] = "run"]}
        /\ UNCHANGED <<call, forked, status, result, timer, verdict, aborted, ended,
                       exceeded, alive>>
    BY <1>1 DEF ForkWorker, Moves
  <2>2. failures' \in 0..MaxFailures
    BY <1>1, CallersAssumption DEF ForkWorker, Fails, TypeOK
  <2>3. TypeOK'
    BY <2>1, <2>2 DEF TypeOK
  <2>4. ProcessInv(c)'
    BY <2>1 DEF ProcessInv, TypeOK
  <2>5. Others(c)
    BY <2>1 DEF Others, TypeOK
  <2> QED BY <2>3, <2>4, <2>5, OthersKeep
<1>2. CASE CloneTimer(c)
  <2>1. /\ inter[c] = "timer"
        /\ UNCHANGED <<call, forked, status, result, worker, verdict, ended, exceeded,
                       alive>>
    BY <1>2 DEF CloneTimer
  <2>2. \/ /\ inter' = [inter EXCEPT ![c] = "wait"]
           /\ timer' = [timer EXCEPT ![c] = "run"] /\ aborted' = aborted
        \/ /\ inter' = [inter EXCEPT ![c] = "zombie"]
           /\ aborted' = [aborted EXCEPT ![c] = TRUE] /\ timer' = timer
    BY <1>2 DEF CloneTimer
  <2>3. failures' \in 0..MaxFailures
    BY <1>2, CallersAssumption DEF CloneTimer, Fails, TypeOK
  <2>4. CASE aborted' = aborted /\ inter'[c] = "wait"
    <3>1. inter' = [inter EXCEPT ![c] = "wait"] /\ timer' = [timer EXCEPT ![c] = "run"]
      BY <2>2, <2>4 DEF TypeOK
    <3>2. TypeOK'
      BY <2>1, <2>3, <2>4, <3>1 DEF TypeOK
    <3>3. ProcessInv(c)'
      BY <2>1, <2>4, <3>1 DEF ProcessInv, TypeOK
    <3>4. Others(c)
      BY <2>1, <2>4, <3>1 DEF Others, TypeOK
    <3> QED BY <3>2, <3>3, <3>4, OthersKeep
  <2>5. CASE /\ inter' = [inter EXCEPT ![c] = "zombie"]
             /\ aborted' = [aborted EXCEPT ![c] = TRUE] /\ timer' = timer
    <3>1. TypeOK'
      BY <2>1, <2>3, <2>5 DEF TypeOK
    <3>2. aborted'[c]
      BY <2>5 DEF TypeOK
    <3>3. ProcessInv(c)'
      BY <2>1, <2>5, <3>2 DEF ProcessInv, TypeOK
    <3>4. Others(c)
      BY <2>1, <2>5 DEF Others, TypeOK
    <3> QED BY <3>1, <3>3, <3>4, OthersKeep
  <2> QED BY <2>2, <2>4, <2>5 DEF TypeOK
<1> QED BY <1>1, <1>2

\* The intermediate waits for the first, and for the second.
LEMMA WaitKeeps ==
    ASSUME IInv, alive, NEW c \in Callers,
           WorkerFirst(c) \/ TimerFirst(c) \/ NothingToWaitFor(c) \/ WaitSecond(c)
    PROVE  IInv'
<1> USE DEF IInv
<1>1. CASE WorkerFirst(c)
  <2>1. /\ inter[c] = "wait" /\ worker[c] = "zombie"
        /\ inter' = [inter EXCEPT ![c] = IF c \in Limited THEN "second" ELSE "zombie"]
        /\ worker' = [worker EXCEPT ![c] = "reaped"]
        /\ verdict' = [verdict EXCEPT ![c] = IF ended[c] = "error" THEN 1 ELSE 0]
        /\ UNCHANGED <<call, forked, status, result, aborted, ended, exceeded, failures,
                       alive>>
    BY <1>1 DEF WorkerFirst, Moves, ExitStatus
  <2>2. timer' = IF timer[c] = "run" THEN [timer EXCEPT ![c] = "zombie"] ELSE timer
    BY <1>1 DEF WorkerFirst
  <2>3. TypeOK'
    BY <2>1, <2>2 DEF TypeOK
  <2>4. /\ c \in Limited => timer'[c] = "zombie"
        /\ c \notin Limited => timer'[c] = "none"
    BY <2>1, <2>2 DEF ProcessInv, TypeOK
  <2>5. VerdictTrue(c)'
    BY <2>1 DEF ProcessInv, TypeOK, VerdictTrue
  <2>6. ProcessInv(c)'
    BY <2>1, <2>4, <2>5 DEF ProcessInv, TypeOK, Gone
  <2>7. Others(c)
    BY <2>1, <2>2 DEF Others, TypeOK
  <2> QED BY <2>3, <2>6, <2>7, OthersKeep
<1>2. CASE TimerFirst(c)
  <2>1. /\ inter[c] = "wait" /\ timer[c] = "zombie"
        /\ timer' = [timer EXCEPT ![c] = "reaped"]
        /\ exceeded' = [exceeded EXCEPT ![c] = TRUE]
        /\ verdict' = [verdict EXCEPT ![c] = 1]
        /\ inter' = [inter EXCEPT ![c] = "second"]
        /\ alive' = (worker[c] # "none")
        /\ UNCHANGED <<call, forked, status, result, aborted, failures>>
    BY <1>2 DEF TimerFirst, Moves
  <2>2. \/ /\ worker[c] \in {"run", "copy"}
           /\ worker' = [worker EXCEPT ![c] = "zombie"]
           /\ ended' = [ended EXCEPT ![c] = "killed"]
        \/ /\ worker[c] \notin {"run", "copy"} /\ worker' = worker /\ ended' = ended
    BY <1>2 DEF TimerFirst
  <2>3. alive' \in BOOLEAN
    BY <2>1, Zenon
  <2>4. TypeOK'
    BY <2>1, <2>2, <2>3 DEF TypeOK
  <2>5. exceeded'[c] /\ verdict'[c] = 1 /\ timer'[c] = "reaped" /\ inter'[c] = "second"
    BY <2>1 DEF TypeOK
  <2>6. /\ alive' => worker'[c] = "zombie"
        /\ worker'[c] \in {"none", "run", "copy"} => ended'[c] = "none"
    BY <2>1, <2>2 DEF TypeOK, ProcessInv
  <2>7. result'[c] # NoResult /\ forked'[c] => FALSE
    BY <2>1 DEF ProcessInv
  <2>8. ProcessInv(c)'
    BY <2>5, <2>6, <2>7 DEF ProcessInv, VerdictTrue
  <2>9. Others(c)
    BY <2>1, <2>2 DEF Others, TypeOK
  <2> QED BY <2>4, <2>8, <2>9, OthersKeep
<1>3. CASE NothingToWaitFor(c)
  <2>1. /\ c \notin Limited /\ worker[c] = "none" /\ inter[c] = "wait"
        /\ inter' = [inter EXCEPT ![c] = "zombie"]
        /\ UNCHANGED <<call, forked, status, result, worker, timer, verdict, aborted,
                       ended, exceeded, failures, alive>>
    BY <1>3 DEF NothingToWaitFor, Moves
  <2>2. TypeOK'
    BY <2>1 DEF TypeOK
  <2>3. ProcessInv(c)'
    BY <2>1 DEF ProcessInv, TypeOK, Gone, VerdictTrue
  <2>4. Others(c)
    BY <2>1 DEF Others, TypeOK
  <2> QED BY <2>2, <2>3, <2>4, OthersKeep
<1>4. CASE WaitSecond(c)
  <2>1. /\ inter[c] = "second"
        /\ inter' = [inter EXCEPT ![c] = "zombie"]
        /\ UNCHANGED <<call, forked, status, result, verdict, aborted, ended, exceeded,
                       failures, alive>>
    BY <1>4 DEF WaitSecond, Moves
  <2>2. \/ /\ worker[c] = "zombie" /\ timer' = timer
           /\ worker' = [worker EXCEPT ![c] = "reaped"]
        \/ /\ timer[c] = "zombie" /\ worker' = worker
           /\ timer' = [timer EXCEPT ![c] = "reaped"]
    BY <1>4 DEF WaitSecond, Moves
  <2>3. TypeOK'
    BY <2>1, <2>2 DEF TypeOK
  <2>4. worker'[c] = "reaped" /\ timer'[c] = "reaped"
    BY <2>1, <2>2 DEF ProcessInv, TypeOK
  <2>5. VerdictTrue(c)' <=> VerdictTrue(c)
    BY <2>1 DEF VerdictTrue
  <2>6. ProcessInv(c)'
    BY <2>1, <2>4, <2>5 DEF ProcessInv, TypeOK, Gone
  <2>7. Others(c)
    BY <2>1, <2>2 DEF Others, TypeOK
  <2> QED BY <2>3, <2>6, <2>7, OthersKeep
<1> QED BY <1>1, <1>2, <1>3, <1>4

\* The worker and the timer run on their own.
LEMMA ChildrenKeep ==
    ASSUME IInv, alive, NEW c \in Callers,
           ExecFails(c) \/ ProgramEnds(c) \/ TimerEnds(c)
    PROVE  IInv'
<1> USE DEF IInv
<1>1. CASE ExecFails(c)
  <2>1. /\ worker[c] = "run" /\ worker' = [worker EXCEPT ![c] = "copy"]
        /\ UNCHANGED <<call, forked, status, result, inter, timer, verdict, aborted,
                       ended, exceeded, failures, alive>>
    BY <1>1 DEF ExecFails, Moves
  <2>2. TypeOK'
    BY <2>1 DEF TypeOK
  <2>3. ProcessInv(c)'
    BY <2>1 DEF ProcessInv, TypeOK, Gone, VerdictTrue
  <2>4. Others(c)
    BY <2>1 DEF Others, TypeOK
  <2> QED BY <2>2, <2>3, <2>4, OthersKeep
<1>2. CASE ProgramEnds(c)
  <2>1. /\ worker[c] = "run" /\ worker' = [worker EXCEPT ![c] = "zombie"]
        /\ UNCHANGED <<call, forked, status, result, inter, timer, verdict, aborted,
                       exceeded, failures, alive>>
    BY <1>2 DEF ProgramEnds, Moves
  <2>2. PICK how \in {"ok", "error", "killed"} : ended' = [ended EXCEPT ![c] = how]
    BY <1>2 DEF ProgramEnds
  <2>3. TypeOK'
    BY <2>1, <2>2 DEF TypeOK
  <2>4. inter[c] \in {"second", "zombie", "reaped"} => aborted[c]
    BY <2>1 DEF ProcessInv, Gone
  <2>5. ProcessInv(c)'
    BY <2>1, <2>4 DEF ProcessInv, TypeOK
  <2>6. Others(c)
    BY <2>1, <2>2 DEF Others, TypeOK
  <2> QED BY <2>3, <2>5, <2>6, OthersKeep
<1>3. CASE TimerEnds(c)
  <2>1. /\ timer[c] = "run" /\ timer' = [timer EXCEPT ![c] = "zombie"]
        /\ UNCHANGED <<call, forked, status, result, inter, worker, verdict, aborted,
                       ended, exceeded, failures, alive>>
    BY <1>3 DEF TimerEnds, Moves
  <2>2. TypeOK'
    BY <2>1 DEF TypeOK
  <2>3. ProcessInv(c)'
    BY <2>1 DEF ProcessInv, TypeOK, Gone, VerdictTrue
  <2>4. Others(c)
    BY <2>1 DEF Others, TypeOK
  <2> QED BY <2>2, <2>3, <2>4, OthersKeep
<1> QED BY <1>1, <1>2, <1>3
-----------------------------------------------------------------------------
\* The strengthened invariant of SpawnAttr.
THEOREM Invariance == Spec => []IInv
<1>1. Init => IInv
  <2> SUFFICES ASSUME Init PROVE IInv
    OBVIOUS
  <2>1. ASSUME NEW c \in Callers PROVE ProcessInv(c)
    BY DEF Init, ProcessInv
  <2> QED BY <2>1, InitTyped DEF IInv
<1>2. IInv /\ [Next]_vars => IInv'
  <2> SUFFICES ASSUME IInv, [Next]_vars PROVE IInv'
    OBVIOUS
  <2>1. CASE UNCHANGED vars
    BY <2>1 DEF vars, processes, IInv, TypeOK, ProcessInv, Gone, VerdictTrue
  <2>2. CASE Next
    <3>1. alive
      BY <2>2 DEF Next
    <3>2. PICK c \in Callers :
            \/ Call(c) \/ CallerStep(c) \/ InterStep(c)
            \/ ExecFails(c) \/ ProgramEnds(c) \/ TimerEnds(c)
      BY <2>2 DEF Next
    <3>3. CASE Call(c)
      BY <3>1, <3>3, CallKeeps
    <3>4. CASE CallerStep(c)
      BY <3>1, <3>4, CallerKeeps
    <3>5. CASE InterStep(c)
      BY <3>1, <3>5, StartKeeps, WaitKeeps DEF InterStep
    <3>6. CASE ExecFails(c) \/ ProgramEnds(c) \/ TimerEnds(c)
      BY <3>1, <3>6, ChildrenKeep
    <3> QED BY <3>2, <3>3, <3>4, <3>5, <3>6
  <2> QED BY <2>1, <2>2
<1> QED BY <1>1, <1>2, PTL DEF Spec

\* Every variable of a call keeps the type the code gives it.
THEOREM TypeCorrect == Spec => []TypeOK
<1>1. IInv => TypeOK
  BY DEF IInv
<1> QED BY <1>1, Invariance, PTL

\* An intermediate that ended by itself leaves neither its program nor its timer
\* behind, whichever calls of fork and clone fail and whoever reaps it: its own
\* caller or another.
THEOREM NothingLeftBehind == Spec => []NothingLeft
<1>1. IInv => NothingLeft
  BY DEF IInv, NothingLeft, ProcessInv, Gone
<1> QED BY <1>1, Invariance, PTL

\* The result of a call that forked its intermediate and returned is a failure
\* exactly if the limit was exceeded or the program exited with an error code.
THEOREM ResultIsTrue == Spec => []ResultTrue
<1>1. IInv => ResultTrue
  BY DEF IInv, ResultTrue, ProcessInv, Returned, VerdictTrue
<1> QED BY <1>1, Invariance, PTL

\* The strengthening for what is killed: a worker is missing after its fork only if
\* a call has failed.
MissingInv ==
    /\ \A c \in Callers :
         inter[c] \in {"timer", "wait"} /\ worker[c] = "none" => failures > 0
    /\ ~alive => \E c \in Limited :
                   worker[c] = "none" /\ exceeded[c] /\ failures > 0

\* A step leaves no worker missing without a failed call.
LEMMA MissingKept ==
    ASSUME IInv, IInv', alive, MissingInv, NEW c \in Callers,
           Call(c) \/ CallerStep(c) \/ InterStep(c)
             \/ ExecFails(c) \/ ProgramEnds(c) \/ TimerEnds(c)
    PROVE  MissingInv'
<1> USE DEF IInv
<1>1. failures \in Nat /\ failures' \in Nat
  BY CallersAssumption DEF TypeOK
<1>2. CASE TimerFirst(c)
  <2>1. /\ inter[c] = "wait" /\ timer[c] = "zombie"
        /\ inter' = [inter EXCEPT ![c] = "second"]
        /\ exceeded' = [exceeded EXCEPT ![c] = TRUE]
        /\ alive' = (worker[c] # "none") /\ failures' = failures
    BY <1>2 DEF TimerFirst, Moves
  <2>2. \A d \in Callers : worker'[d] = "none" <=> worker[d] = "none"
    BY <1>2 DEF TimerFirst, TypeOK
  <2>3. c \in Limited
    BY <2>1 DEF ProcessInv
  <2>4. exceeded'[c]
    BY <2>1 DEF TypeOK
  <2>5. ~alive' => worker'[c] = "none" /\ exceeded'[c] /\ failures' > 0
    <3> SUFFICES ASSUME ~alive'
                 PROVE  worker'[c] = "none" /\ exceeded'[c] /\ failures' > 0
      OBVIOUS
    <3>1. worker[c] = "none"
      BY <2>1
    <3>2. failures > 0
      BY <2>1, <3>1 DEF MissingInv
    <3> QED BY <2>1, <2>2, <2>4, <3>1, <3>2
  <2>6. ASSUME NEW d \in Callers, inter'[d] \in {"timer", "wait"}, worker'[d] = "none"
        PROVE  failures' > 0
    <3>1. inter[d] = inter'[d] /\ worker[d] = "none"
      BY <2>1, <2>2, <2>6 DEF TypeOK
    <3> QED BY <2>1, <2>6, <3>1 DEF MissingInv
  <2> QED BY <2>3, <2>5, <2>6 DEF MissingInv
<1>3. CASE ~TimerFirst(c)
  <2>1. alive'
    BY <1>3 DEF Call, CallerStep, Reap, ReapAny, NoChildren, InterStep, ForkWorker,
                CloneTimer, WorkerFirst, NothingToWaitFor, WaitSecond, ExecFails,
                ProgramEnds, TimerEnds
  <2>2. ASSUME NEW d \in Callers, inter'[d] \in {"timer", "wait"}, worker'[d] = "none"
        PROVE  failures' > 0
    <3>1. CASE ForkWorker(c)
      <4>1. /\ inter[c] = "fork" /\ \A e \in Callers \ {c} : inter'[e] = inter[e]
            /\ \/ worker' = [worker EXCEPT ![c] = "run"] /\ failures' = failures
               \/ failures' = failures + 1 /\ worker' = worker
        BY <3>1 DEF ForkWorker, Moves, Fails, TypeOK
      <4> QED BY <1>1, <2>2, <4>1 DEF MissingInv, TypeOK
    <3>2. CASE Call(c)
      <4>1. /\ d # c /\ inter'[d] = inter[d] /\ worker'[d] = worker[d]
            /\ failures' \in {failures, failures + 1}
        BY <2>2, <3>2 DEF Call, Fails, TypeOK
      <4> QED BY <1>1, <2>2, <4>1 DEF MissingInv
    <3>3. CASE CloneTimer(c)
      <4>1. /\ inter[d] \in {"timer", "wait"} /\ worker'[d] = worker[d]
            /\ failures' \in {failures, failures + 1}
        BY <2>2, <3>3 DEF CloneTimer, Fails, TypeOK
      <4> QED BY <1>1, <2>2, <4>1 DEF MissingInv
    <3>4. CASE CallerStep(c)
      <4>1. worker' = worker /\ failures' = failures
        BY <3>4 DEF CallerStep, Reap, ReapAny, NoChildren, Moves, processes
      <4>2. inter[d] = inter'[d]
        <5>1. CASE Reap(c)
          BY <2>2, <5>1 DEF Reap, Moves, TypeOK
        <5>2. CASE ReapAny(c)
          BY <2>2, <5>2 DEF ReapAny, Moves, TypeOK
        <5>3. CASE NoChildren(c)
          BY <5>3 DEF NoChildren, processes
        <5> QED BY <3>4, <5>1, <5>2, <5>3 DEF CallerStep
      <4> QED BY <2>2, <4>1, <4>2 DEF MissingInv
    <3>5. CASE WorkerFirst(c) \/ NothingToWaitFor(c) \/ WaitSecond(c)
      <4>1. CASE WorkerFirst(c)
        <5>1. d # c /\ inter[d] = inter'[d] /\ worker[d] = worker'[d]
              /\ failures' = failures
          BY <2>2, <4>1 DEF WorkerFirst, Moves, TypeOK
        <5> QED BY <2>2, <5>1 DEF MissingInv
      <4>2. CASE NothingToWaitFor(c)
        <5>1. inter[d] = inter'[d] /\ worker[d] = worker'[d] /\ failures' = failures
          BY <2>2, <4>2 DEF NothingToWaitFor, Moves, TypeOK
        <5> QED BY <2>2, <5>1 DEF MissingInv
      <4>3. CASE WaitSecond(c)
        <5>1. d # c /\ inter[d] = inter'[d] /\ worker[d] = worker'[d]
              /\ failures' = failures
          BY <2>2, <4>3 DEF WaitSecond, Moves, TypeOK
        <5> QED BY <2>2, <5>1 DEF MissingInv
      <4> QED BY <3>5, <4>1, <4>2, <4>3
    <3>6. CASE ExecFails(c) \/ ProgramEnds(c) \/ TimerEnds(c)
      <4>1. inter' = inter /\ failures' = failures
        BY <3>6 DEF ExecFails, ProgramEnds, TimerEnds
      <4>2. worker' \in {worker, [worker EXCEPT ![c] = "copy"],
                         [worker EXCEPT ![c] = "zombie"]}
        BY <3>6 DEF ExecFails, ProgramEnds, TimerEnds, Moves
      <4>3. worker[d] = "none"
        BY <2>2, <4>2 DEF TypeOK
      <4> QED BY <2>2, <4>1, <4>3 DEF MissingInv
    <3> QED BY <1>3, <3>1, <3>2, <3>3, <3>4, <3>5, <3>6 DEF InterStep
  <2> QED BY <2>1, <2>2 DEF MissingInv
<1> QED BY <1>2, <1>3

\* Only children that nobody has reaped are killed, and every process only where a
\* limit ran out on a worker whose fork had failed.
THEOREM OnlyOwnKilled == Spec => []KillsOnlyOwn
<1>1. Init => MissingInv
  BY DEF Init, MissingInv
<1>2. IInv /\ IInv' /\ MissingInv /\ [Next]_vars => MissingInv'
  <2>1. CASE UNCHANGED vars
    BY <2>1 DEF vars, processes, MissingInv
  <2> QED BY <2>1, MissingKept DEF Next
<1>3. IInv /\ MissingInv => KillsOnlyOwn
  BY DEF IInv, MissingInv, ProcessInv, KillsOnlyOwn
<1> QED BY <1>1, <1>2, <1>3, Invariance, PTL DEF Spec
-----------------------------------------------------------------------------
(* Why a call returns: the part of CallReturns that needs no fairness.     *)

\* How far the processes of a call have to go, and whether its timer still runs.
Place(c) ==
    CASE inter[c] = "fork"   -> 10
      [] inter[c] = "timer"  -> 8
      [] inter[c] = "wait"   -> 6
      [] inter[c] = "second" -> 4
      [] inter[c] = "zombie" -> 2
      [] OTHER               -> 0

Left(c) == Place(c) + (IF timer[c] = "run" THEN 1 ELSE 0)

\* The steps that take a call to its end, but for those of its program, which
\* may take no end.
CallStep(c) == InterStep(c) \/ TimerEnds(c) \/ Reap(c)

\* Each of them descends, and what other callers do never takes a call back.
CallDescends ==
    \A c \in Callers :
        /\ CallStep(c) => Left(c)' < Left(c)
        /\ Call(c) \/ Left(c)' <= Left(c)

\* Somebody has a step to make for the call: the intermediate, or a program or a
\* timer it waits for.  A program that runs is not counted on.
Awaited(c) ==
    CASE inter[c] = "wait"   -> worker[c] = "zombie" \/ timer[c] \in {"run", "zombie"}
      [] inter[c] = "second" -> "zombie" \in {worker[c], timer[c]}
      [] OTHER               -> inter[c] \in {"fork", "timer", "zombie"}

\* Without a failed call a caller waits for its own intermediate, which nobody
\* else reaps.
ForkInv ==
    \A c \in Callers :
        call[c] = "wait" /\ (~forked[c] \/ inter[c] \in {"none", "reaped"}) => failures > 0

LEMMA LeftNat ==
    ASSUME NEW c \in Callers
    PROVE  Left(c) \in Nat /\ Left(c)' \in Nat
BY DEF Left, Place

\* A call is taken on by a step of its own.
LEMMA OwnStepDescends ==
    ASSUME TypeOK, NEW c \in Callers, CallStep(c)
    PROVE  Left(c)' < Left(c)
<1> USE DEF Left, Place, TypeOK, Moves
<1>1. CASE ForkWorker(c)
  <2>1. inter[c] = "fork" /\ inter'[c] \in {"timer", "wait"} /\ timer' = timer
    BY <1>1 DEF ForkWorker
  <2> QED BY <2>1
<1>2. CASE CloneTimer(c)
  <2>1. /\ inter[c] = "timer"
        /\ inter'[c] \in {"wait", "zombie"}
        /\ inter'[c] = "zombie" => timer'[c] = timer[c]
    BY <1>2 DEF CloneTimer
  <2> QED BY <2>1
<1>3. CASE WorkerFirst(c)
  <2>1. /\ inter[c] = "wait" /\ inter'[c] \in {"second", "zombie"}
    BY <1>3 DEF WorkerFirst
  <2>2. timer'[c] = "run" => timer[c] = "run"
    BY <1>3 DEF WorkerFirst
  <2> QED BY <2>1, <2>2
<1>4. CASE TimerFirst(c)
  <2>1. inter[c] = "wait" /\ inter'[c] = "second" /\ timer'[c] = "reaped"
    BY <1>4 DEF TimerFirst
  <2> QED BY <2>1
<1>5. CASE NothingToWaitFor(c)
  <2>1. inter[c] = "wait" /\ inter'[c] = "zombie" /\ timer' = timer
    BY <1>5 DEF NothingToWaitFor
  <2> QED BY <2>1
<1>6. CASE WaitSecond(c)
  <2>1. /\ inter[c] = "second" /\ inter'[c] = "zombie"
        /\ timer'[c] = "run" => timer[c] = "run"
    BY <1>6 DEF WaitSecond
  <2> QED BY <2>1
<1>7. CASE TimerEnds(c)
  <2>1. inter' = inter /\ timer[c] = "run" /\ timer'[c] = "zombie"
    BY <1>7 DEF TimerEnds
  <2> QED BY <2>1
<1>8. CASE Reap(c)
  <2>1. inter[c] = "zombie" /\ inter'[c] = "reaped" /\ timer' = timer
    BY <1>8 DEF Reap
  <2> QED BY <2>1
<1> QED BY <1>1, <1>2, <1>3, <1>4, <1>5, <1>6, <1>7, <1>8 DEF CallStep, InterStep

\* A step of one call leaves another where it is, or takes it on: a caller whose
\* fork failed may reap the intermediate of another.
LEMMA OtherStepsKeep ==
    ASSUME TypeOK, NEW c \in Callers, NEW d \in Callers, c # d,
           Call(c) \/ CallerStep(c) \/ InterStep(c)
             \/ ExecFails(c) \/ ProgramEnds(c) \/ TimerEnds(c)
    PROVE  Left(d)' <= Left(d)
<1>1. CASE ReapAny(c)
  <2>1. /\ timer' = timer
        /\ inter'[d] = inter[d] \/ (inter[d] = "zombie" /\ inter'[d] = "reaped")
    BY <1>1 DEF ReapAny, Moves, TypeOK
  <2> QED BY <2>1 DEF Left, Place
<1>2. CASE ~ReapAny(c)
  <2>1. inter'[d] = inter[d] /\ timer'[d] = timer[d]
    <3>1. CASE Call(c) \/ Reap(c) \/ NoChildren(c)
      BY <3>1 DEF Call, Reap, NoChildren, Moves, TypeOK, processes
    <3>2. CASE ForkWorker(c) \/ CloneTimer(c) \/ NothingToWaitFor(c)
      BY <3>2 DEF ForkWorker, CloneTimer, NothingToWaitFor, Moves, TypeOK
    <3>3. CASE WorkerFirst(c)
      BY <3>3 DEF WorkerFirst, Moves, TypeOK
    <3>4. CASE TimerFirst(c) \/ WaitSecond(c)
      BY <3>4 DEF TimerFirst, WaitSecond, Moves, TypeOK
    <3>5. CASE ExecFails(c) \/ ProgramEnds(c) \/ TimerEnds(c)
      BY <3>5 DEF ExecFails, ProgramEnds, TimerEnds, Moves, TypeOK
    <3> QED BY <1>2, <3>1, <3>2, <3>3, <3>4, <3>5 DEF CallerStep, InterStep
  <2> QED BY <2>1 DEF Left, Place
<1> QED BY <1>1, <1>2

\* A call takes at most eleven steps of its intermediate and of its timer, each of
\* which descends, for any callers and whatever fails: the intermediate never
\* goes back, and no other caller takes it back.
THEOREM CallsDescend == Spec => [][CallDescends]_vars
<1>1. IInv /\ [Next]_vars => [CallDescends]_vars
  <2> SUFFICES ASSUME IInv, Next, NEW d \in Callers
               PROVE  /\ CallStep(d) => Left(d)' < Left(d)
                      /\ Call(d) \/ Left(d)' <= Left(d)
    BY DEF CallDescends
  <2>1. TypeOK
    BY DEF IInv
  <2>2. CallStep(d) => Left(d)' < Left(d)
    BY <2>1, OwnStepDescends
  <2>3. PICK c \in Callers :
            \/ Call(c) \/ CallerStep(c) \/ InterStep(c)
            \/ ExecFails(c) \/ ProgramEnds(c) \/ TimerEnds(c)
    BY DEF Next
  <2>4. CASE c # d
    BY <2>1, <2>2, <2>3, <2>4, OtherStepsKeep
  <2>5. CASE c = d
    <3>1. CASE CallStep(d)
      BY <2>2, <3>1, LeftNat
    <3>2. CASE ReapAny(d)
      <4>1. /\ timer' = timer
            /\ inter'[d] = inter[d] \/ (inter[d] = "zombie" /\ inter'[d] = "reaped")
        BY <2>1, <3>2 DEF ReapAny, Moves, TypeOK
      <4>2. Left(d)' <= Left(d)
        BY <4>1 DEF Left, Place
      <4> QED BY <2>2, <4>2
    <3>3. CASE NoChildren(d) \/ ExecFails(d) \/ ProgramEnds(d)
      <4>1. inter' = inter /\ timer' = timer
        BY <3>3 DEF NoChildren, ExecFails, ProgramEnds, processes
      <4>2. Left(d)' <= Left(d)
        BY <4>1 DEF Left, Place
      <4> QED BY <2>2, <4>2
    <3> QED BY <2>3, <2>5, <3>1, <3>2, <3>3 DEF CallStep, CallerStep
  <2> QED BY <2>2, <2>4, <2>5
<1> QED BY <1>1, Invariance, PTL DEF Spec

\* Who waits without a failed call waits for his own intermediate.
LEMMA ForkKept ==
    ASSUME IInv, ForkInv, NEW c \in Callers,
           Call(c) \/ CallerStep(c) \/ InterStep(c)
             \/ ExecFails(c) \/ ProgramEnds(c) \/ TimerEnds(c)
    PROVE  ForkInv'
<1> USE DEF IInv
<1>1. failures \in Nat /\ failures' \in Nat /\ (failures > 0 => failures' > 0)
  <2>1. failures \in Nat
    BY CallersAssumption DEF TypeOK
  <2>2. failures' = failures \/ failures' = failures + 1
    BY DEF Call, CallerStep, Reap, ReapAny, NoChildren, InterStep, ForkWorker,
           CloneTimer, WorkerFirst, TimerFirst, NothingToWaitFor, WaitSecond,
           ExecFails, ProgramEnds, TimerEnds, Fails
  <2> QED BY <2>1, <2>2
<1> SUFFICES ASSUME NEW d \in Callers, call'[d] = "wait",
                    ~forked'[d] \/ inter'[d] \in {"none", "reaped"}
             PROVE  failures' > 0
  BY DEF ForkInv
<1>2. CASE Call(c)
  <2>1. CASE d = c
    <3>1. inter'[d] = "none" => Fails
      BY <1>2, <2>1 DEF Call, TypeOK
    <3>2. inter'[d] \in {"fork", "none"} /\ (~forked'[d] => inter'[d] = "none")
      BY <1>2, <2>1 DEF Call, TypeOK
    <3>3. failures \in Nat
      BY CallersAssumption DEF TypeOK
    <3> QED BY <3>1, <3>2, <3>3 DEF Fails
  <2>2. CASE d # c
    <3>1. call[d] = call'[d] /\ forked[d] = forked'[d] /\ inter[d] = inter'[d]
      BY <1>2, <2>2 DEF Call, Moves, TypeOK
    <3> QED BY <1>1, <3>1 DEF ForkInv
  <2> QED BY <2>1, <2>2
<1>3. CASE ReapAny(c)
  <2>1. failures > 0
    BY <1>3 DEF ReapAny, ForkInv
  <2> QED BY <1>1, <2>1
<1>4. CASE Reap(c)
  <2>1. d # c /\ call[d] = call'[d] /\ forked[d] = forked'[d] /\ inter[d] = inter'[d]
    BY <1>4 DEF Reap, Moves, TypeOK
  <2> QED BY <1>1, <2>1 DEF ForkInv
<1>5. CASE NoChildren(c) \/ ExecFails(c) \/ ProgramEnds(c) \/ TimerEnds(c)
  <2>1. call[d] = call'[d] /\ forked[d] = forked'[d] /\ inter[d] = inter'[d]
    BY <1>5 DEF NoChildren, ExecFails, ProgramEnds, TimerEnds, Moves, TypeOK, processes
  <2> QED BY <1>1, <2>1 DEF ForkInv
<1>6. CASE InterStep(c)
  <2>1. call' = call /\ forked' = forked
    BY <1>6 DEF InterStep, ForkWorker, CloneTimer, WorkerFirst, TimerFirst,
                NothingToWaitFor, WaitSecond
  <2>2. /\ \A e \in Callers \ {c} : inter'[e] = inter[e]
        /\ inter'[c] \in {"timer", "wait", "second", "zombie"}
    BY <1>6 DEF InterStep, ForkWorker, CloneTimer, WorkerFirst, TimerFirst,
                NothingToWaitFor, WaitSecond, Moves, TypeOK
  <2> QED BY <1>1, <2>1, <2>2 DEF ForkInv
<1> QED BY <1>2, <1>3, <1>4, <1>5, <1>6 DEF CallerStep

\* A caller with a time limit never waits for nobody, unless a fork or a clone has
\* failed: its intermediate has a step to make, or its timer has not ended or not
\* been reaped, also while the program runs on.
THEOREM NobodyStranded ==
    Spec => [](\A c \in Limited :
                  call[c] = "wait" /\ alive => Awaited(c) \/ failures > 0)
<1>1. Init => ForkInv
  BY DEF Init, ForkInv
<1>2. IInv /\ ForkInv /\ [Next]_vars => ForkInv'
  <2>1. CASE UNCHANGED vars
    BY <2>1 DEF vars, processes, ForkInv
  <2> QED BY <2>1, ForkKept DEF Next
<1>3. IInv /\ ForkInv => \A c \in Limited :
                  call[c] = "wait" /\ alive => Awaited(c) \/ failures > 0
  <2> SUFFICES ASSUME IInv, ForkInv, NEW c \in Limited, call[c] = "wait", alive,
                      ~(failures > 0)
               PROVE  Awaited(c)
    OBVIOUS
  <2>1. c \in Callers /\ inter[c] \notin {"none", "reaped"}
    BY CallersAssumption DEF ForkInv
  <2>2. ProcessInv(c) /\ inter[c] \in {"fork", "timer", "wait", "second", "zombie"}
    BY <2>1 DEF IInv, TypeOK
  <2> QED BY <2>1, <2>2 DEF ProcessInv, Awaited
<1> QED BY <1>1, <1>2, <1>3, Invariance, PTL DEF Spec
=============================================================================
