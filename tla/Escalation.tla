------------------------------- MODULE Escalation -------------------------------
(***************************************************************************)
(* What the service promises about taking the machine down, whichever      *)
(* threads do it: nobody is condemned but by the repair binary's refusal   *)
(* or a trusted command; the daemon ends, then the pinging, then PID 1 is  *)
(* asked; the device is given up only by then, or by a service that was    *)
(* told to leave before; and with -q nothing of this happens.              *)
(***************************************************************************)
CONSTANTS
    Callers,   \* who may take the machine down
    Trusted    \* those whose command needs no repair before

VARIABLES
    quiet,     \* -q
    asking,    \* callers that wait for the repair binary
    doomed,    \* callers that are to take the machine down
    ended,     \* the daemon has ended
    silent,    \* nobody pings the device any more
    asked,     \* PID 1 was told to take the machine down
    leaving,   \* the service was told to leave, and will
    guard,     \* the device: "open" or "closed"
    life       \* the process: "running", "crashed" or "exited"

vars == <<quiet, asking, doomed, ended, silent, asked, leaving, guard, life>>

Init ==
    /\ quiet \in BOOLEAN
    /\ asking = {} /\ doomed = {}
    /\ ended = FALSE /\ silent = FALSE /\ asked = FALSE /\ leaving = FALSE
    /\ guard = IF quiet THEN "closed" ELSE "open"
    /\ life = "running"

AskRepair(c) ==
    /\ ~quiet /\ c \notin asking \cup doomed
    /\ asking' = asking \cup {c}
    /\ UNCHANGED <<quiet, doomed, ended, silent, asked, leaving, guard, life>>

Repaired(c) ==
    /\ c \in asking
    /\ asking' = asking \ {c}
    /\ UNCHANGED <<quiet, doomed, ended, silent, asked, leaving, guard, life>>

Refuse(c) ==
    /\ c \in asking
    /\ asking' = asking \ {c} /\ doomed' = doomed \cup {c}
    /\ UNCHANGED <<quiet, ended, silent, asked, leaving, guard, life>>

Command(c) ==
    /\ ~quiet /\ c \in Trusted /\ c \notin asking \cup doomed
    /\ doomed' = doomed \cup {c}
    /\ UNCHANGED <<quiet, asking, ended, silent, asked, leaving, guard, life>>

\* What is freed may still be in use.
End ==
    /\ doomed # {} \/ (leaving /\ guard = "closed")
    /\ ended' = TRUE
    /\ life' \in {"running", "crashed"}
    /\ UNCHANGED <<quiet, asking, doomed, silent, asked, leaving, guard>>

StopPinging ==
    /\ doomed # {} /\ ended
    /\ silent' = TRUE
    /\ UNCHANGED <<quiet, asking, doomed, ended, asked, leaving, guard, life>>

AskInit(c) ==
    /\ c \in doomed /\ silent
    /\ asked' = TRUE /\ doomed' = doomed \ {c}
    /\ UNCHANGED <<quiet, asking, ended, silent, leaving, guard, life>>

\* Not any more when the daemon has ended: the machine is on its way down.
Leave ==
    /\ ~ended
    /\ leaving' = TRUE
    /\ UNCHANGED <<quiet, asking, doomed, ended, silent, asked, guard, life>>

Close ==
    /\ leaving \/ silent
    /\ guard' = "closed"
    /\ UNCHANGED <<quiet, asking, doomed, ended, silent, asked, leaving, life>>

Exit ==
    /\ leaving /\ ended /\ guard = "closed"
    /\ life' = "exited"
    /\ UNCHANGED <<quiet, asking, doomed, ended, silent, asked, leaving, guard>>

Crash ==
    /\ life' = "crashed"
    /\ UNCHANGED <<quiet, asking, doomed, ended, silent, asked, leaving, guard>>

Next ==
    /\ life = "running"
    /\ \/ End \/ StopPinging \/ Leave \/ Close \/ Exit \/ Crash
       \/ \E c \in Callers : AskRepair(c) \/ Repaired(c) \/ Refuse(c) \/ Command(c)
                             \/ AskInit(c)

Spec == Init /\ [][Next]_vars
=============================================================================
