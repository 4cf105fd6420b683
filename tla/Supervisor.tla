------------------------------- MODULE Supervisor -------------------------------
(***************************************************************************)
(* The processes of main(): the shell's child, which forwards signals and  *)
(* in daemon mode leaves; the supervisor, which starts the service, starts *)
(* a new one on SIGHUP and ends with it; the D-Bus process between them,   *)
(* which asks for a reload; and the services, of which a reload may have   *)
(* two, with the device and the pid file they share (main.cpp, daemon.cpp, *)
(* pidfile.cpp and ReloadService of dbusapi.cpp).                          *)
(*                                                                         *)
(* systemd is external: StopUnit sends SIGTERM to the unit of that name    *)
(* and does not wait.  No other daemon uses the pid file.                  *)
(***************************************************************************)
EXTENDS Naturals

CONSTANTS
    MaxReloads,   \* bound: SIGHUPs from outside, and requests to reload
    MaxEnds       \* bound: SIGTERMs and SIGINTs from outside

ASSUME BoundAssumption == MaxReloads \in Nat /\ MaxEnds \in Nat

\* One at the start, and one for each SIGHUP.
MaxStarts == MaxReloads + 1
Services  == 1..MaxStarts
Signals  == {"HUP", "INT", "USR1", "TERM", "CHLD"}

VARIABLES
    daemon,    \* IsDaemon: not -F, and no "daemonize = false"
    shell,     \* the process that was started: it "reads" signals, or is "gone"
    super,     \* the supervisor: "init", "reads", in a "reload", or "gone"
    pending,   \* the signals pending at either, each once
    named,     \* "name": the last service started, 0 before the first
    service,   \* where each service is
    told,      \* services that were sent SIGTERM
    pidfile,   \* whom the pid file names: "none", "ours" (the supervisor), a
               \* process that is "dead", an "other" that lives
    dbus,      \* the D-Bus process: it "starts", is in "init", "serves", has
               \* "asked" for a reload, is "gone"
    ready,     \* bytes of ServiceMain in the socket
    reloads,   \* how many SIGHUPs came from outside
    ends,      \* how many SIGTERMs and SIGINTs did
    crossed    \* history: a reload took another signal for its SIGCHLD

outside == <<daemon, reloads, ends>>
vars == <<outside, shell, super, pending, named, service, told, pidfile, dbus,
          ready, crossed>>

Init ==
    /\ daemon \in BOOLEAN
    /\ shell = "reads" /\ super = "init"
    /\ pending = [p \in {"shell", "super"} |-> {}]
    /\ named = 0 /\ service = [s \in Services |-> "none"] /\ told = {}
    /\ pidfile \in IF daemon THEN {"none", "dead", "other"} ELSE {"none"}
    /\ dbus = "starts" /\ ready = 0
    /\ reloads = 0 /\ ends = 0 /\ crossed = FALSE

\* signalfd: a signal that is pending already is not queued again, and the
\* lowest number is read first.
Numbered == [HUP |-> 1, INT |-> 2, USR1 |-> 10, TERM |-> 15, CHLD |-> 17]

IsNext(p, sig) ==
    /\ sig \in pending[p]
    /\ \A other \in pending[p] : Numbered[sig] <= Numbered[other]

\* p takes sig, and q is sent what.
ReadAndSend(p, sig, q, what) ==
    /\ IsNext(p, sig)
    /\ pending' = [pending EXCEPT ![p] = @ \ {sig}, ![q] = @ \cup {what}]

Read(p, sig) ==
    /\ IsNext(p, sig)
    /\ pending' = [pending EXCEPT ![p] = @ \ {sig}]

Send(q, what) == pending' = [pending EXCEPT ![q] = @ \cup {what}]
-----------------------------------------------------------------------------
(* The shell's child.                                                      *)

ForwardEnd ==
    /\ shell = "reads"
    /\ \E sig \in {"TERM", "INT"} : ReadAndSend("shell", sig, "super", "TERM")
    /\ UNCHANGED <<outside, shell, super, named, service, told, pidfile, dbus,
                   ready, crossed>>

ForwardHup ==
    /\ shell = "reads"
    /\ ReadAndSend("shell", "HUP", "super", "HUP")
    /\ UNCHANGED <<outside, shell, super, named, service, told, pidfile, dbus,
                   ready, crossed>>

ShellLeaves ==
    /\ shell = "reads"
    /\ Read("shell", "USR1")
    /\ shell' = "gone"
    /\ UNCHANGED <<outside, super, named, service, told, pidfile, dbus, ready,
                   crossed>>
-----------------------------------------------------------------------------
(* The supervisor.                                                         *)

\* The label init.  The D-Bus process is sent SIGHUP, which ends it when it has
\* not blocked it yet; the service waits until its unit has been made.  Nobody
\* looks at the result of fork(): where it fails the supervisor goes on with a
\* name of its own making (watchdogd.-1.scope) and no child.
StartService ==
    /\ super = "init" /\ named < MaxStarts
    /\ named' = named + 1
    /\ service' \in {service, [service EXCEPT ![named + 1] = "forked"]}
    /\ dbus' = IF dbus = "starts" THEN "gone" ELSE dbus
    /\ super' = "reads"
    /\ UNCHANGED <<outside, shell, pending, told, pidfile, ready, crossed>>

\* Slip: the supervisor keeps it from the shell's child when it has its parent.
ReadUsr1Keeps ==
    /\ super = "reads"
    /\ IF dbus = "gone" THEN ReadAndSend("super", "USR1", "shell", "USR1")
                         ELSE Read("super", "USR1")
    /\ UNCHANGED <<outside, shell, super, named, service, told, pidfile, dbus,
                   ready, crossed>>

\* The service has become a daemon.  A supervisor without its parent, the D-Bus
\* process, keeps this from the shell's child.
ReadUsr1 ==
    /\ super = "reads"
    /\ IF dbus # "gone" THEN ReadAndSend("super", "USR1", "shell", "USR1")
                         ELSE Read("super", "USR1")
    /\ UNCHANGED <<outside, shell, super, named, service, told, pidfile, dbus,
                   ready, crossed>>

\* Slip: the next service is started at once.
ReadHupAtOnce ==
    /\ super = "reads"
    /\ Read("super", "HUP")
    /\ told' = told \cup {named}
    /\ super' = "init"
    /\ UNCHANGED <<outside, shell, named, service, pidfile, dbus, ready,
                   crossed>>

ReadHup ==
    /\ super = "reads"
    /\ Read("super", "HUP")
    /\ told' = told \cup {named}
    /\ super' = "reload"
    /\ UNCHANGED <<outside, shell, named, service, pidfile, dbus, ready,
                   crossed>>

\* Slip: back to the loop instead of to init.
ReadSecondBreaks ==
    /\ super = "reload"
    /\ \/ Read("super", "CHLD") /\ UNCHANGED crossed
       \/ /\ \E sig \in Signals \ {"CHLD"} :
               ReadAndSend("super", sig, "shell", sig)
          /\ crossed' = TRUE
    /\ super' = "reads"
    /\ UNCHANGED <<outside, shell, named, service, told, pidfile, dbus, ready>>

\* Slip: what is not SIGCHLD is dropped.
ReadSecondDrops ==
    /\ super = "reload"
    /\ \E sig \in Signals :
         Read("super", sig) /\ crossed' = (crossed \/ sig # "CHLD")
    /\ super' = "init"
    /\ UNCHANGED <<outside, shell, named, service, told, pidfile, dbus, ready>>

\* The next signal is taken for that of the service's end; any other goes to
\* the shell's child, which sends it back if it is still there.
ReadSecond ==
    /\ super = "reload"
    /\ \/ Read("super", "CHLD") /\ UNCHANGED crossed
       \/ /\ \E sig \in Signals \ {"CHLD"} :
               ReadAndSend("super", sig, "shell", sig)
          /\ crossed' = TRUE
    /\ super' = "init"
    /\ UNCHANGED <<outside, shell, named, service, told, pidfile, dbus, ready>>

\* Slip: with SIGCHLD there is nothing left to stop.
ReadEndStopsOnTerm ==
    /\ super = "reads"
    /\ \E sig \in {"INT", "TERM", "CHLD"} :
         /\ ReadAndSend("super", sig, "shell", "USR1")
         /\ told' = IF sig = "CHLD" THEN told ELSE told \cup {named}
    /\ super' = "gone"
    /\ UNCHANGED <<outside, shell, named, service, pidfile, dbus, ready,
                   crossed>>

\* Slip: the shell's child is not told.
ReadEndKeepsShell ==
    /\ super = "reads"
    /\ \E sig \in {"INT", "TERM", "CHLD"} : Read("super", sig)
    /\ told' = told \cup {named}
    /\ super' = "gone"
    /\ UNCHANGED <<outside, shell, named, service, pidfile, dbus, ready,
                   crossed>>

\* SIGTERM, SIGINT, or a service has ended, whichever it was.
ReadEnd ==
    /\ super = "reads"
    /\ \E sig \in {"INT", "TERM", "CHLD"} :
         ReadAndSend("super", sig, "shell", "USR1")
    /\ told' = told \cup {named}
    /\ super' = "gone"
    /\ UNCHANGED <<outside, shell, named, service, pidfile, dbus, ready,
                   crossed>>
-----------------------------------------------------------------------------
(* A service.                                                              *)

Moves(s, from, to) ==
    service[s] = from /\ service' = [service EXCEPT ![s] = to]

\* Pidfile::Open and Write, with the supervisor's pid: the file of a process that
\* lives is opened for reading, and the write to it fails.
Opened(file) == IF file \in {"none", "dead"} THEN "ours" ELSE file

\* Daemonize: SIGUSR1 to the supervisor; then the pid file, whatever comes of it.
\* SIGTERM is not blocked yet.
Configure(s) ==
    /\ Moves(s, "forked", "starting")
    /\ IF daemon THEN /\ Send("super", "USR1")
                      /\ pidfile' = Opened(pidfile)
                 ELSE UNCHANGED <<pending, pidfile>>
    /\ UNCHANGED <<outside, shell, super, named, told, dbus, ready, crossed>>

HasDevice(s) == service[s] \in {"serving", "left"}

\* The device is opened, the ready byte written and the event loop entered.
Serve(s) ==
    /\ Moves(s, "starting", "serving")
    /\ \A t \in Services : ~HasDevice(t)
    /\ ready' = ready + 1
    /\ UNCHANGED <<outside, shell, super, pending, named, told, pidfile, dbus,
                   crossed>>

\* SIGTERM ends the event loop, and Pidfile::Delete removes the file by its name.
Leave(s) ==
    /\ s \in told
    /\ Moves(s, "serving", "left")
    /\ pidfile' = IF daemon THEN "none" ELSE pidfile
    /\ UNCHANGED <<outside, shell, super, pending, named, told, dbus, ready,
                   crossed>>

Dies(s) ==
    /\ service' = [service EXCEPT ![s] = "dead"]
    /\ Send("super", "CHLD")
    /\ UNCHANGED <<outside, shell, super, named, told, pidfile, dbus, ready,
                   crossed>>

\* After the event loop, by SIGTERM before it is blocked, or because another
\* service has the device.
Ends(s) ==
    /\ \/ service[s] = "left"
       \/ service[s] \in {"forked", "starting"} /\ s \in told
       \/ service[s] = "starting" /\ \E t \in Services : HasDevice(t)
    /\ Dies(s)

\* A configuration that is refused, a failure, a crash.
Fails(s) ==
    /\ service[s] \in {"forked", "starting", "serving"}
    /\ Dies(s)
-----------------------------------------------------------------------------
(* The D-Bus process.                                                      *)

BlockHup ==
    /\ dbus = "starts"
    /\ dbus' = "init"
    /\ UNCHANGED <<outside, shell, super, pending, named, service, told,
                   pidfile, ready, crossed>>

\* DbusApiInit waits for the first ready byte.
DbusStarts ==
    /\ dbus = "init" /\ ready > 0
    /\ ready' = ready - 1
    /\ dbus' = "serves"
    /\ UNCHANGED <<outside, shell, super, pending, named, service, told,
                   pidfile, crossed>>

\* ReloadService signals its parent: the shell's child or, when that has left,
\* a process that is none of these.
AskReload ==
    /\ dbus = "serves" /\ reloads < MaxReloads
    /\ reloads' = reloads + 1
    /\ IF shell = "reads" THEN Send("shell", "HUP") ELSE UNCHANGED pending
    /\ dbus' = "asked"
    /\ UNCHANGED <<daemon, ends, shell, super, named, service, told, pidfile,
                   ready, crossed>>

\* It reads up to four bytes, those of earlier services included.
AnswerReload ==
    /\ dbus = "asked" /\ ready > 0
    /\ ready' = IF ready > 4 THEN ready - 4 ELSE 0
    /\ dbus' = "serves"
    /\ UNCHANGED <<outside, shell, super, pending, named, service, told,
                   pidfile, crossed>>

\* It waits for the supervisor, and ends with it.
DbusEnds ==
    /\ dbus # "gone" /\ super = "gone"
    /\ dbus' = "gone"
    /\ UNCHANGED <<outside, shell, super, pending, named, service, told,
                   pidfile, ready, crossed>>
-----------------------------------------------------------------------------
\* A user, systemd or the kernel sends a signal to the pid of either process.
Signalled(p, sig) ==
    /\ IF sig = "HUP"
          THEN reloads < MaxReloads /\ reloads' = reloads + 1 /\ UNCHANGED ends
          ELSE ends < MaxEnds /\ ends' = ends + 1 /\ UNCHANGED reloads
    /\ p = "shell" => shell = "reads"
    /\ p = "super" => super # "gone"
    /\ Send(p, sig)
    /\ UNCHANGED <<daemon, shell, super, named, service, told, pidfile, dbus,
                   ready, crossed>>

ShellStep == ForwardEnd \/ ForwardHup \/ ShellLeaves

SuperStep == StartService \/ ReadUsr1 \/ ReadHup \/ ReadSecond \/ ReadEnd

ServiceStep(s) == Configure(s) \/ Serve(s) \/ Leave(s) \/ Ends(s)

DbusStep == BlockHup \/ DbusStarts \/ AnswerReload \/ DbusEnds

Next ==
    \/ ShellStep \/ SuperStep \/ DbusStep \/ AskReload
    \/ \E s \in Services : ServiceStep(s) \/ Fails(s)
    \/ \E p \in {"shell", "super"}, sig \in {"HUP", "INT", "TERM"} :
         Signalled(p, sig)

Spec == Init /\ [][Next]_vars

\* The processes run; signals need not come and services need not fail.
Fairness ==
    /\ WF_vars(ShellStep) /\ WF_vars(SuperStep) /\ WF_vars(DbusStep)
    /\ \A s \in Services : WF_vars(ServiceStep(s))

FairSpec == Spec /\ Fairness
-----------------------------------------------------------------------------
(* Properties.                                                             *)

\* The variables have the types the code gives them, and a service has been
\* named before the supervisor reads a signal.
TypeOK ==
    /\ daemon \in BOOLEAN /\ crossed \in BOOLEAN
    /\ shell \in {"reads", "gone"}
    /\ super \in {"init", "reads", "reload", "gone"}
    /\ pending \in [{"shell", "super"} -> SUBSET Signals]
    /\ named \in 0..MaxStarts /\ (super = "init" \/ named # 0)
    /\ service \in [Services -> {"none", "forked", "starting", "serving", "left",
                                 "dead"}]
    /\ told \subseteq Services
    /\ pidfile \in {"none", "ours", "dead", "other"}
    /\ dbus \in {"starts", "init", "serves", "asked", "gone"}
    /\ ready \in Nat
    /\ reloads \in 0..MaxReloads /\ ends \in 0..MaxEnds

Live(s) == service[s] \notin {"none", "dead"}

\* No service is forgotten: one that lives and was not told to stop is the one
\* the supervisor knows by name, and there is none once the supervisor has gone,
\* however reloads overlap.
NoOrphan ==
    \A s \in Services :
        Live(s) /\ s \notin told => s = named /\ super = "reads"

\* The end of the last service is noticed: when none lives the supervisor has
\* its SIGCHLD still to read, although SIGCHLDs merge and a reload may have taken
\* that of one service for that of another; but not where the last fork failed,
\* for then the supervisor waits with no service until it is signalled.
DeathNoticed ==
    super = "reads" /\ (\A s \in Services : ~Live(s))
        => "CHLD" \in pending["super"] \/ service[named] = "none"

\* As long as the signal after SIGHUP was SIGCHLD, one service lives at a time,
\* so that none is refused the device.
OneAtATime ==
    ~crossed => \A s, t \in Services : Live(s) /\ Live(t) => s = t

\* The pid file of a daemon that serves is there, as long as reloads have not
\* overlapped: the old service has removed it before the new one makes it.  (A
\* file that names another process, whose pid may be that of a daemon long gone,
\* stays until the first reload.)
PidfileThere ==
    daemon /\ ~crossed =>
        \A s \in Services : service[s] = "serving" => pidfile \in {"ours", "other"}

\* A SIGTERM or SIGINT ends the supervisor, also when it comes in the middle of a
\* reload, where the shell's child has to send it back; a daemon has lost it.
TerminationTaken ==
    \A sig \in {"INT", "TERM"} :
        sig \in pending["super"] ~> super = "gone" \/ (daemon /\ crossed)

\* When the supervisor has gone, everything it started ends.
AllEnd ==
    super = "gone" ~> /\ shell = "gone" /\ dbus = "gone"
                      /\ \A s \in Services : ~Live(s)

\* The program that was started as a daemon returns, also when the news of it is
\* taken for a SIGCHLD, unless the D-Bus process was lost at the start.
DaemonDetaches ==
    daemon /\ service[1] = "starting" ~> shell = "gone" \/ dbus = "gone"
=============================================================================
