-------------------------------- MODULE DbusLink -------------------------------
(***************************************************************************)
(* The socket between the D-Bus process (the methods of dbusapi.cpp that   *)
(* ask the service, one at a time) and the DbusHelper thread of each       *)
(* service (threads.cpp); the supervisor starts a new service on SIGHUP    *)
(* (main.cpp), when the last one has ended: Supervisor says when it has    *)
(* not.                                                                    *)
(*                                                                         *)
(* The socket is a stream: requests are longs that DbusHelper reads as two *)
(* ints, answers are bytes without a frame, and each service begins with   *)
(* one byte to say that it is ready, whether asked for or not.             *)
(***************************************************************************)
EXTENDS Naturals, Sequences

CONSTANTS
    Methods,    \* the methods that ask, some of Values, Strings and Unkept
    MaxStarts,  \* bound: services started
    MaxAlarms,  \* bound: clients whose time is over (Timeout)
    MaxCalls,   \* bound: how often methods ask
    IntSize,    \* how many bytes an int is
    Length,     \* how many bytes a service answers to a method
    Size        \* how many bytes a method reads

Values   == {"Version", "GetTimeout"}
Strings  == {"DevicePath", "Identity"}
Unkept   == {"GetTimeleft"}
Services == 1..MaxStarts
Bytes    == [of : Methods \cup {"ready"}, from : Services]
Commands == Methods \cup {"Shutdown"}

ASSUME LinkAssumption ==
    /\ Methods \subseteq Values \cup Strings \cup Unkept
    /\ MaxStarts \in Nat \ {0} /\ MaxAlarms \in Nat /\ MaxCalls \in Nat
    /\ IntSize \in Nat \ {0}
    /\ Length \in [Methods -> [Services -> Nat \ {0}]]
    /\ Size \in [Methods -> Nat]
    /\ \A m \in Methods, s \in Services : Length[m][s] <= Size[m]

VARIABLES
    dbus,       \* the D-Bus process: in "init", "idle", in a method, in "reload",
                \* "stuck" in Timeout, or "gone"
    hup,        \* its SIGHUP is pending
    has,        \* the methods that have an answer
    buf,        \* where each method reads to
    alarms,     \* how often Timeout was called
    calls,      \* how often a method has asked
    detached,   \* the shell's child has left: ReloadService signals nobody
    requests,   \* the stream to the services: ints
    answers,    \* the stream to the D-Bus process: bytes
    helper,     \* of each service: "none", "starts", "reads", a command, "gone"
    announced,  \* the services that have written the ready byte
    last,       \* the last service started
    down,       \* the service is "up", to be started ("restart"), the supervisor is
                \* "childless", or it all "ends"
    sighup,     \* SIGHUP is pending at the supervisor
    surplus     \* history: a service was started that nobody waits for

bus     == <<dbus, hup, has, buf, alarms, calls>>
stream  == <<requests, answers>>
service == <<helper, announced, last, down>>
vars    == <<bus, detached, stream, service, sighup, surplus>>

Init ==
    /\ dbus = "init" /\ hup = FALSE /\ alarms = 0 /\ calls = 0 /\ detached \in BOOLEAN
    /\ has = {} /\ buf = [m \in Methods |-> <<>>]
    /\ requests = <<>> /\ answers = <<>>
    /\ helper = [s \in Services |-> "none"] /\ announced = {}
    /\ last = 0 /\ down = "restart" /\ sighup = FALSE /\ surplus = FALSE

\* A read of n bytes gets what there is, and what it leaves is read next.
Taken(n) == SubSeq(answers, 1, n)
Rest(n)  == SubSeq(answers, n + 1, Len(answers))
Least(a, b) == IF a <= b THEN a ELSE b

\* What is read goes to the front, and the rest of what was there stays.
Overwritten(old, new) == new \o SubSeq(old, Len(new) + 1, Len(old))
-----------------------------------------------------------------------------
(* The D-Bus process.                                                      *)

\* DbusApiInit waits for one byte.
DbusStarts ==
    /\ dbus = "init" /\ answers # <<>>
    /\ dbus' = "idle" /\ answers' = Rest(1)
    /\ UNCHANGED <<hup, has, buf, alarms, calls, detached, requests, service,
                   sighup, surplus>>

\* A long, of which DbusHelper reads the halves.
Request(command) == requests' = requests \o <<command, "zero">>

\* A method asks when it has no answer, GetTimeleft when two seconds are over.
\* Whether what is not its own counts as an answer is a choice.
Ask(m) ==
    /\ dbus = "idle" /\ calls < MaxCalls
    /\ m \in has => m \in Unkept \/ buf[m][1].of # m
    /\ dbus' = m /\ calls' = calls + 1
    /\ Request(m)
    /\ UNCHANGED <<hup, has, buf, alarms, detached, answers, service, sighup,
                   surplus>>

\* Slip: it waits for the number of bytes it has room for.
ReadAnswerWhole(m) ==
    /\ dbus = m /\ Len(answers) >= Size[m]
    /\ buf' = [buf EXCEPT ![m] = Overwritten(@, Taken(Size[m]))]
    /\ answers' = Rest(Size[m])
    /\ has' = has \cup {m} /\ dbus' = "idle"
    /\ UNCHANGED <<hup, alarms, calls, detached, requests, service, sighup,
                   surplus>>

ReadAnswer(m) ==
    /\ dbus = m /\ answers # <<>>
    /\ LET n == Least(Size[m], Len(answers)) IN
         /\ buf' = [buf EXCEPT ![m] = Overwritten(@, Taken(n))]
         /\ answers' = Rest(n)
    /\ has' = has \cup {m} /\ dbus' = "idle"
    /\ UNCHANGED <<hup, alarms, calls, detached, requests, service, sighup,
                   surplus>>

\* Slip: the answers are kept.
TakeHupKeeps ==
    /\ dbus = "idle" /\ hup
    /\ hup' = FALSE
    /\ UNCHANGED <<dbus, has, buf, alarms, calls, detached, stream, service,
                   sighup, surplus>>

\* SignalHandler: strings lose their first byte, values are set to none.
TakeHup ==
    /\ dbus = "idle" /\ hup
    /\ hup' = FALSE /\ has' = has \cap Unkept
    /\ buf' = [m \in Methods |-> IF m \in Values THEN <<>> ELSE buf[m]]
    /\ UNCHANGED <<dbus, alarms, calls, detached, stream, service, sighup,
                   surplus>>

\* The supervisor takes one SIGHUP after the other, as long as it starts services.
Reloads == ~sighup /\ last + (IF down = "restart" THEN 1 ELSE 0) < MaxStarts

AskReload ==
    /\ dbus = "idle" /\ down # "ends"
    /\ dbus' = "reload"
    /\ sighup' = (sighup \/ ~detached)
    /\ Reloads \/ detached
    /\ UNCHANGED <<hup, has, buf, alarms, calls, detached, stream, service,
                   surplus>>

\* Slip: the byte is left in the stream.
ReadReadyPeeks ==
    /\ dbus = "reload" /\ answers # <<>>
    /\ dbus' = "idle"
    /\ UNCHANGED <<hup, has, buf, alarms, calls, detached, stream, service,
                   sighup, surplus>>

\* ReloadService has room for an int.
ReadReady ==
    /\ dbus = "reload" /\ answers # <<>>
    /\ dbus' = "idle" /\ answers' = Rest(Least(IntSize, Len(answers)))
    /\ UNCHANGED <<hup, has, buf, alarms, calls, detached, requests, service,
                   sighup, surplus>>

\* Timeout: it writes until errno is 0, which may be never.
AskShutdown ==
    /\ dbus = "idle" /\ alarms < MaxAlarms
    /\ alarms' = alarms + 1
    /\ Request("Shutdown")
    /\ dbus' \in {"idle", "stuck"}
    /\ UNCHANGED <<hup, has, buf, calls, detached, answers, service, sighup,
                   surplus>>

DbusEnds ==
    /\ dbus # "gone" /\ down = "ends"
    /\ dbus' = "gone"
    /\ UNCHANGED <<hup, has, buf, alarms, calls, detached, stream, service,
                   sighup, surplus>>
-----------------------------------------------------------------------------
(* The supervisor.                                                         *)

\* From a user or systemd ("ExecReload=/bin/kill -1 $MAINPID").
Hangup ==
    /\ Reloads /\ down # "ends"
    /\ sighup' = TRUE
    /\ UNCHANGED <<bus, detached, stream, service, surplus>>

StopService ==
    /\ sighup /\ down = "up"
    /\ sighup' = FALSE /\ down' = "restart"
    /\ helper' = [helper EXCEPT ![last] = "gone"]
    /\ UNCHANGED <<bus, detached, stream, announced, last, surplus>>

\* The byte of a service that is started now will be read as what it is.
Awaited == dbus \in {"init", "reload"} /\ answers = <<>>

StartService ==
    /\ down = "restart" /\ last < MaxStarts
    /\ last' = last + 1 /\ down' = "up"
    /\ helper' = [helper EXCEPT ![last + 1] = "starts"]
    /\ hup' = TRUE
    /\ surplus' = (surplus \/ ~Awaited)
    /\ UNCHANGED <<dbus, has, buf, alarms, calls, detached, stream, announced,
                   sighup>>
\* The fork fails, and the supervisor waits for a signal all the same.  What the
\* next two signals bring is Supervisor's.
ForkFails ==
    /\ down = "restart" /\ last < MaxStarts
    /\ down' = "childless" /\ hup' = TRUE
    /\ UNCHANGED <<dbus, has, buf, alarms, calls, detached, stream, helper,
                   announced, last, sighup, surplus>>
-----------------------------------------------------------------------------
(* A service.                                                              *)

StartHelper(s) ==
    /\ helper[s] = "starts"
    /\ helper' = [helper EXCEPT ![s] = "reads"]
    /\ UNCHANGED <<bus, detached, stream, announced, last, down, sighup,
                   surplus>>

\* Slip: a service that replaces another says nothing.
AnnounceFirst(s) ==
    /\ helper[s] \notin {"none", "starts", "gone"} /\ announced = {}
    /\ announced' = announced \cup {s}
    /\ answers' = Append(answers, [of |-> "ready", from |-> s])
    /\ UNCHANGED <<bus, detached, requests, helper, last, down, sighup,
                   surplus>>

\* ServiceMain, after it has made the thread.
Announce(s) ==
    /\ helper[s] \notin {"none", "starts", "gone"} /\ s \notin announced
    /\ announced' = announced \cup {s}
    /\ answers' = Append(answers, [of |-> "ready", from |-> s])
    /\ UNCHANGED <<bus, detached, requests, helper, last, down, sighup,
                   surplus>>

\* An int that is no command is passed over.
ReadCommand(s) ==
    /\ helper[s] = "reads" /\ requests # <<>>
    /\ requests' = Tail(requests)
    /\ helper' = [helper EXCEPT ![s] =
                     IF Head(requests) \in Commands THEN Head(requests) ELSE @]
    /\ UNCHANGED <<bus, detached, answers, announced, last, down, sighup,
                   surplus>>

Answer(s, m) ==
    /\ helper[s] = m
    /\ answers' = answers \o [k \in 1..Length[m][s] |-> [of |-> m, from |-> s]]
    /\ helper' = [helper EXCEPT ![s] = "reads"]
    /\ UNCHANGED <<bus, detached, requests, announced, last, down, sighup,
                   surplus>>

\* Shutdown repairs, does nothing (-q), or ends the service.
CallShutdown(s) ==
    /\ helper[s] = "Shutdown"
    /\ \/ helper' = [helper EXCEPT ![s] = "reads"] /\ UNCHANGED down
       \/ helper' = [helper EXCEPT ![s] = "gone"] /\ down' = "ends"
    /\ UNCHANGED <<bus, detached, stream, announced, last, sighup, surplus>>

\* A service that ends by itself, or by SIGTERM, ends everything.
Fails(s) ==
    /\ helper[s] \notin {"none", "gone"}
    /\ helper' = [helper EXCEPT ![s] = "gone"]
    /\ down' = "ends"
    /\ UNCHANGED <<bus, detached, stream, announced, last, sighup, surplus>>
-----------------------------------------------------------------------------
DbusStep ==
    \/ DbusStarts \/ TakeHup \/ ReadReady \/ DbusEnds
    \/ \E m \in Methods : ReadAnswer(m)

ServiceStep(s) ==
    \/ StartHelper(s) \/ Announce(s) \/ ReadCommand(s) \/ CallShutdown(s)
    \/ \E m \in Methods : Answer(s, m)

Next ==
    \/ DbusStep \/ AskReload \/ AskShutdown \/ \E m \in Methods : Ask(m)
    \/ Hangup \/ StopService \/ StartService \/ ForkFails
    \/ \E s \in Services : ServiceStep(s) \/ Fails(s)

Spec == Init /\ [][Next]_vars

\* The processes run, and the threads of a service; nobody need ask anything.
Fairness ==
    /\ WF_vars(DbusStep) /\ WF_vars(StopService \/ StartService)
    /\ \A s \in Services : WF_vars(StartHelper(s)) /\ WF_vars(Announce(s))
                           /\ WF_vars(ServiceStep(s))

FairSpec == Spec /\ Fairness
-----------------------------------------------------------------------------
(* Properties.                                                             *)

\* What the processes and the two directions of the stream may hold.
TypeOK ==
    /\ dbus \in {"init", "idle", "reload", "stuck", "gone"} \cup Methods
    /\ hup \in BOOLEAN /\ has \subseteq Methods /\ alarms \in 0..MaxAlarms
    /\ calls \in 0..MaxCalls /\ detached \in BOOLEAN
    /\ buf \in [Methods -> Seq(Bytes)]
    /\ requests \in Seq(Commands \cup {"zero"}) /\ answers \in Seq(Bytes)
    /\ helper \in [Services -> {"none", "starts", "reads", "gone"} \cup Commands]
    /\ announced \subseteq Services /\ last \in 0..MaxStarts
    /\ down \in {"up", "restart", "childless", "ends"}
    /\ sighup \in BOOLEAN /\ surplus \in BOOLEAN

\* As long as every service was started because the D-Bus process waits for it,
\* nothing is left over from an answer that the next method would take for its
\* own.
InStep ==
    dbus = "idle" /\ ~surplus =>
        /\ answers = <<>>
        /\ \A s \in Services : helper[s] \notin Methods
        /\ \A i \in DOMAIN requests : requests[i] \notin Methods

\* Both of them, as one invariant of the run.
StreamOK == TypeOK /\ InStep

\* What a method has then is the answer of the service that runs, to this
\* method, until the SIGHUP is taken that comes with a new one.  (Behind a string
\* there may be the end of a longer one: the buffer is not cleared.)
FreshAnswers ==
    ~surplus /\ ~hup =>
        \A m \in has \ Unkept : \A k \in 1..Length[m][last] :
            k \in DOMAIN buf[m] /\ buf[m][k] = [of |-> m, from |-> last]

\* A method returns, also when the service that took its request was stopped, and
\* whatever is left in the stream: its caller is answered, if wrongly.  Only where
\* the service that was to follow was never forked does it wait for good.
MethodReturns ==
    \A m \in Methods : dbus = m ~> dbus # m \/ down = "childless"

\* ReloadConfig returns once a service has started, if the signal has found the
\* shell's child and the supervisor's fork has succeeded.
ReloadReturns == dbus = "reload" ~> dbus # "reload" \/ detached \/ down = "childless"
=============================================================================
