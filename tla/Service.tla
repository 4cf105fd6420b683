-------------------------------- MODULE Service -------------------------------
(***************************************************************************)
(* The life of the watchdog device in the service process: ServiceMain of  *)
(* main.cpp from the moment it opens the device, the Pinger timer of its   *)
(* event loop, and the loop that follows a reboot request.  The other      *)
(* threads appear as the two variables they set, stop and stopPing.        *)
(*                                                                         *)
(* Time passes in seconds, in the event loop and after it.  The process is *)
(* scheduled in time: a timer that is due runs before the second is over.  *)
(***************************************************************************)
EXTENDS Watchdog, Options

CONSTANTS
    CommandLines,  \* the options given: sequences of letters
    Files,         \* what the configuration file may say
    MaxClockStep,  \* how far the wall clock may be set back between two pings
    MaxMissed      \* for how many seconds in a row pings may go unanswered

ASSUME SettingsAssumption ==
    /\ CommandLines \subseteq Seq(Letters)
    /\ Files \subseteq FileType
    /\ MaxClockStep \in Nat
    /\ MaxMissed \in Nat

VARIABLES
    phase,      \* how far ServiceMain is
    setting,    \* options.watchdogTimeout
    interval,   \* options.sleeptime, then Watchdog::pingInterval
    force,      \* option -f
    due,        \* seconds until the Pinger timer, or the sleep, is over
    setBack,    \* history: by how much the clock was set back since an answered ping
    missed,     \* history: the waits after pings that went unanswered in a row
    stop, stopPing

timer   == <<due, setBack, missed>>
service == <<phase, setting, interval, force, timer, stop, stopPing>>
vars    == <<device, service>>

Init ==
    /\ DeviceInit
    /\ phase = "open" /\ due = 0 /\ setBack = 0 /\ missed = 0
    /\ force \in BOOLEAN
    /\ \E line \in CommandLines, file \in Files :
         /\ Configured(line, file) \cap {"NOACTION", "IDENTIFY"} = {}
         /\ force <=> "FORCE" \in Configured(line, file)
         /\ setting = WatchdogTimeout(file)
         /\ interval = SleepTime(file)
    /\ stop = FALSE /\ stopPing = FALSE

Advance(p) == phase' = p /\ UNCHANGED <<setting, interval, force, timer, stop, stopPing>>
-----------------------------------------------------------------------------
(* Startup.                                                                *)

\* GetIdentity returns NULL when GETSUPPORT fails, which neither Open nor
\* ServiceMain looks at before it reads through it.  EBUSY ends the service, every
\* other failure leads to a second try with the softdog module loaded.
OpenDevice ==
    /\ phase = "open"
    /\ \/ Open(0) /\ (Advance("configure") \/ Advance("aborted"))
       \/ Open(-1) /\ (Advance("reopen") \/ Advance("exited"))

ReopenDevice ==
    /\ phase = "reopen"
    /\ \/ Open(0) /\ (Advance("configure") \/ Advance("aborted"))
       \/ Open(-1) /\ Advance("aborted")

ConfigureTimeout ==
    /\ phase = "configure"
    /\ \/ ConfigureWatchdogTimeout(setting, 0) /\ Advance("interval")
       \/ ConfigureWatchdogTimeout(setting, -1)
          /\ Advance(IF setting # -1 THEN "refuse" ELSE "interval")

\* An interval that is not configured is detected.
ChooseInterval ==
    /\ phase = "interval"
    /\ interval' \in IF interval = -1 THEN GetOptimalPingInterval ELSE {interval}
    /\ phase' = "check"
    /\ UNCHANGED <<device, setting, force, timer, stop, stopPing>>

CheckInterval ==
    /\ phase = "check"
    /\ Advance(IF setting # -1 /\ CheckWatchdogTimeout(interval) /\ ~force
               THEN "refuse" ELSE "start")
    /\ UNCHANGED device

\* Slip: the device is left to the end of the process.
RefuseWithoutClose ==
    /\ phase = "refuse"
    /\ UNCHANGED device
    /\ Advance("exited")

\* A configuration that cannot be used: Close, and return EXIT_FAILURE.
Refuse ==
    /\ phase = "refuse"
    /\ Close
    /\ Advance("exited")

\* A ping, whatever comes of it, and the wait for the next one.
PingFor(wait) ==
    /\ \E ret \in {0, -1} : Ping(ret)
    /\ due' = wait
    /\ \/ left' >= period' /\ missed' = 0 /\ setBack' = 0
       \/ left' < period' /\ missed' = missed + wait /\ missed' <= MaxMissed
          /\ UNCHANGED setBack

\* Reading the identity pings; InstallPinger arms a timer for now.
InstallPinger ==
    /\ phase = "start"
    /\ PingFor(0)
    /\ phase' \in {"platform", "aborted"}
    /\ UNCHANGED <<setting, interval, force, stop, stopPing>>

\* PlatformInit fails when oom_score_adj cannot be written; FatalError aborts.
PlatformInit ==
    /\ phase = "platform"
    /\ Advance("loop") \/ Advance("aborted")
    /\ UNCHANGED device
-----------------------------------------------------------------------------
(* The event loop.                                                         *)

\* Slip: the successor is a second late.
PingerLate ==
    /\ phase = "loop" /\ due = 0
    /\ \E ret \in {0, -1} : Ping(ret)
    /\ due' = interval + 1 /\ setBack' = 0 /\ missed' = 0
    /\ left' >= period'
    /\ UNCHANGED <<phase, setting, interval, force, stop, stopPing>>

\* Pinger: a one-shot timer that installs its successor, whatever Ping returned.
Pinger ==
    /\ phase = "loop" /\ due = 0
    /\ PingFor(interval)
    /\ UNCHANGED <<phase, setting, interval, force, stop, stopPing>>

\* The timer is for a time of CLOCK_REALTIME: setting the clock back delays
\* it, setting it forward brings it nearer.
SetClock ==
    /\ phase = "loop"
    /\ due' \in 0..(due + MaxClockStep - setBack)
    /\ setBack' = IF due' > due THEN setBack + (due' - due) ELSE setBack
    /\ UNCHANGED <<device, phase, setting, interval, force, missed, stop, stopPing>>

\* Another thread is in EndDaemon, and then in NativeShutdown.
SetStop ==
    /\ phase \in {"platform", "loop"} /\ ~stop
    /\ stop' = TRUE
    /\ UNCHANGED <<device, phase, setting, interval, force, timer, stopPing>>

SetStopPing ==
    /\ stop /\ ~stopPing
    /\ phase \in {"platform", "loop", "final"}
    /\ stopPing' = TRUE
    /\ UNCHANGED <<device, phase, setting, interval, force, timer, stop>>

\* SIGTERM or SIGINT ends the loop.
Terminate ==
    /\ phase = "loop"
    /\ phase' = (IF stop THEN "final" ELSE "close") /\ due' = 0
    /\ UNCHANGED <<device, setting, interval, force, setBack, missed, stop, stopPing>>

CloseDevice ==
    /\ phase = "close"
    /\ Close
    /\ Advance("exited")
-----------------------------------------------------------------------------
(* The loop that waits for the reboot.                                     *)

\* Every second, from now on: ping, or disarm once stopPing is set.
FinalLoop ==
    /\ phase = "final" /\ due = 0
    /\ \/ stopPing /\ Close /\ due' = 1 /\ UNCHANGED <<setBack, missed>>
       \/ ~stopPing /\ PingFor(1)
    /\ UNCHANGED <<phase, setting, interval, force, stop, stopPing>>

Second ==
    /\ CountDown
    /\ \/ phase \in {"loop", "final"} /\ due > 0 /\ due' = due - 1
       \/ phase \in {"exited", "aborted"} /\ armed /\ UNCHANGED due
    /\ UNCHANGED <<phase, setting, interval, force, setBack, missed, stop, stopPing>>

Startup == OpenDevice \/ ReopenDevice \/ ConfigureTimeout \/ ChooseInterval
           \/ CheckInterval \/ Refuse \/ InstallPinger \/ PlatformInit

Next ==
    /\ ~fired
    /\ \/ Startup
       \/ Pinger \/ SetClock \/ SetStop \/ SetStopPing \/ Terminate
       \/ CloseDevice \/ FinalLoop
       \/ Second
       \/ Expire /\ UNCHANGED service

Spec == Init /\ [][Next]_vars
-----------------------------------------------------------------------------
(* Properties.                                                             *)

Phases == {"open", "reopen", "configure", "interval", "check", "refuse",
           "start", "platform", "loop", "close", "final", "exited", "aborted"}

\* The variables have the types the code gives them; the interval is known
\* once it has been chosen.
TypeOK ==
    /\ armed \in BOOLEAN /\ fired \in BOOLEAN
    /\ unwritten \in BOOLEAN /\ guessed \in BOOLEAN
    /\ fd \in {"closed", "open", "stale"}
    /\ period \in DeviceTimeouts /\ left \in Nat
    /\ wdTimeout \in Nat
    /\ phase \in Phases
    /\ setting \in {-1} \cup (1..60) /\ force \in BOOLEAN
    /\ interval \in {-1} \cup (Nat \ {0})
    /\ phase \in {"check", "start", "platform", "loop", "close", "final"}
         => interval # -1
    /\ due \in Nat /\ setBack \in 0..MaxClockStep /\ missed \in 0..MaxMissed
    /\ stop \in BOOLEAN /\ stopPing \in BOOLEAN

\* The service never serves a device that is not counting: whichever ioctl
\* failed on the way, from the event loop to the reboot request the machine is
\* guarded.
Serving == phase \in {"platform", "loop"} \/ (phase = "final" /\ ~stopPing)

Guarded == Serving => armed /\ fd = "open"

\* Whichever way the service ends, a device that can be stopped goes on counting
\* in two cases only: the write of the magic character failed, which ServiceMain
\* ignores, or the process was cut short with the device open.
ExitDisarms ==
    phase \in {"exited", "aborted"} /\ armed /\ ~NoWayOut
        => unwritten \/ (phase = "aborted" /\ fd = "open")

\* Where a timeout is configured (the check is skipped otherwise), without -f, an
\* interval that is longer than what the driver made of the timeout never gets
\* into the event loop; nor does the timeout fall below the interval later, unless
\* the driver had refused the timeout, so that Ping may set a guess of it.
AcceptedInterval ==
    phase = "loop" /\ setting # -1 /\ ~force /\ ~guessed => interval <= period

\* While the service guards the machine, in the event loop, on the way to the
\* final loop and in that loop up to the reboot request, the machine is reset only
\* if pings in a row went unanswered, or the clock was set back, for all that the
\* timeout is longer than the interval: whichever ioctls fail, in whatever order
\* stop, stopPing and SIGTERM come.  One ping that fails and is answered the next
\* time does no harm where the timeout is at least twice the interval.
InTime == Serving /\ fired => interval + missed + setBack >= period

\* What Watchdog knows of the device's timeout is never too long, the driver
\* takes it again unless it is a guess, and an interval that passed the check is
\* within it.
KnownTimeout ==
    /\ setting = -1 => wdTimeout = 0
    /\ wdTimeout <= period
    /\ guessed \/ wdTimeout = 0 \/ wdTimeout \in DeviceTimeouts
    /\ setting # -1 /\ ~force /\ phase = "start" => interval <= wdTimeout
    /\ setting # -1 /\ ~force /\ ~guessed /\ phase \in {"platform", "loop"}
         => interval <= wdTimeout

\* The next ping comes before the device's end, or late by what the clock was
\* set back and by the pings that went unanswered.
Slack == Serving => left + setBack + missed + interval >= period + due

\* The device is open from its configuration on, and full up to the first ping.
BeforePing == phase \in {"configure", "interval", "check", "start"}

Opened ==
    /\ BeforePing \/ Serving => armed /\ fd = "open"
    /\ BeforePing => left = period

\* The device part of the invariant, which is inductive by itself.
Sound == TypeOK /\ Opened /\ KnownTimeout

\* The inductive invariant.
IInv == Sound /\ Slack /\ InTime
=============================================================================
