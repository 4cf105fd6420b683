------------------------------- MODULE Watchdog -------------------------------
(***************************************************************************)
(* The class Watchdog (watchdog.cpp) and the device behind it.             *)
(*                                                                         *)
(* The device is the kernel's: it counts down from its timeout while it is *)
(* armed and resets the machine at zero.  Here it is what the ioctls of    *)
(* watchdog.cpp rely on.  Each member function is an action with the value *)
(* it returns as a parameter; which ioctl fails is a choice.               *)
(***************************************************************************)
EXTENDS Integers

CONSTANTS
    DeviceTimeouts,  \* the timeouts, in seconds, the device can be set to
    NoWayOut         \* the device cannot be disarmed once it is armed

ASSUME DeviceAssumption ==
    /\ DeviceTimeouts \subseteq Nat \ {0}
    /\ NoWayOut \in BOOLEAN

VARIABLES
    armed,      \* device: counting down
    period,     \* device: its timeout
    left,       \* device: seconds until it resets the machine
    fd,         \* the device file is "closed" (never opened), "open" or "stale"
    wdTimeout,  \* Watchdog::timeout
    fired,      \* device: the machine was reset
    unwritten,  \* history: Close could not write the magic character
    guessed     \* history: the driver refused the timeout asked for

history == <<unwritten, guessed>>
device  == <<armed, period, left, fd, wdTimeout, fired, history>>

DeviceInit ==
    /\ armed = FALSE /\ period \in DeviceTimeouts /\ left = period
    /\ fd = "closed" /\ wdTimeout = 0 /\ fired = FALSE
    /\ unwritten = FALSE /\ guessed = FALSE

\* What WDIOC_SETTIMEOUT may set: the timeout asked for where the device has it,
\* otherwise the next one below or above.
Chosen(asked) ==
    {p \in DeviceTimeouts : \A q \in DeviceTimeouts \ {p} :
        ~(asked <= q /\ q < p) /\ ~(p < q /\ q <= asked)}

\* WDIOC_GETTIMEOUT halved, 1 at least and when the ioctl fails.
OptimalPingInterval(p) == IF p \div 2 < 1 THEN 1 ELSE p \div 2

GetOptimalPingInterval == {OptimalPingInterval(period), 1}

\* Close writes the magic character and closes; where the write fails the device
\* goes on counting, unless it needs no magic character.  The descriptor keeps
\* its number, so that a second Close writes to it again and fails.
Close ==
    \/ fd # "open" /\ UNCHANGED device
    \/ /\ fd = "open" /\ fd' = "stale"
       /\ \/ armed' = (armed /\ NoWayOut) /\ UNCHANGED unwritten
          \/ unwritten' = TRUE /\ UNCHANGED armed
       /\ UNCHANGED <<period, left, wdTimeout, fired, guessed>>

\* Ping sets the timeout t again, which a driver may refuse, and refuses for 0;
\* the driver writes what it set back to Watchdog.
SetAgain(t) ==
    \/ period' = period /\ wdTimeout' = t
    \/ t > 0 /\ \E p \in Chosen(t) : period' = p /\ wdTimeout' = p

\* Ping.  If WDIOC_KEEPALIVE fails the timeout is set again, which may restart
\* the countdown too, and KEEPALIVE is retried; if that fails as well the answer
\* is -1.
Ping(ret) ==
    /\ \/ /\ ret = 0 /\ left' = period
          /\ UNCHANGED <<period, wdTimeout>>
       \/ /\ ret \in {0, -1}
          /\ SetAgain(wdTimeout)
          /\ left' \in IF ret = 0 THEN {period'} ELSE {left, period'}
    /\ UNCHANGED <<armed, fd, fired, history>>

\* open() arms the device; a device that does not answer KEEPALIVE is closed
\* again, as by Close.
Open(ret) ==
    \/ /\ ret = 0
       /\ armed' = TRUE /\ fd' = "open" /\ left' = period
       /\ UNCHANGED <<period, wdTimeout, fired, history>>
    \/ /\ ret = -1 /\ fd' = "closed"
       /\ UNCHANGED <<armed, period, left, wdTimeout, fired, history>>
    \/ /\ ret = -1
       /\ fd' = "stale" /\ left' = period
       /\ \/ armed' = NoWayOut /\ UNCHANGED unwritten
          \/ armed' = TRUE /\ unwritten' = TRUE
       /\ UNCHANGED <<period, wdTimeout, fired, guessed>>

\* Slip: the card is not enabled again when the driver refused the timeout.
ReenableUnlessRefused(ret, refused) ==
    \/ ret = 0  /\ armed' = ~refused
    \/ ret = -1 /\ armed' = NoWayOut

\* Enable, and Ping: -1 leaves the card disabled, or enabled but deaf.
Reenable(ret, refused) ==
    \/ ret = 0  /\ armed' = TRUE
    \/ ret = -1 /\ armed' \in {NoWayOut, TRUE}

\* Slip: the timeout asked for is kept instead of the one the driver chose.
RememberedAsked(asked, chosen) == asked

\* The driver writes the timeout it chose back into the argument.
Remembered(asked, chosen) == chosen

\* ConfigureWatchdogTimeout.  The card is disabled first, which a driver
\* without a way out refuses.
ConfigureWatchdogTimeout(timeout, ret) ==
    \/ timeout <= 0 /\ ret = 0 /\ UNCHANGED device
    \/ timeout > 0 /\ ret = -1 /\ UNCHANGED device
    \/ \* GETSUPPORT fails, or has no WDIOF_SETTIMEOUT
       /\ timeout > 0 /\ ~NoWayOut /\ ret = -1
       /\ armed' = FALSE
       /\ UNCHANGED <<period, left, fd, wdTimeout, fired, history>>
    \/ \* SETTIMEOUT fails; Ping may set what is guessed instead
       /\ timeout > 0 /\ ~NoWayOut
       /\ \E guess \in GetOptimalPingInterval : SetAgain(guess)
       /\ Reenable(ret, TRUE) /\ left' = period' /\ guessed' = TRUE
       /\ UNCHANGED <<fd, fired, unwritten>>
    \/ \E chosen \in Chosen(timeout) :
       /\ timeout > 0 /\ ~NoWayOut
       /\ period' = chosen /\ left' = chosen
       /\ wdTimeout' = Remembered(timeout, chosen)
       /\ Reenable(ret, FALSE)
       /\ UNCHANGED <<fd, fired, history>>

\* CheckWatchdogTimeout: is the ping interval too long?
CheckWatchdogTimeout(interval) == interval > wdTimeout

\* A second passes.
CountDown ==
    /\ armed => left > 0
    /\ left' = IF armed THEN left - 1 ELSE left
    /\ UNCHANGED <<armed, period, fd, wdTimeout, fired, history>>

\* At zero the machine is reset.
Expire ==
    /\ armed /\ left = 0 /\ ~fired
    /\ fired' = TRUE
    /\ UNCHANGED <<armed, period, left, fd, wdTimeout, history>>
=============================================================================
