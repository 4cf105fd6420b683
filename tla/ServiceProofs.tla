---------------------------- MODULE ServiceProofs ----------------------------
(* Proofs about Service, for every device and every configuration.         *)
EXTENDS Service, TLAPS

USE DeviceAssumption, SettingsAssumption DEF Phases, history

\* OptimalPingInterval never exceeds the timeout it is computed from.
LEMMA OptimalBound ==
    ASSUME NEW p \in Nat \ {0}
    PROVE  OptimalPingInterval(p) \in Nat \ {0} /\ OptimalPingInterval(p) <= p
    BY DEF OptimalPingInterval

\* What the driver chooses is a timeout of the device's, and the one asked for
\* where the device has it.
LEMMA ChosenEffect ==
    ASSUME NEW t \in Nat, NEW p \in Chosen(t)
    PROVE  p \in DeviceTimeouts /\ (t \in DeviceTimeouts => p = t)
<1>1. /\ p \in DeviceTimeouts
      /\ \A q \in DeviceTimeouts \ {p} :
            ~(t <= q /\ q < p) /\ ~(p < q /\ q <= t)
    BY DEF Chosen
<1>2. ASSUME t \in DeviceTimeouts, p # t PROVE FALSE
  <2>1. ~(t <= t /\ t < p) /\ ~(p < t /\ t <= t)
    BY <1>1, <1>2
  <2>2. QED
    BY <1>1, <1>2, <2>1
<1>3. QED
    BY <1>1, <1>2

\* A timeout that is set again is known as it is, and is not longer than the one
\* the device had.
LEMMA SetAgainEffect ==
    ASSUME period \in DeviceTimeouts, NEW t \in Nat, t <= period, SetAgain(t)
    PROVE  /\ period' \in DeviceTimeouts /\ period' <= period
           /\ wdTimeout' \in Nat /\ wdTimeout' <= period'
           /\ t = 0 \/ t \in DeviceTimeouts => wdTimeout' = t
<1>1. CASE period' = period /\ wdTimeout' = t
    BY <1>1
<1>2. CASE t > 0 /\ \E p \in Chosen(t) : period' = p /\ wdTimeout' = p
  <2>1. PICK p \in Chosen(t) : t > 0 /\ period' = p /\ wdTimeout' = p
    BY <1>2
  <2>2. p \in DeviceTimeouts /\ (t \in DeviceTimeouts => p = t)
    BY ChosenEffect
  <2>3. p <= period
    <3>1. p # period => ~(t <= period /\ period < p)
      BY DEF Chosen
    <3>2. QED
      BY <2>2, <3>1
  <2>4. QED
    BY <2>1, <2>2, <2>3
<1>3. QED
    BY <1>1, <1>2 DEF SetAgain

\* Ping fills the countdown or leaves it as it is, and knows the device's timeout.
LEMMA PingEffect ==
    ASSUME TypeOK, KnownTimeout, NEW ret \in {0, -1}, Ping(ret)
    PROVE  /\ period' \in DeviceTimeouts /\ period' <= period
           /\ left' \in Nat /\ left' \in {left, period'}
           /\ wdTimeout' \in Nat /\ wdTimeout' <= period'
           /\ wdTimeout = 0 \/ ~guessed => wdTimeout' = wdTimeout
           /\ UNCHANGED <<armed, fd, fired, unwritten, guessed>>
<1>1. period \in DeviceTimeouts /\ wdTimeout \in Nat /\ wdTimeout <= period
      /\ left \in Nat /\ (guessed \/ wdTimeout = 0 \/ wdTimeout \in DeviceTimeouts)
    BY DEF TypeOK, KnownTimeout
<1>2. UNCHANGED <<armed, fd, fired, unwritten, guessed>>
    BY DEF Ping
<1>3. CASE ret = 0 /\ left' = period /\ UNCHANGED <<period, wdTimeout>>
    BY <1>1, <1>2, <1>3
<1>4. CASE /\ SetAgain(wdTimeout)
           /\ left' \in IF ret = 0 THEN {period'} ELSE {left, period'}
    BY <1>1, <1>2, <1>4, SetAgainEffect
<1>5. QED
    BY <1>3, <1>4 DEF Ping

\* The same for a ping whose result nobody looks at.
LEMMA PingForEffect ==
    ASSUME TypeOK, KnownTimeout, NEW wait \in Nat, PingFor(wait)
    PROVE  /\ period' \in DeviceTimeouts /\ period' <= period
           /\ left' \in Nat /\ left' \in {left, period'}
           /\ wdTimeout' \in Nat /\ wdTimeout' <= period'
           /\ wdTimeout = 0 \/ ~guessed => wdTimeout' = wdTimeout
           /\ UNCHANGED <<armed, fd, fired, unwritten, guessed>>
           /\ due' = wait
           /\ setBack' \in 0..MaxClockStep /\ missed' \in 0..MaxMissed
           /\ \/ left' >= period' /\ missed' = 0 /\ setBack' = 0
              \/ left' = left /\ missed' = missed + wait /\ setBack' = setBack
<1>1. PICK ret \in {0, -1} : Ping(ret)
    BY DEF PingFor
<1>2. /\ period' \in DeviceTimeouts /\ period' <= period
      /\ left' \in Nat /\ left' \in {left, period'}
      /\ wdTimeout' \in Nat /\ wdTimeout' <= period'
      /\ wdTimeout = 0 \/ ~guessed => wdTimeout' = wdTimeout
      /\ UNCHANGED <<armed, fd, fired, unwritten, guessed>>
    BY <1>1, PingEffect
<1>3. due' = wait
    BY DEF PingFor
<1>4. missed \in 0..MaxMissed /\ setBack \in 0..MaxClockStep /\ period' \in Nat
    BY <1>2 DEF TypeOK
<1>5. CASE left' >= period' /\ missed' = 0 /\ setBack' = 0
    BY <1>2, <1>3, <1>5
<1>6. CASE /\ left' < period' /\ missed' = missed + wait /\ missed' <= MaxMissed
           /\ UNCHANGED setBack
  <2>1. missed' \in 0..MaxMissed
    BY <1>4, <1>6
  <2>2. left' = left
    BY <1>2, <1>4, <1>6
  <2>3. QED
    BY <1>2, <1>3, <1>4, <1>6, <2>1, <2>2
<1>7. QED
    BY <1>5, <1>6 DEF PingFor

\* Open with either result.
LEMMA OpenEffect ==
    ASSUME TypeOK, NEW ret \in {0, -1}, Open(ret)
    PROVE  /\ armed' \in BOOLEAN /\ fd' \in {"closed", "open", "stale"}
           /\ left' \in Nat
           /\ ret = 0 => armed' = TRUE /\ fd' = "open" /\ left' = period
           /\ unwritten' \in BOOLEAN
           /\ ret = -1 /\ (armed /\ ~NoWayOut => unwritten)
                => (armed' /\ ~NoWayOut => unwritten') /\ fd' # "open"
           /\ ret = 0 => unwritten' = unwritten
           /\ UNCHANGED <<period, wdTimeout, fired, guessed>>
<1> USE DEF TypeOK, device
<1>1. CASE ret = 0
    BY <1>1 DEF Open
<1>2. CASE ret = -1
  <2>1. CASE /\ fd' = "closed"
             /\ UNCHANGED <<armed, period, left, wdTimeout, fired, history>>
    BY <1>2, <2>1
  <2>2. CASE /\ fd' = "stale" /\ left' = period
             /\ armed' = NoWayOut /\ UNCHANGED unwritten
             /\ UNCHANGED <<period, wdTimeout, fired, guessed>>
    BY <1>2, <2>2
  <2>3. CASE /\ fd' = "stale" /\ left' = period
             /\ armed' = TRUE /\ unwritten' = TRUE
             /\ UNCHANGED <<period, wdTimeout, fired, guessed>>
    <3>1. armed' \in BOOLEAN /\ unwritten' \in BOOLEAN
      BY <2>3, Zenon
    <3>2. QED
      BY <1>2, <2>3, <3>1
  <2>4. \/ /\ fd' = "closed"
           /\ UNCHANGED <<armed, period, left, wdTimeout, fired, history>>
        \/ /\ fd' = "stale" /\ left' = period
           /\ \/ armed' = NoWayOut /\ UNCHANGED unwritten
              \/ armed' = TRUE /\ unwritten' = TRUE
           /\ UNCHANGED <<period, wdTimeout, fired, guessed>>
    BY <1>2, SMT DEF Open
  <2>5. QED
    BY <2>1, <2>2, <2>3, <2>4, Zenon
<1>3. QED
    BY <1>1, <1>2

\* Enable and Ping, at the end of ConfigureWatchdogTimeout.
LEMMA ReenableEffect ==
    ASSUME NEW ret \in {0, -1}, NEW refused \in BOOLEAN, Reenable(ret, refused)
    PROVE  armed' \in BOOLEAN /\ (ret = 0 => armed' = TRUE)
<1>1. CASE ret = 0
  <2>1. armed' = TRUE
    BY <1>1 DEF Reenable
  <2>2. armed' \in BOOLEAN
    BY <2>1, Zenon
  <2>3. QED
    BY <2>1, <2>2
<1>2. CASE ret = -1
  <2>1. armed' \in {NoWayOut, TRUE}
    BY <1>2 DEF Reenable
  <2>2. armed' \in BOOLEAN
    BY <2>1, DeviceAssumption, Zenon
  <2>3. QED
    BY <1>2, <2>2
<1>3. QED
    BY <1>1, <1>2

\* Whichever ioctl of ConfigureWatchdogTimeout fails, a result of 0 means that
\* the device counts, and the timeout kept is never longer than the device's.
LEMMA ConfigureEffect ==
    ASSUME TypeOK, KnownTimeout, armed, fd = "open", left = period,
           NEW ret \in {0, -1}, ConfigureWatchdogTimeout(setting, ret)
    PROVE  /\ armed' \in BOOLEAN /\ fd' = fd
           /\ period' \in DeviceTimeouts /\ left' = period'
           /\ wdTimeout' \in Nat /\ wdTimeout' <= period'
           /\ guessed' \in BOOLEAN
           /\ guessed' \/ wdTimeout' = 0 \/ wdTimeout' \in DeviceTimeouts
           /\ setting = -1 => wdTimeout' = 0 /\ ret = 0
           /\ ret = 0 => armed' = TRUE
           /\ UNCHANGED <<fired, unwritten>>
<1> DEFINE Goal == /\ armed' \in BOOLEAN /\ fd' = fd
                   /\ period' \in DeviceTimeouts /\ left' = period'
                   /\ wdTimeout' \in Nat /\ wdTimeout' <= period'
                   /\ guessed' \in BOOLEAN
                   /\ guessed' \/ wdTimeout' = 0 \/ wdTimeout' \in DeviceTimeouts
                   /\ setting = -1 => wdTimeout' = 0 /\ ret = 0
                   /\ ret = 0 => armed' = TRUE
                   /\ UNCHANGED <<fired, unwritten>>
<1> HIDE DEF Goal
<1>0. /\ setting \in Int /\ (setting <= 0 <=> setting = -1)
      /\ period \in DeviceTimeouts /\ wdTimeout \in Nat /\ wdTimeout <= period
      /\ guessed \/ wdTimeout = 0 \/ wdTimeout \in DeviceTimeouts
      /\ setting = -1 => wdTimeout = 0
    BY DEF TypeOK, KnownTimeout
<1>a. armed = TRUE
    BY Zenon DEF TypeOK
<1>b. guessed \in BOOLEAN
    BY DEF TypeOK
<1>1. ASSUME UNCHANGED <<armed, period, left, fd, wdTimeout, fired, unwritten, guessed>>,
             setting <= 0 => ret = 0
      PROVE  Goal
    BY <1>0, <1>1, <1>a, <1>b DEF Goal
<1>2. ASSUME setting > 0, ret = -1, armed' = FALSE,
             UNCHANGED <<period, left, fd, wdTimeout, fired, unwritten, guessed>>
      PROVE  Goal
  <2>1. armed' \in BOOLEAN
    BY <1>2, Zenon
  <2>2. QED
    BY <1>0, <1>2, <2>1, <1>b DEF Goal
<1>3. ASSUME setting > 0, \E guess \in GetOptimalPingInterval : SetAgain(guess),
             Reenable(ret, TRUE), left' = period', guessed' = TRUE,
             UNCHANGED <<fd, fired, unwritten>>
      PROVE  Goal
  <2>1. PICK guess \in GetOptimalPingInterval : SetAgain(guess)
    BY <1>3
  <2>2. guess \in Nat /\ guess <= period
    BY <1>0, OptimalBound DEF GetOptimalPingInterval
  <2>3. /\ period' \in DeviceTimeouts
        /\ wdTimeout' \in Nat /\ wdTimeout' <= period'
    BY <1>0, <2>1, <2>2, SetAgainEffect
  <2>4. armed' \in BOOLEAN /\ (ret = 0 => armed' = TRUE)
    BY <1>3, ReenableEffect
  <2>5. guessed' \in BOOLEAN
    BY <1>3, Zenon
  <2>6. QED
    BY <1>0, <1>3, <2>3, <2>4, <2>5 DEF Goal
<1>4. ASSUME NEW chosen \in Chosen(setting),
             setting > 0, period' = chosen, left' = chosen,
             wdTimeout' = Remembered(setting, chosen),
             Reenable(ret, FALSE), UNCHANGED <<fd, fired, unwritten, guessed>>
      PROVE  Goal
  <2>1. armed' \in BOOLEAN /\ (ret = 0 => armed' = TRUE)
    BY <1>4, ReenableEffect
  <2>2. chosen \in DeviceTimeouts
    BY <1>4 DEF Chosen
  <2>3. QED
    BY <1>0, <1>4, <1>b, <2>1, <2>2 DEF Goal, Remembered
<1>5. Goal
  <2>1. CASE setting <= 0 /\ ret = 0 /\ UNCHANGED device
    BY <2>1, <1>1 DEF device
  <2>2. CASE setting > 0 /\ ret = -1 /\ UNCHANGED device
    BY <2>2, <1>0, <1>1 DEF device
  <2>3. CASE /\ setting > 0 /\ ~NoWayOut /\ ret = -1
             /\ armed' = FALSE
             /\ UNCHANGED <<period, left, fd, wdTimeout, fired, history>>
    BY <2>3, <1>2
  <2>4. CASE /\ setting > 0 /\ ~NoWayOut
             /\ \E guess \in GetOptimalPingInterval : SetAgain(guess)
             /\ Reenable(ret, TRUE) /\ left' = period' /\ guessed' = TRUE
             /\ UNCHANGED <<fd, fired, unwritten>>
    BY <2>4, <1>3
  <2>5. CASE \E chosen \in Chosen(setting) :
               /\ setting > 0 /\ ~NoWayOut
               /\ period' = chosen /\ left' = chosen
               /\ wdTimeout' = Remembered(setting, chosen)
               /\ Reenable(ret, FALSE)
               /\ UNCHANGED <<fd, fired, history>>
    BY <2>5, <1>4
  <2>6. QED
    BY <2>1, <2>2, <2>3, <2>4, <2>5, Zenon DEF ConfigureWatchdogTimeout
<1>6. QED
    BY <1>5 DEF Goal
-----------------------------------------------------------------------------
(* The inductive invariant, whatever happens to the clock.                 *)

\* Whatever the file says, what comes of it is in the range the code allows.
LEMMA SettingsInRange ==
    ASSUME NEW file \in Files
    PROVE  /\ WatchdogTimeout(file) \in {-1} \cup (1..60)
           /\ SleepTime(file) \in {-1} \cup (1..60)
    BY DEF WatchdogTimeout, SleepTime

\* It is set up by Init.
LEMMA SoundInit == Init => Sound
<1> SUFFICES ASSUME Init PROVE Sound
    OBVIOUS
<1>1. /\ armed \in BOOLEAN /\ fired \in BOOLEAN /\ stop \in BOOLEAN
      /\ stopPing \in BOOLEAN /\ unwritten \in BOOLEAN /\ guessed \in BOOLEAN
    BY Zenon DEF Init, DeviceInit
<1>2. PICK line \in CommandLines, file \in Files :
        setting = WatchdogTimeout(file) /\ interval = SleepTime(file)
    BY Zenon DEF Init
<1>3. force \in BOOLEAN
    BY Zenon DEF Init
<1>4. setting \in {-1} \cup (1..60) /\ interval \in {-1} \cup (1..60)
    BY <1>2, SettingsInRange
<1>5. setting \in {-1} \cup (1..60) /\ interval \in {-1} \cup (Nat \ {0})
    BY <1>4
<1>6. /\ period \in DeviceTimeouts /\ left = period /\ fd = "closed"
      /\ wdTimeout = 0 /\ phase = "open" /\ due = 0 /\ setBack = 0 /\ missed = 0
    BY DEF Init, DeviceInit
<1>7. TypeOK
    BY <1>1, <1>3, <1>5, <1>6 DEF TypeOK
<1>8. QED
    BY <1>6, <1>7 DEF Sound, Opened, BeforePing, KnownTimeout, Serving

\* The two attempts to open the device.
LEMMA OpenStep ==
    ASSUME Sound, OpenDevice \/ ReopenDevice
    PROVE  Sound'
<1> USE DEF Sound, Advance
<1>1. PICK ret \in {0, -1} :
        /\ Open(ret)
        /\ ret = 0 => phase' \in {"configure", "aborted"}
        /\ ret = -1 => phase' \in {"reopen", "exited", "aborted"}
    BY DEF OpenDevice, ReopenDevice
<1>2. /\ wdTimeout <= period /\ period' = period /\ wdTimeout' = wdTimeout
      /\ armed' \in BOOLEAN /\ fd' \in {"closed", "open", "stale"} /\ left' \in Nat
      /\ unwritten' \in BOOLEAN /\ guessed' = guessed /\ fired' = fired
    BY <1>1, OpenEffect DEF KnownTimeout
<1>3. UNCHANGED <<setting, interval, force, due, setBack, missed, stop, stopPing>>
    BY DEF OpenDevice, ReopenDevice, timer
<1>4. \/ phase' = "configure" /\ armed' = TRUE /\ fd' = "open" /\ left' = period'
      \/ phase' \in {"reopen", "exited", "aborted"}
    BY <1>1, OpenEffect
<1>5. TypeOK'
    BY <1>2, <1>3, <1>4 DEF TypeOK
<1>6. Opened'
    BY <1>4 DEF Opened, BeforePing, Serving
<1>7. KnownTimeout'
    BY <1>2, <1>3, <1>4 DEF KnownTimeout
<1>8. QED
    BY <1>5, <1>6, <1>7

\* ConfigureWatchdogTimeout with either result.
LEMMA ConfigureStep ==
    ASSUME Sound, ConfigureTimeout
    PROVE  Sound'
<1> USE DEF Sound, Advance
<1>1. phase = "configure" /\ armed /\ fd = "open" /\ left = period
    BY DEF ConfigureTimeout, Opened, BeforePing
<1>2. UNCHANGED <<setting, interval, force, due, setBack, missed, stop, stopPing>>
    BY DEF ConfigureTimeout, timer
<1>3. /\ armed' \in BOOLEAN /\ fd' = fd
      /\ period' \in DeviceTimeouts /\ left' = period'
      /\ wdTimeout' \in Nat /\ wdTimeout' <= period'
      /\ guessed' \in BOOLEAN
      /\ guessed' \/ wdTimeout' = 0 \/ wdTimeout' \in DeviceTimeouts
      /\ setting = -1 => wdTimeout' = 0
      /\ UNCHANGED <<fired, unwritten>>
      /\ phase' = "refuse" \/ (phase' = "interval" /\ armed' = TRUE)
  <2>1. CASE ConfigureWatchdogTimeout(setting, 0) /\ Advance("interval")
    BY <1>1, <2>1, ConfigureEffect
  <2>2. CASE /\ ConfigureWatchdogTimeout(setting, -1)
             /\ Advance(IF setting # -1 THEN "refuse" ELSE "interval")
    BY <1>1, <2>2, ConfigureEffect
  <2>3. QED
    BY <2>1, <2>2 DEF ConfigureTimeout
<1>4. TypeOK'
    BY <1>2, <1>3 DEF TypeOK
<1>5. Opened'
    BY <1>1, <1>3 DEF Opened, BeforePing, Serving
<1>6. KnownTimeout'
    BY <1>2, <1>3 DEF KnownTimeout
<1>7. QED
    BY <1>4, <1>5, <1>6

\* The choice of the ping interval and its check.
LEMMA IntervalStep ==
    ASSUME Sound, ChooseInterval \/ CheckInterval
    PROVE  Sound'
<1> USE DEF Sound, device
<1>1. interval' \in {-1} \cup (Nat \ {0})
      /\ (phase' \in {"check", "start"} => interval' # -1)
  <2>1. CASE ChooseInterval
    BY <2>1, OptimalBound DEF ChooseInterval, GetOptimalPingInterval, TypeOK
  <2>2. CASE CheckInterval
    BY <2>2 DEF CheckInterval, Advance, TypeOK
  <2>3. QED
    BY <2>1, <2>2
<1>2. /\ UNCHANGED <<armed, period, left, fd, wdTimeout, fired, unwritten, guessed>>
      /\ UNCHANGED <<setting, force, due, setBack, missed, stop, stopPing>>
      /\ phase \in {"interval", "check"} /\ phase' \in {"check", "refuse", "start"}
    BY DEF ChooseInterval, CheckInterval, Advance, timer
<1>3. phase' = "start" /\ setting # -1 /\ ~force => interval' <= wdTimeout
    BY DEF ChooseInterval, CheckInterval, CheckWatchdogTimeout, Advance, TypeOK
<1>4. TypeOK'
    BY <1>1, <1>2 DEF TypeOK
<1>5. Opened'
    BY <1>2 DEF Opened, BeforePing, Serving
<1>6. KnownTimeout'
    BY <1>2, <1>3 DEF KnownTimeout
<1>7. QED
    BY <1>4, <1>5, <1>6

\* Close, with all that follows from it.
LEMMA CloseEffect ==
    ASSUME TypeOK, Close
    PROVE  /\ armed' \in BOOLEAN /\ fd' \in {"closed", "stale"}
           /\ unwritten' \in BOOLEAN
           /\ fd = "open" /\ armed' /\ ~NoWayOut => unwritten'
           /\ UNCHANGED <<period, left, wdTimeout, fired, guessed>>
<1>1. CASE fd # "open" /\ UNCHANGED device
    BY <1>1 DEF TypeOK, device
<1>2. CASE fd = "open" /\ armed' = (armed /\ NoWayOut) /\ UNCHANGED unwritten
  <2>1. armed' \in BOOLEAN /\ (armed' => NoWayOut)
    BY <1>2, DeviceAssumption, Zenon DEF TypeOK
  <2>2. fd' = "stale" /\ UNCHANGED <<period, left, wdTimeout, fired, guessed>>
    BY <1>2 DEF Close
  <2>3. QED
    BY <1>2, <2>1, <2>2 DEF TypeOK
<1>3. CASE fd = "open" /\ unwritten' = TRUE /\ UNCHANGED armed
  <2>1. unwritten' \in BOOLEAN
    BY <1>3, Zenon
  <2>2. fd' = "stale" /\ UNCHANGED <<period, left, wdTimeout, fired, guessed>>
    BY <1>3 DEF Close
  <2>3. QED
    BY <1>3, <2>1, <2>2 DEF TypeOK
<1>4. QED
    BY <1>1, <1>2, <1>3, Zenon DEF Close

\* The steps that close the device.
LEMMA CloseStep ==
    ASSUME Sound, Refuse \/ CloseDevice \/ (FinalLoop /\ stopPing)
    PROVE  Sound'
<1> USE DEF Sound, Advance
<1>1. Close
    BY DEF Refuse, CloseDevice, FinalLoop
<1>2. /\ phase' = "exited" \/ (phase' = "final" /\ phase = "final" /\ stopPing)
      /\ due' \in Nat /\ UNCHANGED <<setBack, missed>>
      /\ UNCHANGED <<setting, interval, force, stop, stopPing>>
    BY DEF Refuse, CloseDevice, FinalLoop, TypeOK, timer
<1>3. TypeOK'
    BY <1>1, <1>2, CloseEffect DEF TypeOK
<1>4. Opened'
    BY <1>2 DEF Opened, BeforePing, Serving
<1>5. KnownTimeout'
    BY <1>1, <1>2, CloseEffect DEF KnownTimeout
<1>6. QED
    BY <1>3, <1>4, <1>5

\* The steps that ping, each with the wait that follows.
LEMMA PingWait ==
    ASSUME Sound, InstallPinger \/ Pinger \/ (FinalLoop /\ ~stopPing)
    PROVE  /\ phase \in {"start", "loop"} \/ (phase = "final" /\ ~stopPing)
           /\ phase' \in {"platform", "loop", "final", "aborted"}
           /\ phase' \in {"platform", "aborted"} <=> phase = "start"
           /\ phase' = "final" <=> phase = "final"
           /\ UNCHANGED <<setting, interval, force, stop, stopPing>>
           /\ interval \in Nat \ {0}
           /\ \E wait \in Nat : wait <= interval /\ PingFor(wait)
                               /\ (phase = "start" => wait = 0)
                               /\ (phase # "start" => due = 0)
<1>1. interval \in Nat \ {0} /\ 0 \in Nat /\ 1 \in Nat
    BY DEF Sound, TypeOK, InstallPinger, Pinger, FinalLoop
<1>2. CASE InstallPinger
    BY <1>1, <1>2 DEF InstallPinger
<1>3. CASE Pinger
    BY <1>1, <1>3 DEF Pinger
<1>4. CASE FinalLoop /\ ~stopPing
    BY <1>1, <1>4 DEF FinalLoop
<1>5. QED
    BY <1>2, <1>3, <1>4

LEMMA PingStep ==
    ASSUME Sound, InstallPinger \/ Pinger \/ (FinalLoop /\ ~stopPing)
    PROVE  Sound'
<1> USE DEF Sound
<1>1. PICK wait \in Nat : PingFor(wait)
    BY PingWait
<1>2. /\ phase \in {"start", "loop"} \/ (phase = "final" /\ ~stopPing)
      /\ phase' \in {"platform", "loop", "final", "aborted"}
      /\ phase' \in {"platform", "aborted"} <=> phase = "start"
      /\ phase' = "final" <=> phase = "final"
      /\ UNCHANGED <<setting, interval, force, stop, stopPing>>
      /\ interval # -1
    BY PingWait
<1>3. /\ period' \in DeviceTimeouts /\ left' \in Nat
      /\ wdTimeout' \in Nat /\ wdTimeout' <= period'
      /\ wdTimeout = 0 \/ ~guessed => wdTimeout' = wdTimeout
      /\ UNCHANGED <<armed, fd, fired, unwritten, guessed>>
      /\ due' \in Nat /\ setBack' \in 0..MaxClockStep /\ missed' \in 0..MaxMissed
    BY <1>1, PingForEffect
<1>4. TypeOK'
    BY <1>2, <1>3 DEF TypeOK
<1>5. Opened'
    BY <1>2, <1>3 DEF Opened, BeforePing, Serving
<1>6. setting = -1 => wdTimeout' = 0
    BY <1>3 DEF KnownTimeout
<1>7. KnownTimeout'
    BY <1>2, <1>3, <1>6 DEF KnownTimeout
<1>8. QED
    BY <1>4, <1>5, <1>7

\* The steps that leave the device alone, and time.
LEMMA OtherStep ==
    ASSUME Sound,
           \/ PlatformInit \/ SetClock \/ SetStop \/ SetStopPing \/ Terminate
           \/ Second \/ (Expire /\ UNCHANGED service)
    PROVE  Sound'
<1> USE SettingsAssumption DEF Sound, Advance, device, service, timer
<1>1. /\ UNCHANGED <<armed, fd, period, wdTimeout, unwritten, guessed>>
      /\ left' \in Nat /\ due' \in Nat /\ setBack' \in 0..MaxClockStep
      /\ UNCHANGED <<missed, setting, interval, force>>
    BY DEF TypeOK, PlatformInit, SetClock, SetStop, SetStopPing, Terminate,
           Second, CountDown, Expire
<1>2. fired' \in BOOLEAN
    BY Zenon DEF TypeOK, PlatformInit, SetClock, SetStop, SetStopPing, Terminate,
           Second, CountDown, Expire
<1>3. stop' \in BOOLEAN /\ stopPing' \in BOOLEAN
    BY Zenon DEF TypeOK, PlatformInit, SetClock, SetStop, SetStopPing, Terminate,
           Second, CountDown, Expire
<1>4. /\ phase' \in Phases
      /\ Serving' => Serving
      /\ phase' \notin {"aborted", "close"} /\ ~Serving' /\ ~(phase' = "final")
           => phase' = phase
      /\ phase' \in {"aborted", "close", "final"} \/ phase' = phase
         \/ (phase' = "loop" /\ phase = "platform")
    BY DEF TypeOK, Serving, PlatformInit, SetClock, SetStop, SetStopPing,
           Terminate, Second, CountDown, Expire
<1>5. phase' \in {"close", "final"} => phase \in {"loop", "close", "final"}
    BY DEF TypeOK, PlatformInit, SetClock, SetStop, SetStopPing,
           Terminate, Second, CountDown, Expire
<1>6. TypeOK'
    BY <1>1, <1>2, <1>3, <1>4, <1>5 DEF TypeOK
<1>a. BeforePing' => BeforePing /\ left' = left
    BY DEF BeforePing, TypeOK, PlatformInit, SetClock, SetStop, SetStopPing,
           Terminate, Second, CountDown, Expire
<1>7. Opened'
  <2>1. Serving' \/ BeforePing' => armed' /\ fd' = "open"
    BY <1>1, <1>4, <1>a DEF Opened
  <2>2. BeforePing' => left' = period'
    BY <1>1, <1>a DEF Opened
  <2>3. QED
    BY <2>1, <2>2 DEF Opened
<1>8. KnownTimeout'
    BY <1>1, <1>4 DEF KnownTimeout
<1>9. QED
    BY <1>6, <1>7, <1>8

\* Every step.
LEMMA SoundStep == Sound /\ [Next]_vars => Sound'
<1> SUFFICES ASSUME Sound, [Next]_vars PROVE Sound'
    OBVIOUS
<1>1. CASE UNCHANGED vars
    BY <1>1 DEF vars, device, service, timer, Sound, TypeOK, Opened, BeforePing, Serving, KnownTimeout
<1>2. CASE Next
    BY <1>2, OpenStep, ConfigureStep, IntervalStep, CloseStep, PingStep, OtherStep
       DEF Next, Startup
<1>3. QED
    BY <1>1, <1>2

\* What Watchdog knows of the device is sound in every reachable state,
\* whichever ioctls fail and wherever the clock goes.
THEOREM DeviceKnown == Spec => []Sound
<1>1. QED
    BY SoundInit, SoundStep, PTL DEF Spec

\* The service process never serves a device that is not counting, whatever
\* failed in ConfigureWatchdogTimeout before.
THEOREM AlwaysGuarded == Spec => []Guarded
<1>1. Sound => Guarded
    BY DEF Sound, Opened, Guarded
<1>2. QED
    BY <1>1, DeviceKnown, PTL

\* Where a timeout is configured, without -f, ServiceMain's check keeps an interval
\* longer than the device's actual timeout out of the event loop, and Ping keeps
\* the timeout above it there, unless the driver refused the timeout asked for.
THEOREM IntervalAccepted == Spec => []AcceptedInterval
<1>1. Sound => AcceptedInterval
    BY DEF Sound, TypeOK, KnownTimeout, AcceptedInterval
<1>2. QED
    BY <1>1, DeviceKnown, PTL
-----------------------------------------------------------------------------
(* How late a ping can be.                                                 *)

\* The arithmetic of a ping: answered or not, the wait is made up for.
LEMMA PingSlack ==
    ASSUME NEW l \in Nat, NEW b \in Nat, NEW m \in Nat, NEW i \in Nat, NEW p \in Nat,
           NEW l1 \in Nat, NEW b1 \in Nat, NEW m1 \in Nat, NEW p1 \in Nat,
           NEW w \in Nat, w <= i, p1 <= p, l + b + m + i >= p,
           \/ l1 >= p1
           \/ l1 = l /\ m1 = m + w /\ b1 = b
    PROVE  l1 + b1 + m1 + i >= p1 + w
    OBVIOUS

\* A ping gives the device its period, and the timer the interval; one that is not
\* answered is counted with the wait that follows.
LEMMA SlackFromPing ==
    ASSUME Sound, Slack, Sound', InstallPinger \/ Pinger \/ (FinalLoop /\ ~stopPing)
    PROVE  Slack'
<1>1. PICK wait \in Nat : /\ wait <= interval /\ PingFor(wait)
                          /\ (phase # "start" => due = 0)
    BY PingWait
<1>2. /\ phase \in {"start", "loop"} \/ (phase = "final" /\ ~stopPing)
      /\ UNCHANGED interval /\ interval \in Nat
    BY PingWait
<1>3. /\ period' <= period /\ due' = wait
      /\ \/ left' >= period'
         \/ left' = left /\ missed' = missed + wait /\ setBack' = setBack
    BY <1>1, PingForEffect DEF Sound
<1>4. /\ left \in Nat /\ setBack \in Nat /\ missed \in Nat /\ period \in Nat
      /\ left' \in Nat /\ setBack' \in Nat /\ missed' \in Nat /\ period' \in Nat
    BY DEF Sound, TypeOK
<1>5. left + setBack + missed + interval >= period
  <2>1. CASE phase = "start"
    <3>1. left = period
      BY <2>1 DEF Sound, Opened, BeforePing
    <3>2. QED
      BY <1>2, <1>4, <3>1
  <2>2. CASE phase # "start"
    <3>1. left + setBack + missed + interval >= period + due /\ due = 0
      BY <1>1, <1>2, <2>2 DEF Slack, Serving
    <3>2. QED
      BY <1>2, <1>4, <3>1
  <2>3. QED
    BY <2>1, <2>2
<1>6. left' + setBack' + missed' + interval >= period' + wait
  <2>1. wait <= interval /\ wait \in Nat /\ interval \in Nat
    BY <1>1, <1>2
  <2> DEFINE l1 == left'
             b1 == setBack'
             m1 == missed'
             p1 == period'
  <2>2. /\ l1 \in Nat /\ b1 \in Nat /\ m1 \in Nat /\ p1 \in Nat /\ p1 <= period
        /\ l1 >= p1 \/ (l1 = left /\ m1 = missed + wait /\ b1 = setBack)
    BY <1>3, <1>4
  <2> HIDE DEF l1, b1, m1, p1
  <2>3. l1 + b1 + m1 + interval >= p1 + wait
    BY <1>4, <1>5, <2>1, <2>2, PingSlack
  <2>4. QED
    BY <2>3 DEF l1, b1, m1, p1
<1>7. QED
    BY <1>2, <1>3, <1>6 DEF Slack

\* The other steps leave the distance to the next ping as it is, but for what is
\* set back.
LEMMA SlackKept ==
    ASSUME Sound, Slack,
           \/ PlatformInit \/ SetClock \/ SetStop \/ SetStopPing \/ Terminate
           \/ Second \/ (Expire /\ UNCHANGED service)
    PROVE  Slack'
<1> USE DEF Sound, Advance, device, service, timer
<1>1. Serving' => Serving
    BY DEF Serving, PlatformInit, SetClock, SetStop, SetStopPing, Terminate,
           Second, CountDown, Expire
<1>2. UNCHANGED <<interval, period, missed>> /\ interval \in Int /\ missed \in Nat /\ period \in Nat
    BY DEF PlatformInit, SetClock, SetStop, SetStopPing, Terminate,
           Second, CountDown, Expire, TypeOK
<1>3. /\ left \in Nat /\ due \in Nat /\ setBack \in Nat
      /\ left' \in Nat /\ due' \in Nat /\ setBack' \in Nat
  <2>1. TypeOK /\ TypeOK'
    BY OtherStep
  <2>2. QED
    BY <2>1 DEF TypeOK
<1> DEFINE l == left'
           d == due'
           b == setBack'
<1>4. l \in Nat /\ d \in Nat /\ b \in Nat
    BY <1>3
<1>5. Serving' => \/ l = left /\ d <= due /\ b = setBack
                  \/ l = left - 1 /\ d = due - 1 /\ b = setBack
                  \/ l = left /\ b = setBack + (d - due)
  <2>1. CASE Second
    <3>1. Serving' => l = left - 1 /\ d = due - 1 /\ b = setBack
      BY <2>1, <1>1 DEF Second, CountDown, Serving, Opened
    <3>2. QED
      BY <3>1
  <2>2. CASE SetClock
    <3>1. l = left /\ b = IF d > due THEN setBack + (d - due) ELSE setBack
      BY <2>2 DEF SetClock
    <3> HIDE DEF l, d, b
    <3>2. QED
      BY <1>3, <1>4, <3>1
  <2>3. CASE PlatformInit \/ SetStop \/ SetStopPing \/ Terminate
    <3>1. l = left /\ b = setBack /\ (d = due \/ d = 0)
      BY <2>3 DEF PlatformInit, SetStop, SetStopPing, Terminate
    <3> HIDE DEF l, d, b
    <3>2. QED
      BY <1>3, <1>4, <3>1
  <2>4. CASE Expire /\ UNCHANGED service
    <3>1. l = left /\ b = setBack /\ d = due
      BY <2>4 DEF Expire
    <3> HIDE DEF l, d, b
    <3>2. QED
      BY <1>3, <1>4, <3>1
  <2>5. QED
    BY <2>1, <2>2, <2>3, <2>4
<1> HIDE DEF l, d, b
<1>6. Serving' => l + b + missed + interval >= period + d
  <2>1. SUFFICES ASSUME Serving' PROVE l + b + missed + interval >= period + d
    OBVIOUS
  <2>2. left + setBack + missed + interval >= period + due
    BY <1>1, <2>1 DEF Slack
  <2>3. interval \in Int /\ period \in Int /\ missed \in Int
    BY <1>2
  <2>4. CASE l = left /\ d <= due /\ b = setBack
    BY <1>3, <1>4, <2>2, <2>3, <2>4
  <2>5. CASE l = left - 1 /\ d = due - 1 /\ b = setBack
    BY <1>3, <1>4, <2>2, <2>3, <2>5
  <2>6. CASE l = left /\ b = setBack + (d - due)
    BY <1>3, <1>4, <2>2, <2>3, <2>6
  <2>7. QED
    BY <1>5, <2>1, <2>4, <2>5, <2>6
<1>7. QED
    BY <1>2, <1>6 DEF Slack, l, d, b

\* The steps of the startup before the first ping, and those that close the
\* device, end in a state in which nothing is promised.
LEMMA SlackElsewhere ==
    ASSUME \/ OpenDevice \/ ReopenDevice \/ ConfigureTimeout \/ ChooseInterval
           \/ CheckInterval \/ Refuse \/ CloseDevice \/ (FinalLoop /\ stopPing)
    PROVE  ~Serving'
    BY DEF OpenDevice, ReopenDevice, ConfigureTimeout, ChooseInterval,
           CheckInterval, Refuse, CloseDevice, FinalLoop, Advance, Serving

\* Only Expire resets the machine, when no time is left and no ping was due.
LEMMA NoReset ==
    ASSUME Sound, Slack, Next
    PROVE  InTime'
<1>1. ~fired
    BY DEF Next
<1>2. CASE Expire /\ UNCHANGED service
  <2>1. left = 0 /\ UNCHANGED <<interval, setBack, missed, period, phase, stopPing>>
    BY <1>2 DEF Expire, service, timer
  <2>2. due \in Nat /\ setBack \in Nat /\ missed \in Nat /\ interval \in Int /\ period \in Nat
    BY DEF Sound, TypeOK
  <2>3. Serving => interval + missed + setBack >= period
    BY <2>1, <2>2 DEF Slack
  <2>4. QED
    BY <2>1, <2>3 DEF InTime, Serving
<1>3. CASE UNCHANGED fired
    BY <1>1, <1>3 DEF InTime
<1>4. CASE OpenDevice \/ ReopenDevice
    BY <1>4, SlackElsewhere DEF InTime
<1>5. CASE ConfigureTimeout
    BY <1>5, SlackElsewhere DEF InTime
<1>6. CASE \/ ChooseInterval \/ CheckInterval \/ Refuse \/ PlatformInit
           \/ SetClock \/ SetStop \/ SetStopPing \/ Terminate
           \/ CloseDevice \/ (FinalLoop /\ stopPing) \/ Second
    BY <1>1, <1>6 DEF ChooseInterval, CheckInterval, Refuse, PlatformInit, SetClock,
       SetStop, SetStopPing, Terminate, CloseDevice, FinalLoop, Second,
       CountDown, Close, Advance, device, InTime
<1>7. CASE InstallPinger \/ Pinger \/ (FinalLoop /\ ~stopPing)
  <2>1. PICK wait \in Nat : PingFor(wait)
    BY <1>7, PingWait DEF Sound
  <2>2. fired' = fired
    BY <2>1, PingForEffect DEF Sound
  <2>3. QED
    BY <1>1, <2>2 DEF InTime
<1>8. QED
    BY <1>2, <1>4, <1>5, <1>6, <1>7 DEF Next, Startup

\* The service starts before any promise.
LEMMA IInvInit == Init => IInv
    BY SoundInit DEF Init, DeviceInit, IInv, Slack, InTime, Serving

\* Every step keeps the invariant.
LEMMA IInvStep == IInv /\ [Next]_vars => IInv'
<1> SUFFICES ASSUME IInv, [Next]_vars PROVE IInv'
    OBVIOUS
<1>1. Sound'
    BY SoundStep DEF IInv
<1>2. CASE UNCHANGED vars
    BY <1>1, <1>2 DEF vars, device, service, timer, IInv, Slack, InTime, Serving
<1>3. CASE Next
  <2>1. Slack'
    BY <1>1, <1>3, SlackFromPing, SlackKept, SlackElsewhere
       DEF Next, Startup, IInv, Slack
  <2>2. InTime'
    BY <1>3, NoReset DEF IInv
  <2>3. QED
    BY <1>1, <2>1, <2>2 DEF IInv
<1>4. QED
    BY <1>2, <1>3

\* The invariant holds throughout, whichever ioctls fail, those of the pings in
\* the loops as well, and wherever the clock goes.
THEOREM TimeKept == Spec => []IInv
<1>1. QED
    BY IInvInit, IInvStep, PTL DEF Spec

\* For every timeout, interval and device, the Pinger and the final loop of
\* ServiceMain let the device reset the machine before the reboot request only
\* if pings that went unanswered in a row, or what the clock was set back, make up
\* for what the timeout leaves beyond the interval.
THEOREM NeverLate == Spec => []InTime
<1>1. IInv => InTime
    BY DEF IInv
<1>2. QED
    BY <1>1, TimeKept, PTL
-----------------------------------------------------------------------------
(* What a service leaves behind.                                           *)

\* A device that goes on counting without a way out has not been written to.
Undone == armed /\ ~NoWayOut => unwritten

\* A service that is about to close the device has it open, and one that has not
\* come to open it has not armed it, or could not undo it.
DisarmInv ==
    /\ phase \in {"open", "reopen"} => Undone
    /\ phase \in {"refuse", "close"} => fd = "open"
    /\ ExitDisarms

\* The two attempts to open the device.
LEMMA DisarmOpen ==
    ASSUME Sound, DisarmInv, OpenDevice \/ ReopenDevice
    PROVE  DisarmInv'
<1>1. PICK ret \in {0, -1} :
        /\ Open(ret)
        /\ ret = 0 => phase' \in {"configure", "aborted"}
        /\ ret = -1 => phase' \in {"reopen", "exited", "aborted"}
    BY DEF OpenDevice, ReopenDevice, Advance
<1>2. Undone
    BY DEF DisarmInv, OpenDevice, ReopenDevice
<1>3. CASE ret = 0
    BY <1>1, <1>3, OpenEffect DEF Sound, DisarmInv, ExitDisarms
<1>4. CASE ret = -1
  <2>1. Undone'
    BY <1>1, <1>2, <1>4, OpenEffect DEF Sound, Undone
  <2>2. QED
    BY <1>1, <1>4, <2>1 DEF DisarmInv, ExitDisarms, Undone
<1>5. QED
    BY <1>3, <1>4

\* Every step.
LEMMA DisarmStep ==
    ASSUME Sound, DisarmInv, Next PROVE DisarmInv'
<1> USE DEF Advance, DisarmInv, ExitDisarms, Undone
<1>1. CASE OpenDevice \/ ReopenDevice
    BY <1>1, DisarmOpen
<1>3. CASE ConfigureTimeout
  <2>1. phase = "configure" /\ fd = "open" /\ armed /\ left = period
    BY <1>3 DEF ConfigureTimeout, Sound, Opened, BeforePing
  <2>2. fd' = fd
    BY <1>3, <2>1, ConfigureEffect DEF ConfigureTimeout, Sound
  <2>3. phase' \in {"interval", "refuse"}
    BY <1>3 DEF ConfigureTimeout
  <2>4. QED
    BY <2>1, <2>2, <2>3
<1>4. CASE ChooseInterval \/ CheckInterval
    BY <1>4 DEF ChooseInterval, CheckInterval, device, Sound, Opened, BeforePing
<1>5. CASE Refuse \/ CloseDevice
  <2>1. fd = "open" /\ phase' = "exited" /\ Close
    BY <1>5 DEF Refuse, CloseDevice
  <2>2. armed' /\ ~NoWayOut => unwritten'
    BY <2>1, CloseEffect DEF Sound
  <2>3. QED
    BY <2>1, <2>2
<1>6. CASE InstallPinger
  <2>1. PICK wait \in Nat : PingFor(wait)
    BY <1>6, PingWait DEF Sound
  <2>2. fd' = "open" /\ phase' \in {"platform", "aborted"}
    BY <1>6, <2>1, PingForEffect DEF InstallPinger, Sound, Opened, BeforePing
  <2>3. QED
    BY <2>2
<1>7. CASE PlatformInit
    BY <1>7 DEF PlatformInit, device, Sound, Opened, Serving
<1>8. CASE Pinger \/ SetClock \/ SetStop \/ FinalLoop
    BY <1>8 DEF Pinger, SetClock, SetStop, FinalLoop
<1>9. CASE SetStopPing
    BY <1>9 DEF SetStopPing
<1>10. CASE Terminate
    BY <1>10 DEF Terminate, device, Sound, Opened, Serving
<1>11. CASE Second
    BY <1>11 DEF Second, CountDown
<1>12. CASE Expire /\ UNCHANGED service
    BY <1>12 DEF Expire, service
<1>13. QED
    BY <1>1, <1>3, <1>4, <1>5, <1>6, <1>7, <1>8, <1>9, <1>10, <1>11, <1>12
       DEF Next, Startup

\* Whichever way the service ends, and whichever ioctl or write failed on the way,
\* it leaves a device that could have been stopped counting only where the magic
\* character could not be written, or where the process was cut short with the
\* device open.
THEOREM ExitsDisarm == Spec => []ExitDisarms
<1>1. Init => DisarmInv
    BY DEF Init, DeviceInit, DisarmInv, Undone, ExitDisarms
<1>2. Sound /\ DisarmInv /\ [Next]_vars => DisarmInv'
  <2>1. ASSUME DisarmInv, UNCHANGED vars PROVE DisarmInv'
    BY <2>1 DEF DisarmInv, Undone, ExitDisarms, vars, device, service
  <2>2. QED
    BY <2>1, DisarmStep
<1>3. DisarmInv => ExitDisarms
    BY DEF DisarmInv
<1>4. QED
    BY <1>1, <1>2, <1>3, DeviceKnown, PTL DEF Spec
=============================================================================
