-------------------------------- MODULE Options --------------------------------
(***************************************************************************)
(* What the command line and the configuration file make of cfgoptions, as *)
(* far as the other modules ask: ParseCommandLine of init.cpp, then        *)
(* ReadConfigurationFile of configfile.cpp, in the order of their          *)
(* statements.  A line is a sequence of option letters, in the order they  *)
(* are given; a file is a record of the settings it makes.                 *)
(***************************************************************************)
EXTENDS Integers, Sequences

Flag == [s |-> "SYNC", q |-> "NOACTION", f |-> "FORCE", b |-> "SOFTBOOT",
         v |-> "VERBOSE", i |-> "IDENTIFY", D |-> "DAEMONIZE"]

\* "options &= !DAEMONIZE" is "options &= 0": -n, -d and -F take back what was
\* given before them.
Clearing == {"n", "d", "F"}
Letters  == DOMAIN Flag \cup Clearing

ParseCommandLine(line) ==
    {Flag[line[k]] : k \in {j \in DOMAIN line :
                               \A n \in j..Len(line) : line[n] \notin Clearing}}

\* What a file can turn on, and use-pid-file, which may be absent.
FileFlags == {"DAEMONIZE", "FORCE", "SYNC", "KEXEC", "SOFTBOOT"}
FileType  == [on : SUBSET FileFlags, usePidFile : {"absent", "true", "false"},
              timeout : Int, interval : Int]

\* The settings from daemonize to use-kexec come before use-pid-file, and are
\* cleared with the rest by "options &= !USEPIDFILE"; softboot comes after it.
ReadConfigurationFile(flags, file) ==
    (file.on \cap {"SOFTBOOT"}) \cup
        CASE file.usePidFile = "false"  -> {}
          [] file.usePidFile = "true"   -> flags \cup file.on \cup {"USEPIDFILE"}
          [] file.usePidFile = "absent" -> flags \cup file.on

Configured(line, file) == ReadConfigurationFile(ParseCommandLine(line), file)

\* watchdog-timeout and interval: a value that is out of range counts as none.
\* (-1 in a file stands for a setting that is absent.)
WatchdogTimeout(file) == IF file.timeout \in 1..60 THEN file.timeout ELSE -1
SleepTime(file) == IF file.interval \in 1..60 THEN file.interval ELSE -1
=============================================================================
