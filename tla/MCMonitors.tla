------------------------------ MODULE MCMonitors ------------------------------
(* Instances of Monitors for TLC: which monitors are started together, and  *)
(* what they look at.                                                       *)
EXTENDS Monitors

Setup(monitors, quiet, soft, exec) ==
    [started |-> monitors, noAction |-> quiet, softBoot |-> soft, kexec |-> exec]

Plain(monitors) == Setup(monitors, FALSE, FALSE, FALSE)
Quiet(monitors) == Setup(monitors, TRUE, TRUE, FALSE)

\* The monitors in groups that share a flag, clear another's, have several
\* targets or have no lock.  The link test has two interfaces.
Groups ==
    {Plain({"MinPagesThread", "TestMemoryAllocation"}),
     Plain({"LoadAvgThread", "MinPagesThread"}),
     Plain({"CheckNetworkInterfacesThread"}),
     Plain({"TestPidfileThread"}),
     Plain({"TestFork", "TestBinThread"}),
     Setup({"Ping"}, FALSE, FALSE, TRUE),
     Quiet({"TestDirThread", "TestPidfileThread"})}

\* A monitor with a flag and one without; two of which one clears the other's.
LoadSync == {Plain({"LoadAvgThread", "Sync"})}
LoadLink == {Plain({"LoadAvgThread", "CheckNetworkInterfacesThread"})}

NoHosts  == {}
TwoHosts == {"h1", "h2"}

NoCodes  == {}
TwoCodes == {1, 254}
=============================================================================
