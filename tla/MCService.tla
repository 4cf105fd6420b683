------------------------------- MODULE MCService ------------------------------
(* Instances of Service for TLC: what is configured and what the device    *)
(* can do.                                                                 *)
EXTENDS Service

\* The device rounds up or down to one of these.
Supported == {1, 3, 5}

\* -f is absent, given, taken back by -F, and given after it; or -q asks for no
\* device.
Lines == {<<>>, <<"f">>, <<"f", "F">>, <<"F", "f">>, <<"q">>, <<"q", "F">>}

\* Values below, at and above the device's, and values that are refused.
SomeFiles ==
    [on : {{}, {"FORCE"}}, usePidFile : {"absent", "false"},
     timeout : {-1, 1, 2, 4, 5, 61}, interval : {-1, 0, 1, 2, 3, 4, 6}]
=============================================================================
