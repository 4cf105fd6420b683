------------------------------- MODULE MCStartup ------------------------------
(* Instances of Startup for TLC: the lines, files and directories the       *)
(* service may be started with.                                             *)
EXTENDS Startup

Entry(hidden, ext, file, path, exe) ==
    [hidden |-> hidden, ext |-> ext, file |-> file, path |-> path, exe |-> exe]
Script(path) == Entry(FALSE, "other", "good", path, TRUE)
Config(path) == Entry(FALSE, "repair", "good", path, TRUE)

\* "a" and "b" are scripts, and "a" may have two configurations.
Twins == {<<1, Script("a")>>, <<2, Script("b")>>, <<3, Config("a")>>,
          <<4, Config("a")>>, <<5, Config("b")>>}
\* Entries that are left out, or that nothing was written for.
Odd == {<<6, Entry(TRUE, "other", "good", "h", TRUE)>>,
        <<7, Entry(FALSE, "none", "refused", "sub", FALSE)>>,
        <<8, Entry(FALSE, "none", "gone", "dead", FALSE)>>,
        <<9, Entry(FALSE, "other", "refused", "text", FALSE)>>,
        <<10, Config(NoPath)>>,
        <<11, Entry(FALSE, "repair", "good", "a", FALSE)>>}

\* Every order of up to k of these files.
Orders(files, k) ==
    {[i \in DOMAIN s |-> s[i][2]] :
        s \in {t \in UNION {[1..n -> files] : n \in 0..k} :
                  \A i, j \in DOMAIN t : t[i] = t[j] => i = j}}

Start(line, file, entries, opens) ==
    [line |-> line, file |-> file, dir |-> entries, opens |-> opens,
     systemd |-> FALSE]

Plain == [parses |-> TRUE, on |-> {}, usePidFile |-> "absent",
          lockMemory |-> "absent", realtime |-> "absent", logTarget |-> "auto",
          testBinary |-> "absent", minMemory |-> 0, maxLoad1 |-> 0,
          pidFiles |-> "absent", interfaces |-> "absent", hosts |-> "absent"]

\* Directories, with FORCE on the line, in the file or not at all.
Directories ==
    {Start(line, [Plain EXCEPT !.on = on], d, TRUE) :
        line \in {<<>>, <<"f">>}, on \in {{}, {"FORCE"}},
        d \in Orders(Twins, 4) \cup Orders(Twins \cup Odd, 2)}
    \cup {Start(<<>>, [Plain EXCEPT !.parses = FALSE], d, TRUE) :
             d \in Orders(Twins, 2)}
    \cup {Start(<<>>, Plain, <<>>, FALSE)}

\* Arrays and flags.
Arrayed ==
    {Start(line, [Plain EXCEPT !.on = on, !.usePidFile = u, !.pidFiles = p,
                               !.interfaces = i, !.hosts = h],
           <<Script("a")>>, TRUE) :
        line \in {<<>>, <<"s", "D">>, <<"s", "F">>, <<"F", "s">>, <<"i">>, <<"D", "i">>},
        on \in {{}, {"SYNC", "DAEMONIZE"}}, u \in {"absent", "true", "false"},
        p \in ArrayType, i \in ArrayType, h \in ArrayType}

\* The other settings.
Settled ==
    {[Start(<<>>, [Plain EXCEPT !.lockMemory = l, !.realtime = r, !.logTarget = g,
                                !.testBinary = t, !.minMemory = m, !.maxLoad1 = x],
            <<>>, TRUE) EXCEPT !.systemd = TRUE] :
        l \in {"absent", "true"}, r \in {"absent", "false"},
        g \in {"auto", "stderr", "file", "invalid"},
        t \in {"absent", "notExe", "exe"}, m \in -1..1, x \in -1..1}

SomeStarts == Directories \cup Arrayed \cup Settled
SomePaths  == {"a", "b", "h", "sub", "dead", "text"}
=============================================================================
