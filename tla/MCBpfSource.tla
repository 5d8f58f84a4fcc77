---------------------------- MODULE MCBpfSource ----------------------------
(* Images and scenes of BpfSource for TLC.  "ap" and "scrip" stand for the  *)
(* kernel's cuts of "app" and "script".                                     *)
EXTENDS BpfSource

AllNames == {"app", "ap", "sh", "script", "scrip", "title"}
AllPrefixes == {<<"ap", "app">>, <<"scrip", "script">>}

Binary == [argv |-> <<"app">>, comm |-> "ap", exe |-> "app", access |-> "ok",
           program |-> "app"]
Script == [argv |-> <<"sh", "script">>, comm |-> "scrip", exe |-> "sh", access |-> "ok",
           program |-> "script"]
Retitled == [argv |-> <<"title", "app">>, comm |-> "sh", exe |-> "sh", access |-> "ok",
             program |-> "title"]
Shell == [argv |-> <<"sh">>, comm |-> "sh", exe |-> "sh", access |-> "ok", program |-> "sh"]
NoCmdline == [argv |-> <<>>, comm |-> "ap", exe |-> "app", access |-> "ok",
              program |-> "app"]
Unreadable == [argv |-> <<>>, comm |-> "scrip", exe |-> "script", access |-> "denied",
               program |-> "scrip"]
KernelThread == [argv |-> <<>>, comm |-> "ap", exe |-> "ap", access |-> "none",
                 program |-> "ap"]

\* `sh script`: what CommandName's source calls a correction.
ByInterpreter == [argv |-> <<"sh", "script">>, comm |-> "sh", exe |-> "sh",
                  access |-> "ok", program |-> "script"]

AllImages == {Binary, Script, Retitled, Shell, NoCmdline, Unreadable, KernelThread,
              ByInterpreter}

\* Forks, execs and exits on two CPUs, in rings that hold one record.
Events == [ops |-> {"fork", "exec", "exit"}, maxOps |-> 3, images |-> {Script, Binary},
           first |-> {Shell}, cpus |-> 2, minUs |-> 0, boot |-> 0, maxClock |-> 0, ringCap |-> 1,
           scanSpawns |-> FALSE, fails |-> 0]

\* The daemon starts, and starts again, while processes come.
Startup == [ops |-> {"fork"}, maxOps |-> 2, images |-> {},
            first |-> {KernelThread, Retitled}, cpus |-> 1, minUs |-> 0, boot |-> 0, maxClock |-> 0,
            ringCap |-> 2, scanSpawns |-> TRUE, fails |-> 1]

\* Two CPUs, a minimum interval and rings that are always full.
Interval == [ops |-> {"exec"}, maxOps |-> 3, images |-> {Shell, Binary},
             first |-> {Shell}, cpus |-> 2, minUs |-> 1, boot |-> 3, maxClock |-> 8,
             ringCap |-> 0, scanSpawns |-> FALSE, fails |-> 0]

\* Names from exe and comm, read by the scan and by the worker.
NoArguments == [ops |-> {"fork", "exec", "exit"}, maxOps |-> 2,
                images |-> {NoCmdline}, first |-> {Unreadable},
                cpus |-> 1, minUs |-> 0, boot |-> 0, maxClock |-> 0, ringCap |-> 3,
                scanSpawns |-> TRUE, fails |-> 0]

AllScenes == {Events, Startup, Interval, NoArguments}
=============================================================================
