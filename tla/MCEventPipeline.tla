-------------------------- MODULE MCEventPipeline --------------------------
(* Scenes of EventPipeline for TLC.                                         *)
EXTENDS EventPipeline

\* Events alone, in a socket and a table that hold them all.
Events == [ops |-> {"fork", "exec", "exit"}, maxOps |-> 4, socketCap |-> 4, namesCap |-> 3,
           scanSpawns |-> FALSE]

\* The daemon starts while processes come and go; a table of one name.
Startup == [ops |-> {"fork", "exit"}, maxOps |-> 3, socketCap |-> 3, namesCap |-> 1,
            scanSpawns |-> TRUE]

\* A socket that holds one event.
Recovery == [ops |-> {"fork", "exec", "exit"}, maxOps |-> 3, socketCap |-> 1, namesCap |-> 2,
             scanSpawns |-> FALSE]

\* The initial scan beside an exec.
Duplicate == [ops |-> {"fork", "exec"}, maxOps |-> 2, socketCap |-> 2, namesCap |-> 2,
              scanSpawns |-> TRUE]

AllScenes == {Events, Startup, Recovery}
DuplicateScene == {Duplicate}
=============================================================================
