----------------------------- MODULE Singleton -----------------------------
(***************************************************************************)
(* The single-instance object /AnanicyRsMutex: a name in /dev/shm for an    *)
(* object that holds the daemon's pid.  Daemons start, stop and crash, and  *)
(* --reload and --force-remove-semaphore run, each as a process of its own. *)
(*                                                                         *)
(* Opening, reading and checking the object's pid against /proc is one      *)
(* step; what is done with the answer is the next.                          *)
(***************************************************************************)
EXTENDS Naturals

CONSTANTS
    Pids,       \* process ids; a dead process' id is used again
    Programs,   \* what is run: a subset of {"start", "reload", "force", "other"}
    Empty,      \* what an object holds before a pid is written into it
    MaxObjects  \* bound on the objects created in one behaviour

ASSUME ProgramsAssumption == Programs \subseteq {"start", "reload", "force", "other"}
ASSUME EmptyAssumption == Empty \notin Pids
ASSUME MaxObjectsAssumption == MaxObjects \in Nat

None == 0
Objects == 1..MaxObjects

VARIABLES
    proc,       \* where each process is; "dead" when there is none
    name,       \* the object the name stands for, or None
    content,    \* the pid written into each object, or Empty
    objects,    \* number of objects created so far
    own,        \* the object each process created, or None
    target,     \* the pid a --reload has verified
    removed     \* history: a forced removal has unlinked the name

vars == <<proc, name, content, objects, own, target, removed>>

DaemonStates == {"writing", "starting", "running"}
RsStates == DaemonStates \cup {"opening", "creating", "exited", "f_check", "f_unlink",
                               "r_check", "r_kill"}

TypeOK ==
    /\ proc \in [Pids -> RsStates \cup {"dead", "other"}]
    /\ name \in Objects \cup {None}
    /\ content \in [Objects -> Pids \cup {Empty}]
    /\ objects \in 0..MaxObjects
    /\ own \in [Pids -> Objects \cup {None}]
    /\ target \in [Pids -> Pids \cup {Empty}]
    /\ \A p \in Pids : proc[p] = "r_kill" => target[p] \in Pids
    /\ removed \in BOOLEAN

Init ==
    /\ proc = [p \in Pids |-> "dead"]
    /\ name = None
    /\ content = [o \in Objects |-> Empty]
    /\ objects = 0
    /\ own = [p \in Pids |-> None]
    /\ target = [p \in Pids |-> Empty]
    /\ removed = FALSE

Goto(p, state) == proc' = [proc EXCEPT ![p] = state]

(* External: a program is run, under a free pid.                            *)
Run(p, program) ==
    /\ proc[p] = "dead"
    /\ Goto(p, CASE program = "start" -> "opening"
                 [] program = "reload" -> "r_check"
                 [] program = "force" -> "f_check"
                 [] program = "other" -> "other")
    /\ UNCHANGED <<name, content, objects, own, target, removed>>

(* SIGKILL, an abort, exit(1): the guard's Drop does not run.               *)
Crash(p) ==
    /\ proc[p] # "dead"
    /\ Goto(p, "dead")
    /\ own' = [own EXCEPT ![p] = None]
    /\ UNCHANGED <<name, content, objects, target, removed>>

-----------------------------------------------------------------------------
(* check_singleton, and the daemon it lets through.                         *)

(* An object that exists refuses the start, whoever left it.                *)
OpenObject(p) ==
    /\ proc[p] = "opening"
    /\ Goto(p, IF name = None THEN "creating" ELSE "dead")
    /\ UNCHANGED <<name, content, objects, own, target, removed>>

CreateShared(p) ==
    /\ proc[p] = "creating"
    /\ objects < MaxObjects
    /\ objects' = IF name = None THEN objects + 1 ELSE objects
    /\ name' = IF name = None THEN objects' ELSE name
    /\ own' = [own EXCEPT ![p] = name']
    /\ Goto(p, "writing")
    /\ UNCHANGED <<content, target, removed>>

(* O_CREAT | O_EXCL.                                                        *)
CreateObject(p) ==
    /\ proc[p] = "creating"
    /\ \/ /\ name = None /\ objects < MaxObjects
          /\ objects' = objects + 1
          /\ name' = objects'
          /\ own' = [own EXCEPT ![p] = objects']
          /\ Goto(p, "writing")
       \/ name # None /\ Goto(p, "dead") /\ UNCHANGED <<objects, name, own>>
    /\ UNCHANGED <<content, target, removed>>

(* The pid goes into the open file; a failed write is ignored.              *)
WritePid(p) ==
    /\ proc[p] = "writing"
    /\ content' \in {content, [content EXCEPT ![own[p]] = p]}
    /\ Goto(p, "starting")
    /\ UNCHANGED <<name, objects, own, target, removed>>

(* signals::install: from here on SIGUSR1 reloads instead of terminating.   *)
InstallSignals(p) ==
    /\ proc[p] = "starting"
    /\ Goto(p, "running")
    /\ UNCHANGED <<name, content, objects, own, target, removed>>

DropGuardOfRefused(p) ==
    /\ proc[p] \in {"opening", "running"}
    /\ name' = None
    /\ own' = [own EXCEPT ![p] = None]
    /\ Goto(p, "exited")
    /\ UNCHANGED <<content, objects, target, removed>>

(* IpcSingletonGuard::drop unlinks the name, not the object.                *)
DropGuard(p) ==
    /\ proc[p] = "running"
    /\ name' = None
    /\ own' = [own EXCEPT ![p] = None]
    /\ Goto(p, "exited")
    /\ UNCHANGED <<content, objects, target, removed>>

Exit(p) ==
    /\ proc[p] = "exited"
    /\ Goto(p, "dead")
    /\ UNCHANGED <<name, content, objects, own, target, removed>>

-----------------------------------------------------------------------------
(* --force-remove-semaphore and --reload.                                   *)

(* looks_like_this_daemon: argv[0] is ananicy-rs, which is true of every    *)
(* invocation of the program.                                               *)
LooksLikeDaemon(pid) == pid \in Pids /\ proc[pid] \in RsStates

NamesLiveDaemon == name # None /\ LooksLikeDaemon(content[name])

ForceCheck(p) ==
    /\ proc[p] = "f_check"
    /\ Goto(p, IF NamesLiveDaemon THEN "dead" ELSE "f_unlink")
    /\ UNCHANGED <<name, content, objects, own, target, removed>>

ForceUnlink(p) ==
    /\ proc[p] = "f_unlink"
    /\ name' = None
    /\ removed' = TRUE
    /\ Goto(p, "dead")
    /\ UNCHANGED <<content, objects, own, target>>

ReloadUnverified(p) ==
    /\ proc[p] = "r_check"
    /\ \/ /\ name # None
          /\ target' = [target EXCEPT ![p] = content[name]]
          /\ Goto(p, "r_kill")
       \/ name = None /\ Goto(p, "dead") /\ UNCHANGED target
    /\ UNCHANGED <<name, content, objects, own, removed>>

ReloadCheck(p) ==
    /\ proc[p] = "r_check"
    /\ \/ /\ NamesLiveDaemon
          /\ target' = [target EXCEPT ![p] = content[name]]
          /\ Goto(p, "r_kill")
       \/ ~NamesLiveDaemon /\ Goto(p, "dead") /\ UNCHANGED target
    /\ UNCHANGED <<name, content, objects, own, removed>>

(* kill(pid, SIGUSR1): a daemon that has its handlers reloads, any other    *)
(* process ends.                                                            *)
ReloadKill(p) ==
    LET t == target[p]
        ends == proc[t] \notin {"running", "exited", "dead"}
    IN  /\ proc[p] = "r_kill"
        /\ proc' = [q \in Pids |-> IF q = p \/ (q = t /\ ends) THEN "dead" ELSE proc[q]]
        /\ own' = IF ends THEN [own EXCEPT ![t] = None] ELSE own
        /\ target' = [target EXCEPT ![p] = Empty]
        /\ UNCHANGED <<name, content, objects, removed>>

-----------------------------------------------------------------------------
Step(p) ==
    \/ Crash(p)
    \/ OpenObject(p) \/ CreateObject(p) \/ WritePid(p) \/ InstallSignals(p)
    \/ DropGuard(p) \/ Exit(p)
    \/ ForceCheck(p) \/ ForceUnlink(p) \/ ReloadCheck(p) \/ ReloadKill(p)

Next ==
    \E p \in Pids : Step(p) \/ \E program \in Programs : Run(p, program)

Spec == Init /\ [][Next]_vars

-----------------------------------------------------------------------------
(* Properties.                                                              *)

Daemon(p) == proc[p] \in DaemonStates

(* Until a forced removal has unlinked the name, at most one daemon has     *)
(* passed check_singleton, however starts race and whatever crashed before, *)
(* and it is reachable by --reload for as long as it lives: the name stands *)
(* for its object, and the object holds its pid, or nothing when it could   *)
(* not be written (ipc.rs check_singleton, O_EXCL, IpcSingletonGuard).      *)
OneDaemon ==
    ~removed =>
        \A p \in Pids : Daemon(p) =>
            /\ \A q \in Pids : Daemon(q) => p = q
            /\ name = own[p]
            /\ content[name] \in {p, Empty}

(* Whatever a forced removal does, no two daemons share an object, and an   *)
(* object a daemon created never names another process: --reload cannot     *)
(* take one daemon for the other (ipc.rs check_singleton).                  *)
ObjectNamesItsCreator ==
    \A p \in Pids : Daemon(p) =>
        /\ own[p] # None /\ content[own[p]] \in {p, Empty}
        /\ \A q \in Pids : Daemon(q) /\ own[q] = own[p] => q = p

(* Stated by COMPATIBILITY.md:74: a forced removal "refuses when that pid   *)
(* is still an `ananicy-rs`".  No running daemon that recorded its pid      *)
(* loses its name.                                                          *)
ForceSparesRunningDaemon ==
    \A p \in Pids :
        proc[p] = "running" /\ content[own[p]] = p => name = own[p]

(* Stated by CLI.md:102: --reload sends "a signal to the running            *)
(* `ananicy-rs` instance [...] to reload".  It never ends a process.        *)
ReloadEndsNothing ==
    [][\A p, q \in Pids : ReloadKill(p) /\ q # p => proc'[q] = proc[q]]_vars
=============================================================================
