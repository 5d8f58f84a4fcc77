--------------------------- MODULE CgroupManager ---------------------------
(***************************************************************************)
(* The cgroup manager on a live hierarchy: the delegated root it discovers, *)
(* the cgroups it creates for the rules (at start-up and on a reload), the   *)
(* processes the worker moves, and the cpu.weight it mirrors through the     *)
(* caching resolver, while processes exit, pids are used again and others    *)
(* move processes about.                                                     *)
(*                                                                         *)
(* A cgroup is the sequence of its path's segments; <<>> is the mount point. *)
(* A pid's process is known by its start time, 0 when there is none.  An     *)
(* Option is a set of at most one element.                                   *)
(***************************************************************************)
EXTENDS Naturals, Sequences, FiniteSets, SequencesExt

CONSTANTS
    Pids,       \* process ids the worker gets reports of
    MaxStart,   \* bound on the processes that have one pid, one after another
    Hosts       \* what the daemon can start in, see below

(* A host is a hierarchy (its version, cgroups, which of them hold tasks    *)
(* and hand down cpu, what systemd delegated), the daemon's place in it,    *)
(* the cgroup names of the rules (absolute or not, with .. or not, the      *)
(* segments), what others do there, and a bound on the cgroups created.     *)
ASSUME CgroupManagerAssumption ==
    /\ MaxStart \in Nat \ {0}
    /\ \A h \in Hosts :
          /\ h.creates \in Nat /\ h.ops \subseteq {"exit", "spawn", "move", "tick"}
          /\ h.self \in Seq(STRING)
          /\ \A k \in 0..Len(h.self) : SubSeq(h.self, 1, k) \in h.dirs
          /\ \A n \in h.names :
                n.absolute \in BOOLEAN /\ n.dots \in BOOLEAN /\ n.path \in Seq(STRING)

VARIABLES
    host,        \* the hierarchy: its version, the daemon's place in it
    dirs,        \* the cgroups that exist
    subtree,     \* those with cpu in their cgroup.subtree_control
    root,        \* CgroupManager::delegated_root
    proc,        \* each pid: the start time of its process and its cgroup
    cache,       \* CachingCgroupResolver: per pid an Option of an entry
    worker,      \* the worker: the rule it is applying and where it is
    creator,     \* create_cgroup: the target it is making and where it is
    creates,     \* number of cgroups asked for so far
    made,        \* history: targets that create_cgroup made
    structural,  \* history: cgroups the daemon changed the structure of
    been,        \* history: the cgroups each process has been in
    falseAnswer, \* history: move_pid said true of another process than it moved
    strayWeight, \* history: a weight went to a cgroup its process is not in
    mismoved     \* history: a process was moved that was not the one checked

hierarchy == <<host, root>>
history == <<made, structural, been, falseAnswer, strayWeight, mismoved>>
vars == <<hierarchy, dirs, subtree, proc, cache, worker, creator, creates, history>>

The(S) == CHOOSE x \in S : TRUE
Parent(c) == Front(c)
AtOrBelow(c, top) == IsPrefix(top, c)
V2 == host.version = "v2"
Idle == [pc |-> "idle", pid |-> The(Pids), name |-> The(host.names),
         start |-> 0, path |-> {}, before |-> 0, moved |-> 0]

-----------------------------------------------------------------------------
(* The kernel's rules for the cpu controller.                               *)

\* The daemon itself is one of the tasks of its cgroup.
HasTasks(c) ==
    \/ c \in host.populated \/ c = host.self
    \/ \E p \in Pids : proc[p].start # 0 /\ proc[p].cgroup = c

\* cpu.max and cpu.weight are there when the parent hands cpu down.
HasCpu(c) ==
    c \in dirs /\ (V2 => c # <<>> /\ Parent(c) \in subtree)

\* `+cpu' needs the controller, and no process in an inner cgroup.
CanEnable(c) ==
    c = <<>> \/ (HasCpu(c) /\ ~HasTasks(c))

CanAttach(c) == V2 => c = <<>> \/ c \notin subtree

-----------------------------------------------------------------------------
(* Discovery of the delegated root, and paths.                              *)

\* A mutant of usable_root: the daemon's own cgroup is kept.
KeepRoot(c, populated) == c

\* The daemon's cgroup always has a task, the daemon; its parent may have none.
usable_root(c, populated) ==
    IF c # <<>> /\ Parent(c) \notin populated THEN Parent(c) ELSE c

discover_delegated_root(h) ==
    IF h.version = "v2" /\ ~h.scope /\ h.writable
    THEN {usable_root(h.self, h.populated)} ELSE {}

resolve_target_dir(n) ==
    CASE n.dots -> {}
      [] ~n.dots /\ ~V2 -> {<<"cpu">> \o n.path}
      [] ~n.dots /\ V2 /\ (n.absolute \/ root = {}) -> {n.path}
      [] OTHER -> {r \o n.path : r \in root}

classify(c) ==
    CASE ~V2 -> "legacy"
      [] V2 /\ (\E r \in root : AtOrBelow(c, r)) -> "owned"
      [] OTHER -> "foreign"

Init ==
    /\ host \in Hosts
    /\ dirs = host.dirs /\ subtree = host.subtree
    /\ root = discover_delegated_root(host)
    /\ proc \in [Pids -> {[start |-> 1, cgroup |-> c] : c \in host.populated}]
    /\ been = [p \in Pids |-> [s \in 1..MaxStart |->
                  IF s = 1 THEN {proc[p].cgroup} ELSE {}]]
    /\ cache = [p \in Pids |-> {}]
    /\ worker = Idle
    /\ creator = [pc |-> "idle", target |-> <<>>]
    /\ creates = 0
    /\ made = {} /\ structural = {}
    /\ falseAnswer = FALSE /\ strayWeight = FALSE /\ mismoved = FALSE

TypeOK ==
    /\ host \in Hosts
    /\ subtree \subseteq dirs
    /\ \A c \in dirs : c = <<>> \/ Parent(c) \in dirs
    /\ Cardinality(root) <= 1 /\ root \subseteq dirs
    /\ \A p \in Pids : proc[p].start \in 0..MaxStart /\ proc[p].cgroup \in dirs
    /\ \A p \in Pids : Cardinality(cache[p]) <= 1
    /\ worker.pc \in {"idle", "resolve", "read", "recheck", "weight", "open", "check", "write",
                      "verify"}
    /\ creator.pc \in {"idle", "enable", "mkdir", "settings"}
    /\ creates \in 0..host.creates

-----------------------------------------------------------------------------
(* create_cgroup.                                                           *)

\* Where create_cgroup and ensure_child's match on the ownership go on.
StepFor(target, looks) ==
    [pc |-> CASE looks /\ target \in dirs -> "settings"
              [] ~(looks /\ target \in dirs) /\ classify(target) = "owned" -> "enable"
              [] ~(looks /\ target \in dirs) /\ classify(target) = "legacy" -> "mkdir"
              [] OTHER -> "idle",
     target |-> IF classify(target) = "foreign" /\ target \notin dirs THEN <<>> ELSE target]

\* A mutant of Create: the target's existence is left to ensure_child.
CreateWithoutLooking(n) ==
    /\ creator.pc = "idle" /\ creates < host.creates
    /\ creates' = creates + 1
    /\ creator' \in {StepFor(target, FALSE) : target \in resolve_target_dir(n)}
    /\ UNCHANGED <<hierarchy, dirs, subtree, proc, cache, worker, history>>

Create(n) ==
    /\ creator.pc = "idle" /\ creates < host.creates
    /\ creates' = creates + 1
    /\ IF resolve_target_dir(n) = {} THEN UNCHANGED creator
       ELSE creator' \in {StepFor(target, TRUE) : target \in resolve_target_dir(n)}
    /\ UNCHANGED <<hierarchy, dirs, subtree, proc, cache, worker, history>>

\* ensure_child asks for the controller on the immediate parent if it is
\* there; a refusal is a warning.
EnableCpu ==
    LET parent == Parent(creator.target) IN
    /\ creator.pc = "enable"
    /\ IF parent \in dirs /\ CanEnable(parent)
       THEN subtree' = subtree \cup {parent} /\ structural' = structural \cup {parent}
       ELSE UNCHANGED <<subtree, structural>>
    /\ creator' = [creator EXCEPT !.pc = "mkdir"]
    /\ UNCHANGED <<hierarchy, dirs, proc, cache, worker, creates, made, been, falseAnswer, strayWeight,
                   mismoved>>

\* A mutant of CreateDirAll: create_dir.
CreateDir ==
    /\ creator.pc = "mkdir"
    /\ dirs' = dirs \cup {creator.target}
    /\ structural' = structural \cup {creator.target}
    /\ made' = made \cup {creator.target}
    /\ creator' = [creator EXCEPT !.pc = "settings"]
    /\ UNCHANGED <<hierarchy, subtree, proc, cache, worker, creates, been, falseAnswer, strayWeight,
                   mismoved>>

CreateDirAll ==
    LET new == {SubSeq(creator.target, 1, k) : k \in 0..Len(creator.target)} \ dirs IN
    /\ creator.pc = "mkdir"
    /\ dirs' = dirs \cup new
    /\ structural' = structural \cup new
    /\ made' = made \cup {creator.target}
    /\ creator' = [creator EXCEPT !.pc = "settings"]
    /\ UNCHANGED <<hierarchy, subtree, proc, cache, worker, creates, been, falseAnswer, strayWeight,
                   mismoved>>

\* set_cpu_max refuses a foreign target; set_cpu_weight writes where it can.
SetSettings ==
    /\ creator.pc = "settings"
    /\ structural' = IF classify(creator.target) # "foreign" /\ HasCpu(creator.target)
                     THEN structural \cup {creator.target} ELSE structural
    /\ creator' = [pc |-> "idle", target |-> <<>>]
    /\ UNCHANGED <<hierarchy, dirs, subtree, proc, cache, worker, creates, made, been, falseAnswer,
                   strayWeight, mismoved>>

-----------------------------------------------------------------------------
(* The worker applies a rule with a nice and a cgroup to the process it was *)
(* told of.  First the mirror into cpu.weight, through the resolver.         *)

Take(p, n) ==
    /\ worker.pc = "idle"
    /\ worker' = [pc |-> IF V2 THEN "resolve" ELSE "open", pid |-> p, name |-> n,
                  start |-> 0, path |-> {}, before |-> 0, moved |-> 0]
    /\ UNCHANGED <<hierarchy, dirs, subtree, proc, cache, creator, creates, history>>

\* CachingCgroupResolver::resolve up to the end of the cache lookup.
Resolve ==
    LET now == proc[worker.pid].start
        hit == {e \in cache[worker.pid] : e.start = now /\ e.fresh}
    IN  /\ worker.pc = "resolve"
        /\ worker' = CASE now = 0 -> [worker EXCEPT !.pc = "open"]
                       [] now # 0 /\ hit # {} ->
                            [worker EXCEPT !.pc = "weight", !.start = now, !.path = The(hit).path]
                       [] OTHER -> [worker EXCEPT !.pc = "read", !.start = now]
        /\ UNCHANGED <<hierarchy, dirs, subtree, proc, cache, creator, creates, history>>

\* LinuxCgroupResolver::resolve: /proc/<pid>/cgroup.
ReadCgroup ==
    /\ worker.pc = "read"
    /\ worker' = [worker EXCEPT !.pc = "recheck",
                     !.path = IF proc[worker.pid].start = 0 THEN {} ELSE {proc[worker.pid].cgroup}]
    /\ UNCHANGED <<hierarchy, dirs, subtree, proc, cache, creator, creates, history>>

\* A mutant of Recheck: the start time is not read again.
TrustRead ==
    /\ worker.pc = "recheck"
    /\ cache' = [cache EXCEPT ![worker.pid] =
                    {[start |-> worker.start, path |-> worker.path, fresh |-> TRUE]}]
    /\ worker' = [worker EXCEPT !.pc = IF worker.path = {} THEN "open" ELSE "weight"]
    /\ UNCHANGED <<hierarchy, dirs, subtree, proc, creator, creates, history>>

Recheck ==
    LET same == proc[worker.pid].start = worker.start IN
    /\ worker.pc = "recheck"
    /\ cache' = IF same
                THEN [cache EXCEPT ![worker.pid] =
                         {[start |-> worker.start, path |-> worker.path, fresh |-> TRUE]}]
                ELSE cache
    /\ worker' = [worker EXCEPT !.pc = IF same /\ worker.path # {} THEN "weight" ELSE "open"]
    /\ UNCHANGED <<hierarchy, dirs, subtree, proc, creator, creates, history>>

\* Allowed in a foreign cgroup when the file is there.
WriteWeight ==
    /\ worker.pc = "weight"
    /\ strayWeight' = (strayWeight \/
          \E c \in worker.path : /\ HasCpu(c)
                                 /\ proc[worker.pid].start = worker.start
                                 /\ proc[worker.pid].cgroup # c)
    /\ worker' = [worker EXCEPT !.pc = "open"]
    /\ UNCHANGED <<hierarchy, dirs, subtree, proc, cache, creator, creates, made, structural, been,
                   falseAnswer, mismoved>>

-----------------------------------------------------------------------------
(* Then add_pid_to_cgroup and move_pid.                                     *)

\* The target's checks, the open and the tgid.
OpenProcs ==
    /\ worker.pc = "open"
    /\ worker' = IF /\ \E c \in resolve_target_dir(worker.name) : c \in dirs /\ classify(c) # "foreign"
                    /\ proc[worker.pid].start # 0
                 THEN [worker EXCEPT !.pc = "check"] ELSE Idle
    /\ UNCHANGED <<hierarchy, dirs, subtree, proc, cache, creator, creates, history>>

CheckStart ==
    /\ worker.pc = "check"
    /\ worker' = IF proc[worker.pid].start = 0 THEN Idle
                 ELSE [worker EXCEPT !.pc = "write", !.before = proc[worker.pid].start]
    /\ UNCHANGED <<hierarchy, dirs, subtree, proc, cache, creator, creates, history>>

\* The kernel moves whoever holds the pid now.
WriteProcs ==
    LET p == worker.pid
        target == The(resolve_target_dir(worker.name))
        takes == proc[p].start # 0 /\ CanAttach(target)
    IN  /\ worker.pc = "write"
        /\ IF takes
           THEN /\ proc' = [proc EXCEPT ![p].cgroup = target]
                /\ been' = [been EXCEPT ![p][proc[p].start] = @ \cup {target}]
                /\ structural' = structural \cup {target}
                /\ mismoved' = (mismoved \/ proc[p].start # worker.before)
                /\ worker' = [worker EXCEPT !.pc = "verify", !.moved = proc[p].start]
           ELSE /\ worker' = Idle
                /\ UNCHANGED <<proc, been, structural, mismoved>>
        /\ UNCHANGED <<hierarchy, dirs, subtree, cache, creator, creates, made, falseAnswer, strayWeight>>

\* move_pid answers true when the start time is the one read before.
Verify ==
    /\ worker.pc = "verify"
    /\ falseAnswer' = (falseAnswer \/
          (proc[worker.pid].start = worker.before /\ worker.moved # worker.before))
    /\ worker' = Idle
    /\ UNCHANGED <<hierarchy, dirs, subtree, proc, cache, creator, creates, made, structural, been,
                   strayWeight, mismoved>>

-----------------------------------------------------------------------------
(* The rest of the system.                                                  *)

Exit(p) ==
    /\ "exit" \in host.ops /\ proc[p].start # 0
    /\ proc' = [proc EXCEPT ![p].start = 0]
    /\ UNCHANGED <<hierarchy, dirs, subtree, cache, worker, creator, creates, history>>

\* The pid is given to a new process.
Spawn(p) ==
    /\ "spawn" \in host.ops /\ proc[p].start = 0
    /\ \E s \in 1..MaxStart, c \in host.populated :
          /\ been[p][s] = {} /\ \A t \in 1..s - 1 : been[p][t] # {}
          /\ proc' = [proc EXCEPT ![p] = [start |-> s, cgroup |-> c]]
          /\ been' = [been EXCEPT ![p][s] = {c}]
    /\ UNCHANGED <<hierarchy, dirs, subtree, cache, worker, creator, creates, made, structural,
                   falseAnswer, strayWeight, mismoved>>

\* systemd moves a process.
Migrate(p) ==
    /\ "move" \in host.ops /\ proc[p].start # 0
    /\ \E c \in host.populated \ {proc[p].cgroup} :
          /\ proc' = [proc EXCEPT ![p].cgroup = c]
          /\ been' = [been EXCEPT ![p][proc[p].start] = @ \cup {c}]
    /\ UNCHANGED <<hierarchy, dirs, subtree, cache, worker, creator, creates, made, structural,
                   falseAnswer, strayWeight, mismoved>>

\* The resolver's TTL passes.
Tick ==
    /\ "tick" \in host.ops
    /\ cache' = [p \in Pids |-> {[e EXCEPT !.fresh = FALSE] : e \in cache[p]}]
    /\ UNCHANGED <<hierarchy, dirs, subtree, proc, worker, creator, creates, history>>

CreateCgroup == \E n \in host.names : Create(n)
TakeReport == \E p \in Pids, n \in host.names : Take(p, n)
ProcessExits == \E p \in Pids : Exit(p)
ProcessStarts == \E p \in Pids : Spawn(p)
ProcessMigrates == \E p \in Pids : Migrate(p)

Next ==
    \/ CreateCgroup \/ EnableCpu \/ CreateDirAll \/ SetSettings
    \/ TakeReport \/ Resolve \/ ReadCgroup \/ Recheck \/ WriteWeight
    \/ OpenProcs \/ CheckStart \/ WriteProcs \/ Verify
    \/ ProcessExits \/ ProcessStarts \/ ProcessMigrates \/ Tick

Spec == Init /\ [][Next]_vars

-----------------------------------------------------------------------------
(* On v2 every cgroup the daemon creates, enables a controller in, limits   *)
(* or moves a process into is at or below its delegated root: the           *)
(* single-writer rule CgroupOwnership is there for.  The parent that        *)
(* ensure_child enables cpu on is not classified itself.                    *)
ForeignUntouched ==
    V2 => \A c \in structural : classify(c) = "owned"

(* No answer is about another process with the pid, earlier or later.  The  *)
(* resolver's cgroup is one that the process it was asked about has been    *)
(* in: the start times before and after the read, and in the cache.  And    *)
(* when move_pid answers true, the process it checked is the one the kernel *)
(* moved.                                                                   *)
NeverAnotherProcess ==
    /\ worker.pc = "weight" => worker.path \subseteq been[worker.pid][worker.start]
    /\ ~falseAnswer

(* A cgroup made directly below the delegated root has its cpu files, as    *)
(* long as no process has been put into the root itself, whatever is moved  *)
(* and created in whichever order (CgroupManager::ensure_child).  It is not *)
(* so one level further down, see NestedHasCpu.                             *)
MadeHasCpu ==
    (V2 /\ \A p \in Pids, s \in 1..MaxStart : been[p][s] \cap root = {}) =>
        \A c \in made : Parent(c) \in root => HasCpu(c)

(* A cgroup "created from a `.cgroups` rule" gets its cpu.weight "once the  *)
(* unit delegates correctly" (CONFIGURATION.md), whatever its name.         *)
NestedHasCpu ==
    (V2 /\ \A p \in Pids, s \in 1..MaxStart : been[p][s] \cap root = {}) =>
        \A c \in made : HasCpu(c)

(* move_pid never moves a process other than the one it checked             *)
(* (COMPATIBILITY.md, PID safety).                                          *)
InnocentNotMoved == ~mismoved

(* The weight goes to the cgroup the process belongs to (CONFIGURATION.md,  *)
(* apply_cpu_weight).                                                       *)
WeightFollowsProcess == ~strayWeight

(* What the daemon changes the structure of is inside what systemd          *)
(* delegated to its unit (COMPATIBILITY.md, scope of Delegate=yes;          *)
(* SYSTEMD.md, on a unit without it).                                       *)
StructureWithinDelegation ==
    \A c \in structural : \E d \in host.delegated : AtOrBelow(c, d)

(* No process is moved into the hierarchy root (CONFIGURATION.md, on the    *)
(* realtime workaround).                                                    *)
HierarchyRootRefused ==
    worker.pc = "verify" => <<>> \notin resolve_target_dir(worker.name)
=============================================================================
