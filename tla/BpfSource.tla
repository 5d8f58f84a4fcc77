----------------------------- MODULE BpfSource -----------------------------
(***************************************************************************)
(* The eBPF source, from the tracepoints to the tuned process: the program  *)
(* runs on every CPU and filters by time through statics all CPUs share;    *)
(* each CPU has a perf ring; the listener turns records into reports; the   *)
(* initial scan reports too; the worker reads the name again (CommandName)  *)
(* unless the report has an authoritative one.                              *)
(*                                                                         *)
(* Shutdown is in Lifecycle.  Time is in nanoseconds, with NsPerUs of them  *)
(* in a microsecond.  Records lost in a full ring are counted by the kernel *)
(* and only logged (lost_cb).                                               *)
(***************************************************************************)
EXTENDS CommandName, FiniteSets

CONSTANTS
    Word,       \* 2^64: the arithmetic of a u64 is modulo this
    NsPerUs,    \* 1000
    MaxCpus,    \* CPUs are 1..n for an n up to this
    Scenes      \* what a behaviour is about, see SceneRecord

(* ops: what processes do, and maxOps a bound on it; images: what they exec *)
(* and first what they are at the start; cpus: how many; minUs:             *)
(* --bpf-min-us; boot and maxClock: time at the start and a bound on it;    *)
(* ringCap: records a ring holds; scanSpawns: whether the initial scan's    *)
(* thread can be spawned; fails: a bound on failures to build the perf      *)
(* buffer.                                                                  *)
SceneRecord ==
    [ops : SUBSET {"fork", "exec", "exit"}, maxOps : Nat, images : SUBSET Images,
     first : SUBSET Images, cpus : 1..MaxCpus, minUs : Nat, boot : Nat, maxClock : Nat,
     ringCap : Nat, scanSpawns : BOOLEAN, fails : Nat]

ASSUME SourceAssumption ==
    /\ Word \in Nat \ {0} /\ NsPerUs \in Nat \ {0} /\ MaxCpus \in Nat
    /\ Readers = {"scan", "worker"}
    /\ Scenes \subseteq SceneRecord
    /\ \A s \in Scenes : s.boot <= s.maxClock /\ s.maxClock < Word

Programs == {"exec", "fork"}

VARIABLES
    scene,      \* which of the Scenes this is
    ops,        \* number of kernel operations so far
    clock,      \* bpf_ktime_get_ns
    cpu,        \* each CPU's run of a program
    prev_pid,   \* each program's static, shared by the CPUs
    prev_ts,
    ring,       \* each CPU's perf ring
    main,       \* the main thread: "new", "attached", "poll", "sleep" or "netlink"
    isFirst,    \* monitor::run's is_first
    failed,     \* number of failures to build the perf buffer
    cursor,     \* the initial scan: the next pid to look at, 0 when not running
    channel,    \* the reports on their way to the worker
    work,       \* the report the worker has taken: none or one
    tuned,      \* the rule last applied to each pid's process, or "untouched"
    missed,     \* history: pids with a change no ring and no scan has had since
    passed,     \* history: where and when each program let an event pass
    dropped,    \* history: where and when each program dropped one
    overlapped  \* history: two CPUs were in one program at a time

kernel == <<scene, ops, clock>>
program == <<cpu, prev_pid, prev_ts, passed, dropped, overlapped>>
daemon == <<main, isFirst, failed, cursor>>
worker == <<channel, work, tuned>>
vars == <<proc, alive, names, kernel, program, ring, daemon, worker, missed>>

Cpus == 1..scene.cpus
attached == main \in {"attached", "poll", "sleep"}

Event == [pid : Pids, prev_pid : 0..MaxPid, task : Names]
Report == [pid : Pids, name : Names \cup {"<unknown>"}, name_is_authoritative : BOOLEAN]

NoRun == [pc |-> "idle"]

TypeOK ==
    /\ NamesTypeOK
    /\ clock \in scene.boot..scene.maxClock
    /\ \A c \in Cpus :
          /\ cpu[c].pc \in {"idle", "clock", "filter", "store", "output"}
          /\ ring[c] \in Seq(Event) /\ Len(ring[c]) <= scene.ringCap
    /\ prev_pid \in [Programs -> 0..MaxPid] /\ prev_ts \in [Programs -> 0..Word - 1]
    /\ main \in {"new", "attached", "poll", "sleep", "netlink"}
    /\ isFirst \in BOOLEAN /\ failed \in 0..scene.fails
    /\ cursor \in 0..MaxPid + 1
    /\ channel \in Seq(Report)
    /\ work \subseteq Report /\ Cardinality(work) <= 1
    /\ tuned \in [Pids -> Names \cup {"untouched"}]
    /\ missed \subseteq Pids

Init ==
    /\ scene \in Scenes
    /\ alive \in {1..n : n \in 1..MaxPid}
    /\ \E first \in [Pids -> scene.first] :
          /\ \A p \in Pids \ alive : first[p] = first[1]
          /\ proc = [p \in Pids |-> [image |-> first[p],
                                    use |-> IF p \in alive THEN 1 ELSE 0]]
    /\ NamesInit
    /\ ops = 0 /\ clock = scene.boot
    /\ cpu = [c \in Cpus |-> NoRun]
    /\ prev_pid = [g \in Programs |-> 0] /\ prev_ts = [g \in Programs |-> 0]
    /\ ring = [c \in Cpus |-> <<>>]
    /\ main = "new" /\ isFirst = TRUE /\ failed = 0 /\ cursor = 0
    /\ channel = <<>> /\ work = {}
    /\ tuned = [p \in Pids |-> "untouched"]
    /\ missed = alive
    /\ passed = [g \in Programs |-> {}] /\ dropped = [g \in Programs |-> {}]
    /\ overlapped = FALSE

-----------------------------------------------------------------------------
(* External: processes.  A fork is made by the parent and announced before  *)
(* the child can run; an exec is announced by the process itself.  Whoever  *)
(* is in a program does nothing else meanwhile.                             *)

Busy(p) == \E c \in Cpus : cpu[c].pc # "idle" /\ p \in {cpu[c].pid, cpu[c].current}

Operate(op, c) ==
    /\ op \in scene.ops /\ ops < scene.maxOps /\ ops' = ops + 1
    /\ cpu[c].pc = "idle"
    /\ UNCHANGED <<scene, clock, ring, daemon, channel, work>>

(* The tracepoint runs the program, if it is attached.                      *)
Trace(c, g, current, pid) ==
    /\ cpu' = IF attached
              THEN [cpu EXCEPT ![c] = [pc |-> "clock", prog |-> g, current |-> current,
                                       pid |-> pid, prev_pid |-> 0, ts |-> 0]]
              ELSE cpu
    /\ overlapped' = (overlapped \/ \E d \in Cpus : cpu[d].pc # "idle" /\ cpu[d].prog = g)
    /\ UNCHANGED <<prev_pid, prev_ts, passed, dropped>>

Fork(c, parent, child) ==
    /\ Operate("fork", c) /\ ~Busy(parent)
    /\ Spawn(parent, child)
    /\ tuned' = [tuned EXCEPT ![child] = "untouched"]
    /\ missed' = missed \cup {child}
    /\ Trace(c, "fork", parent, child)

Exec(c, p, image) ==
    /\ Operate("exec", c) /\ ~Busy(p)
    /\ image \in scene.images /\ Load(p, image)
    /\ missed' = missed \cup {p}
    /\ Trace(c, "exec", p, p)
    /\ UNCHANGED tuned

Exit(c, p) ==
    /\ Operate("exit", c) /\ ~Busy(p) /\ p # 1
    /\ End(p)
    /\ missed' = missed \ {p}
    /\ UNCHANGED <<program, tuned>>

Tick ==
    /\ clock < scene.maxClock /\ clock' = clock + 1
    /\ UNCHANGED <<proc, alive, names, scene, ops, program, ring, daemon, worker, missed>>

-----------------------------------------------------------------------------
(* The program.  Its statics are ordinary shared memory: other CPUs run     *)
(* between any two of these steps.                                          *)

ProgramStep(c, pc) ==
    cpu[c].pc = pc /\ UNCHANGED <<proc, alive, names, kernel, daemon, worker, overlapped>>

ReadClock(c) ==
    /\ ProgramStep(c, "clock")
    /\ cpu' = [cpu EXCEPT ![c].pc = "filter", ![c].ts = clock]
    /\ UNCHANGED <<prev_pid, prev_ts, passed, dropped, ring, missed>>

DeltaUs(c) == ((cpu[c].ts - prev_ts[cpu[c].prog] + Word) % Word) \div NsPerUs

Passes(c) == scene.minUs = 0 \/ DeltaUs(c) > scene.minUs

Moment(c) == [cpu |-> c, ts |-> cpu[c].ts]

DropsRestartInterval(c) ==
    /\ ProgramStep(c, "filter")
    /\ LET g == cpu[c].prog
       IN  \/ /\ Passes(c)
              /\ cpu' = [cpu EXCEPT ![c].pc = "store", ![c].prev_pid = prev_pid[g]]
              /\ passed' = [passed EXCEPT ![g] = @ \cup {Moment(c)}]
              /\ UNCHANGED dropped
           \/ /\ ~Passes(c)
              /\ cpu' = [cpu EXCEPT ![c] = NoRun]
              /\ dropped' = [dropped EXCEPT ![g] = @ \cup {Moment(c)}]
              /\ UNCHANGED passed
           /\ prev_ts' = [prev_ts EXCEPT ![g] = cpu[c].ts]
    /\ UNCHANGED <<prev_pid, ring, missed>>

(* handle_event up to the check: the gap since the last event any CPU let   *)
(* pass, in whole microseconds of an unsigned difference.                   *)
Filter(c) ==
    /\ ProgramStep(c, "filter")
    /\ LET g == cpu[c].prog
       IN  \/ /\ Passes(c)
              /\ cpu' = [cpu EXCEPT ![c].pc = "store", ![c].prev_pid = prev_pid[g]]
              /\ passed' = [passed EXCEPT ![g] = @ \cup {Moment(c)}]
              /\ UNCHANGED dropped
           \/ /\ ~Passes(c)
              /\ cpu' = [cpu EXCEPT ![c] = NoRun]
              /\ dropped' = [dropped EXCEPT ![g] = @ \cup {Moment(c)}]
              /\ UNCHANGED passed
    /\ UNCHANGED <<prev_pid, prev_ts, ring, missed>>

Store(c) ==
    /\ ProgramStep(c, "store")
    /\ prev_pid' = [prev_pid EXCEPT ![cpu[c].prog] = cpu[c].pid]
    /\ prev_ts' = [prev_ts EXCEPT ![cpu[c].prog] = cpu[c].ts]
    /\ cpu' = [cpu EXCEPT ![c].pc = "output"]
    /\ UNCHANGED <<passed, dropped, ring, missed>>

(* bpf_perf_event_output: into this CPU's ring if the listener has opened   *)
(* it and there is room.  task is the comm of the current process.          *)
Output(c) ==
    /\ ProgramStep(c, "output")
    /\ LET fits == main = "poll" /\ Len(ring[c]) < scene.ringCap
           e == [pid |-> cpu[c].pid, prev_pid |-> cpu[c].prev_pid,
                 task |-> proc[cpu[c].current].image.comm]
       IN  \/ /\ fits
              /\ ring' = [ring EXCEPT ![c] = Append(@, e)]
              /\ missed' = missed \ {cpu[c].pid}
           \/ ~fits /\ UNCHANGED <<ring, missed>>
    /\ cpu' = [cpu EXCEPT ![c] = NoRun]
    /\ UNCHANGED <<prev_pid, prev_ts, passed, dropped>>

-----------------------------------------------------------------------------
(* The main thread: monitor::run, BpfMonitor::new and listen.               *)

MainStep(pc) ==
    main = pc /\ UNCHANGED <<proc, alive, names, kernel, work, tuned, missed>>

(* new loads and attaches the program, with statics of its own; the first   *)
(* time the initial scan is spawned.                                        *)
BpfNew ==
    /\ MainStep("new")
    /\ main' = "attached" /\ isFirst' = FALSE
    /\ cursor' = IF isFirst /\ scene.scanSpawns THEN 1 ELSE cursor
    /\ prev_pid' = [g \in Programs |-> 0] /\ prev_ts' = [g \in Programs |-> 0]
    /\ UNCHANGED <<cpu, passed, dropped, overlapped, ring, failed, channel>>

(* A program that does not load or attach leads to netlink, which is        *)
(* EventPipeline.                                                           *)
BpfNewFails ==
    /\ MainStep("new")
    /\ main' = "netlink"
    /\ UNCHANGED <<program, ring, isFirst, failed, cursor, channel>>

(* listen: the rings exist from here on.                                    *)
BuildPerfBuffer ==
    /\ MainStep("attached")
    /\ main' = "poll"
    /\ UNCHANGED <<program, ring, isFirst, failed, cursor, channel>>

BuildFails ==
    /\ MainStep("attached") /\ failed < scene.fails
    /\ main' = "sleep" /\ failed' = failed + 1
    /\ UNCHANGED <<program, ring, isFirst, cursor, channel>>

(* The second of sleep ends; the monitor is dropped, which detaches the     *)
(* program once no CPU is in it.                                            *)
Restart ==
    /\ MainStep("sleep") /\ \A c \in Cpus : cpu[c].pc = "idle"
    /\ main' = "new"
    /\ UNCHANGED <<program, ring, isFirst, failed, cursor, channel>>

NotRepeated(e) == e.pid # 0 /\ e.pid # e.prev_pid

is_reportable(e) == e.pid # 0

(* poll calls sample_cb with a record of some ring, in that ring's order.   *)
Poll(c) ==
    /\ MainStep("poll") /\ ring[c] # <<>>
    /\ LET e == Head(ring[c])
       IN  channel' = IF is_reportable(e)
                      THEN Append(channel, [pid |-> e.pid, name |-> e.task,
                                            name_is_authoritative |-> FALSE])
                      ELSE channel
    /\ ring' = [ring EXCEPT ![c] = Tail(@)]
    /\ UNCHANGED <<program, daemon>>

(* poll's timeout, or life under netlink: the loop turns.                   *)
Waits ==
    /\ main = "netlink" \/ (main = "poll" /\ \A c \in Cpus : ring[c] = <<>>)
    /\ UNCHANGED vars

-----------------------------------------------------------------------------
(* full_scan: names are read pid by pid and sent as authoritative.          *)

ScanNext ==
    /\ cursor \in Pids /\ reader["scan"].pc = "idle"
    /\ \/ /\ cursor \in alive
          /\ Begin("scan", cursor)
          /\ missed' = missed \ {cursor}
          /\ UNCHANGED cursor
       \/ /\ cursor \notin alive
          /\ cursor' = cursor + 1
          /\ UNCHANGED <<reader, missed>>
    /\ UNCHANGED <<proc, alive, cache, denied, straddled, kernel, program, ring, main,
                   isFirst, failed, worker>>

ScanSend ==
    /\ reader["scan"].pc = "done"
    /\ channel' = Append(channel, [pid |-> cursor, name |-> reader["scan"].name,
                                   name_is_authoritative |-> TRUE])
    /\ reader' = [reader EXCEPT !["scan"] = Idle]
    /\ cursor' = cursor + 1
    /\ UNCHANGED <<proc, alive, cache, denied, straddled, kernel, program, ring, main,
                   isFirst, failed, work, tuned, missed>>

ScanEnds ==
    /\ cursor = MaxPid + 1
    /\ cursor' = 0
    /\ UNCHANGED <<proc, alive, names, kernel, program, ring, main, isFirst, failed, worker,
                   missed>>

-----------------------------------------------------------------------------
(* work_loop: a name that is not authoritative is read again, and kept if   *)
(* the process is gone.                                                     *)

Take ==
    /\ work = {} /\ channel # <<>>
    /\ work' = {Head(channel)} /\ channel' = Tail(channel)
    /\ IF Head(channel).name_is_authoritative THEN UNCHANGED reader
       ELSE Begin("worker", Head(channel).pid)
    /\ UNCHANGED <<proc, alive, cache, denied, straddled, kernel, program, ring, daemon,
                   tuned, missed>>

TaskName(r) == r.name

FullName(r) ==
    IF r.name_is_authoritative \/ reader["worker"].name = "<unknown>" THEN r.name
    ELSE reader["worker"].name

(* The rule of the name goes to whatever process has the pid now.           *)
Apply ==
    /\ \E r \in work :
          /\ r.name_is_authoritative \/ reader["worker"].pc = "done"
          /\ tuned' = IF r.pid \in alive /\ FullName(r) # "<unknown>"
                      THEN [tuned EXCEPT ![r.pid] = FullName(r)] ELSE tuned
    /\ work' = {}
    /\ reader' = [reader EXCEPT !["worker"] = Idle]
    /\ UNCHANGED <<proc, alive, cache, denied, straddled, kernel, program, ring, daemon,
                   channel, missed>>

-----------------------------------------------------------------------------
Run(c) == ReadClock(c) \/ Filter(c) \/ Store(c) \/ Output(c)
Listener == BpfNew \/ BpfNewFails \/ BuildPerfBuffer \/ BuildFails \/ Restart
            \/ \E c \in Cpus : Poll(c)
ReadStep(t) ==
    ReadName(t) /\ UNCHANGED <<kernel, program, ring, daemon, worker, missed>>
Scanner == ScanNext \/ ScanSend \/ ScanEnds \/ ReadStep("scan")
Worker == Take \/ Apply \/ ReadStep("worker")

Next ==
    \/ \E c \in Cpus :
          \/ \E p \in Pids : Exit(c, p) \/ (\E q \in Pids : Fork(c, p, q))
                             \/ (\E i \in Images : Exec(c, p, i))
          \/ Run(c)
    \/ Tick
    \/ Listener \/ Waits \/ Scanner \/ Worker

Spec == Init /\ [][Next]_vars

(* The daemon's threads are scheduled, every ring is polled, and a program  *)
(* that was entered finishes.  Nothing is assumed of processes or time.     *)
FairSpec ==
    /\ Spec
    /\ WF_vars(Listener) /\ WF_vars(Scanner) /\ WF_vars(Worker)
    /\ \A c \in 1..MaxCpus : WF_vars(c \in Cpus /\ Poll(c)) /\ WF_vars(c \in Cpus /\ Run(c))

-----------------------------------------------------------------------------
(* Properties.                                                              *)

(* t is after s by no more than the interval.                               *)
Soon(s, t) == s <= t /\ (t - s) \div NsPerUs <= scene.minUs

(* The interval thins a burst and never silences it: with CPUs racing for   *)
(* the statics as they like, an event is dropped only if the same program   *)
(* let one pass no more than min_us earlier, or if the machine has not been *)
(* up for longer than that.  And it holds between any two events a program  *)
(* lets pass, on one CPU or on two, as long as no two CPUs are in it at a   *)
(* time (ananicy_cpp.bpf.c handle_event).                                   *)
IntervalThinsBursts ==
    \A g \in Programs :
        /\ \A d \in dropped[g] : Soon(0, d.ts) \/ \E e \in passed[g] : Soon(e.ts, d.ts)
        /\ (~overlapped /\ scene.minUs > 0 /\ failed = 0) =>
              \A d, e \in passed[g] : d # e => ~Soon(d.ts, e.ts)

(* Every process ends under the rule of the program it is by then, unless   *)
(* its last change was announced in no ring and found by no scan: whatever  *)
(* the order in which rings are drained, with forks and execs of one        *)
(* process on different CPUs, and with pids that change hands, because the  *)
(* worker reads the name when it takes the report (bpf_monitor.rs listen,   *)
(* worker.rs work_loop).  An exec beside the initial scan is left out, see  *)
(* EventPipeline's DuplicateReportHarmless.                                 *)
SourceSettles ==
    (scene.scanSpawns => "exec" \notin scene.ops) =>
    <>[](\A p \in alive \ missed : tuned[p] = proc[p].image.program)

(* Stated by ananicy_cpp.bpf.c:85: the interval is "the gap since the       *)
(* previous exec or fork on *this* CPU".  An event is dropped for one that  *)
(* passed on its own CPU.                                                   *)
IntervalPerCpu ==
    \A g \in Programs : \A d \in dropped[g] :
        Soon(0, d.ts) \/ \E e \in passed[g] : e.cpu = d.cpu /\ Soon(e.ts, d.ts)

(* Stated by ananicy_cpp.bpf.c:85: "Minimum interval between reported       *)
(* events, per CPU".  Two events of one program and one CPU are spaced.     *)
SpacedPerCpu ==
    scene.minUs > 0 =>
    \A g \in Programs : \A d, e \in passed[g] :
        (d # e /\ d.cpu = e.cpu) => ~Soon(d.ts, e.ts)

(* Stated by ananicy_cpp.bpf.c:92: "Anything dropped is caught later by the *)
(* periodic /proc scan".                                                    *)
DroppedIsCaught == [](main # "netlink") => <>[](missed \cap alive = {})

(* Stated by COMPATIBILITY.md:180: "subscribing first is the one that     *)
(* cannot drop an event".  No process goes unseen.                          *)
SubscribedFirst ==
    (scene.minUs = 0 /\ scene.scanSpawns /\ scene.ringCap >= scene.maxOps
     /\ [](main # "netlink")) =>
    <>[](missed \cap alive = {})
=============================================================================
