--------------------------- MODULE EventPipeline ---------------------------
(***************************************************************************)
(* From the kernel to the worker over netlink: processes fork, exec and     *)
(* exit; the listener turns socket events into reports and filters them     *)
(* through ReportedNames; the initial and the recovery scan of /proc report *)
(* too; the worker applies the rule of each report in channel order.        *)
(*                                                                         *)
(* A name stands for the rule it selects.  Exit events are read and ignored *)
(* by the listener and are left out.                                        *)
(***************************************************************************)
EXTENDS Naturals, Sequences, FiniteSets

CONSTANTS
    MaxPid,     \* process ids are 1..MaxPid
    Names,      \* what get_command_from_pid can answer for a live process
    MaxUses,    \* bound on the processes that have one pid, one after another
    Scenes      \* what a behaviour is about, see SceneRecord

(* ops: what processes do, and maxOps a bound on it; socketCap: events the  *)
(* socket's receive buffer holds; namesCap: REPORTED_NAMES_CAPACITY;        *)
(* scanSpawns: whether the initial scan's thread can be spawned.            *)
SceneRecord ==
    [ops : SUBSET {"fork", "exec", "exit"}, maxOps : Nat, socketCap : Nat,
     namesCap : Nat \ {0}, scanSpawns : BOOLEAN]

ASSUME BoundsAssumption ==
    {MaxPid, MaxUses} \subseteq Nat /\ Scenes \subseteq SceneRecord

Pids == 1..MaxPid
Scans == {"init", "recovery"}

VARIABLES
    scene,      \* which of the Scenes this is
    proc,       \* each pid's process: its name and which user of the pid it is
    alive,      \* the pids in use
    ops,        \* number of kernel operations so far
    main,       \* the main thread: "new", "listen" or "recover"
    isFirst,    \* monitor::run's is_first
    socket,     \* the pids of the events in the receive buffer
    attached,   \* whether a socket the listener will read is subscribed
    overrun,    \* the next receive fails with ENOBUFS
    reported,   \* ReportedNames: most recently used first
    cursor,     \* each scan: the next pid to look at, 0 when not running
    held,       \* each scan: what it has read and not yet sent
    channel,    \* the reports on their way to the worker
    tuned,      \* the rule last applied to each pid's process, or "untouched"
    older,      \* history: the pids whose process was there before the daemon
    delivered,  \* history: the pids whose process had an event received
    reports,    \* history: what the listener reported of each pid's process
    execs,      \* history: execs of each pid's process
    recycled    \* history: a rule went to another process than the one reported

kernel == <<scene, proc, alive, ops, execs, older>>
vars == <<kernel, main, isFirst, socket, attached, overrun, reported, cursor, held,
          channel, tuned, delivered, reports, recycled>>

Overruns == scene.socketCap < scene.maxOps   \* events can be lost

Report == [pid : Pids, name : Names, use : 0..MaxUses]

TypeOK ==
    /\ proc \in [Pids -> [name : Names, use : 0..MaxUses]]
    /\ alive \subseteq Pids
    /\ main \in {"new", "listen", "recover"} /\ isFirst \in BOOLEAN
    /\ socket \in Seq(Pids) /\ Len(socket) <= scene.socketCap
    /\ attached \in BOOLEAN /\ overrun \in BOOLEAN
    /\ reported \in Seq([pid : Pids, name : Names \cup {"<unknown>"}])
    /\ Len(reported) <= scene.namesCap
    /\ \A i, j \in 1..Len(reported) : reported[i].pid = reported[j].pid => i = j
    /\ cursor \in [Scans -> 0..MaxPid + 1]
    /\ \A s \in Scans : held[s] \subseteq Report
    /\ channel \in Seq(Report)
    /\ tuned \in [Pids -> Names \cup {"untouched"}]

Init ==
    /\ scene \in Scenes
    /\ alive \in {1..n : n \in 1..MaxPid}
    /\ older = alive
    /\ \E name \in [alive -> Names] :
          proc = [p \in Pids |-> IF p \in alive THEN [name |-> name[p], use |-> 1]
                                 ELSE [name |-> name[1], use |-> 0]]
    /\ ops = 0 /\ execs = [p \in Pids |-> 0]
    /\ main = "new" /\ isFirst = TRUE
    /\ socket = <<>> /\ attached = FALSE /\ overrun = FALSE
    /\ reported = <<>>
    /\ cursor = [s \in Scans |-> 0] /\ held = [s \in Scans |-> {}]
    /\ channel = <<>>
    /\ tuned = [p \in Pids |-> "untouched"]
    /\ delivered = {} /\ reports = [p \in Pids |-> 0]
    /\ recycled = FALSE

-----------------------------------------------------------------------------
(* External: the kernel and the processes it runs.                          *)

(* One event into the subscribed socket's buffer, or the loss of it.        *)
Deliver(p) ==
    /\ socket' = IF attached /\ Len(socket) < scene.socketCap THEN Append(socket, p)
                 ELSE socket
    /\ overrun' = (overrun \/ (attached /\ Len(socket) = scene.socketCap))

Operate(op) ==
    op \in scene.ops /\ ops < scene.maxOps /\ ops' = ops + 1 /\ UNCHANGED scene

(* The child is a copy of the parent, under an unused pid.                  *)
Fork(parent, child) ==
    /\ Operate("fork")
    /\ parent \in alive /\ child \notin alive
    /\ proc[child].use < MaxUses
    /\ proc' = [proc EXCEPT ![child] = [name |-> proc[parent].name, use |-> @.use + 1]]
    /\ alive' = alive \cup {child}
    /\ tuned' = [tuned EXCEPT ![child] = "untouched"]
    /\ execs' = [execs EXCEPT ![child] = 0]
    /\ reports' = [reports EXCEPT ![child] = 0]
    /\ delivered' = delivered \ {child} /\ older' = older \ {child}
    /\ Deliver(child)
    /\ UNCHANGED <<main, isFirst, attached, reported, cursor, held, channel, recycled>>

(* execve; the COMM event that follows the EXEC event has the same pid and  *)
(* is one more event of that pid.                                           *)
Exec(p, n) ==
    /\ Operate("exec")
    /\ p \in alive /\ n # proc[p].name
    /\ proc' = [proc EXCEPT ![p].name = n]
    /\ execs' = [execs EXCEPT ![p] = @ + 1]
    /\ Deliver(p)
    /\ UNCHANGED <<alive, older, main, isFirst, attached, reported, cursor, held, channel,
                   tuned, delivered, reports, recycled>>

Comm(p) ==
    /\ Operate("exec")
    /\ p \in alive /\ execs[p] > 0
    /\ Deliver(p)
    /\ UNCHANGED <<proc, alive, execs, older, main, isFirst, attached, reported, cursor, held,
                   channel, tuned, delivered, reports, recycled>>

Exit(p) ==
    /\ Operate("exit")
    /\ p \in alive /\ p # 1
    /\ alive' = alive \ {p}
    /\ UNCHANGED <<proc, execs, older, main, isFirst, socket, attached, overrun, reported,
                   cursor, held, channel, tuned, delivered, reports, recycled>>

-----------------------------------------------------------------------------
(* The main thread: monitor::run and NetlinkMonitor::listen.                *)

ScanThenSubscribe ==
    /\ main = "new"
    /\ \/ /\ isFirst
          /\ isFirst' = FALSE /\ cursor' = [cursor EXCEPT !["init"] = 1]
          /\ UNCHANGED <<main, attached>>
       \/ /\ ~isFirst /\ cursor["init"] = 0
          /\ main' = "listen" /\ attached' = TRUE
          /\ UNCHANGED <<isFirst, cursor>>
    /\ UNCHANGED <<kernel, socket, overrun, reported, held, channel, tuned, delivered,
                   reports, recycled>>

(* NetlinkMonitor::new subscribes; the first time the initial scan starts;  *)
(* listen begins with an empty ReportedNames.                               *)
NetlinkNew ==
    /\ main = "new"
    /\ main' = "listen" /\ isFirst' = FALSE
    /\ attached' = TRUE /\ socket' = <<>> /\ overrun' = FALSE /\ reported' = <<>>
    /\ cursor' = IF isFirst /\ scene.scanSpawns THEN [cursor EXCEPT !["init"] = 1]
                 ELSE cursor
    /\ UNCHANGED <<kernel, held, channel, tuned, delivered, reports, recycled>>

(* What get_command_from_pid answers, now.                                  *)
Command(p) == IF p \in alive THEN proc[p].name ELSE "<unknown>"

Entry(p) == SelectSeq(reported, LAMBDA e : e.pid = p)
Without(p) == SelectSeq(reported, LAMBDA e : e.pid # p)
UpTo(n, s) == SubSeq(s, 1, IF Len(s) < n THEN Len(s) ELSE n)

RememberUnbounded(p, n) == <<[pid |-> p, name |-> n]>> \o Without(p)

(* A hit is moved to the front by the lookup; a new or changed identity     *)
(* takes the front and the least recently used one leaves.                  *)
Remember(p, n) == UpTo(scene.namesCap, <<[pid |-> p, name |-> n]>> \o Without(p))

PidDiffersFromPrevious(p, n) == IF reported = <<>> THEN TRUE ELSE Head(reported).pid # p

AlwaysReport(p, n) == TRUE

(* ReportedNames::should_report: the answer, whatever is then remembered.   *)
ShouldReport(p, n) == Entry(p) # <<[pid |-> p, name |-> n]>>

(* A name nobody has a rule for is sent too, and the worker finds no rule:  *)
(* leaving it out of the channel is the same.                               *)
Send(p) ==
    channel' = IF p \in alive THEN Append(channel, [pid |-> p, name |-> proc[p].name,
                                                    use |-> proc[p].use])
               ELSE channel

(* One event of the drain loop.                                             *)
Listen ==
    /\ main = "listen" /\ ~overrun
    /\ socket # <<>>
    /\ LET p == Head(socket)
           n == Command(p)
       IN  /\ socket' = Tail(socket)
           /\ reported' = Remember(p, n)
           /\ \/ /\ ShouldReport(p, n)
                 /\ Send(p)
                 /\ reports' = IF p \in alive THEN [reports EXCEPT ![p] = @ + 1]
                               ELSE reports
              \/ ~ShouldReport(p, n) /\ UNCHANGED <<channel, reports>>
           /\ delivered' = delivered \cup ({p} \cap alive)
    /\ UNCHANGED <<kernel, main, isFirst, attached, overrun, cursor, held, tuned,
                   recycled>>

(* epoll_wait's timeout: the loop turns and nothing changes.                *)
EpollTimeout ==
    /\ main = "listen" /\ ~overrun
    /\ socket = <<>>
    /\ UNCHANGED vars

(* ENOBUFS: listen returns it and the recovery scan starts.  The old socket *)
(* is never read again.  Any other receive error takes the same path.       *)
ListenFails ==
    /\ main = "listen" /\ overrun
    /\ main' = "recover"
    /\ attached' = FALSE /\ socket' = <<>> /\ overrun' = FALSE
    /\ cursor' = [cursor EXCEPT !["recovery"] = 1]
    /\ UNCHANGED <<kernel, isFirst, reported, held, channel, tuned, delivered, reports,
                   recycled>>

Reconnect ==
    /\ main = "recover" /\ cursor["recovery"] = 0
    /\ main' = "new"
    /\ UNCHANGED <<kernel, isFirst, socket, attached, overrun, reported, cursor, held,
                   channel, tuned, delivered, reports, recycled>>

-----------------------------------------------------------------------------
(* full_scan, on either thread: a pid's name is read, and then sent.        *)

ScanRead(s) ==
    /\ cursor[s] \in Pids /\ held[s] = {}
    /\ LET p == cursor[s]
       IN  held' = [held EXCEPT ![s] =
               IF p \in alive
               THEN {[pid |-> p, name |-> proc[p].name, use |-> proc[p].use]} ELSE {}]
    /\ cursor' = [cursor EXCEPT ![s] = @ + 1]
    /\ UNCHANGED <<kernel, main, isFirst, socket, attached, overrun, reported, channel,
                   tuned, delivered, reports, recycled>>

ScanSend(s) ==
    /\ \E r \in held[s] : channel' = Append(channel, r)
    /\ held' = [held EXCEPT ![s] = {}]
    /\ UNCHANGED <<kernel, main, isFirst, socket, attached, overrun, reported, cursor,
                   tuned, delivered, reports, recycled>>

ScanEnds(s) ==
    /\ cursor[s] = MaxPid + 1 /\ held[s] = {}
    /\ cursor' = [cursor EXCEPT ![s] = 0]
    /\ UNCHANGED <<kernel, main, isFirst, socket, attached, overrun, reported, held,
                   channel, tuned, delivered, reports, recycled>>

-----------------------------------------------------------------------------
(* The worker: a report's name is authoritative, so the rule it selects is  *)
(* applied to whatever process has the pid now.                             *)
Work ==
    /\ channel # <<>>
    /\ channel' = Tail(channel)
    /\ LET r == Head(channel)
       IN  /\ tuned' = IF r.pid \in alive THEN [tuned EXCEPT ![r.pid] = r.name] ELSE tuned
           /\ recycled' = (recycled \/ (r.pid \in alive /\ r.use # proc[r.pid].use))
    /\ UNCHANGED <<kernel, main, isFirst, socket, attached, overrun, reported, cursor,
                   held, delivered, reports>>

-----------------------------------------------------------------------------
MainStep == NetlinkNew \/ Listen \/ EpollTimeout \/ ListenFails \/ Reconnect
ScanStep(s) == ScanRead(s) \/ ScanSend(s) \/ ScanEnds(s)

Next ==
    \/ \E p, c \in Pids : Fork(p, c)
    \/ \E p \in Pids : (\E n \in Names : Exec(p, n)) \/ Comm(p) \/ Exit(p)
    \/ MainStep
    \/ \E s \in Scans : ScanStep(s)
    \/ Work

Spec == Init /\ [][Next]_vars

(* The daemon's threads are scheduled; nothing is assumed of processes.     *)
FairSpec ==
    /\ Spec
    /\ WF_vars(MainStep) /\ WF_vars(Work)
    /\ \A s \in Scans : WF_vars(ScanStep(s))

-----------------------------------------------------------------------------
(* Properties.  Processes stop changing after MaxOps operations, so         *)
(* "eventually always" asks for the state the daemon settles in.            *)

(* A process the listener got an event of ends up under the rule of the     *)
(* name it really has, not its parent's and not an earlier one: FORK read   *)
(* before or after the exec, EXEC, COMM in any timing (netlink.rs           *)
(* ReportedNames, worker.rs).  No scan reports it as well, see              *)
(* DuplicateReportHarmless.                                                 *)
EventsSettle ==
    (~scene.scanSpawns /\ ~Overruns) =>
    <>[](\A p \in alive \cap delivered : tuned[p] = proc[p].name)

(* The listener reports a process once, and once more for each exec, as     *)
(* long as its pid is remembered: the COMM after an EXEC is not work        *)
(* (netlink.rs should_report).                                              *)
NoRedundantReport ==
    (scene.namesCap >= MaxPid /\ ~Overruns) => \A p \in Pids : reports[p] <= execs[p] + 1

(* Every process is tuned, those that ran before the daemon included: one   *)
(* started while the listener subscribes and the scan walks /proc is in the *)
(* scan or in the socket.  And what an overrun lost is made up for: a       *)
(* process that is there when the listener meets it is tuned under its      *)
(* name, unless it ends or changes its name first (monitor.rs run and its   *)
(* netlink error arm, procfs.rs full_scan).                                 *)
EveryProcessTuned ==
    /\ (scene.scanSpawns /\ ~Overruns /\ "exec" \notin scene.ops) =>
          <>[](\A p \in alive : tuned[p] = proc[p].name)
    /\ \A p \in Pids, n \in Names :
          main = "listen" /\ overrun /\ p \in alive /\ proc[p].name = n
              ~> p \notin alive \/ proc[p].name # n \/ tuned[p] = n

(* Stated by COMPATIBILITY.md:181: a process reported twice is harmless,    *)
(* "the worker re-resolves the process and applies the same rule again".    *)
(* No process is left under the rule of a name it no longer has.            *)
DuplicateReportHarmless ==
    <>[](\A p \in alive : tuned[p] \in {"untouched", proc[p].name})

(* Stated by COMPATIBILITY.md:59: the daemon "recovers automatically by     *)
(* falling back to a full `procfs` scan".  An overrun leaves no process     *)
(* unseen.                                                                  *)
OverrunRecovered == <>[](\A p \in alive : tuned[p] # "untouched")

(* Stated by monitor.rs:46: without the initial scan "the periodic scan     *)
(* covers the same ground": processes older than the daemon are tuned.      *)
OlderProcessesCovered ==
    <>[](\A p \in alive \cap older : tuned[p] # "untouched")

(* Stated by process.rs:5: "PID recycling is already prevented".  A rule is *)
(* applied to the process it was looked up for.                             *)
NeverRecycled == ~recycled
=============================================================================
