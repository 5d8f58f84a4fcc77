------------------------------ MODULE Lifecycle ------------------------------
(***************************************************************************)
(* The daemon's threads from start-up to exit: the main thread (start-up,  *)
(* then the event listener), the worker, the signal thread, the /proc      *)
(* scanners and the benchmark timer.  They share a shutdown flag and one   *)
(* unbounded channel, which closes when its last sender is dropped.        *)
(*                                                                         *)
(* Abstracted: what an event says (EventPipeline), what the worker does    *)
(* with it (ApplyRule), cgroup detection (CgroupDetection), the singleton  *)
(* object (Singleton).  Here an event is one unit of the channel.          *)
(***************************************************************************)
EXTENDS Naturals, FiniteSets

CONSTANTS
    Options,    \* the ways the daemon can be built, configured and invoked
    MaxEvents   \* bound on the events sent in one behaviour

ASSUME MaxEventsAssumption == MaxEvents \in Nat

(* bpf, netlink, systemd: cargo features (systemd also asks for a running   *)
(* manager); manual, benchmark, count: command line, where count is the set *)
(* holding --benchmark-count, or {}; x3d: the x3d_mode setting; unwind: a   *)
(* debug build, in which a panicking worker does not abort the process.     *)
OptionRecord ==
    [bpf : BOOLEAN, netlink : BOOLEAN, systemd : BOOLEAN, manual : BOOLEAN,
     benchmark : BOOLEAN, count : SUBSET Nat,
     x3d : {"auto", "cache", "frequency"}, unwind : BOOLEAN]

ASSUME OptionsAssumption ==
    Options \subseteq {o \in OptionRecord : o.bpf \/ o.netlink}

InitScanners == {"init_bpf", "init_netlink"}
Scanners == InitScanners \cup {"manual"}
Threads == Scanners \cup {"main", "signal"}
X3DModes == {"cache", "frequency"}

VARIABLES
    opts,       \* this process' options, fixed at start
    main,       \* where the main thread is
    isFirst,    \* monitor::run's is_first
    senders,    \* the threads that hold a Sender<Process>
    queue,      \* events in the channel
    worker,     \* "absent", "running", "busy", "done" or "panicked"
    processed,  \* the worker's processed_count
    shutdown,   \* the shared shutdown flag
    signal,     \* the signal thread
    termPending,\* a SIGINT or SIGTERM not yet taken by the signal thread
    scan,       \* each scanner thread: where it is in its loop
    timer,      \* the --benchmark timer: "absent", "armed", "fired"
    x3d,        \* the driver's mode, "absent" when there is no driver
    saved,      \* saved_x3d_mode: {} or the mode to restore
    exit,       \* "none", or how the process ended: "ok", "fail"
    sent,       \* history: events put into the channel
    x3dStart,   \* history: the driver's mode before the daemon started
    x3dFailed,  \* history: the write that restores the mode failed
    notified    \* history: the states sd_notify has reported

vars == <<opts, main, isFirst, senders, queue, worker, processed, shutdown,
          signal, termPending, scan, timer, x3d, saved, exit, sent, x3dStart,
          x3dFailed, notified>>

channel == <<senders, queue, sent>>
x3dVars == <<x3d, saved, x3dStart, x3dFailed>>
signals == <<signal, termPending>>

MainLocations ==
    {"install", "x3d", "run", "spawn_worker", "ready", "manual", "bpf_new",
     "bpf_listen", "bpf_check", "nl_new", "nl_wait", "nl_drain", "nl_recover",
     "no_monitor", "drop", "join", "restore", "exited"}

TypeOK ==
    /\ opts \in Options
    /\ main \in MainLocations
    /\ isFirst \in BOOLEAN
    /\ senders \subseteq Threads
    /\ queue \in Nat /\ sent \in Nat /\ processed \in Nat
    /\ worker \in {"absent", "running", "busy", "done", "panicked"}
    /\ shutdown \in BOOLEAN
    /\ signal \in {"absent", "idle", "reloading", "dropping", "notifying", "done"}
    /\ termPending \in BOOLEAN
    /\ scan \in [Scanners -> {"absent", "waiting", "sleeping", "scanning", "done"}]
    /\ timer \in {"absent", "armed", "fired"}
    /\ x3d \in X3DModes \cup {"absent"} /\ x3dStart \in X3DModes \cup {"absent"}
    /\ saved \in SUBSET X3DModes
    /\ exit \in {"none", "ok", "fail"}
    /\ x3dFailed \in BOOLEAN
    /\ notified \subseteq {"READY", "STOPPING"}

(* main() has opened the channel: it holds the first sender and, until the  *)
(* worker starts, the receiver.                                             *)
Init ==
    /\ opts \in Options
    /\ main = "install"
    /\ isFirst = TRUE
    /\ senders = {"main"}
    /\ queue = 0 /\ sent = 0 /\ processed = 0
    /\ worker = "absent"
    /\ shutdown = FALSE
    /\ signal = "absent" /\ termPending = FALSE
    /\ scan = [s \in Scanners |-> "absent"]
    /\ timer = "absent"
    /\ x3d \in X3DModes \cup {"absent"}
    /\ x3dStart = x3d
    /\ saved = {} /\ x3dFailed = FALSE
    /\ exit = "none"
    /\ notified = {}

Running == exit = "none"

(* The receiver lives in the worker, or in main before the worker starts.   *)
ReceiverAlive == worker \notin {"done", "panicked"}

Send ==
    /\ ReceiverAlive
    /\ sent < MaxEvents
    /\ queue' = queue + 1
    /\ sent' = sent + 1
    /\ UNCHANGED senders

(* process::exit(1): no destructor runs and every thread stops.             *)
ExitFail == main' = "exited" /\ exit' = "fail"

(* restore_x3d: the saved mode is written back if there is one; the write   *)
(* can fail.                                                                *)
RestoreX3D ==
    /\ \/ /\ saved # {}
          /\ x3d' \in saved
          /\ UNCHANGED x3dFailed
       \/ saved # {} /\ x3dFailed' = TRUE /\ UNCHANGED x3d
       \/ saved = {} /\ UNCHANGED <<x3d, x3dFailed>>
    /\ UNCHANGED <<saved, x3dStart>>

-----------------------------------------------------------------------------
(* The main thread: start-up.                                               *)

InstallSignals ==
    /\ main = "install"
    /\ \/ main' = "x3d" /\ signal' = "idle" /\ senders' = senders \cup {"signal"}
          /\ UNCHANGED exit
       \/ ExitFail /\ UNCHANGED <<signal, senders>>
    /\ UNCHANGED <<opts, isFirst, queue, worker, processed, shutdown, termPending,
                   scan, timer, x3dVars, sent, notified>>

ApplyX3DModeWithoutDriver ==
    /\ main = "x3d"
    /\ main' = "run"
    /\ saved' = {x3d} /\ x3d' = opts.x3d
    /\ UNCHANGED <<opts, isFirst, channel, worker, processed, shutdown, signals,
                   scan, timer, exit, x3dStart, x3dFailed, notified>>

ApplyX3DMode ==
    /\ main = "x3d"
    /\ main' = "run"
    /\ \/ /\ opts.x3d # "auto" /\ x3d # "absent"
          /\ saved' = {x3d} /\ x3d' = opts.x3d
       \/ UNCHANGED <<saved, x3d>>   \* auto, no driver, or the write failed
    /\ UNCHANGED <<opts, isFirst, channel, worker, processed, shutdown, signals,
                   scan, timer, exit, x3dStart, x3dFailed, notified>>

StartTimer ==
    /\ main = "run"
    /\ main' = "spawn_worker"
    /\ timer' = IF opts.benchmark THEN "armed" ELSE "absent"
    /\ UNCHANGED <<opts, isFirst, channel, worker, processed, shutdown, signals,
                   scan, x3dVars, exit, notified>>

SpawnWorker ==
    /\ main = "spawn_worker"
    /\ \/ main' = "ready" /\ worker' = "running" /\ UNCHANGED exit
       \/ ExitFail /\ UNCHANGED worker
    /\ UNCHANGED <<opts, isFirst, channel, processed, shutdown, signals, scan,
                   timer, x3dVars, notified>>

NotifyReady ==
    /\ main = "ready"
    /\ main' = "manual"
    /\ notified' = IF opts.systemd THEN notified \cup {"READY"} ELSE notified
    /\ UNCHANGED <<opts, isFirst, channel, worker, processed, shutdown, signals,
                   scan, timer, x3dVars, exit>>

FirstMonitor == IF opts.bpf THEN "bpf_new" ELSE "nl_new"

StartManualScanner ==
    /\ main = "manual"
    /\ \/ /\ opts.manual
          /\ main' = FirstMonitor
          /\ scan' = [scan EXCEPT !["manual"] = "waiting"]
          /\ senders' = senders \cup {"manual"}
          /\ UNCHANGED exit
       \/ opts.manual /\ ExitFail /\ UNCHANGED <<scan, senders>>
       \/ ~opts.manual /\ main' = FirstMonitor /\ UNCHANGED <<scan, senders, exit>>
    /\ UNCHANGED <<opts, isFirst, queue, sent, worker, processed, shutdown, signals,
                   timer, x3dVars, notified>>

(* The initial full scan, on a thread of its own; failing to spawn it only  *)
(* costs a warning.                                                         *)
SpawnInitScan(s) ==
    \/ /\ isFirst
       /\ scan' = [scan EXCEPT ![s] = "scanning"]
       /\ senders' = senders \cup {s}
    \/ UNCHANGED <<scan, senders>>

-----------------------------------------------------------------------------
(* The main thread: monitor::run, the eBPF half.                            *)

(* BpfMonitor::new, and listen up to its loop, which returns at once when   *)
(* the perf buffer cannot be built.                                         *)
BpfNew ==
    /\ main = "bpf_new"
    /\ \/ /\ main' \in {"bpf_listen", "bpf_check"}
          /\ SpawnInitScan("init_bpf")
          /\ isFirst' = FALSE
       \/ /\ main' = IF opts.netlink THEN "nl_new" ELSE "no_monitor"
          /\ isFirst' = TRUE
          /\ UNCHANGED <<scan, senders>>
    /\ UNCHANGED <<opts, queue, sent, worker, processed, shutdown, signals, timer,
                   x3dVars, exit, notified>>

(* One turn of BpfMonitor::listen's loop, which only the flag ends.  A send *)
(* that finds no receiver raises the flag.                                  *)
BpfListen ==
    /\ main = "bpf_listen"
    /\ \/ ~shutdown /\ Send /\ UNCHANGED <<main, shutdown>>
       \/ ~shutdown /\ ~ReceiverAlive /\ shutdown' = TRUE /\ UNCHANGED <<main, channel>>
       \/ shutdown /\ main' = "bpf_check" /\ UNCHANGED <<shutdown, channel>>
    /\ UNCHANGED <<opts, isFirst, worker, processed, signals, scan, timer, x3dVars,
                   exit, notified>>

BpfCheck ==
    /\ main = "bpf_check"
    /\ main' = IF shutdown THEN "drop" ELSE "bpf_new"
    /\ UNCHANGED <<opts, isFirst, channel, worker, processed, shutdown, signals,
                   scan, timer, x3dVars, exit, notified>>

NoMonitor ==
    /\ main = "no_monitor"
    /\ RestoreX3D
    /\ ExitFail
    /\ UNCHANGED <<opts, isFirst, channel, worker, processed, shutdown, signals,
                   scan, timer, notified>>

-----------------------------------------------------------------------------
(* The main thread: monitor::run, the netlink half.                         *)

(* NetlinkMonitor::new, and listen up to its loop: the fcntl and epoll      *)
(* calls that prepare the socket can fail, which is a listen error.         *)
NetlinkNew ==
    /\ main = "nl_new"
    /\ \/ /\ main' \in {"nl_wait", "nl_recover"}
          /\ SpawnInitScan("init_netlink")
          /\ isFirst' = FALSE
          /\ UNCHANGED <<x3dVars, exit>>
       \/ /\ RestoreX3D
          /\ ExitFail
          /\ UNCHANGED <<scan, senders, isFirst>>
    /\ UNCHANGED <<opts, queue, sent, worker, processed, shutdown, signals, timer,
                   notified>>

(* The outer loop of NetlinkMonitor::listen: the flag is read, then epoll   *)
(* waits.                                                                   *)
NetlinkWait ==
    /\ main = "nl_wait"
    /\ \/ shutdown /\ main' = "drop"
       \/ ~shutdown /\ main' = "nl_drain"
    /\ UNCHANGED <<opts, isFirst, channel, worker, processed, shutdown, signals,
                   scan, timer, x3dVars, exit, notified>>

(* The inner loop drains the socket without looking at the flag: an event,  *)
(* an empty socket, or an error that ends the listener.                     *)
NetlinkDrain ==
    /\ main = "nl_drain"
    /\ \/ Send /\ UNCHANGED <<main, shutdown>>
       \/ ~ReceiverAlive /\ shutdown' = TRUE /\ main' = "drop" /\ UNCHANGED channel
       \/ main' \in {"nl_wait", "nl_recover"} /\ UNCHANGED <<channel, shutdown>>
    /\ UNCHANGED <<opts, isFirst, worker, processed, signals, scan, timer, x3dVars,
                   exit, notified>>

(* The recovery scan, on the main thread, and the second before the next    *)
(* socket.                                                                  *)
NetlinkRecover ==
    /\ main = "nl_recover"
    /\ \/ Send /\ UNCHANGED main
       \/ main' = "nl_new" /\ UNCHANGED channel
    /\ UNCHANGED <<opts, isFirst, worker, processed, shutdown, signals, scan, timer,
                   x3dVars, exit, notified>>

-----------------------------------------------------------------------------
(* The main thread: finish and finish_join.                                 *)

DropSender ==
    /\ main = "drop"
    /\ main' = "join"
    /\ senders' = senders \ {"main"}
    /\ UNCHANGED <<opts, isFirst, queue, sent, worker, processed, shutdown, signals,
                   scan, timer, x3dVars, exit, notified>>

FinishWithoutJoin ==
    /\ main = "join"
    /\ main' = "restore"
    /\ UNCHANGED <<opts, isFirst, channel, worker, processed, shutdown, signals,
                   scan, timer, x3dVars, exit, notified>>

JoinWorker ==
    /\ main = "join"
    /\ ~ReceiverAlive
    /\ main' = "restore"
    /\ UNCHANGED <<opts, isFirst, channel, worker, processed, shutdown, signals,
                   scan, timer, x3dVars, exit, notified>>

FinishWithoutRestore ==
    /\ main = "restore"
    /\ main' = "exited" /\ exit' = "ok"
    /\ UNCHANGED <<opts, isFirst, channel, worker, processed, shutdown, signals,
                   scan, timer, x3dVars, notified>>

(* restore_x3d on shutdown, after which main() returns and the process ends. *)
FinishShutdown ==
    /\ main = "restore"
    /\ RestoreX3D
    /\ main' = "exited" /\ exit' = "ok"
    /\ UNCHANGED <<opts, isFirst, channel, worker, processed, shutdown, signals,
                   scan, timer, notified>>

-----------------------------------------------------------------------------
(* The worker thread.                                                       *)

(* recv returns an event; it is counted and --benchmark-count is compared.  *)
WorkerRecv ==
    /\ Running
    /\ worker = "running"
    /\ queue > 0
    /\ queue' = queue - 1
    /\ processed' = processed + 1
    /\ shutdown' = (shutdown \/ \E limit \in opts.count : processed' >= limit)
    /\ worker' = "busy"
    /\ UNCHANGED <<opts, main, isFirst, senders, sent, signals, scan, timer, x3dVars,
                   exit, notified>>

WorkerApply ==
    /\ Running
    /\ worker = "busy"
    /\ worker' = "running"
    /\ UNCHANGED <<opts, main, isFirst, channel, processed, shutdown, signals, scan,
                   timer, x3dVars, exit, notified>>

WorkerEndOnFlag ==
    /\ Running
    /\ worker = "running"
    /\ queue = 0 /\ (shutdown \/ senders = {})
    /\ worker' = "done"
    /\ UNCHANGED <<opts, main, isFirst, channel, processed, shutdown, signals, scan,
                   timer, x3dVars, exit, notified>>

(* recv fails once the channel is empty and every sender is gone.           *)
WorkerEnd ==
    /\ Running
    /\ worker = "running"
    /\ queue = 0 /\ senders = {}
    /\ worker' = "done"
    /\ UNCHANGED <<opts, main, isFirst, channel, processed, shutdown, signals, scan,
                   timer, x3dVars, exit, notified>>

(* A panic while applying a rule, in a build that unwinds: the receiver and *)
(* what the channel held are dropped.                                       *)
WorkerPanic ==
    /\ Running
    /\ opts.unwind
    /\ worker = "busy"
    /\ worker' = "panicked"
    /\ queue' = 0
    /\ UNCHANGED <<opts, main, isFirst, senders, sent, processed, shutdown, signals,
                   scan, timer, x3dVars, exit, notified>>

-----------------------------------------------------------------------------
(* The scanner threads, the benchmark timer and the signal thread.          *)

(* The manual scanner's loop: the flag, a second's sleep, and a full scan   *)
(* when one is due; the thread's sender goes with the thread.               *)
ManualTick ==
    /\ Running
    /\ \/ /\ scan["manual"] = "waiting" /\ shutdown
          /\ scan' = [scan EXCEPT !["manual"] = "done"]
          /\ senders' = senders \ {"manual"}
       \/ /\ scan["manual"] = "waiting" /\ ~shutdown
          /\ scan' = [scan EXCEPT !["manual"] = "sleeping"]
          /\ UNCHANGED senders
       \/ /\ scan["manual"] = "sleeping"
          /\ \E next \in {"scanning", "waiting"} :
                 scan' = [scan EXCEPT !["manual"] = next]
          /\ UNCHANGED senders
    /\ UNCHANGED <<opts, main, isFirst, queue, sent, worker, processed, shutdown,
                   signals, timer, x3dVars, exit, notified>>

(* full_scan sends a process, or ends: at the end of /proc, or at a send    *)
(* that finds no receiver.                                                  *)
ScanStep(s) ==
    /\ Running
    /\ scan[s] = "scanning"
    /\ \/ Send /\ UNCHANGED scan
       \/ /\ s = "manual"
          /\ scan' = [scan EXCEPT ![s] = "waiting"]
          /\ UNCHANGED channel
       \/ /\ s \in InitScanners
          /\ scan' = [scan EXCEPT ![s] = "done"]
          /\ senders' = senders \ {s}
          /\ UNCHANGED <<queue, sent>>
    /\ UNCHANGED <<opts, main, isFirst, worker, processed, shutdown, signals, timer,
                   x3dVars, exit, notified>>

TimerFires ==
    /\ Running
    /\ timer = "armed"
    /\ timer' = "fired"
    /\ shutdown' = TRUE
    /\ UNCHANGED <<opts, main, isFirst, channel, worker, processed, signals, scan,
                   x3dVars, exit, notified>>

(* External: someone sends SIGINT or SIGTERM.                               *)
RaiseTerm ==
    /\ Running
    /\ signal \in {"idle", "reloading"}
    /\ termPending' = TRUE
    /\ UNCHANGED <<opts, main, isFirst, channel, worker, processed, shutdown, signal,
                   scan, timer, x3dVars, exit, notified>>

(* SIGUSR1 keeps the thread in Reload::apply for a while.                   *)
SignalReload ==
    /\ Running
    /\ \/ signal = "idle" /\ signal' = "reloading"
       \/ signal = "reloading" /\ signal' = "idle"
    /\ UNCHANGED <<opts, main, isFirst, channel, worker, processed, shutdown,
                   termPending, scan, timer, x3dVars, exit, notified>>

(* SIGINT or SIGTERM: the flag, then the sender, then STOPPING=1.           *)
SignalTerm ==
    /\ Running
    /\ signal = "idle" /\ termPending
    /\ signal' = "dropping"
    /\ termPending' = FALSE
    /\ shutdown' = TRUE
    /\ UNCHANGED <<opts, main, isFirst, channel, worker, processed, scan, timer,
                   x3dVars, exit, notified>>

SignalKeepsSender ==
    /\ Running
    /\ signal = "dropping"
    /\ signal' = "notifying"
    /\ UNCHANGED <<opts, main, isFirst, channel, worker, processed, shutdown,
                   termPending, scan, timer, x3dVars, exit, notified>>

SignalDrop ==
    /\ Running
    /\ signal = "dropping"
    /\ signal' = "notifying"
    /\ senders' = senders \ {"signal"}
    /\ UNCHANGED <<opts, main, isFirst, queue, sent, worker, processed, shutdown,
                   termPending, scan, timer, x3dVars, exit, notified>>

SignalNotify ==
    /\ Running
    /\ signal = "notifying"
    /\ signal' = "done"
    /\ notified' = IF opts.systemd THEN notified \cup {"STOPPING"} ELSE notified
    /\ UNCHANGED <<opts, main, isFirst, channel, worker, processed, shutdown,
                   termPending, scan, timer, x3dVars, exit>>

-----------------------------------------------------------------------------
MainStep ==
    \/ InstallSignals \/ ApplyX3DMode \/ StartTimer \/ SpawnWorker \/ NotifyReady
    \/ StartManualScanner
    \/ BpfNew \/ BpfListen \/ BpfCheck \/ NoMonitor
    \/ NetlinkNew \/ NetlinkWait \/ NetlinkDrain \/ NetlinkRecover
    \/ DropSender \/ JoinWorker \/ FinishShutdown

WorkerStep == WorkerRecv \/ WorkerApply \/ WorkerEnd \/ WorkerPanic

SignalStep == SignalReload \/ SignalTerm \/ SignalDrop \/ SignalNotify

(* Once the process has ended nothing moves.                                *)
Terminated == ~Running /\ UNCHANGED vars

Next ==
    \/ MainStep
    \/ WorkerStep
    \/ ManualTick
    \/ \E s \in Scanners : ScanStep(s)
    \/ TimerFires
    \/ RaiseTerm
    \/ SignalStep
    \/ Terminated

Spec == Init /\ [][Next]_vars

(* Every thread of a running process is scheduled.  Main and the worker     *)
(* block only in epoll or poll, which have timeouts, and in join and recv,  *)
(* which their guards model.  Two assumptions are about the environment: a  *)
(* pending termination signal is taken even if SIGUSR1 keeps arriving (one  *)
(* pass of the signal iterator yields every pending signal), and preparing  *)
(* a netlink socket does not fail for ever.                                 *)
Fairness ==
    /\ WF_vars(MainStep)
    /\ SF_vars(NetlinkNew /\ main' = "nl_wait")
    /\ WF_vars(WorkerStep)
    /\ WF_vars(ManualTick)
    /\ \A s \in Scanners : WF_vars(ScanStep(s))
    /\ WF_vars(TimerFires)
    /\ SF_vars(SignalTerm)
    /\ WF_vars(signal = "reloading" /\ SignalReload)
    /\ WF_vars(SignalDrop \/ SignalNotify)

FairSpec == Spec /\ Fairness

-----------------------------------------------------------------------------
(* Properties.                                                              *)

(* The worker's recv fails only when nobody is left to report a process:    *)
(* every scanner has ended or never ran, the listener has been left and the *)
(* signal thread is past its drop.  Work found after the worker stopped     *)
(* would be lost (worker.rs work_loop, monitor.rs finish, signals.rs).      *)
WorkerOutlivesProducers ==
    worker = "done" =>
        /\ \A s \in Scanners : scan[s] \in {"absent", "done"}
        /\ main \in {"join", "restore", "exited"}
        /\ signal \in {"notifying", "done"}

(* A process that exits 0 was asked to stop, and its worker first took      *)
(* every event any source had reported: shutting down drains the channel    *)
(* rather than abandoning it (monitor.rs drop(tx) then join).               *)
GracefulExitDrains ==
    exit = "ok" =>
        /\ shutdown
        /\ worker # "panicked" => queue = 0 /\ processed = sent

(* A process that exits 0 leaves the X3D driver in the mode it found it in, *)
(* unless the write that restores it fails (monitor.rs restore_x3d).        *)
GracefulExitRestoresX3D ==
    exit = "ok" => x3d = x3dStart \/ x3dFailed

(* A daemon that is sent SIGINT or SIGTERM ends, whatever its threads were  *)
(* doing: no thread keeps a sender the worker waits for (signals.rs).       *)
TermLeadsToExit == termPending ~> ~Running

(* Stated by COMPATIBILITY.md: with --benchmark-count the daemon "stops as  *)
(* soon as the worker reaches it".  Once the flag is raised the process     *)
(* ends (worker.rs 133-137, runtime.rs 72-79).                              *)
ShutdownLeadsToExit == shutdown ~> ~Running

(* Stated by main.rs 172-173: once the mode has been applied, the daemon    *)
(* "owns the X3D mode and restores it on the way out".                      *)
EveryExitRestoresX3D ==
    ~Running => x3d = x3dStart \/ x3dFailed

(* Stated by SYSTEMD.md: "`STOPPING=1` sent on `SIGINT`/`SIGTERM`".  A      *)
(* daemon that ended because of a signal has told the manager so.           *)
StoppingReported ==
    exit = "ok" /\ opts.systemd /\ signal \in {"notifying", "done"}
        => "STOPPING" \in notified
=============================================================================
