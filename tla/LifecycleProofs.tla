--------------------------- MODULE LifecycleProofs ---------------------------
(***************************************************************************)
(* Lifecycle's safety properties, for every set of options and every bound *)
(* on the events.  The argument is about who holds a sender: as long as a  *)
(* thread can still report a process it holds one, so the worker's recv    *)
(* cannot fail before all of them are past their last send.                *)
(***************************************************************************)
EXTENDS Lifecycle, TLAPS

(* Every thread that may still send holds a sender, and a worker that ended *)
(* found none.                                                              *)
SenderAccounting ==
    /\ main \notin {"join", "restore", "exited"} => "main" \in senders
    /\ signal \in {"idle", "reloading", "dropping"} => "signal" \in senders
    /\ \A s \in Scanners :
          scan[s] \in {"waiting", "sleeping", "scanning"} => s \in senders
    /\ worker = "done" => senders = {} /\ queue = 0

(* What the main thread's location says about the other threads.            *)
MainOrder ==
    /\ main = "exited" <=> exit # "none"
    /\ main \in {"install", "x3d", "run", "spawn_worker"} => worker = "absent"
    /\ main = "install" => signal = "absent"
    /\ signal = "absent" => main \in {"install", "exited"} /\ worker = "absent"
    /\ main \in {"drop", "join", "restore"} => shutdown
    /\ main = "restore" => worker \in {"done", "panicked"}
    /\ exit = "ok" => shutdown /\ worker \in {"done", "panicked"}

(* No event is lost or taken twice while the receiver lives.                *)
Conservation == worker # "panicked" => sent = processed + queue

(* The saved mode is the one the daemon found.                              *)
X3DSaved ==
    /\ main \in {"install", "x3d"} => saved = {}
    /\ saved = {} => x3d = x3dStart
    /\ saved \in {{}, {x3dStart}}
    /\ exit = "ok" => x3d = x3dStart \/ x3dFailed

IInv == TypeOK /\ SenderAccounting /\ MainOrder /\ Conservation /\ X3DSaved

(* The strengthened invariant holds when main has made the channel.         *)
LEMMA InitIInv == Init => IInv
<1> SUFFICES ASSUME Init PROVE IInv
  OBVIOUS
<1> USE DEF Init
<1>1. TypeOK
  BY DEF TypeOK, MainLocations, Threads, X3DModes
<1>2. SenderAccounting
  BY DEF SenderAccounting
<1>3. MainOrder /\ Conservation
  BY DEF MainOrder, Conservation
<1>4. X3DSaved
  BY DEF X3DSaved
<1> QED
  BY <1>1, <1>2, <1>3, <1>4 DEF IInv

(* main, from starting the threads to joining the worker and exiting,       *)
(* preserves it, one case per step of run and monitor::run.                 *)
LEMMA MainStepIInv == IInv /\ MainStep => IInv'
<1> SUFFICES ASSUME IInv, MainStep PROVE IInv'
  OBVIOUS
<1> USE DEF IInv, TypeOK, MainLocations, channel, x3dVars, signals
<1>1. CASE InstallSignals
  <2> USE <1>1 DEF InstallSignals, ExitFail
  <2>1. TypeOK' BY DEF Threads
  <2>2. SenderAccounting' BY DEF SenderAccounting, MainOrder, Scanners, InitScanners
  <2>3. MainOrder' BY DEF MainOrder, SenderAccounting
  <2>4. Conservation' BY DEF Conservation, MainOrder
  <2>5. X3DSaved' BY DEF X3DSaved, MainOrder
  <2> QED BY <2>1, <2>2, <2>3, <2>4, <2>5
<1>2. CASE ApplyX3DMode
  <2> USE <1>2 DEF ApplyX3DMode
  <2>1. TypeOK'
    <3>1. x3d' \in X3DModes \cup {"absent"} BY OptionsAssumption DEF X3DModes, OptionRecord
    <3>2. saved' \in SUBSET X3DModes BY DEF X3DModes
    <3> QED BY <3>1, <3>2
  <2>2. SenderAccounting' BY DEF SenderAccounting, MainOrder, Scanners, InitScanners
  <2>3. MainOrder' BY DEF MainOrder, SenderAccounting
  <2>4. Conservation' BY DEF Conservation, MainOrder
  <2>5. X3DSaved' BY DEF X3DSaved, MainOrder
  <2> QED BY <2>1, <2>2, <2>3, <2>4, <2>5
<1>3. CASE StartTimer
  <2> USE <1>3 DEF StartTimer
  <2>1. TypeOK' OBVIOUS
  <2>2. SenderAccounting' BY DEF SenderAccounting, MainOrder, Scanners, InitScanners
  <2>3. MainOrder' BY DEF MainOrder, SenderAccounting
  <2>4. Conservation' BY DEF Conservation, MainOrder
  <2>5. X3DSaved' BY DEF X3DSaved, MainOrder
  <2> QED BY <2>1, <2>2, <2>3, <2>4, <2>5
<1>4. CASE SpawnWorker
  <2> USE <1>4 DEF SpawnWorker, ExitFail
  <2>1. TypeOK' OBVIOUS
  <2>2. SenderAccounting' BY DEF SenderAccounting, MainOrder, Scanners, InitScanners
  <2>3. MainOrder' BY DEF MainOrder, SenderAccounting
  <2>4. Conservation' BY DEF Conservation, MainOrder
  <2>5. X3DSaved' BY DEF X3DSaved, MainOrder
  <2> QED BY <2>1, <2>2, <2>3, <2>4, <2>5
<1>5. CASE NotifyReady
  <2> USE <1>5 DEF NotifyReady
  <2>1. TypeOK' OBVIOUS
  <2>2. SenderAccounting' BY DEF SenderAccounting, MainOrder, Scanners, InitScanners
  <2>3. MainOrder' BY DEF MainOrder, SenderAccounting
  <2>4. Conservation' BY DEF Conservation, MainOrder
  <2>5. X3DSaved' BY DEF X3DSaved, MainOrder
  <2> QED BY <2>1, <2>2, <2>3, <2>4, <2>5
<1>6. CASE StartManualScanner
  <2> USE <1>6 DEF StartManualScanner, FirstMonitor, ExitFail
  <2>1. TypeOK' BY DEF Threads, Scanners
  <2>2. SenderAccounting' BY DEF SenderAccounting, MainOrder, Scanners, InitScanners
  <2>3. MainOrder' BY DEF MainOrder, SenderAccounting
  <2>4. Conservation' BY DEF Conservation, MainOrder
  <2>5. X3DSaved' BY DEF X3DSaved, MainOrder
  <2> QED BY <2>1, <2>2, <2>3, <2>4, <2>5
<1>7. CASE BpfNew
  <2> USE <1>7 DEF BpfNew, SpawnInitScan
  <2>1. TypeOK'
    <3>1. senders' \subseteq Threads BY DEF Threads, Scanners, InitScanners
    <3>2. scan' \in [Scanners -> {"absent", "waiting", "sleeping", "scanning", "done"}] BY DEF Scanners, InitScanners
    <3>3. isFirst' \in BOOLEAN OBVIOUS
    <3> QED BY <3>1, <3>2, <3>3
  <2>2. SenderAccounting' BY DEF SenderAccounting, MainOrder, Scanners, InitScanners
  <2>3. MainOrder' BY DEF MainOrder, SenderAccounting
  <2>4. Conservation' BY DEF Conservation, MainOrder
  <2>5. X3DSaved' BY DEF X3DSaved, MainOrder
  <2> QED BY <2>1, <2>2, <2>3, <2>4, <2>5
<1>8. CASE BpfListen
  <2> USE <1>8 DEF BpfListen, Send, ReceiverAlive
  <2>1. TypeOK'
    <3>1. queue' \in Nat /\ sent' \in Nat /\ senders' \subseteq Threads OBVIOUS
    <3>2. shutdown' \in BOOLEAN OBVIOUS
    <3> QED BY <3>1, <3>2
  <2>2. SenderAccounting' BY DEF SenderAccounting, MainOrder, Scanners, InitScanners
  <2>3. MainOrder' BY DEF MainOrder, SenderAccounting
  <2>4. Conservation' BY DEF Conservation, MainOrder
  <2>5. X3DSaved' BY DEF X3DSaved, MainOrder
  <2> QED BY <2>1, <2>2, <2>3, <2>4, <2>5
<1>9. CASE BpfCheck
  <2> USE <1>9 DEF BpfCheck
  <2>1. TypeOK' OBVIOUS
  <2>2. SenderAccounting' BY DEF SenderAccounting, MainOrder, Scanners, InitScanners
  <2>3. MainOrder' BY DEF MainOrder, SenderAccounting
  <2>4. Conservation' BY DEF Conservation, MainOrder
  <2>5. X3DSaved' BY DEF X3DSaved, MainOrder
  <2> QED BY <2>1, <2>2, <2>3, <2>4, <2>5
<1>10. CASE NoMonitor
  <2> USE <1>10 DEF NoMonitor, RestoreX3D, ExitFail
  <2>1. TypeOK'
    <3>1. x3d' \in X3DModes \cup {"absent"} OBVIOUS
    <3>2. x3dFailed' \in BOOLEAN OBVIOUS
    <3> QED BY <3>1, <3>2
  <2>2. SenderAccounting' BY DEF SenderAccounting, MainOrder, Scanners, InitScanners
  <2>3. MainOrder' BY DEF MainOrder, SenderAccounting
  <2>4. Conservation' BY DEF Conservation, MainOrder
  <2>5. X3DSaved' BY DEF X3DSaved, MainOrder
  <2> QED BY <2>1, <2>2, <2>3, <2>4, <2>5
<1>11. CASE NetlinkNew
  <2> USE <1>11 DEF NetlinkNew, SpawnInitScan, RestoreX3D, ExitFail
  <2>1. TypeOK'
    <3>1. senders' \subseteq Threads BY DEF Threads, Scanners, InitScanners
    <3>2. scan' \in [Scanners -> {"absent", "waiting", "sleeping", "scanning", "done"}] BY DEF Scanners, InitScanners
    <3>3. x3d' \in X3DModes \cup {"absent"} OBVIOUS
    <3>4. x3dFailed' \in BOOLEAN OBVIOUS
    <3>5. isFirst' \in BOOLEAN OBVIOUS
    <3> QED BY <3>1, <3>2, <3>3, <3>4, <3>5
  <2>2. SenderAccounting' BY DEF SenderAccounting, MainOrder, Scanners, InitScanners
  <2>3. MainOrder' BY DEF MainOrder, SenderAccounting
  <2>4. Conservation' BY DEF Conservation, MainOrder
  <2>5. X3DSaved' BY DEF X3DSaved, MainOrder
  <2> QED BY <2>1, <2>2, <2>3, <2>4, <2>5
<1>12. CASE NetlinkWait
  <2> USE <1>12 DEF NetlinkWait
  <2>1. TypeOK' OBVIOUS
  <2>2. SenderAccounting' BY DEF SenderAccounting, MainOrder, Scanners, InitScanners
  <2>3. MainOrder' BY DEF MainOrder, SenderAccounting
  <2>4. Conservation' BY DEF Conservation, MainOrder
  <2>5. X3DSaved' BY DEF X3DSaved, MainOrder
  <2> QED BY <2>1, <2>2, <2>3, <2>4, <2>5
<1>13. CASE NetlinkDrain
  <2> USE <1>13 DEF NetlinkDrain, Send, ReceiverAlive
  <2>1. TypeOK'
    <3>1. queue' \in Nat /\ sent' \in Nat /\ senders' \subseteq Threads OBVIOUS
    <3>2. shutdown' \in BOOLEAN OBVIOUS
    <3> QED BY <3>1, <3>2
  <2>2. SenderAccounting' BY DEF SenderAccounting, MainOrder, Scanners, InitScanners
  <2>3. MainOrder' BY DEF MainOrder, SenderAccounting
  <2>4. Conservation' BY DEF Conservation, MainOrder
  <2>5. X3DSaved' BY DEF X3DSaved, MainOrder
  <2> QED BY <2>1, <2>2, <2>3, <2>4, <2>5
<1>14. CASE NetlinkRecover
  <2> USE <1>14 DEF NetlinkRecover, Send, ReceiverAlive
  <2>1. TypeOK' OBVIOUS
  <2>2. SenderAccounting' BY DEF SenderAccounting, MainOrder, Scanners, InitScanners
  <2>3. MainOrder' BY DEF MainOrder, SenderAccounting
  <2>4. Conservation' BY DEF Conservation, MainOrder
  <2>5. X3DSaved' BY DEF X3DSaved, MainOrder
  <2> QED BY <2>1, <2>2, <2>3, <2>4, <2>5
<1>15. CASE DropSender
  <2> USE <1>15 DEF DropSender
  <2>1. TypeOK' OBVIOUS
  <2>2. SenderAccounting' BY DEF SenderAccounting, MainOrder, Scanners, InitScanners
  <2>3. MainOrder' BY DEF MainOrder, SenderAccounting
  <2>4. Conservation' BY DEF Conservation, MainOrder
  <2>5. X3DSaved' BY DEF X3DSaved, MainOrder
  <2> QED BY <2>1, <2>2, <2>3, <2>4, <2>5
<1>16. CASE JoinWorker
  <2> USE <1>16 DEF JoinWorker, ReceiverAlive
  <2>1. TypeOK' OBVIOUS
  <2>2. SenderAccounting' BY DEF SenderAccounting, MainOrder, Scanners, InitScanners
  <2>3. MainOrder' BY DEF MainOrder, SenderAccounting
  <2>4. Conservation' BY DEF Conservation, MainOrder
  <2>5. X3DSaved' BY DEF X3DSaved, MainOrder
  <2> QED BY <2>1, <2>2, <2>3, <2>4, <2>5
<1>17. CASE FinishShutdown
  <2> USE <1>17 DEF FinishShutdown, RestoreX3D
  <2>1. TypeOK'
    <3>1. x3d' \in X3DModes \cup {"absent"} OBVIOUS
    <3>2. x3dFailed' \in BOOLEAN OBVIOUS
    <3> QED BY <3>1, <3>2
  <2>2. SenderAccounting' BY DEF SenderAccounting, MainOrder, Scanners, InitScanners
  <2>3. MainOrder' BY DEF MainOrder, SenderAccounting
  <2>4. Conservation' BY DEF Conservation, MainOrder
  <2>5. X3DSaved' BY DEF X3DSaved, MainOrder
  <2> QED BY <2>1, <2>2, <2>3, <2>4, <2>5
<1> QED
  BY <1>1, <1>2, <1>3, <1>4, <1>5, <1>6, <1>7, <1>8, <1>9, <1>10, <1>11, <1>12, <1>13, <1>14, <1>15, <1>16, <1>17 DEF MainStep

(* Worker::work_loop preserves it: it takes events, and ends when it finds  *)
(* the channel empty and closed.                                            *)
LEMMA WorkerStepIInv == IInv /\ WorkerStep => IInv'
<1> SUFFICES ASSUME IInv, WorkerStep PROVE IInv'
  OBVIOUS
<1> USE DEF IInv, TypeOK, MainLocations, channel, x3dVars, signals, Running
<1>1. CASE WorkerRecv
  <2> USE <1>1 DEF WorkerRecv
  <2>1. TypeOK'
    <3>1. queue' \in Nat /\ processed' \in Nat OBVIOUS
    <3>2. shutdown' \in BOOLEAN OBVIOUS
    <3> QED BY <3>1, <3>2
  <2>2. SenderAccounting' BY DEF SenderAccounting, MainOrder
  <2>3. MainOrder' BY DEF MainOrder, SenderAccounting
  <2>4. Conservation' BY DEF Conservation, MainOrder
  <2>5. X3DSaved' BY DEF X3DSaved, MainOrder
  <2> QED BY <2>1, <2>2, <2>3, <2>4, <2>5
<1>2. CASE WorkerApply
  <2> USE <1>2 DEF WorkerApply
  <2>1. TypeOK' OBVIOUS
  <2>2. SenderAccounting' BY DEF SenderAccounting, MainOrder
  <2>3. MainOrder' BY DEF MainOrder, SenderAccounting
  <2>4. Conservation' BY DEF Conservation, MainOrder
  <2>5. X3DSaved' BY DEF X3DSaved, MainOrder
  <2> QED BY <2>1, <2>2, <2>3, <2>4, <2>5
<1>3. CASE WorkerEnd
  <2> USE <1>3 DEF WorkerEnd
  <2>1. TypeOK' OBVIOUS
  <2>2. SenderAccounting' BY DEF SenderAccounting, MainOrder
  <2>3. MainOrder' BY DEF MainOrder, SenderAccounting
  <2>4. Conservation' BY DEF Conservation, MainOrder
  <2>5. X3DSaved' BY DEF X3DSaved, MainOrder
  <2> QED BY <2>1, <2>2, <2>3, <2>4, <2>5
<1>4. CASE WorkerPanic
  <2> USE <1>4 DEF WorkerPanic
  <2>1. TypeOK' OBVIOUS
  <2>2. SenderAccounting' BY DEF SenderAccounting, MainOrder
  <2>3. MainOrder' BY DEF MainOrder, SenderAccounting
  <2>4. Conservation' BY DEF Conservation, MainOrder
  <2>5. X3DSaved' BY DEF X3DSaved, MainOrder
  <2> QED BY <2>1, <2>2, <2>3, <2>4, <2>5
<1> QED
  BY <1>1, <1>2, <1>3, <1>4 DEF WorkerStep

(* The procfs scanners preserve it: they send only while                    *)
(* they hold a sender, and drop it when they end.                           *)
LEMMA ScannerIInv ==
    ASSUME IInv, ManualTick \/ \E s \in Scanners : ScanStep(s) PROVE IInv'
<1> USE DEF IInv, TypeOK, MainLocations, channel, x3dVars, signals, Running
<1>1. CASE ManualTick
  <2> USE <1>1 DEF ManualTick
  <2>1. TypeOK'
    <3>1. senders' \subseteq Threads OBVIOUS
    <3>2. scan' \in [Scanners -> {"absent", "waiting", "sleeping", "scanning", "done"}] BY DEF Scanners, InitScanners
    <3> QED BY <3>1, <3>2
  <2>2. SenderAccounting' BY DEF SenderAccounting, MainOrder
  <2>3. MainOrder' BY DEF MainOrder, SenderAccounting
  <2>4. Conservation' BY DEF Conservation, MainOrder
  <2>5. X3DSaved' BY DEF X3DSaved, MainOrder
  <2> QED BY <2>1, <2>2, <2>3, <2>4, <2>5
<1>2. CASE \E s \in Scanners : ScanStep(s)
  <2> PICK s \in Scanners : ScanStep(s) BY <1>2
  <2> USE DEF ScanStep, Send, ReceiverAlive
  <2>1. TypeOK'
    <3>1. queue' \in Nat /\ sent' \in Nat /\ senders' \subseteq Threads OBVIOUS
    <3>2. scan' \in [Scanners -> {"absent", "waiting", "sleeping", "scanning", "done"}] BY DEF Scanners, InitScanners
    <3> QED BY <3>1, <3>2
  <2>2. SenderAccounting' BY DEF SenderAccounting, MainOrder, Scanners, InitScanners
  <2>3. MainOrder' BY DEF MainOrder, SenderAccounting
  <2>4. Conservation' BY DEF Conservation, MainOrder
  <2>5. X3DSaved' BY DEF X3DSaved, MainOrder
  <2> QED BY <2>1, <2>2, <2>3, <2>4, <2>5
<1> QED
  BY <1>1, <1>2

(* The signal thread, the signals it is sent and the benchmark timer        *)
(* preserve it.                                                             *)
LEMMA SignalIInv == IInv /\ (SignalStep \/ RaiseTerm \/ TimerFires) => IInv'
<1> SUFFICES ASSUME IInv, SignalStep \/ RaiseTerm \/ TimerFires PROVE IInv'
  OBVIOUS
<1> USE DEF IInv, TypeOK, MainLocations, channel, x3dVars, signals, Running
<1>1. CASE SignalReload
  <2> USE <1>1 DEF SignalReload
  <2>1. TypeOK' OBVIOUS
  <2>2. SenderAccounting' BY DEF SenderAccounting, MainOrder
  <2>3. MainOrder' BY DEF MainOrder, SenderAccounting
  <2>4. Conservation' BY DEF Conservation, MainOrder
  <2>5. X3DSaved' BY DEF X3DSaved, MainOrder
  <2> QED BY <2>1, <2>2, <2>3, <2>4, <2>5
<1>2. CASE SignalTerm
  <2> USE <1>2 DEF SignalTerm
  <2>1. TypeOK'
    <3>1. shutdown' \in BOOLEAN OBVIOUS
    <3>2. termPending' \in BOOLEAN OBVIOUS
    <3> QED BY <3>1, <3>2
  <2>2. SenderAccounting' BY DEF SenderAccounting, MainOrder
  <2>3. MainOrder' BY DEF MainOrder, SenderAccounting
  <2>4. Conservation' BY DEF Conservation, MainOrder
  <2>5. X3DSaved' BY DEF X3DSaved, MainOrder
  <2> QED BY <2>1, <2>2, <2>3, <2>4, <2>5
<1>3. CASE SignalDrop
  <2> USE <1>3 DEF SignalDrop
  <2>1. TypeOK' OBVIOUS
  <2>2. SenderAccounting' BY DEF SenderAccounting, MainOrder, Scanners, InitScanners
  <2>3. MainOrder' BY DEF MainOrder, SenderAccounting
  <2>4. Conservation' BY DEF Conservation, MainOrder
  <2>5. X3DSaved' BY DEF X3DSaved, MainOrder
  <2> QED BY <2>1, <2>2, <2>3, <2>4, <2>5
<1>4. CASE SignalNotify
  <2> USE <1>4 DEF SignalNotify
  <2>1. TypeOK' OBVIOUS
  <2>2. SenderAccounting' BY DEF SenderAccounting, MainOrder
  <2>3. MainOrder' BY DEF MainOrder, SenderAccounting
  <2>4. Conservation' BY DEF Conservation, MainOrder
  <2>5. X3DSaved' BY DEF X3DSaved, MainOrder
  <2> QED BY <2>1, <2>2, <2>3, <2>4, <2>5
<1>5. CASE RaiseTerm
  <2> USE <1>5 DEF RaiseTerm
  <2>1. TypeOK' OBVIOUS
  <2>2. SenderAccounting' BY DEF SenderAccounting, MainOrder
  <2>3. MainOrder' BY DEF MainOrder, SenderAccounting
  <2>4. Conservation' BY DEF Conservation, MainOrder
  <2>5. X3DSaved' BY DEF X3DSaved, MainOrder
  <2> QED BY <2>1, <2>2, <2>3, <2>4, <2>5
<1>6. CASE TimerFires
  <2> USE <1>6 DEF TimerFires
  <2>1. TypeOK'
    <3>1. shutdown' \in BOOLEAN OBVIOUS
    <3> QED BY <3>1
  <2>2. SenderAccounting' BY DEF SenderAccounting, MainOrder
  <2>3. MainOrder' BY DEF MainOrder, SenderAccounting
  <2>4. Conservation' BY DEF Conservation, MainOrder
  <2>5. X3DSaved' BY DEF X3DSaved, MainOrder
  <2> QED BY <2>1, <2>2, <2>3, <2>4, <2>5
<1> QED
  BY <1>1, <1>2, <1>3, <1>4, <1>5, <1>6 DEF SignalStep

(* The strengthened invariant holds in every state of every daemon.         *)
THEOREM InductiveInvariant == Spec => []IInv
<1>1. IInv /\ [Next]_vars => IInv'
  <2> SUFFICES ASSUME IInv, [Next]_vars PROVE IInv'
    OBVIOUS
  <2>1. CASE UNCHANGED vars
    BY <2>1 DEF vars, IInv, TypeOK, SenderAccounting, MainOrder, Conservation, X3DSaved
  <2>2. CASE Terminated
    BY <2>1, <2>2 DEF Terminated
  <2> QED
    BY <2>1, <2>2, MainStepIInv, WorkerStepIInv, ScannerIInv, SignalIInv DEF Next
<1> QED
  BY InitIInv, <1>1, PTL DEF Spec

(* Type correctness of the daemon's threads and of what they share.         *)
THEOREM TypeCorrect == Spec => []TypeOK
<1>1. IInv => TypeOK
  BY DEF IInv
<1> QED
  BY <1>1, InductiveInvariant, PTL

(* The worker never stops while a scanner, the listener or the signal       *)
(* thread may still hand it a process: senders are held for as long as they *)
(* can be used (monitor.rs, runtime.rs, signals.rs).                        *)
THEOREM WorkerStopsLast == Spec => []WorkerOutlivesProducers
<1>1. IInv => WorkerOutlivesProducers
  BY DEF IInv, TypeOK, SenderAccounting, MainOrder, WorkerOutlivesProducers
<1> QED
  BY <1>1, InductiveInvariant, PTL

(* A daemon that exits 0 was asked to and has processed every event that    *)
(* was ever sent, however many event sources it had.                        *)
THEOREM ShutdownDrains == Spec => []GracefulExitDrains
<1>1. IInv => GracefulExitDrains
  BY DEF IInv, TypeOK, SenderAccounting, MainOrder, Conservation, GracefulExitDrains
<1> QED
  BY <1>1, InductiveInvariant, PTL

(* A daemon that exits 0 leaves the X3D mode as it found it, or the write   *)
(* that restores it failed.                                                 *)
THEOREM ShutdownRestoresX3D == Spec => []GracefulExitRestoresX3D
<1>1. IInv => GracefulExitRestoresX3D
  BY DEF IInv, X3DSaved, GracefulExitRestoresX3D
<1> QED
  BY <1>1, InductiveInvariant, PTL
=============================================================================
