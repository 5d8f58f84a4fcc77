----------------------- MODULE CgroupDetectionProofs -----------------------
(***************************************************************************)
(* The caches of the cgroup code under resets, for any number of attempts.  *)
(***************************************************************************)
EXTENDS CgroupDetection, TLAPS

Labels == {"idle", "read", "detect", "publish", "cached", "locking", "build", "insert",
           "returned"}
Shape == pc \in [Threads -> Labels] /\ call \in [Threads -> {"info", "manager"}]

(* Where a thread is between taking MANAGER's lock and releasing it.        *)
Builds(t) ==
    \/ pc[t] \in {"build", "insert"}
    \/ call[t] = "manager" /\ pc[t] \in {"read", "detect", "publish"}

LockHeld == \A t \in Threads : Builds(t) => lock = t

(* What is about to be inserted was built since the last reset.             *)
BuildingIsFresh ==
    \A t \in Threads : pc[t] = "insert" => \A m \in building : m.drops = drops

IInv == Shape /\ LockHeld /\ BuildingIsFresh /\ ManagerBuiltAfterReset

(* At start nothing is cached and nobody holds the lock.                    *)
LEMMA InitIInv == Init => IInv
<1> SUFFICES ASSUME Init PROVE IInv
  OBVIOUS
<1>1. Shape
  BY DEF Init, Shape, Labels
<1>2. LockHeld
  BY DEF Init, LockHeld, Builds
<1>3. BuildingIsFresh /\ ManagerBuiltAfterReset
  BY DEF Init, BuildingIsFresh, ManagerBuiltAfterReset
<1> QED
  BY <1>1, <1>2, <1>3 DEF IInv

(* A step of one thread that leaves the lock, the managers and the history  *)
(* alone, and takes the thread nowhere it needs the lock for.               *)
LEMMA Elsewhere ==
    ASSUME IInv, Shape', NEW t \in Threads,
           \A u \in Threads \ {t} : pc'[u] = pc[u] /\ call'[u] = call[u],
           UNCHANGED <<manager, lock, building, drops>>,
           pc'[t] # "insert", Builds(t)' => Builds(t)
    PROVE  IInv'
<1>1. LockHeld'
  BY DEF IInv, LockHeld, Builds
<1>2. BuildingIsFresh' /\ ManagerBuiltAfterReset'
  BY DEF IInv, BuildingIsFresh, ManagerBuiltAfterReset
<1> QED
  BY <1>1, <1>2 DEF IInv

(* get_cgroup_info and get_manager, step by step, in one thread.            *)
LEMMA ThreadStepIInv ==
    ASSUME IInv, NEW t \in Threads, ThreadStep(t)
    PROVE  IInv'
<1> USE DEF Labels, history, Goto, AfterInfo
<1>1. CASE ReadInfo(t)
  BY <1>1, Elsewhere DEF ReadInfo, Goto, AfterInfo, Builds, IInv, Shape
<1>2. CASE Detect(t)
  BY <1>2, Elsewhere DEF Detect, Goto, Builds, IInv, Shape, history
<1>3. CASE Publish(t)
  BY <1>3, Elsewhere DEF Publish, Goto, AfterInfo, Builds, IInv, Shape, history
<1>4. CASE ReadManager(t)
  BY <1>4, Elsewhere DEF ReadManager, Goto, Builds, IInv, Shape, history
<1>5. CASE LockManager(t)
  <2>1. CASE manager # {}
    BY <1>5, <2>1, Elsewhere DEF LockManager, Goto, Builds, IInv, Shape, history
  <2>2. CASE manager = {}
    BY <1>5, <2>2 DEF LockManager, Goto, Builds, IInv, Shape, LockHeld, BuildingIsFresh,
                      ManagerBuiltAfterReset, history, Threads, Others
  <2> QED
    BY <2>1, <2>2
<1>6. CASE BuildManager(t)
  BY <1>6 DEF BuildManager, Goto, Builds, IInv, Shape, LockHeld, BuildingIsFresh,
              ManagerBuiltAfterReset, history
<1>7. CASE InsertManager(t)
  BY <1>7 DEF InsertManager, Goto, Builds, IInv, Shape, LockHeld, BuildingIsFresh,
              ManagerBuiltAfterReset, history
<1> QED
  BY <1>1, <1>2, <1>3, <1>4, <1>5, <1>6, <1>7 DEF ThreadStep

(* The retry loop of main, which resets between its calls.                  *)
LEMMA MainStepIInv ==
    ASSUME IInv, MainStep
    PROVE  IInv'
<1> USE DEF Labels, MainAsks, MainWaits, MainReturned, Goto, history
<1> "main" \in Threads
  BY DEF Threads
<1>1. CASE ThreadStep("main")
  BY <1>1, ThreadStepIInv
<1>2. CASE PlatformNew
  BY <1>2, Elsewhere DEF PlatformNew, Builds, IInv, Shape
<1>3. CASE Probe
  BY <1>3, Elsewhere DEF Probe, Builds, IInv, Shape
<1>4. CASE InitAttempt
  BY <1>4, Elsewhere DEF InitAttempt, Builds, IInv, Shape
<1>5. CASE InitGivesUp
  BY <1>5, Elsewhere DEF InitGivesUp, Builds, IInv, Shape
<1>6. CASE CreateCgroups
  BY <1>6, Elsewhere DEF CreateCgroups, Builds, IInv, Shape
<1>7. CASE SpawnWorker
  BY <1>7, Elsewhere DEF SpawnWorker, Builds, IInv, Shape
<1>8. CASE ResetDetection
  BY <1>8, Elsewhere DEF ResetDetection, Builds, IInv, Shape
<1>9. CASE ResetManager
  <2>1. \A t \in Threads : ~Builds(t)
    BY <1>9 DEF ResetManager, IInv, LockHeld, Threads, Others
  <2>2. \A t \in Threads : ~Builds(t)' /\ pc'[t] # "insert"
    BY <1>9, <2>1 DEF ResetManager, Builds, IInv, Shape
  <2>3. Shape' /\ ManagerBuiltAfterReset'
    BY <1>9 DEF ResetManager, IInv, Shape, ManagerBuiltAfterReset
  <2> QED
    BY <2>2, <2>3 DEF IInv, LockHeld, BuildingIsFresh
<1>10. CASE Reprobe
  BY <1>10, Elsewhere DEF Reprobe, Builds, IInv, Shape
<1>11. CASE Recreate
  BY <1>11, Elsewhere DEF Recreate, Builds, IInv, Shape
<1> QED
  BY <1>1, <1>2, <1>3, <1>4, <1>5, <1>6, <1>7, <1>8, <1>9, <1>10, <1>11 DEF MainStep

(* Every step of the threads, of main and of the mounts.                    *)
LEMMA StepIInv == IInv /\ [Next]_vars => IInv'
<1> SUFFICES ASSUME IInv, [Next]_vars PROVE IInv'
  OBVIOUS
<1> USE DEF Labels, Goto, history
<1>1. CASE UNCHANGED vars \/ HostChanges
  BY <1>1 DEF vars, HostChanges, IInv, Shape, LockHeld, Builds, BuildingIsFresh,
              ManagerBuiltAfterReset
<1>2. CASE MainStep
  BY <1>2, MainStepIInv
<1>3. ASSUME NEW t \in Others, OtherStep(t)
      PROVE  IInv'
  <2>1. t \in Threads
    BY DEF Threads
  <2>2. CASE ThreadStep(t)
    BY <2>1, <2>2, ThreadStepIInv
  <2>3. CASE Return(t)
    BY <2>1, <2>3, Elsewhere DEF Return, Builds, IInv, Shape
  <2> QED
    BY <1>3, <2>2, <2>3 DEF OtherStep
<1>4. ASSUME NEW t \in Others, NEW what \in {"info", "manager"}, Call(t, what)
      PROVE  IInv'
  BY <1>4, Elsewhere DEF Call, Builds, IInv, Shape, Threads
<1> QED
  BY <1>1, <1>2, <1>3, <1>4 DEF Next

(* Every manager in use was built after the last reset: the lock keeps the  *)
(* reset and a builder apart (cgroups.rs get_manager).                      *)
THEOREM ResetReachesManagers == Spec => []ManagerBuiltAfterReset
<1>1. Spec => []IInv
  BY InitIInv, StepIInv, PTL DEF Spec
<1> QED
  BY <1>1, PTL DEF IInv

(* No thread's late detection replaces a published hierarchy                *)
(* (mounts.rs get_cgroup_info).                                             *)
THEOREM PublicationStands == Spec => PublishedUntilReset
<1> DEFINE Kept == info # {} /\ info' # info => info' = {} /\ resets' = resets + 1
<1>1. ASSUME NEW t \in Threads, ThreadStep(t) PROVE Kept
  BY <1>1 DEF ThreadStep, ReadInfo, Detect, Publish, ReadManager, LockManager,
              BuildManager, InsertManager
<1>2. ASSUME MainStep PROVE Kept
  BY <1>1, <1>2 DEF MainStep, Threads, PlatformNew, Probe, InitAttempt, InitGivesUp,
                    CreateCgroups, SpawnWorker, ResetDetection, ResetManager, Reprobe,
                    Recreate, ResetInfo
<1>3. ASSUME NEW t \in Others, OtherStep(t) \/ \E what \in {"info", "manager"} : Call(t, what)
      PROVE  Kept
  BY <1>1, <1>3 DEF OtherStep, Return, Call, Threads
<1>4. [Next]_vars => [Kept]_vars
  BY <1>2, <1>3 DEF Next, HostChanges
<1> QED
  BY <1>4, PTL DEF Spec, PublishedUntilReset
=============================================================================
