-------------------------- MODULE CgroupDetection --------------------------
(***************************************************************************)
(* The two process-wide caches of the cgroup code: CGROUP_INFO, the        *)
(* hierarchy found in the mount table, and MANAGER, the cgroup manager     *)
(* built from it.  The main thread fills, retries and resets them during   *)
(* start-up while the signal thread (a reload) and the worker use them.    *)
(*                                                                         *)
(* Option<T> is a set with at most one element.                            *)
(***************************************************************************)
EXTENDS Naturals, FiniteSets

CONSTANTS
    Attempts,   \* CGROUP_INIT_ATTEMPTS
    Workaround  \* the values cgroup_realtime_workaround may have

ASSUME AttemptsAssumption == Attempts \in Nat \ {0}
ASSUME WorkaroundAssumption == Workaround \subseteq BOOLEAN

Versions == {"None", "V1", "V2"}
Others == {"worker", "signal"}
Threads == Others \cup {"main"}

VARIABLES
    workaround, \* the configured cgroup_realtime_workaround
    host,       \* the machine: the mounted hierarchy, and whether it has a
                \* delegated root this process may write to
    info,       \* CGROUP_INFO
    manager,    \* MANAGER
    lock,       \* the thread that holds MANAGER's write lock, or "free"
    stage,      \* what the main thread is doing
    attempt,    \* init_cgroups: the loop counter
    pc,         \* each thread's place in get_cgroup_info or get_manager
    call,       \* what each thread called: "info", "manager"
    found,      \* each thread's local CgroupInfo
    building,   \* the manager the lock's holder is about to insert
    created,    \* the hierarchies in which the rules' cgroups were created
    resets,     \* history: times CGROUP_INFO was reset
    drops,      \* history: times MANAGER was reset
    seen        \* history: the mounted version when the last attempt began

vars == <<workaround, host, info, manager, lock, stage, attempt, pc, call, found,
          building, created, resets, drops, seen>>
history == <<resets, drops, seen>>

Info == [version : Versions, resets : Nat]
Manager == [version : Versions, root : BOOLEAN, drops : Nat]
Stages == {"platform", "probe", "attempt", "gave_up", "create", "spawn", "reset",
           "reset_manager", "reprobe", "recreate", "monitor"}

TypeOK ==
    /\ workaround \in BOOLEAN
    /\ host \in [version : Versions, root : BOOLEAN]
    /\ info \subseteq Info /\ manager \subseteq Manager /\ building \subseteq Manager
    /\ \A o \in {info, manager, building} : Cardinality(o) <= 1
    /\ lock \in Threads \cup {"free"}
    /\ stage \in Stages
    /\ attempt \in 0..Attempts
    /\ pc \in [Threads -> {"idle", "read", "detect", "publish", "cached", "locking",
                           "build", "insert", "returned"}]
    /\ call \in [Threads -> {"info", "manager"}]
    /\ found \in [Threads -> Info]
    /\ created \subseteq {"V1", "V2"}
    /\ resets \in Nat /\ drops \in Nat
    /\ seen \in Versions

Init ==
    /\ workaround \in Workaround
    /\ host \in [version : Versions, root : BOOLEAN]
    /\ info = {} /\ manager = {} /\ building = {} /\ lock = "free"
    /\ stage = "platform" /\ attempt = 0
    /\ pc = [t \in Threads |-> IF t = "main" THEN "read" ELSE "idle"]
    /\ call = [t \in Threads |-> "info"]
    /\ found = [t \in Threads |-> [version |-> "None", resets |-> 0]]
    /\ created = {}
    /\ resets = 0 /\ drops = 0 /\ seen = "None"

(* External: a cgroup filesystem is mounted after the daemon started, or    *)
(* systemd finishes creating the delegated subtree.                         *)
HostChanges ==
    /\ \/ /\ host.version = "None"
          /\ \E v \in {"V1", "V2"} : host' = [host EXCEPT !.version = v]
       \/ ~host.root /\ host' = [host EXCEPT !.root = TRUE]
    /\ UNCHANGED <<workaround, info, manager, lock, stage, attempt, pc, call, found,
                   building, created, history>>

-----------------------------------------------------------------------------
(* get_cgroup_info, as three steps: the read lock, the detection outside    *)
(* any lock, and the write lock.                                            *)

Goto(t, label) == pc' = [pc EXCEPT ![t] = label]

AfterInfo(t) == IF call[t] = "manager" THEN "build" ELSE "returned"

ReadInfo(t) ==
    /\ pc[t] = "read"
    /\ \/ /\ info # {}
          /\ \E i \in info : found' = [found EXCEPT ![t] = i]
          /\ Goto(t, AfterInfo(t))
       \/ info = {} /\ Goto(t, "detect") /\ UNCHANGED found
    /\ UNCHANGED <<workaround, host, info, manager, lock, stage, attempt, call,
                   building, created, history>>

Detect(t) ==
    /\ pc[t] = "detect"
    /\ found' = [found EXCEPT ![t] = [version |-> host.version, resets |-> resets]]
    /\ Goto(t, "publish")
    /\ UNCHANGED <<workaround, host, info, manager, lock, stage, attempt, call,
                   building, created, history>>

(* Publishes only if nobody else has; the caller gets its own detection     *)
(* either way.                                                              *)
PublishAlways(t) ==
    /\ pc[t] = "publish"
    /\ info' = {found[t]}
    /\ Goto(t, AfterInfo(t))
    /\ UNCHANGED <<workaround, host, manager, lock, stage, attempt, call, found,
                   building, created, history>>

Publish(t) ==
    /\ pc[t] = "publish"
    /\ info' = IF info = {} THEN {found[t]} ELSE info
    /\ Goto(t, AfterInfo(t))
    /\ UNCHANGED <<workaround, host, manager, lock, stage, attempt, call, found,
                   building, created, history>>

-----------------------------------------------------------------------------
(* get_manager and what is done with it: create_cgroup for main and the     *)
(* signal thread, a move for the worker.                                    *)

(* resolve_target_dir and ensure_child: cgroup v1 needs no delegated root,  *)
(* v2 cannot create anything without one.                                   *)
CanCreate(m) == m.version = "V1" \/ (m.version = "V2" /\ m.root)

UseManager(t, m) ==
    created' = IF t # "worker" /\ CanCreate(m) THEN created \cup {m.version}
               ELSE created

ReadManager(t) ==
    /\ pc[t] = "cached"
    /\ \/ \E m \in manager : UseManager(t, m) /\ Goto(t, "returned")
       \/ manager = {} /\ Goto(t, "locking") /\ UNCHANGED created
    /\ UNCHANGED <<workaround, host, info, manager, lock, stage, attempt, call, found,
                   building, history>>

LockManager(t) ==
    /\ pc[t] = "locking"
    /\ lock = "free"
    /\ \/ \E m \in manager :
             UseManager(t, m) /\ Goto(t, "returned") /\ UNCHANGED lock
       \/ manager = {} /\ lock' = t /\ Goto(t, "read") /\ UNCHANGED created
    /\ UNCHANGED <<workaround, host, info, manager, stage, attempt, call, found,
                   building, history>>

(* CgroupManager::new looks for the delegated root; the manager is then     *)
(* inserted and the lock released.                                          *)
BuildManager(t) ==
    /\ pc[t] = "build"
    /\ building' = {[version |-> found[t].version,
                     root |-> found[t].version = "V2" /\ host.root,
                     drops |-> drops]}
    /\ Goto(t, "insert")
    /\ UNCHANGED <<workaround, host, info, manager, lock, stage, attempt, call, found,
                   created, history>>

InsertManager(t) ==
    /\ pc[t] = "insert"
    /\ manager' = building /\ building' = {}
    /\ lock' = "free"
    /\ \E m \in building : UseManager(t, m)
    /\ Goto(t, "returned")
    /\ UNCHANGED <<workaround, host, info, stage, attempt, call, found, history>>

-----------------------------------------------------------------------------
(* The other threads: the worker asks for the version or moves a process,   *)
(* a reload on the signal thread creates cgroups.                           *)

WorkerStarted ==
    stage \in {"reset", "reset_manager", "reprobe", "recreate", "monitor"}

Call(t, what) ==
    /\ pc[t] = "idle"
    /\ IF t = "worker" THEN WorkerStarted
       ELSE what = "manager" /\ stage # "platform"
    /\ call' = [call EXCEPT ![t] = what]
    /\ Goto(t, IF what = "manager" THEN "cached" ELSE "read")
    /\ UNCHANGED <<workaround, host, info, manager, lock, stage, attempt, found,
                   building, created, history>>

Return(t) ==
    /\ pc[t] = "returned"
    /\ Goto(t, "idle")
    /\ UNCHANGED <<workaround, host, info, manager, lock, stage, attempt, call, found,
                   building, created, history>>

-----------------------------------------------------------------------------
(* The main thread, from LinuxPlatform::new to the call of monitor::run.    *)

MainAsks(next, what) ==
    /\ stage' = next
    /\ call' = [call EXCEPT !["main"] = what]
    /\ Goto("main", IF what = "manager" THEN "cached" ELSE "read")

MainWaits(next) ==
    /\ stage' = next
    /\ Goto("main", "idle")
    /\ UNCHANGED call

MainReturned(s) == stage = s /\ pc["main"] = "returned"
Available == found["main"].version # "None"

PlatformNew ==
    /\ MainReturned("platform")
    /\ MainAsks("probe", "info")
    /\ UNCHANGED <<workaround, host, info, manager, lock, attempt, found, building,
                   created, history>>

(* wait_for_cgroup_hierarchy's first question.                              *)
Probe ==
    /\ MainReturned("probe")
    /\ \/ Available /\ MainAsks("create", "manager") /\ UNCHANGED seen
       \/ ~Available /\ MainAsks("attempt", "info") /\ seen' = host.version
    /\ UNCHANGED <<workaround, host, info, manager, lock, attempt, found, building,
                   created,
                   resets, drops>>

InitAttemptInclusive ==
    /\ MainReturned("attempt")
    /\ \/ Available /\ MainAsks("create", "manager") /\ UNCHANGED <<attempt, seen>>
       \/ /\ ~Available /\ attempt < Attempts
          /\ attempt' = attempt + 1
          /\ MainAsks("attempt", "info") /\ seen' = host.version
       \/ /\ ~Available /\ attempt = Attempts
          /\ attempt' = attempt + 1
          /\ MainWaits("gave_up") /\ UNCHANGED seen
    /\ UNCHANGED <<workaround, host, info, manager, lock, found, building, created,
                   resets, drops>>

InitAttemptForever ==
    /\ MainReturned("attempt")
    /\ \/ Available /\ MainAsks("create", "manager") /\ UNCHANGED seen
       \/ ~Available /\ MainAsks("attempt", "info") /\ seen' = host.version
    /\ UNCHANGED <<workaround, host, info, manager, lock, attempt, found, building,
                   created, resets, drops>>

(* The end of one turn of init_cgroups' loop.                               *)
InitAttempt ==
    /\ MainReturned("attempt")
    /\ \/ Available /\ MainAsks("create", "manager") /\ UNCHANGED <<attempt, seen>>
       \/ /\ ~Available /\ attempt + 1 < Attempts
          /\ attempt' = attempt + 1
          /\ MainAsks("attempt", "info") /\ seen' = host.version
       \/ /\ ~Available /\ attempt + 1 = Attempts
          /\ attempt' = Attempts
          /\ MainWaits("gave_up") /\ UNCHANGED seen
    /\ UNCHANGED <<workaround, host, info, manager, lock, found, building,
                   created, resets, drops>>

ResetInfo == info' = {} /\ resets' = resets + 1

InitGivesUp ==
    /\ stage = "gave_up"
    /\ ResetInfo
    /\ MainWaits("spawn")
    /\ UNCHANGED <<workaround, host, manager, lock, attempt, found, building,
                   created, drops, seen>>

CreateCgroups ==
    /\ MainReturned("create")
    /\ MainWaits("spawn")
    /\ UNCHANGED <<workaround, host, info, manager, lock, attempt, found, building,
                   created, history>>

SpawnWorker ==
    /\ stage = "spawn"
    /\ MainWaits(IF workaround THEN "reset" ELSE "monitor")
    /\ UNCHANGED <<workaround, host, info, manager, lock, attempt, found, building,
                   created, history>>

(* reset_cgroup_detection: first CGROUP_INFO, then, under its lock, MANAGER. *)
ResetDetection ==
    /\ stage = "reset"
    /\ ResetInfo
    /\ MainWaits("reset_manager")
    /\ UNCHANGED <<workaround, host, manager, lock, attempt, found, building,
                   created, drops, seen>>

ResetManagerUnlocked ==
    /\ stage = "reset_manager"
    /\ manager' = {} /\ drops' = drops + 1
    /\ MainAsks("reprobe", "info")
    /\ UNCHANGED <<workaround, host, info, lock, attempt, found, building, created,
                   resets, seen>>

ResetManager ==
    /\ stage = "reset_manager"
    /\ lock = "free"
    /\ manager' = {} /\ drops' = drops + 1
    /\ MainAsks("reprobe", "info")
    /\ UNCHANGED <<workaround, host, info, lock, attempt, found, building,
                   created, resets, seen>>

Reprobe ==
    /\ MainReturned("reprobe")
    /\ IF Available THEN MainAsks("recreate", "manager") ELSE MainWaits("monitor")
    /\ UNCHANGED <<workaround, host, info, manager, lock, attempt, found, building,
                   created, history>>

Recreate ==
    /\ MainReturned("recreate")
    /\ MainWaits("monitor")
    /\ UNCHANGED <<workaround, host, info, manager, lock, attempt, found, building,
                   created, history>>

-----------------------------------------------------------------------------
ThreadStep(t) ==
    \/ ReadInfo(t) \/ Detect(t) \/ Publish(t)
    \/ ReadManager(t) \/ LockManager(t) \/ BuildManager(t)
    \/ InsertManager(t)

MainStep ==
    \/ ThreadStep("main")
    \/ PlatformNew \/ Probe \/ InitAttempt \/ InitGivesUp \/ CreateCgroups
    \/ SpawnWorker \/ ResetDetection \/ ResetManager \/ Reprobe \/ Recreate

OtherStep(t) == ThreadStep(t) \/ Return(t)

Next ==
    \/ HostChanges
    \/ MainStep
    \/ \E t \in Others :
          OtherStep(t) \/ \E what \in {"info", "manager"} : Call(t, what)

Spec == Init /\ [][Next]_vars

(* Threads are scheduled and an RwLock is handed out fairly enough that a   *)
(* thread waiting for it gets it once holders keep releasing it; the mount  *)
(* table and the events that make the other threads call owe nothing.       *)
FairSpec ==
    /\ Spec
    /\ WF_vars(MainStep) /\ SF_vars(LockManager("main")) /\ SF_vars(ResetManager)
    /\ \A t \in Others : WF_vars(OtherStep(t))

-----------------------------------------------------------------------------
(* Properties.                                                              *)

(* A hierarchy one thread has published is only ever forgotten by a reset:  *)
(* a detection that finishes late does not overwrite it, least of all with  *)
(* "none" (mounts.rs get_cgroup_info, the check before publishing).         *)
PublishedUntilReset ==
    [][info # {} /\ info' # info => info' = {} /\ resets' = resets + 1]_vars

(* Once reset_cgroup_detection has returned, every manager in use was built *)
(* after it, so it has looked for the delegated root again: a builder that  *)
(* was under way holds MANAGER's lock and the reset waits for it            *)
(* (cgroups.rs get_manager, reset_cgroup_detection).                        *)
ManagerBuiltAfterReset == \A m \in manager : m.drops = drops

(* A missing hierarchy delays the daemon and never stops it: whatever the   *)
(* other threads do with the two locks, main gets to the event monitor      *)
(* (runtime.rs 85-95, 126-148).                                             *)
StartupCompletes == <>(stage = "monitor")

(* Stated by mounts.rs:50: init_cgroups "re-detects the hierarchy until one *)
(* is found, or the attempts run out".  When it gives up, the hierarchy was *)
(* not there as the last attempt began.                                     *)
RetriesRedetect == stage = "gave_up" => seen = "None"

(* Stated by cgroups.rs:42: after a reset "the next cgroup operation        *)
(* re-detects the mount table".  Once reset_cgroup_detection has returned,  *)
(* what is cached was detected after it began.                              *)
DetectedAfterReset == drops > 0 => \A i \in info : i.resets = resets

(* Stated by cgroups.rs:15: the manager is "the manager for the currently   *)
(* detected hierarchy".  Outside a reset, the two caches agree.             *)
ManagerForDetectedHierarchy ==
    stage # "reset_manager" =>
        \A i \in info, m \in manager : m.version = i.version
=============================================================================
