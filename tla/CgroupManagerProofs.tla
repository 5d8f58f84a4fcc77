------------------------ MODULE CgroupManagerProofs ------------------------
(***************************************************************************)
(* The start times that guard the resolver and move_pid against a pid that  *)
(* is used again, and the classification that keeps the daemon inside its   *)
(* delegated root, for any hierarchy and any number of processes.           *)
(***************************************************************************)
EXTENDS CgroupManager, SequenceTheorems, TLAPS

USE CgroupManagerAssumption

Starts == 1..MaxStart

Shape ==
    /\ proc = [p \in Pids |-> proc[p]]
    /\ \A p \in Pids : /\ proc[p] = [start |-> proc[p].start, cgroup |-> proc[p].cgroup]
                       /\ proc[p].start \in 0..MaxStart
    /\ been = [p \in Pids |-> [s \in Starts |-> been[p][s]]]
    /\ cache = [p \in Pids |-> cache[p]]
    /\ worker = [pc |-> worker.pc, pid |-> worker.pid, name |-> worker.name,
                 start |-> worker.start, path |-> worker.path,
                 before |-> worker.before, moved |-> worker.moved]
    /\ worker.pc # "idle" => worker.pid \in Pids

(* A process has been where it is.                                          *)
Located ==
    \A p \in Pids : proc[p].start # 0 => proc[p].cgroup \in been[p][proc[p].start]

(* An entry of the cache is of the process its start time names.            *)
CacheIsOwn ==
    \A p \in Pids : \A e \in cache[p] :
        /\ e = [start |-> e.start, path |-> e.path, fresh |-> e.fresh]
        /\ e.start \in Starts /\ e.path \subseteq been[p][e.start]

(* A start time the worker has read is of a process that was there, which   *)
(* no later process has; so the second reading tells the two apart.         *)
Reading ==
    /\ worker.pc \in {"read", "recheck", "weight"} =>
          worker.start \in Starts /\ been[worker.pid][worker.start] # {}
    /\ worker.pc = "recheck" =>
          (proc[worker.pid].start = worker.start =>
              worker.path \subseteq been[worker.pid][worker.start])

(* The same of move_pid, with the start time it read before the write.      *)
Moving ==
    /\ worker.pc \in {"write", "verify"} =>
          worker.before \in Starts /\ been[worker.pid][worker.before] # {}
    /\ worker.pc = "verify" =>
          (proc[worker.pid].start = worker.before => worker.moved = worker.before)

IInv == Shape /\ Located /\ CacheIsOwn /\ Reading /\ Moving /\ NeverAnotherProcess

(* Every process is at its first start time and nothing has been read.      *)
LEMMA InitIInv == Init => IInv
<1> SUFFICES ASSUME Init PROVE IInv
  OBVIOUS
<1>1. \A p \in Pids : proc[p].start = 1
  BY DEF Init
<1>2. Shape
  <2>1. /\ proc = [p \in Pids |-> proc[p]]
        /\ \A p \in Pids : proc[p] = [start |-> proc[p].start, cgroup |-> proc[p].cgroup]
    BY DEF Init
  <2>2. been = [p \in Pids |-> [s \in Starts |-> been[p][s]]]
    BY DEF Init, Starts
  <2>3. worker = [pc |-> worker.pc, pid |-> worker.pid, name |-> worker.name,
                  start |-> worker.start, path |-> worker.path,
                  before |-> worker.before, moved |-> worker.moved]
        /\ worker.pc = "idle"
    BY DEF Init, Idle
  <2>4. cache = [p \in Pids |-> cache[p]]
    BY DEF Init
  <2> QED
    BY <1>1, <2>1, <2>2, <2>3, <2>4 DEF Shape
<1>3. Located
  BY <1>1 DEF Located, Init
<1>4. CacheIsOwn
  BY DEF CacheIsOwn, Init
<1>5. Reading /\ Moving /\ NeverAnotherProcess
  BY DEF Reading, Moving, NeverAnotherProcess, Init, Idle
<1> QED
  BY <1>2, <1>3, <1>4, <1>5 DEF IInv

(* Creating cgroups leaves processes, cache and worker alone.               *)
LEMMA Elsewhere ==
    ASSUME IInv, UNCHANGED <<proc, been, cache, worker, falseAnswer>>
    PROVE  IInv'
<1>1. Shape'
  BY DEF IInv, Shape
<1>2. Located' /\ CacheIsOwn'
  BY DEF IInv, Located, CacheIsOwn
<1>3. Reading' /\ Moving' /\ NeverAnotherProcess'
  BY DEF IInv, Reading, Moving, NeverAnotherProcess
<1> QED
  BY <1>1, <1>2, <1>3 DEF IInv

(* A step of the worker that leaves the processes and the cache alone.      *)
LEMMA WorkerOnly ==
    ASSUME IInv, Reading', Moving', NeverAnotherProcess',
           UNCHANGED <<proc, been, cache>>,
           worker' = [pc |-> worker'.pc, pid |-> worker'.pid, name |-> worker'.name,
                      start |-> worker'.start, path |-> worker'.path,
                      before |-> worker'.before, moved |-> worker'.moved],
           worker'.pc # "idle" => worker'.pid \in Pids
    PROVE  IInv'
BY DEF IInv, Shape, Located, CacheIsOwn

(* The resolver: the start time, the cache, the cgroup, the start time.     *)
LEMMA Resolves ==
    ASSUME IInv, TakeReport \/ Resolve \/ ReadCgroup \/ WriteWeight
    PROVE  IInv'
<1> USE DEF hierarchy, history
<1>1. CASE TakeReport
  <2> PICK p \in Pids, n \in host.names : Take(p, n)
    BY <1>1 DEF TakeReport
  <2>1. worker'.pc \in {"resolve", "open"}
    BY DEF Take
  <2>2. Reading' /\ Moving' /\ NeverAnotherProcess'
    BY <2>1 DEF Take, Reading, Moving, NeverAnotherProcess, IInv
  <2> QED
    BY <2>1, <2>2, WorkerOnly DEF Take
<1>2. CASE Resolve
  <2> DEFINE now == proc[worker.pid].start
             hit == {e \in cache[worker.pid] : e.start = now /\ e.fresh}
  <2>1. worker.pid \in Pids /\ now \in 0..MaxStart
    BY <1>2 DEF Resolve, IInv, Shape
  <2>2. CASE now = 0
    <3>1. worker' = [worker EXCEPT !.pc = "open"]
      BY <1>2, <2>2 DEF Resolve
    <3>2. worker'.pc = "open"
      BY <3>1 DEF IInv, Shape
    <3>3. Reading' /\ Moving' /\ NeverAnotherProcess'
      BY <1>2, <3>2 DEF Resolve, Reading, Moving, NeverAnotherProcess, IInv
    <3> QED
      BY <1>2, <2>1, <3>1, <3>3, WorkerOnly DEF Resolve, IInv, Shape
  <2>3. CASE now # 0 /\ hit # {}
    <3> DEFINE entry == The(hit)
    <3>1. entry \in hit
      BY <2>3 DEF The
    <3>2. worker' = [worker EXCEPT !.pc = "weight", !.start = now, !.path = entry.path]
      BY <1>2, <2>3 DEF Resolve
    <3>3. entry \in cache[worker.pid] /\ entry.start = now
      BY <3>1
    <3>4. now \in Starts /\ been[worker.pid][now] # {} /\ entry.path \subseteq been[worker.pid][now]
      BY <2>1, <2>3, <3>3 DEF IInv, Located, CacheIsOwn, Starts
    <3> HIDE DEF entry, now, hit
    <3>5. /\ worker'.pc = "weight" /\ worker'.start = now /\ worker'.path = entry.path
          /\ worker'.pid = worker.pid
      BY <3>2 DEF IInv, Shape
    <3>6. Reading' /\ Moving' /\ NeverAnotherProcess'
      BY <1>2, <3>4, <3>5 DEF Resolve, Reading, Moving, NeverAnotherProcess, IInv
    <3> QED
      BY <1>2, <2>1, <3>2, <3>6, WorkerOnly DEF Resolve, IInv, Shape
  <2>4. CASE now # 0 /\ hit = {}
    <3>1. worker' = [worker EXCEPT !.pc = "read", !.start = now]
      BY <1>2, <2>4 DEF Resolve
    <3>2. now \in Starts /\ been[worker.pid][now] # {}
      BY <2>1, <2>4 DEF IInv, Located, Starts
    <3> HIDE DEF now, hit
    <3>3. worker'.pc = "read" /\ worker'.start = now /\ worker'.pid = worker.pid
      BY <3>1 DEF IInv, Shape
    <3>4. Reading' /\ Moving' /\ NeverAnotherProcess'
      BY <1>2, <3>2, <3>3 DEF Resolve, Reading, Moving, NeverAnotherProcess, IInv
    <3> QED
      BY <1>2, <2>1, <3>1, <3>4, WorkerOnly DEF Resolve, IInv, Shape
  <2> QED
    BY <2>2, <2>3, <2>4
<1>3. CASE ReadCgroup
  <2> DEFINE found == IF proc[worker.pid].start = 0 THEN {} ELSE {proc[worker.pid].cgroup}
  <2>1. worker' = [worker EXCEPT !.pc = "recheck", !.path = found]
    BY <1>3 DEF ReadCgroup
  <2>2. worker.pid \in Pids /\ worker.start \in Starts /\ been[worker.pid][worker.start] # {}
    BY <1>3 DEF ReadCgroup, IInv, Shape, Reading
  <2>3. proc[worker.pid].start = worker.start => found \subseteq been[worker.pid][worker.start]
    BY <2>2 DEF IInv, Located
  <2> HIDE DEF found
  <2>4. /\ worker'.pc = "recheck" /\ worker'.path = found
        /\ worker'.pid = worker.pid /\ worker'.start = worker.start
    BY <2>1 DEF IInv, Shape
  <2>5. Reading' /\ Moving' /\ NeverAnotherProcess'
    BY <1>3, <2>2, <2>3, <2>4 DEF ReadCgroup, Reading, Moving, NeverAnotherProcess, IInv
  <2> QED
    BY <1>3, <2>1, <2>2, <2>5, WorkerOnly DEF ReadCgroup, IInv, Shape
<1>4. CASE WriteWeight
  <2>1. worker' = [worker EXCEPT !.pc = "open"] /\ worker.pid \in Pids
    BY <1>4 DEF WriteWeight, IInv, Shape
  <2>2. worker'.pc = "open"
    BY <2>1 DEF IInv, Shape
  <2>3. Reading' /\ Moving' /\ NeverAnotherProcess'
    BY <1>4, <2>2 DEF WriteWeight, Reading, Moving, NeverAnotherProcess, IInv
  <2> QED
    BY <1>4, <2>1, <2>3, WorkerOnly DEF WriteWeight, IInv, Shape
<1> QED
  BY <1>1, <1>2, <1>3, <1>4

(* Only what the second reading of the start time confirms is cached.       *)
LEMMA RecheckIInv ==
    ASSUME IInv, Recheck
    PROVE  IInv'
<1> USE DEF hierarchy, history
<1> DEFINE same == proc[worker.pid].start = worker.start
           entry == [start |-> worker.start, path |-> worker.path, fresh |-> TRUE]
<1>1. /\ worker.pid \in Pids /\ worker.start \in Starts
      /\ same => worker.path \subseteq been[worker.pid][worker.start]
      /\ been[worker.pid][worker.start] # {}
  BY DEF Recheck, IInv, Shape, Reading
<1>2. /\ worker' = [worker EXCEPT !.pc = IF same /\ worker.path # {} THEN "weight" ELSE "open"]
      /\ cache' = IF same THEN [cache EXCEPT ![worker.pid] = {entry}] ELSE cache
      /\ UNCHANGED <<proc, been, falseAnswer>>
  BY DEF Recheck
<1>3. /\ worker'.pc \in {"weight", "open"} /\ (worker'.pc = "weight" => same)
      /\ worker'.pid = worker.pid /\ worker'.start = worker.start /\ worker'.path = worker.path
  BY <1>2 DEF IInv, Shape
<1>4. Shape'
  <2>1. cache' = [p \in Pids |-> cache'[p]]
    BY <1>1, <1>2 DEF IInv, Shape
  <2>2. worker' = [pc |-> worker'.pc, pid |-> worker'.pid, name |-> worker'.name,
                   start |-> worker'.start, path |-> worker'.path,
                   before |-> worker'.before, moved |-> worker'.moved]
    BY <1>2 DEF IInv, Shape
  <2> QED
    BY <1>1, <1>2, <1>3, <2>1, <2>2 DEF IInv, Shape
<1>5. Located'
  BY <1>2 DEF IInv, Located
<1>6. CacheIsOwn'
  <2>1. \A p \in Pids : \A e \in cache'[p] : e \in cache[p] \/ (same /\ p = worker.pid /\ e = entry)
    BY <1>1, <1>2 DEF IInv, Shape
  <2> QED
    BY <1>1, <1>2, <2>1 DEF IInv, CacheIsOwn
<1>7. Reading' /\ Moving' /\ NeverAnotherProcess'
  BY <1>1, <1>2, <1>3 DEF IInv, Reading, Moving, NeverAnotherProcess
<1> QED
  BY <1>4, <1>5, <1>6, <1>7 DEF IInv

(* move_pid: the open, the start time, the write, the start time.           *)
LEMMA Moves ==
    ASSUME IInv, OpenProcs \/ CheckStart \/ Verify
    PROVE  IInv'
<1> USE DEF hierarchy, history
<1>1. CASE worker' = Idle
  <2>1. worker'.pc = "idle"
    BY <1>1 DEF Idle
  <2>2. worker.pc = "verify" => ~falseAnswer'
    BY DEF OpenProcs, CheckStart, Verify, IInv, Moving, NeverAnotherProcess
  <2>3. Reading' /\ Moving' /\ NeverAnotherProcess'
    BY <2>1, <2>2 DEF OpenProcs, CheckStart, Verify, Reading, Moving, NeverAnotherProcess, IInv
  <2>4. UNCHANGED <<proc, been, cache>>
    BY DEF OpenProcs, CheckStart, Verify
  <2> QED
    BY <1>1, <2>1, <2>3, <2>4, WorkerOnly DEF Idle
<1>2. CASE OpenProcs /\ worker' = [worker EXCEPT !.pc = "check"]
  <2>1. worker'.pc = "check" /\ worker.pid \in Pids
    BY <1>2 DEF OpenProcs, IInv, Shape
  <2>2. Reading' /\ Moving' /\ NeverAnotherProcess'
    BY <1>2, <2>1 DEF OpenProcs, Reading, Moving, NeverAnotherProcess, IInv
  <2> QED
    BY <1>2, <2>1, <2>2, WorkerOnly DEF OpenProcs, IInv, Shape
<1>3. CASE /\ CheckStart /\ proc[worker.pid].start # 0
           /\ worker' = [worker EXCEPT !.pc = "write", !.before = proc[worker.pid].start]
  <2>1. /\ worker'.pc = "write" /\ worker.pid \in Pids /\ worker'.pid = worker.pid
        /\ worker'.before = proc[worker.pid].start
    BY <1>3 DEF CheckStart, IInv, Shape
  <2>2. worker'.before \in Starts /\ been[worker.pid][worker'.before] # {}
    <3>1. proc[worker.pid].start \in Starts
      BY <1>3, <2>1 DEF IInv, Shape, Starts
    <3> QED
      BY <1>3, <2>1, <3>1 DEF IInv, Located
  <2>3. Reading' /\ Moving' /\ NeverAnotherProcess'
    BY <1>3, <2>1, <2>2 DEF CheckStart, Reading, Moving, NeverAnotherProcess, IInv
  <2> QED
    <3>1. worker' = [pc |-> worker'.pc, pid |-> worker'.pid, name |-> worker'.name,
                     start |-> worker'.start, path |-> worker'.path,
                     before |-> worker'.before, moved |-> worker'.moved]
      BY <1>3 DEF IInv, Shape
    <3> QED
      BY <1>3, <2>1, <2>3, <3>1, WorkerOnly DEF CheckStart
<1> QED
  BY <1>1, <1>2, <1>3 DEF OpenProcs, CheckStart, Verify

(* What the worker has read stays true while no start time comes back.      *)
LEMMA StartsStay ==
    ASSUME IInv, UNCHANGED worker,
           \A q \in Pids, t \in Starts : been[q][t] \subseteq been'[q][t],
           \A q \in Pids, t \in Starts :
               been[q][t] # {} => /\ been'[q][t] # {}
                                  /\ proc'[q].start = t => proc[q].start = t
    PROVE  Reading' /\ Moving'
<1>1. worker.pc # "idle" => worker.pid \in Pids
  BY DEF IInv, Shape
<1>2. Reading'
  BY <1>1 DEF IInv, Reading
<1>3. Moving'
  BY <1>1 DEF IInv, Moving
<1> QED
  BY <1>2, <1>3

(* What becomes of the processes when one of them gets a new record.        *)
LEMMA OneProcess ==
    ASSUME Shape, NEW p \in Pids, NEW s \in 0..MaxStart, NEW c,
           proc' = [proc EXCEPT ![p] = [start |-> s, cgroup |-> c]]
    PROVE  /\ proc' = [q \in Pids |-> proc'[q]]
           /\ proc'[p] = [start |-> s, cgroup |-> c]
           /\ \A q \in Pids \ {p} : proc'[q] = proc[q]
           /\ \A q \in Pids : /\ proc'[q] = [start |-> proc'[q].start, cgroup |-> proc'[q].cgroup]
                              /\ proc'[q].start \in 0..MaxStart
<1>1. proc'[p] = [start |-> s, cgroup |-> c] /\ \A q \in Pids \ {p} : proc'[q] = proc[q]
  BY DEF Shape
<1>2. proc' = [q \in Pids |-> proc'[q]]
  BY DEF Shape
<1>3. \A q \in Pids : /\ proc'[q] = [start |-> proc'[q].start, cgroup |-> proc'[q].cgroup]
                      /\ proc'[q].start \in 0..MaxStart
  <2> SUFFICES ASSUME NEW q \in Pids
               PROVE  /\ proc'[q] = [start |-> proc'[q].start, cgroup |-> proc'[q].cgroup]
                      /\ proc'[q].start \in 0..MaxStart
    OBVIOUS
  <2>1. CASE q = p
    BY <1>1, <2>1
  <2>2. CASE q # p
    BY <1>1, <2>2 DEF Shape
  <2> QED
    BY <2>1, <2>2
<1> QED
  BY <1>1, <1>2, <1>3

(* A process's record with one field changed.                               *)
LEMMA OneField ==
    ASSUME Shape, NEW p \in Pids, NEW x
    PROVE  /\ [proc EXCEPT ![p].start = x]
                 = [proc EXCEPT ![p] = [start |-> x, cgroup |-> proc[p].cgroup]]
           /\ [proc EXCEPT ![p].cgroup = x]
                 = [proc EXCEPT ![p] = [start |-> proc[p].start, cgroup |-> x]]
<1>1. proc[p] = [start |-> proc[p].start, cgroup |-> proc[p].cgroup]
  BY DEF Shape
<1>2. /\ [proc[p] EXCEPT !.start = x] = [start |-> x, cgroup |-> proc[p].cgroup]
      /\ [proc[p] EXCEPT !.cgroup = x] = [start |-> proc[p].start, cgroup |-> x]
  BY <1>1
<1> QED
  BY <1>2

(* Processes come, go and move; a new one has a start time nobody had.      *)
LEMMA Lives ==
    ASSUME IInv, Shape', NEW p \in Pids, NEW s \in 0..MaxStart, NEW c,
           proc'[p].start = s, proc'[p].cgroup = c,
           \A q \in Pids \ {p} : proc'[q] = proc[q],
           \A q \in Pids, t \in Starts : been[q][t] \subseteq been'[q][t],
           s # 0 => c \in been'[p][s],
           s \in {0, proc[p].start} \/ been[p][s] = {},
           UNCHANGED <<cache, worker, falseAnswer>>
    PROVE  IInv'
<1>1. Located'
  <2>1. \A q \in Pids : proc[q].start # 0 => proc[q].start \in Starts
    BY DEF IInv, Shape, Starts
  <2> QED
    BY <2>1 DEF IInv, Located
<1>2. CacheIsOwn'
  BY DEF IInv, CacheIsOwn
<1>3. \A q \in Pids, t \in Starts :
        been[q][t] # {} => /\ been'[q][t] # {}
                           /\ proc'[q].start = t => proc[q].start = t
  <2> SUFFICES ASSUME NEW q \in Pids, NEW t \in Starts, been[q][t] # {}
               PROVE  been'[q][t] # {} /\ (proc'[q].start = t => proc[q].start = t)
    OBVIOUS
  <2>1. been'[q][t] # {}
    OBVIOUS
  <2>2. proc'[q].start = t => proc[q].start = t
    BY DEF Starts
  <2> QED
    BY <2>1, <2>2
<1>4. Reading' /\ Moving'
  BY <1>3, StartsStay
<1>5. NeverAnotherProcess'
  BY DEF IInv, Shape, Reading, NeverAnotherProcess
<1> QED
  BY <1>1, <1>2, <1>4, <1>5 DEF IInv

(* The write moves whoever has the pid now; move_pid will say so of that    *)
(* process only.                                                            *)
LEMMA WriteProcsIInv ==
    ASSUME IInv, WriteProcs
    PROVE  IInv'
<1> USE DEF hierarchy, history
<1> DEFINE p == worker.pid
           target == The(resolve_target_dir(worker.name))
<1>1. /\ p \in Pids /\ worker.before \in Starts /\ been[p][worker.before] # {}
      /\ proc[p].start \in 0..MaxStart
  BY DEF WriteProcs, IInv, Shape, Moving
<1>2. CASE worker' = Idle /\ UNCHANGED <<proc, been>>
  <2>1. worker'.pc = "idle"
    BY <1>2 DEF Idle
  <2>2. Reading' /\ Moving' /\ NeverAnotherProcess'
    BY <2>1 DEF WriteProcs, Reading, Moving, NeverAnotherProcess, IInv
  <2> QED
    BY <1>2, <2>1, <2>2, WorkerOnly DEF Idle, WriteProcs
<1>3. CASE /\ proc[p].start # 0
           /\ proc' = [proc EXCEPT ![p].cgroup = target]
           /\ been' = [been EXCEPT ![p][proc[p].start] = @ \cup {target}]
           /\ worker' = [worker EXCEPT !.pc = "verify", !.moved = proc[p].start]
  <2> HIDE DEF target
  <2>1. UNCHANGED <<cache, falseAnswer>> /\ proc[p].start \in Starts
    <3>1. UNCHANGED <<cache, falseAnswer>>
      BY DEF WriteProcs
    <3>2. proc[p].start \in Starts
      BY <1>1, <1>3 DEF Starts
    <3> QED
      BY <3>1, <3>2
  <2>2. \A q \in Pids, t \in Starts : been[q][t] \subseteq been'[q][t]
    BY <1>1, <1>3, <2>1, SMTT(30) DEF IInv, Shape
  <2>0. proc' = [proc EXCEPT ![p] = [start |-> proc[p].start, cgroup |-> target]]
    BY <1>1, <1>3, OneField DEF IInv
  <2>3. /\ \A q \in Pids : proc'[q].start = proc[q].start
        /\ \A q \in Pids \ {p} : proc'[q].cgroup = proc[q].cgroup
        /\ proc'[p].cgroup = target /\ target \in been'[p][proc[p].start]
    <3>1. target \in been'[p][proc[p].start]
      BY <1>1, <1>3, <2>1 DEF IInv, Shape
    <3>2. /\ proc'[p] = [start |-> proc[p].start, cgroup |-> target]
          /\ \A q \in Pids \ {p} : proc'[q] = proc[q]
      BY <1>1, <2>0, OneProcess, ZenonT(60) DEF IInv
    <3> QED
      BY <3>1, <3>2
  <2>4. /\ worker'.pc = "verify" /\ worker'.pid = p /\ worker'.before = worker.before
        /\ worker'.moved = proc[p].start
    BY <1>3 DEF IInv, Shape
  <2>5. Shape'
    <3>1. /\ proc' = [q \in Pids |-> proc'[q]]
          /\ \A q \in Pids : /\ proc'[q] = [start |-> proc'[q].start, cgroup |-> proc'[q].cgroup]
                             /\ proc'[q].start \in 0..MaxStart
      BY <1>1, <2>0, OneProcess DEF IInv
    <3>2. been' = [q \in Pids |-> [t \in Starts |-> been'[q][t]]]
      BY <1>1, <1>3, <2>1, ZenonT(60) DEF IInv, Shape
    <3>3. worker' = [pc |-> worker'.pc, pid |-> worker'.pid, name |-> worker'.name,
                     start |-> worker'.start, path |-> worker'.path,
                     before |-> worker'.before, moved |-> worker'.moved]
      BY <1>3 DEF IInv, Shape
    <3> QED
      BY <1>1, <2>1, <2>3, <2>4, <3>1, <3>2, <3>3 DEF IInv, Shape
  <2>6. Located'
    <3>1. \A q \in Pids : proc[q].start # 0 => proc[q].start \in Starts
      BY DEF IInv, Shape, Starts
    <3> HIDE DEF p
    <3> QED
      BY <2>2, <2>3, <3>1 DEF IInv, Located
  <2>7. CacheIsOwn'
    BY <2>1, <2>2 DEF IInv, CacheIsOwn
  <2>8. Reading' /\ NeverAnotherProcess'
    BY <2>1, <2>4 DEF IInv, Reading, NeverAnotherProcess
  <2>9. Moving'
    <3>1. been'[p][worker.before] # {}
      BY <1>1, <2>2
    <3> QED
      BY <1>1, <2>3, <2>4, <3>1 DEF Moving
  <2> QED
    BY <2>5, <2>6, <2>7, <2>8, <2>9 DEF IInv
<1> QED
  BY <1>2, <1>3 DEF WriteProcs

(* The kernel and the other users of the hierarchy.                         *)
LEMMA ProcessesIInv ==
    ASSUME IInv, ProcessExits \/ ProcessStarts \/ ProcessMigrates \/ Tick
    PROVE  IInv'
<1> USE DEF hierarchy, history
<1>1. ASSUME NEW p \in Pids, Exit(p) PROVE IInv'
  <2>1. proc' = [proc EXCEPT ![p] = [start |-> 0, cgroup |-> proc[p].cgroup]]
    BY <1>1, OneField DEF Exit, IInv
  <2>2. UNCHANGED <<been, cache, worker, falseAnswer>> /\ 0 \in 0..MaxStart
    BY <1>1 DEF Exit
  <2>3. /\ proc' = [q \in Pids |-> proc'[q]]
        /\ proc'[p].start = 0 /\ \A q \in Pids \ {p} : proc'[q] = proc[q]
        /\ \A q \in Pids : /\ proc'[q] = [start |-> proc'[q].start, cgroup |-> proc'[q].cgroup]
                           /\ proc'[q].start \in 0..MaxStart
    BY <2>1, <2>2, OneProcess DEF IInv
  <2>4. Shape'
    BY <2>2, <2>3 DEF IInv, Shape
  <2> QED
    BY <2>2, <2>3, <2>4, Lives
<1>2. ASSUME NEW p \in Pids, Spawn(p) PROVE IInv'
  <2>0. PICK s \in Starts, c \in host.populated :
          /\ been[p][s] = {}
          /\ proc' = [proc EXCEPT ![p] = [start |-> s, cgroup |-> c]]
          /\ been' = [been EXCEPT ![p][s] = {c}]
    BY <1>2 DEF Spawn, Starts
  <2>1. /\ been' = [q \in Pids |-> [t \in Starts |-> been'[q][t]]]
        /\ c \in been'[p][s] /\ \A q \in Pids, t \in Starts : been[q][t] \subseteq been'[q][t]
    <3>1. been' = [q \in Pids |-> [t \in Starts |-> been'[q][t]]]
      <4>1. been = [q \in Pids |-> [t \in Starts |-> been[q][t]]]
        BY DEF IInv, Shape
      <4> QED
        BY <2>0, <4>1
    <3>2. c \in been'[p][s]
      BY <2>0 DEF IInv, Shape
    <3>3. \A q \in Pids, t \in Starts : been[q][t] \subseteq been'[q][t]
      BY <2>0 DEF IInv, Shape
    <3> QED
      BY <3>1, <3>2, <3>3
  <2>2. UNCHANGED <<cache, worker, falseAnswer>> /\ s \in 0..MaxStart
    BY <1>2 DEF Spawn, Starts
  <2>3. /\ proc' = [q \in Pids |-> proc'[q]]
        /\ proc'[p].start = s /\ proc'[p].cgroup = c
        /\ \A q \in Pids \ {p} : proc'[q] = proc[q]
        /\ \A q \in Pids : /\ proc'[q] = [start |-> proc'[q].start, cgroup |-> proc'[q].cgroup]
                           /\ proc'[q].start \in 0..MaxStart
    BY <2>0, <2>2, OneProcess DEF IInv
  <2>4. Shape'
    BY <2>1, <2>2, <2>3 DEF IInv, Shape
  <2> QED
    BY <2>0, <2>1, <2>2, <2>3, <2>4, Lives
<1>3. ASSUME NEW p \in Pids, Migrate(p) PROVE IInv'
  <2>0. PICK c \in host.populated :
          /\ proc' = [proc EXCEPT ![p].cgroup = c]
          /\ been' = [been EXCEPT ![p][proc[p].start] = @ \cup {c}]
    BY <1>3 DEF Migrate
  <2>1. UNCHANGED <<cache, worker, falseAnswer>>
        /\ proc[p].start \in Starts /\ proc[p].start \in 0..MaxStart
    BY <1>3 DEF Migrate, IInv, Shape, Starts
  <2>2. proc' = [proc EXCEPT ![p] = [start |-> proc[p].start, cgroup |-> c]]
    BY <2>0, OneField DEF IInv
  <2>3. /\ been' = [q \in Pids |-> [t \in Starts |-> been'[q][t]]]
        /\ c \in been'[p][proc[p].start]
        /\ \A q \in Pids, t \in Starts : been[q][t] \subseteq been'[q][t]
    BY <2>0, <2>1, ZenonT(60) DEF IInv, Shape
  <2>4. /\ proc' = [q \in Pids |-> proc'[q]]
        /\ proc'[p].start = proc[p].start /\ proc'[p].cgroup = c
        /\ \A q \in Pids \ {p} : proc'[q] = proc[q]
        /\ \A q \in Pids : /\ proc'[q] = [start |-> proc'[q].start, cgroup |-> proc'[q].cgroup]
                           /\ proc'[q].start \in 0..MaxStart
    BY <2>1, <2>2, OneProcess DEF IInv
  <2>5. Shape'
    BY <2>1, <2>3, <2>4 DEF IInv, Shape
  <2> QED
    BY <2>1, <2>3, <2>4, <2>5, Lives
<1>4. CASE Tick
  <2>1. \A p \in Pids : \A e \in cache'[p] :
            \E d \in cache[p] : e = [start |-> d.start, path |-> d.path, fresh |-> FALSE]
    BY <1>4 DEF Tick, IInv, CacheIsOwn
  <2>2. UNCHANGED <<proc, been, worker, falseAnswer>> /\ cache' = [p \in Pids |-> cache'[p]]
    BY <1>4 DEF Tick
  <2>3. CacheIsOwn'
    BY <2>1, <2>2 DEF IInv, CacheIsOwn
  <2>4. Shape'
    BY <2>2 DEF IInv, Shape
  <2>5. Located'
    BY <2>2 DEF IInv, Located
  <2>6. Reading' /\ Moving' /\ NeverAnotherProcess'
    BY <2>2 DEF IInv, Reading, Moving, NeverAnotherProcess
  <2> QED
    BY <2>3, <2>4, <2>5, <2>6 DEF IInv
<1> QED
  BY <1>1, <1>2, <1>3, <1>4 DEF ProcessExits, ProcessStarts, ProcessMigrates

(* One case for each part of the system.                                    *)
LEMMA StepIInv == IInv /\ [Next]_vars => IInv'
<1> SUFFICES ASSUME IInv, [Next]_vars PROVE IInv'
  OBVIOUS
<1> USE DEF hierarchy, history
<1>1. CASE UNCHANGED vars
  BY <1>1, Elsewhere DEF vars
<1>2. CASE CreateCgroup \/ EnableCpu \/ CreateDirAll \/ SetSettings
  BY <1>2, Elsewhere DEF CreateCgroup, Create, EnableCpu, CreateDirAll, SetSettings
<1>3. CASE TakeReport \/ Resolve \/ ReadCgroup \/ WriteWeight
  BY <1>3, Resolves
<1>4. CASE Recheck
  BY <1>4, RecheckIInv
<1>5. CASE OpenProcs \/ CheckStart \/ Verify
  BY <1>5, Moves
<1>6. CASE WriteProcs
  BY <1>6, WriteProcsIInv
<1>7. CASE ProcessExits \/ ProcessStarts \/ ProcessMigrates \/ Tick
  BY <1>7, ProcessesIInv
<1> QED
  BY <1>1, <1>2, <1>3, <1>4, <1>5, <1>6, <1>7 DEF Next

(* For any hierarchy and any number of processes: the cgroup the resolver   *)
(* answers, from the cache too, is one that the process with the start time *)
(* it read has been in, and move_pid says true only of the process it       *)
(* moved, whichever of its steps the pid changes hands between              *)
(* (process.rs resolve, manager.rs move_pid).                               *)
THEOREM RecycledPidNoticed == Spec => []NeverAnotherProcess
<1>1. Spec => []IInv
  BY InitIInv, StepIInv, PTL DEF Spec
<1> QED
  BY <1>1, PTL DEF IInv

-----------------------------------------------------------------------------
(* Paths.                                                                   *)

(* A prefix, position by position.                                          *)
LEMMA PrefixPoints ==
    ASSUME NEW s \in Seq(STRING), NEW t \in Seq(STRING)
    PROVE  IsPrefix(s, t) <=> Len(s) <= Len(t) /\ \A i \in 1..Len(s) : s[i] = t[i]
<1>1. Len(s) \in Nat /\ SubSeq(s, 1, Len(s)) = s
  BY SubSeqFull
<1>2. ASSUME Len(s) <= Len(t)
      PROVE  /\ SubSeq(t, 1, Len(s)) \in Seq(STRING) /\ Len(SubSeq(t, 1, Len(s))) = Len(s)
             /\ \A i \in 1..Len(s) : SubSeq(t, 1, Len(s))[i] = t[i]
  BY <1>1, <1>2
<1>3. ASSUME Len(s) <= Len(t), \A i \in 1..Len(s) : s[i] = t[i]
      PROVE  SubSeq(t, 1, Len(s)) = s
  BY <1>1, <1>2, <1>3, SeqEqual
<1> QED
  BY <1>1, <1>2, <1>3 DEF IsPrefix

(* The first k segments of a path.                                          *)
LEMMA Beginning ==
    ASSUME NEW t \in Seq(STRING), NEW k \in 0..Len(t)
    PROVE  /\ SubSeq(t, 1, k) \in Seq(STRING) /\ Len(SubSeq(t, 1, k)) = k
           /\ \A i \in 1..k : SubSeq(t, 1, k)[i] = t[i]
OBVIOUS

(* The front part of a path below s is at or below s if it is as long, and  *)
(* else the front part of s.                                                *)
LEMMA FrontPart ==
    ASSUME NEW s \in Seq(STRING), NEW t \in Seq(STRING), IsPrefix(s, t), NEW k \in 0..Len(t)
    PROVE  /\ SubSeq(t, 1, k) \in Seq(STRING)
           /\ Len(s) <= k => IsPrefix(s, SubSeq(t, 1, k))
           /\ k <= Len(s) => SubSeq(t, 1, k) = SubSeq(s, 1, k)
<1> DEFINE u == SubSeq(t, 1, k)
           v == SubSeq(s, 1, k)
<1>1. /\ u \in Seq(STRING) /\ Len(u) = k /\ \A i \in 1..k : u[i] = t[i]
      /\ Len(s) \in Nat /\ Len(t) \in Nat
  OBVIOUS
<1>2. Len(s) <= Len(t) /\ \A i \in 1..Len(s) : s[i] = t[i]
  BY PrefixPoints
<1>3. k <= Len(s) => v \in Seq(STRING) /\ Len(v) = k /\ \A i \in 1..k : v[i] = s[i]
  OBVIOUS
<1> HIDE DEF u, v
<1>4. ASSUME Len(s) <= k PROVE IsPrefix(s, u)
  BY <1>1, <1>2, <1>4, PrefixPoints
<1>5. ASSUME k <= Len(s) PROVE u = v
  <2>1. ASSUME NEW i \in 1..k PROVE u[i] = v[i]
    <3>1. i \in 1..Len(s)
      BY <1>1, <1>5
    <3> QED
      BY <1>1, <1>2, <1>3, <1>5, <3>1
  <2> QED
    BY <1>1, <1>3, <1>5, <2>1, SeqEqual
<1> QED
  BY <1>1, <1>4, <1>5 DEF u, v

(* A path strictly below s has its parent at or below s.                    *)
LEMMA ParentBelow ==
    ASSUME NEW s \in Seq(STRING), NEW t \in Seq(STRING), IsPrefix(s, t), s # t
    PROVE  IsPrefix(s, Front(t))
<1>1. Len(s) \in Nat /\ Len(t) \in Nat /\ Len(s) <= Len(t)
      /\ \A i \in 1..Len(s) : s[i] = t[i]
  BY PrefixPoints
<1>2. Len(s) # Len(t)
  BY <1>1, SeqEqual
<1>3. Len(t) - 1 \in 0..Len(t) /\ Len(s) <= Len(t) - 1
  BY <1>1, <1>2
<1> QED
  BY <1>3, FrontPart DEF Front

-----------------------------------------------------------------------------
(* The daemon stays inside its delegated root.                              *)

Owned(c) == \E r \in root : IsPrefix(r, c)

(* The root exists with all that is above it, so a cgroup that has to be    *)
(* created is below it; and what create_cgroup makes and move_pid writes to *)
(* has been classified as owned.                                            *)
Inside ==
    /\ creator = [pc |-> creator.pc, target |-> creator.target]
    /\ V2 =>
           /\ host \in Hosts /\ root \subseteq Seq(STRING) /\ \A r, q \in root : r = q
           /\ \A r \in root : r \in dirs /\ \A k \in 0..Len(r) : SubSeq(r, 1, k) \in dirs
           /\ creator.pc = "enable" => creator.target \notin dirs
           /\ creator.pc \in {"enable", "mkdir"} =>
                 creator.target \in Seq(STRING) /\ Owned(creator.target)
           /\ worker.pc \in {"check", "write"} =>
                 \E c \in resolve_target_dir(worker.name) : Owned(c)
           /\ \A c \in structural : Owned(c)

(* On v2 the classification is this.                                        *)
LEMMA Classified ==
    ASSUME V2, NEW c
    PROVE  (classify(c) = "owned" <=> Owned(c)) /\ (classify(c) # "foreign" => Owned(c))
           /\ classify(c) # "legacy"
BY DEF classify, Owned, AtOrBelow

(* usable_root gives the daemon's cgroup or the one above it.               *)
LEMMA InitInside == Init => Inside
<1> SUFFICES ASSUME Init, V2 PROVE Inside
  BY DEF Inside, Init
<1> DEFINE self == host.self
<1>1. host \in Hosts /\ self \in Seq(STRING) /\ Len(self) \in Nat
      /\ \A k \in 0..Len(self) : SubSeq(self, 1, k) \in dirs
  BY DEF Init
<1>2. root \subseteq {self} \/ (self # <<>> /\ root \subseteq {Front(self)})
  BY DEF Init, discover_delegated_root, usable_root, Parent
<1> HIDE DEF self
<1>3. SubSeq(self, 1, Len(self)) = self
  BY <1>1, SubSeqFull
<1>4. ASSUME self # <<>>
      PROVE  /\ Front(self) \in Seq(STRING) /\ Front(self) \in dirs
             /\ Len(Front(self)) = Len(self) - 1
             /\ \A k \in 0..(Len(self) - 1) : SubSeq(Front(self), 1, k) \in dirs
  <2>1. Len(self) - 1 \in 0..Len(self) /\ Front(self) = SubSeq(self, 1, Len(self) - 1)
    BY <1>1, <1>4 DEF Front
  <2>2. Front(self) \in Seq(STRING) /\ Len(Front(self)) = Len(self) - 1
        /\ \A i \in 1..Len(Front(self)) : Front(self)[i] = self[i]
    <3> DEFINE n == Len(self) - 1
    <3>1. n \in 0..Len(self) /\ Front(self) = SubSeq(self, 1, n)
      BY <2>1
    <3> HIDE DEF n
    <3>2. /\ Front(self) \in Seq(STRING) /\ Len(Front(self)) = n
          /\ \A i \in 1..n : Front(self)[i] = self[i]
      BY <1>1, <3>1, Beginning
    <3> QED
      BY <3>2 DEF n
  <2>3. IsPrefix(Front(self), self)
    <3>1. Len(Front(self)) <= Len(self)
      BY <1>1, <2>2
    <3> QED
      BY <1>1, <2>2, <3>1, PrefixPoints
  <2>4. ASSUME NEW k \in 0..(Len(self) - 1) PROVE SubSeq(Front(self), 1, k) \in dirs
    <3>1. k \in 0..Len(self) /\ k <= Len(Front(self))
      BY <1>1, <2>2
    <3>2. SubSeq(self, 1, k) = SubSeq(Front(self), 1, k)
      BY <1>1, <2>2, <2>3, <3>1, FrontPart
    <3> QED
      BY <1>1, <3>1, <3>2
  <2> QED
    BY <1>1, <2>1, <2>2, <2>4
<1>5. root \subseteq Seq(STRING) /\ \A r, q \in root : r = q
  BY <1>1, <1>2, <1>4
<1>6. ASSUME NEW r \in root PROVE r \in dirs /\ \A k \in 0..Len(r) : SubSeq(r, 1, k) \in dirs
  <2>1. CASE r = self
    <3>1. Len(self) \in 0..Len(self)
      BY <1>1
    <3> QED
      BY <1>1, <1>3, <2>1, <3>1
  <2>2. CASE self # <<>> /\ r = Front(self)
    BY <1>4, <2>2
  <2> QED
    BY <1>2, <2>1, <2>2
<1>7. creator = [pc |-> "idle", target |-> <<>>] /\ worker.pc = "idle" /\ structural = {}
  BY DEF Init, Idle
<1> QED
  BY <1>1, <1>5, <1>6, <1>7 DEF Inside

(* A step that leaves the hierarchy and its builder alone.                  *)
LEMMA NotInside ==
    ASSUME Inside, UNCHANGED <<host, root, dirs, creator, structural>>,
           V2 /\ worker'.pc \in {"check", "write"} =>
               \E c \in resolve_target_dir(worker'.name) : Owned(c)
    PROVE  Inside'
<1>1. V2' = V2 /\ (\A c : Owned(c)' = Owned(c))
      /\ resolve_target_dir(worker.name)' = resolve_target_dir(worker'.name)
  BY DEF V2, Owned, resolve_target_dir
<1> QED
  BY <1>1 DEF Inside

(* A step of create_cgroup, by what it does to its target and to the        *)
(* hierarchy.                                                               *)
LEMMA Builds ==
    ASSUME Inside, UNCHANGED <<host, root, worker>>, dirs \subseteq dirs',
           creator' = [pc |-> creator'.pc, target |-> creator'.target],
           V2 /\ creator'.pc = "enable" => creator'.target \notin dirs',
           V2 /\ creator'.pc \in {"enable", "mkdir"} =>
               creator'.target \in Seq(STRING) /\ Owned(creator'.target),
           V2 => \A c \in structural' : c \in structural \/ Owned(c)
    PROVE  Inside'
<1>1. V2' = V2 /\ (\A c : Owned(c)' = Owned(c))
      /\ resolve_target_dir(worker.name)' = resolve_target_dir(worker.name)
  BY DEF V2, Owned, resolve_target_dir
<1> QED
  BY <1>1 DEF Inside

(* Create looks at the target's class before it makes it.                   *)
LEMMA CreateInside ==
    ASSUME Inside, NEW n \in host.names, Create(n)
    PROVE  Inside'
<1>1. UNCHANGED <<host, root, dirs, worker, structural>>
  BY DEF Create, hierarchy, history
<1>2. CASE UNCHANGED creator
  BY <1>1, <1>2, Builds DEF Inside
<1>3. ASSUME NEW target \in resolve_target_dir(n), creator' = StepFor(target, TRUE)
      PROVE  Inside'
  <2>1. ASSUME V2 PROVE target \in Seq(STRING)
    <3>1. n.path \in Seq(STRING) /\ root \subseteq Seq(STRING)
      BY <2>1 DEF Inside
    <3>2. target = n.path \/ \E r \in root : target = r \o n.path
      BY <1>3, <2>1 DEF resolve_target_dir
    <3> QED
      BY <3>1, <3>2, ConcatProperties, ZenonT(60)
  <2>2. ASSUME V2, creator'.pc \in {"enable", "mkdir"}
        PROVE  target \notin dirs /\ Owned(target) /\ creator'.target = target
    BY <1>3, <2>2, Classified DEF StepFor
  <2>3. creator' = [pc |-> creator'.pc, target |-> creator'.target]
    BY <1>3 DEF StepFor
  <2> QED
    BY <1>1, <2>1, <2>2, <2>3, Builds
<1> QED
  BY <1>2, <1>3 DEF Create

(* ensure_child's parent is not classified, but it is the root or below it: *)
(* the target does not exist, and the root does.                            *)
LEMMA EnableInside ==
    ASSUME Inside, EnableCpu
    PROVE  Inside'
<1>1. /\ UNCHANGED <<host, root, dirs, worker>> /\ creator.pc = "enable"
      /\ creator' = [creator EXCEPT !.pc = "mkdir"]
      /\ structural' \subseteq structural \cup {Parent(creator.target)}
  BY DEF EnableCpu, hierarchy
<1>2. ASSUME V2 PROVE creator.target \in Seq(STRING) /\ Owned(creator.target)
                      /\ Owned(Parent(creator.target))
  <2>1. creator.target \in Seq(STRING) /\ Owned(creator.target) /\ creator.target \notin dirs
    BY <1>1, <1>2 DEF Inside
  <2>2. PICK r \in root : IsPrefix(r, creator.target)
    BY <2>1 DEF Owned
  <2>3. r \in Seq(STRING) /\ r # creator.target
    BY <1>2, <2>1 DEF Inside
  <2> QED
    BY <2>1, <2>2, <2>3, ParentBelow DEF Owned, Parent
<1>3. creator' = [pc |-> "mkdir", target |-> creator.target]
  BY <1>1 DEF Inside
<1> QED
  BY <1>1, <1>2, <1>3, Builds

(* create_dir_all makes nothing above the root.                             *)
LEMMA MkdirInside ==
    ASSUME Inside, CreateDirAll
    PROVE  Inside'
<1> DEFINE new == {SubSeq(creator.target, 1, k) : k \in 0..Len(creator.target)} \ dirs
<1>1. /\ UNCHANGED <<host, root, worker>> /\ creator.pc = "mkdir"
      /\ creator' = [creator EXCEPT !.pc = "settings"]
      /\ dirs' = dirs \cup new /\ structural' = structural \cup new
  BY DEF CreateDirAll, hierarchy
<1>2. ASSUME V2, NEW c \in new PROVE Owned(c)
  <2>1. creator.target \in Seq(STRING) /\ Owned(creator.target)
    BY <1>1, <1>2 DEF Inside
  <2>2. PICK r \in root : IsPrefix(r, creator.target)
    BY <2>1 DEF Owned
  <2>3. PICK k \in 0..Len(creator.target) : c = SubSeq(creator.target, 1, k)
    OBVIOUS
  <2>4. r \in Seq(STRING) /\ c \notin dirs /\ \A j \in 0..Len(r) : SubSeq(r, 1, j) \in dirs
    BY <1>2 DEF Inside
  <2>5. Len(r) \in Nat /\ Len(creator.target) \in Nat
    BY <2>1, <2>4
  <2>6. CASE k <= Len(r)
    <3>1. k \in 0..Len(r) /\ c = SubSeq(r, 1, k)
      BY <2>1, <2>2, <2>3, <2>4, <2>5, <2>6, FrontPart
    <3> QED
      BY <2>4, <3>1
  <2>7. CASE Len(r) <= k
    BY <2>1, <2>2, <2>3, <2>4, <2>7, FrontPart DEF Owned
  <2> QED
    BY <2>5, <2>6, <2>7
<1>3. creator' = [pc |-> "settings", target |-> creator.target]
  BY <1>1 DEF Inside
<1> QED
  BY <1>1, <1>2, <1>3, Builds

(* set_cpu_max asks for the class again.                                    *)
LEMMA SettingsInside ==
    ASSUME Inside, SetSettings
    PROVE  Inside'
<1>1. /\ UNCHANGED <<host, root, dirs, worker>>
      /\ creator' = [pc |-> "idle", target |-> <<>>]
      /\ structural' \subseteq structural
             \cup {c \in {creator.target} : classify(c) # "foreign"}
  BY DEF SetSettings, hierarchy
<1>2. ASSUME V2, NEW c \in structural' PROVE c \in structural \/ Owned(c)
  BY <1>1, <1>2, Classified
<1> QED
  BY <1>1, <1>2, Builds

(* The resolver and the end of a move have nothing to do with classes;      *)
(* OpenProcs classifies the target.                                         *)
LEMMA WorkerInside ==
    ASSUME IInv, Inside, TakeReport \/ Resolve \/ ReadCgroup \/ Recheck \/ WriteWeight
                         \/ OpenProcs \/ CheckStart \/ Verify
    PROVE  Inside'
<1> USE DEF hierarchy, history
<1>0. worker = [pc |-> worker.pc, pid |-> worker.pid, name |-> worker.name,
                start |-> worker.start, path |-> worker.path,
                before |-> worker.before, moved |-> worker.moved]
  BY DEF IInv, Shape
<1>1. UNCHANGED <<host, root, dirs, creator, structural>>
  BY DEF TakeReport, Take, Resolve, ReadCgroup, Recheck, WriteWeight, OpenProcs, CheckStart,
         Verify
<1>2. CASE TakeReport \/ Verify
  <2>1. worker'.pc \notin {"check", "write"}
    <3>1. CASE TakeReport
      <4>1. PICK p \in Pids, n \in host.names : Take(p, n)
        BY <3>1 DEF TakeReport
      <4>2. worker'.pc = IF V2 THEN "resolve" ELSE "open"
        BY <4>1 DEF Take
      <4> QED
        BY <4>2
    <3>2. CASE Verify
      <4>1. worker' = Idle
        BY <3>2 DEF Verify
      <4> QED
        BY <4>1 DEF Idle
    <3> QED
      BY <1>2, <3>1, <3>2
  <2> QED
    BY <1>1, <2>1, NotInside
<1>3. CASE Resolve \/ ReadCgroup
  <2>1. worker'.pc \in {"open", "weight", "read", "recheck"}
    BY <1>0, <1>3 DEF Resolve, ReadCgroup
  <2> QED
    BY <1>1, <2>1, NotInside
<1>4. CASE Recheck \/ WriteWeight
  <2>1. worker'.pc \in {"open", "weight"}
    BY <1>0, <1>4 DEF Recheck, WriteWeight
  <2> QED
    BY <1>1, <2>1, NotInside
<1>5. CASE OpenProcs
  <2>1. CASE worker' = Idle
    BY <1>1, <2>1, NotInside DEF Idle
  <2>2. CASE /\ worker' = [worker EXCEPT !.pc = "check"]
             /\ \E c \in resolve_target_dir(worker.name) : classify(c) # "foreign"
    <3>1. worker'.name = worker.name
      BY <1>0, <2>2
    <3>2. V2 => \E c \in resolve_target_dir(worker.name) : Owned(c)
      BY <2>2, Classified
    <3> QED
      BY <1>1, <3>1, <3>2, NotInside
  <2> QED
    BY <1>5, <2>1, <2>2 DEF OpenProcs
<1>6. CASE CheckStart
  <2>1. worker.pc = "check" /\ (worker' = Idle \/ worker'.name = worker.name)
    BY <1>0, <1>6 DEF CheckStart
  <2> QED
    BY <1>1, <2>1, NotInside, SMTT(30) DEF Idle, Inside
<1> QED
  BY <1>2, <1>3, <1>4, <1>5, <1>6

(* The write goes to the target that was classified: there is one at most.  *)
LEMMA WriteInside ==
    ASSUME IInv, Inside, WriteProcs
    PROVE  Inside'
<1> DEFINE target == The(resolve_target_dir(worker.name))
<1>1. /\ UNCHANGED <<host, root, dirs, creator>> /\ worker.pc = "write"
      /\ structural' \subseteq structural \cup {target}
  BY DEF WriteProcs, hierarchy
<1>2. worker'.pc \in {"verify", "idle"}
  <2>1. worker = [pc |-> worker.pc, pid |-> worker.pid, name |-> worker.name,
                  start |-> worker.start, path |-> worker.path,
                  before |-> worker.before, moved |-> worker.moved]
    BY DEF IInv, Shape
  <2> DEFINE now == proc[worker.pid].start
  <2>2. worker' = Idle \/ worker' = [worker EXCEPT !.pc = "verify", !.moved = now]
    BY DEF WriteProcs
  <2> HIDE DEF now
  <2>3. Idle.pc = "idle"
    BY DEF Idle
  <2>4. [worker EXCEPT !.pc = "verify", !.moved = now].pc = "verify"
    BY <2>1
  <2> QED
    BY <2>2, <2>3, <2>4
<1>3. ASSUME V2 PROVE Owned(target)
  <2>1. PICK c \in resolve_target_dir(worker.name) : Owned(c)
    BY <1>1, <1>3 DEF Inside
  <2>2. \A d, e \in resolve_target_dir(worker.name) : d = e
    <3>1. \A r, q \in root : r = q
      BY <1>3 DEF Inside
    <3> QED
      BY <3>1, ZenonT(60) DEF resolve_target_dir
  <2>3. target \in resolve_target_dir(worker.name)
    BY <2>1 DEF The
  <2> QED
    BY <2>1, <2>2, <2>3
<1>4. V2' = V2 /\ (\A c : Owned(c)' = Owned(c))
  BY <1>1 DEF V2, Owned
<1> HIDE DEF target
<1> QED
  BY <1>1, <1>2, <1>3, <1>4 DEF Inside

(* Every step keeps the daemon inside.                                      *)
LEMMA StepInside == IInv /\ Inside /\ [Next]_vars => Inside'
<1> SUFFICES ASSUME IInv, Inside, [Next]_vars PROVE Inside'
  OBVIOUS
<1> USE DEF hierarchy, history
<1>1. CASE UNCHANGED vars \/ ProcessExits \/ ProcessStarts \/ ProcessMigrates \/ Tick
  <2>1. UNCHANGED <<host, root, dirs, creator, structural, worker>>
    BY <1>1 DEF vars, ProcessExits, Exit, ProcessStarts, Spawn, ProcessMigrates, Migrate, Tick
  <2> QED
    BY <2>1, NotInside DEF Inside
<1>2. CASE CreateCgroup \/ EnableCpu \/ CreateDirAll \/ SetSettings
  BY <1>2, CreateInside, EnableInside, MkdirInside, SettingsInside DEF CreateCgroup
<1>3. CASE TakeReport \/ Resolve \/ ReadCgroup \/ Recheck \/ WriteWeight \/ OpenProcs
           \/ CheckStart \/ Verify
  BY <1>3, WorkerInside
<1>4. CASE WriteProcs
  BY <1>4, WriteInside
<1> QED
  BY <1>1, <1>2, <1>3, <1>4 DEF Next

(* On v2, for any hierarchy, any names of rules and any place of the        *)
(* daemon: no cgroup outside the delegated root is created, given a         *)
(* controller, limited or given a process (manager.rs classify,             *)
(* ensure_child, set_cpu_max, move_pid).                                    *)
THEOREM SingleWriter == Spec => []ForeignUntouched
<1>1. Inside => ForeignUntouched
  BY Classified DEF Inside, ForeignUntouched
<1> QED
  BY <1>1, InitIInv, StepIInv, InitInside, StepInside, PTL DEF Spec
=============================================================================
