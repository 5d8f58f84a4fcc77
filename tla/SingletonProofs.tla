-------------------------- MODULE SingletonProofs --------------------------
(***************************************************************************)
(* One daemon at a time, for any number of pids, programs and objects.      *)
(***************************************************************************)
EXTENDS Singleton, TLAPS

USE ProgramsAssumption, EmptyAssumption, MaxObjectsAssumption

(* A process owns an object exactly while it is a daemon, objects are       *)
(* numbered as they are created, and one not created yet is empty.          *)
Ownership ==
    /\ \A p \in Pids : Daemon(p) <=> own[p] # None
    /\ name <= objects /\ \A p \in Pids : own[p] <= objects
    /\ \A o \in Objects : o > objects => content[o] = Empty

IInv == TypeOK /\ Ownership /\ ObjectNamesItsCreator /\ OneDaemon

(* Before the first process there is no object and no daemon.               *)
LEMMA InitIInv == Init => IInv
<1> SUFFICES ASSUME Init PROVE IInv
  OBVIOUS
<1> USE DEF Init, Daemon, DaemonStates, RsStates, None, Objects
<1>1. TypeOK
  <2>1. proc \in [Pids -> RsStates \cup {"dead", "other"}] /\ removed \in BOOLEAN
    OBVIOUS
  <2>2. /\ content \in [Objects -> Pids \cup {Empty}]
        /\ own \in [Pids -> Objects \cup {None}] /\ target \in [Pids -> Pids \cup {Empty}]
    OBVIOUS
  <2>3. name \in Objects \cup {None} /\ objects \in 0..MaxObjects
    OBVIOUS
  <2>4. \A p \in Pids : proc[p] # "r_kill"
    OBVIOUS
  <2> QED
    BY <2>1, <2>2, <2>3, <2>4 DEF TypeOK
<1>2. Ownership
  BY DEF Ownership
<1>3. ObjectNamesItsCreator /\ OneDaemon
  BY DEF ObjectNamesItsCreator, OneDaemon
<1> QED
  BY <1>1, <1>2, <1>3 DEF IInv

(* Steps of processes that own nothing and touch neither name nor objects.  *)
LEMMA Bystander ==
    ASSUME IInv, NEW p \in Pids, NEW state \in RsStates \cup {"dead", "other"},
           ~Daemon(p), state \notin DaemonStates \cup {"r_kill"},
           Goto(p, state), UNCHANGED <<name, content, objects, own, target, removed>>
    PROVE  IInv'
BY DEF IInv, TypeOK, Ownership, ObjectNamesItsCreator, OneDaemon, Daemon,
       DaemonStates, RsStates, None, Objects, Goto

(* A process that ends, whatever it was.                                    *)
LEMMA Ends ==
    ASSUME IInv, NEW p \in Pids, Crash(p)
    PROVE  IInv'
BY DEF IInv, TypeOK, Ownership, ObjectNamesItsCreator, OneDaemon, Daemon,
       DaemonStates, RsStates, None, Objects, Goto, Crash

(* O_EXCL: the name stands for nothing, so that until a forced removal no   *)
(* daemon is there, and the object is one that nobody owns.                 *)
LEMMA Creates ==
    ASSUME IInv, NEW p \in Pids, CreateObject(p)
    PROVE  IInv'
<1>1. CASE name # None
  BY <1>1, Bystander DEF CreateObject, Daemon, DaemonStates, RsStates, IInv, TypeOK
<1>2. CASE name = None
  <2> USE <1>2 DEF IInv, TypeOK, Ownership, Daemon, DaemonStates, RsStates, None,
                   Objects, Goto, CreateObject
  <2>1. TypeOK'
    <3>1. objects' \in Objects /\ name' = objects' /\ own' = [own EXCEPT ![p] = objects']
      OBVIOUS
    <3>2. proc' = [proc EXCEPT ![p] = "writing"] /\ UNCHANGED <<content, target, removed>>
      OBVIOUS
    <3> QED
      BY <3>1, <3>2
  <2>2. Ownership'
    OBVIOUS
  <2>3. ObjectNamesItsCreator'
    BY DEF ObjectNamesItsCreator
  <2>4. OneDaemon'
    BY DEF OneDaemon
  <2> QED
    BY <2>1, <2>2, <2>3, <2>4
<1> QED
  BY <1>1, <1>2

(* The write goes into the writer's own object.                             *)
LEMMA Writes ==
    ASSUME IInv, NEW p \in Pids, WritePid(p)
    PROVE  IInv'
<1> USE DEF IInv, TypeOK, Ownership, ObjectNamesItsCreator, Daemon, DaemonStates,
            RsStates, None, Objects, Goto, WritePid
<1>1. own[p] \in Objects /\ own[p] <= objects
  OBVIOUS
<1>2. \A o \in Objects : content'[o] = content[o] \/ (o = own[p] /\ content'[o] = p)
  BY <1>1
<1>3. TypeOK'
  BY <1>1
<1>4. Ownership'
  BY <1>1, <1>2
<1>5. ObjectNamesItsCreator'
  BY <1>1, <1>2
<1>6. OneDaemon'
  BY <1>1, <1>2 DEF OneDaemon
<1> QED
  BY <1>3, <1>4, <1>5, <1>6

(* Until a forced removal the daemon that unlinks the name is the only one. *)
LEMMA Drops ==
    ASSUME IInv, NEW p \in Pids, DropGuard(p)
    PROVE  IInv'
BY DEF IInv, TypeOK, Ownership, ObjectNamesItsCreator, OneDaemon, Daemon,
       DaemonStates, RsStates, None, Objects, Goto, DropGuard

(* The signal ends the command and, where handlers are not installed, its   *)
(* target.                                                                  *)
LEMMA Kills ==
    ASSUME IInv, NEW p \in Pids, ReloadKill(p)
    PROVE  IInv'
<1> USE DEF IInv, TypeOK, Ownership, ObjectNamesItsCreator, OneDaemon, Daemon,
            DaemonStates, RsStates, None, Objects
<1>1. target[p] \in Pids
  BY DEF ReloadKill
<1>2. \A q \in Pids : \/ proc'[q] = "dead" /\ own'[q] = None
                      \/ proc'[q] = proc[q] /\ own'[q] = own[q]
  BY <1>1 DEF ReloadKill
<1>3. TypeOK'
  BY <1>1, <1>2 DEF ReloadKill
<1> QED
  BY <1>2, <1>3 DEF ReloadKill

(* Every step of every process, in the order check_singleton and --reload   *)
(* take them.                                                               *)
LEMMA StepIInv == IInv /\ [Next]_vars => IInv'
<1> SUFFICES ASSUME IInv, [Next]_vars PROVE IInv'
  OBVIOUS
<1>1. CASE UNCHANGED vars
  BY <1>1 DEF vars, IInv, TypeOK, Ownership, ObjectNamesItsCreator, OneDaemon, Daemon
<1>2. ASSUME NEW p \in Pids, NEW program \in Programs, Run(p, program)
      PROVE  IInv'
  BY <1>2, Bystander DEF Run, Daemon, DaemonStates, RsStates
<1>3. ASSUME NEW p \in Pids, Step(p)
      PROVE  IInv'
  <2>1. CASE Crash(p)
    BY <2>1, Ends
  <2>2. CASE OpenObject(p)
    BY <2>2, Bystander DEF OpenObject, Daemon, DaemonStates, RsStates
  <2>3. CASE CreateObject(p)
    BY <2>3, Creates
  <2>4. CASE WritePid(p)
    BY <2>4, Writes
  <2>5. CASE InstallSignals(p)
    BY <2>5 DEF InstallSignals, IInv, TypeOK, Ownership, ObjectNamesItsCreator,
                OneDaemon, Daemon, DaemonStates, RsStates, None, Objects, Goto
  <2>6. CASE DropGuard(p)
    BY <2>6, Drops
  <2>7. CASE Exit(p)
    BY <2>7, Bystander DEF Exit, Daemon, DaemonStates, RsStates
  <2>8. CASE ForceCheck(p)
    BY <2>8, Bystander DEF ForceCheck, Daemon, DaemonStates, RsStates
  <2>9. CASE ForceUnlink(p)
    BY <2>9 DEF ForceUnlink, IInv, TypeOK, Ownership, ObjectNamesItsCreator,
                OneDaemon, Daemon, DaemonStates, RsStates, None, Objects, Goto
  <2>10. CASE ReloadCheck(p)
    <3>1. CASE ~NamesLiveDaemon
      BY <2>10, <3>1, Bystander DEF ReloadCheck, Daemon, DaemonStates, RsStates
    <3>2. CASE NamesLiveDaemon
      <4> USE <2>10, <3>2 DEF ReloadCheck, IInv, Daemon, DaemonStates, RsStates, None,
                              Objects, Goto
      <4>1. content[name] \in Pids
        BY DEF NamesLiveDaemon, LooksLikeDaemon
      <4>2. TypeOK'
        BY <4>1, SMTT(30) DEF TypeOK
      <4>3. \A q \in Pids : Daemon(q)' = Daemon(q)
        BY DEF TypeOK
      <4> QED
        BY <4>2, <4>3 DEF Ownership, ObjectNamesItsCreator, OneDaemon
    <3> QED
      BY <3>1, <3>2
  <2>11. CASE ReloadKill(p)
    BY <2>11, Kills
  <2> QED
    BY <1>3, <2>1, <2>2, <2>3, <2>4, <2>5, <2>6, <2>7, <2>8, <2>9, <2>10, <2>11 DEF Step
<1> QED
  BY <1>1, <1>2, <1>3 DEF Next

(* The inductive invariant of the shared object and its owners (ipc.rs).    *)
THEOREM Invariance == Spec => []IInv
BY InitIInv, StepIInv, PTL DEF Spec

(* The name, the objects and the states of the processes keep their types   *)
(* (ipc.rs check_singleton, SharedMemoryGuard).                             *)
THEOREM TypeCorrect == Spec => []TypeOK
BY Invariance, PTL DEF IInv

(* At most one daemon has passed check_singleton until a forced removal,    *)
(* and --reload reaches it, for any number of processes.                    *)
THEOREM SingleInstance == Spec => []OneDaemon
BY Invariance, PTL DEF IInv

(* Also after forced removals no two daemons share an object, and none      *)
(* names another process (ipc.rs check_singleton).                          *)
THEOREM ObjectsAreOwn == Spec => []ObjectNamesItsCreator
BY Invariance, PTL DEF IInv
=============================================================================
