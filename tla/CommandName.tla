---------------------------- MODULE CommandName ----------------------------
(***************************************************************************)
(* get_command_from_pid: the name a process is matched under, read from     *)
(* /proc file by file while the process execs, exits or its pid changes     *)
(* hands, by several threads that share the cache of exe read failures.     *)
(*                                                                         *)
(* An image is what an exec leaves to be read in /proc; a name is a member  *)
(* of a set, with the pairs that one is a prefix of the other given.        *)
(***************************************************************************)
EXTENDS Naturals, Sequences

CONSTANTS
    MaxPid,         \* process ids are 1..MaxPid
    MaxUses,        \* bound on the processes that have one pid, one after another
    Names,          \* basenames, and the kernel's 15 byte cuts of them
    Prefixes,       \* the pairs <<c, n>>: c is a proper prefix of n
    Images,         \* a set of ImageRecords
    MaxFailures,    \* COMMAND_NAME_HEURISTIC_SKIP_EXE_FAILURES
    CacheSize,      \* MAX_EXE_FAIL_CACHE_SIZE
    Readers         \* the threads that read names

(* argv: the first two non-empty arguments; exe: readable, denied (EACCES)  *)
(* or none (ENOENT); program: the name its rule is written against.         *)
ImageRecord ==
    [argv : Seq(Names), comm : Names, exe : Names, access : {"ok", "denied", "none"},
     program : Names]

ASSUME NamesAssumption ==
    /\ MaxPid \in Nat \ {0} /\ MaxUses \in Nat /\ MaxFailures \in Nat \ {0}
    /\ CacheSize \in Nat \ {0}
    /\ Prefixes \subseteq Names \X Names
    /\ Images \subseteq ImageRecord /\ "<unknown>" \notin Names

Pids == 1..MaxPid

VARIABLES
    proc,       \* each pid's process: its image and which user of the pid it is
    alive,      \* the pids in use
    cache,      \* EXE_FAIL_CACHE: most recently used first
    reader,     \* each thread's call of get_command_from_pid
    denied,     \* history: exe reads that failed on each pid's process
    straddled   \* history: pids whose process got an entry begun on another one

names == <<cache, reader, denied, straddled>>

(* use: the process exe_failures_for looked at; fresh: the process has not  *)
(* changed since the call began (history).                                  *)
Idle == [pc |-> "idle", pid |-> 0, argv |-> <<>>, failures |-> 0, use |-> 0,
         name |-> "<unknown>", fresh |-> TRUE]

ExeFailure == [pid : Pids, start_time : SUBSET (1..MaxUses), count : 1..MaxFailures]

NamesTypeOK ==
    /\ proc \in [Pids -> [image : Images, use : 0..MaxUses]]
    /\ alive \subseteq Pids
    /\ cache \in Seq(ExeFailure) /\ Len(cache) <= CacheSize
    /\ \A i, j \in 1..Len(cache) : cache[i].pid = cache[j].pid => i = j
    /\ \A t \in Readers :
          /\ reader[t].pc \in {"idle", "cmdline", "argcomm", "budget", "exe", "clear",
                               "record", "comm", "done"}
          /\ reader[t].pid \in Pids <=> reader[t].pc # "idle"
          /\ reader[t].failures \in 0..MaxFailures
          /\ reader[t].name \in Names \cup {"<unknown>"}

NamesInit ==
    /\ cache = <<>>
    /\ reader = [t \in Readers |-> Idle]
    /\ denied = [p \in Pids |-> 0] /\ straddled = {}

-----------------------------------------------------------------------------
(* External: processes.  Whoever reads p's name notices nothing.            *)
Disturb(p) ==
    reader' = [t \in Readers |-> IF reader[t].pid = p THEN [reader[t] EXCEPT !.fresh = FALSE]
                                 ELSE reader[t]]

(* The child is a copy of the parent, under an unused pid.                  *)
Spawn(parent, child) ==
    /\ parent \in alive /\ child \notin alive /\ proc[child].use < MaxUses
    /\ proc' = [proc EXCEPT ![child] = [image |-> proc[parent].image, use |-> @.use + 1]]
    /\ alive' = alive \cup {child}
    /\ denied' = [denied EXCEPT ![child] = 0] /\ straddled' = straddled \ {child}
    /\ Disturb(child)
    /\ UNCHANGED cache

Load(p, image) ==
    /\ p \in alive /\ image # proc[p].image
    /\ proc' = [proc EXCEPT ![p].image = image]
    /\ Disturb(p)
    /\ UNCHANGED <<alive, cache, denied, straddled>>

End(p) ==
    /\ p \in alive
    /\ alive' = alive \ {p}
    /\ Disturb(p)
    /\ UNCHANGED <<proc, cache, denied, straddled>>

-----------------------------------------------------------------------------
(* get_start_time: the uses of a pid stand for start times.                 *)
StartTime(p) == IF p \in alive THEN {proc[p].use} ELSE {}

At(t, pc) == reader[t].pc = pc /\ UNCHANGED <<proc, alive>>
Goto(t, pc) == reader' = [reader EXCEPT ![t].pc = pc]
Answer(t, n) == reader' = [reader EXCEPT ![t].pc = "done", ![t].name = n]

Begin(t, p) == reader' = [reader EXCEPT ![t] = [Idle EXCEPT !.pc = "cmdline", !.pid = p]]

(* cmdline: no argument, one, or two, when comm is needed as well.          *)
ReadCmdline(t) ==
    /\ At(t, "cmdline")
    /\ LET p == reader[t].pid
           argv == IF p \in alive THEN proc[p].image.argv ELSE <<>>
       IN  CASE Len(argv) = 0 -> Goto(t, "budget")
             [] Len(argv) = 1 -> Answer(t, argv[1])
             [] OTHER -> reader' = [reader EXCEPT ![t].pc = "argcomm", ![t].argv = argv]
    /\ UNCHANGED <<cache, denied, straddled>>

StartsWith(n, c) == c = n \/ <<c, n>> \in Prefixes

ArgvZero(argv, comm) == argv[1]

resolve_argv_name(argv, comm) ==
    IF comm # "" /\ comm # argv[1] /\ StartsWith(argv[2], comm) THEN argv[2] ELSE argv[1]

(* A comm that cannot be read is taken as empty.                            *)
ReadArgComm(t) ==
    /\ At(t, "argcomm")
    /\ LET p == reader[t].pid
       IN  Answer(t, resolve_argv_name(reader[t].argv,
                                       IF p \in alive THEN proc[p].image.comm ELSE ""))
    /\ UNCHANGED <<cache, denied, straddled>>

Entry(p) == SelectSeq(cache, LAMBDA e : e.pid = p)
Without(p) == SelectSeq(cache, LAMBDA e : e.pid # p)
NoBound(n, s) == s

UpTo(n, s) == SubSeq(s, 1, IF Len(s) < n THEN Len(s) ELSE n)

BudgetByPid(entry, observed) == {entry.count}

remembered_budget(entry, observed) ==
    IF entry.start_time # {} /\ entry.start_time = observed THEN {entry.count} ELSE {}

(* exe_failures_for, under the lock: a hit moves to the front, an entry of  *)
(* another process is dropped.                                              *)
CheckBudget(t) ==
    /\ At(t, "budget")
    /\ LET p == reader[t].pid
           budget == IF Entry(p) = <<>> THEN {}
                     ELSE remembered_budget(Entry(p)[1], StartTime(p))
           failures == IF budget = {} THEN 0 ELSE CHOOSE n \in budget : TRUE
       IN  /\ cache' = IF budget = {} THEN Without(p) ELSE Entry(p) \o Without(p)
           /\ reader' = [reader EXCEPT ![t].failures = failures, ![t].use = proc[p].use,
                             ![t].pc = IF failures < MaxFailures THEN "exe" ELSE "comm"]
    /\ UNCHANGED <<denied, straddled>>

(* readlink: a target, EACCES, or ENOENT.                                   *)
ReadExe(t) ==
    /\ At(t, "exe")
    /\ LET p == reader[t].pid
           access == IF p \in alive THEN proc[p].image.access ELSE "none"
       IN  \/ /\ access = "ok"
              /\ reader' = [reader EXCEPT ![t].name = proc[p].image.exe,
                                ![t].pc = IF reader[t].failures > 0 THEN "clear" ELSE "done"]
              /\ UNCHANGED denied
           \/ /\ access = "denied"
              /\ Goto(t, "record")
              /\ denied' = [denied EXCEPT ![p] = @ + 1]
           \/ /\ access = "none"
              /\ Goto(t, "comm")
              /\ UNCHANGED denied
    /\ UNCHANGED <<cache, straddled>>

ClearFailures(t) ==
    /\ At(t, "clear")
    /\ cache' = Without(reader[t].pid)
    /\ Goto(t, "done")
    /\ UNCHANGED <<denied, straddled>>

(* The start time is that of the process the pid has by now.                *)
RecordFailure(t) ==
    /\ At(t, "record")
    /\ LET p == reader[t].pid
       IN  /\ cache' = UpTo(CacheSize, <<[pid |-> p, start_time |-> StartTime(p),
                                          count |-> reader[t].failures + 1]>> \o Without(p))
           /\ straddled' = IF proc[p].use # reader[t].use THEN straddled \cup {p}
                           ELSE straddled
    /\ Goto(t, "comm")
    /\ UNCHANGED denied

ReadComm(t) ==
    /\ At(t, "comm")
    /\ LET p == reader[t].pid
       IN  Answer(t, IF p \in alive THEN proc[p].image.comm ELSE "<unknown>")
    /\ UNCHANGED <<cache, denied, straddled>>

ReadName(t) ==
    \/ ReadCmdline(t) \/ ReadArgComm(t)
    \/ CheckBudget(t) \/ ReadExe(t) \/ ClearFailures(t) \/ RecordFailure(t)
    \/ ReadComm(t)

-----------------------------------------------------------------------------
(* Properties.                                                              *)

(* A process is never charged with another one's failures: what the cache   *)
(* holds against the process that has a pid now is at most what that        *)
(* process failed itself (procfs.rs ExeFailure, "whose failures those       *)
(* were").  Not when the pid changed hands between the lookup of the count  *)
(* and the write of the next one, see BudgetNeverInherited.                 *)
BudgetIsOwn ==
    \A i \in 1..Len(cache) :
        LET p == cache[i].pid
        IN  (p \in alive /\ cache[i].start_time = {proc[p].use} /\ p \notin straddled)
                => cache[i].count <= denied[p]

(* A name read while the process stayed as it was is the one its rule is    *)
(* written against: the script of a #! script, an argv[0] it gave itself,   *)
(* the untruncated exe when there is no command line, unless this process   *)
(* has used its budget up (procfs.rs get_command_from_pid).                 *)
ResolvesProgram ==
    \A t \in Readers :
        LET p == reader[t].pid
        IN  (reader[t].pc = "done" /\ reader[t].fresh /\ p \in alive
             /\ p \notin straddled /\ denied[p] < MaxFailures)
                => reader[t].name = proc[p].image.program

(* Stated by procfs.rs:17: without the start time "a new process inherits   *)
(* the previous occupant's budget"; it is there so that none does.          *)
BudgetNeverInherited ==
    \A i \in 1..Len(cache) :
        LET p == cache[i].pid
        IN  (p \in alive /\ cache[i].start_time = {proc[p].use})
                => cache[i].count <= denied[p]
=============================================================================
