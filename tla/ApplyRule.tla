----------------------------- MODULE ApplyRule -----------------------------
(***************************************************************************)
(* The worker applies the rule of a reported process: it reads whether the  *)
(* process is realtime, lists its threads and sets one attribute after the  *)
(* other, while the process goes on spawning and losing threads and ends    *)
(* when it likes.                                                           *)
(*                                                                         *)
(* One system call loop over the listed threads is one step.  The value of  *)
(* an attribute is kept only where the code does something else for it.     *)
(* Errors are told apart as the worker does: NotFound ("gone") or any other *)
(* ("refused").                                                             *)
(***************************************************************************)
EXTENDS Naturals

CONSTANTS
    Tids,       \* thread ids of the process
    Leader,     \* the thread whose id is the process id
    Rules,      \* the rules a report can match
    Configs     \* the configurations: the names of the options that are on

Attributes == {"nice", "latnice", "sched", "ionice", "oom", "cgroup", "cpuset"}
PerThread == {"nice", "latnice", "sched", "cpuset"}
Options == Attributes \cup {"cpu_weight", "realtime_workaround"}

(* What a rule says of each attribute; "missing" is a cgroup that was never *)
(* created, "empty" an alias that resolves to no CPU.                       *)
Values == {"absent", "set", "other", "fifo", "deadline", "none", "unknown", "missing",
           "empty"}

ASSUME LeaderAssumption == Leader \in Tids
ASSUME RulesAssumption == Rules \subseteq [Attributes -> Values]
ASSUME ConfigsAssumption == Configs \subseteq SUBSET Options

VARIABLES
    v2,             \* whether the hierarchy is cgroup v2
    threads,        \* the live threads; empty once the process has ended
    policy,         \* the scheduling policy of each thread
    step,           \* the attribute the worker is at
    rule,           \* the rule being applied
    cfg,            \* the configuration snapshot
    is_realtime,    \* as read before the rule is applied
    tids,           \* the threads listed
    tids_failed,    \* whether they could not be listed
    applied_any,    \* apply_rule's applied_any
    failure,        \* apply_rule's partial_failure: the first error, if any
    result,         \* what the worker reports
    took,           \* history: the threads that took each attribute
    status          \* history: how attempting each attribute went

process == <<threads, policy>>
input == <<v2, rule, cfg, is_realtime, tids, tids_failed>>
outcome == <<applied_any, failure, took, status>>
vars == <<process, step, input, outcome, result>>

Policies == {"other", "fifo"}
Steps == {"match", "tids", "nice", "cpu_weight", "latnice", "sched", "ionice", "oom",
          "cgroup", "cpuset", "result", "done"}
Results == {"none", "logged", "incomplete", "no_applicable", "partial", "failed", "exited"}

TypeOK ==
    /\ v2 \in BOOLEAN
    /\ threads \subseteq Tids /\ (threads # {} => Leader \in threads)
    /\ policy \in [Tids -> Policies]
    /\ step \in Steps
    /\ rule \in [Attributes -> Values] /\ cfg \subseteq Options
    /\ is_realtime \in BOOLEAN /\ tids_failed \in BOOLEAN
    /\ tids \subseteq Tids /\ tids # {}
    /\ applied_any \in BOOLEAN
    /\ failure \in {{}, {"gone"}, {"refused"}}
    /\ result \in Results
    /\ took \in [Attributes -> SUBSET Tids]
    /\ status \in [Attributes -> {"untried", "ok", "failed"}]

Nothing == [a \in Attributes |-> {}]
Untried == [a \in Attributes |-> "untried"]

Init ==
    /\ v2 \in BOOLEAN
    /\ threads \in {T \in SUBSET Tids : Leader \in T}
    /\ policy \in {p \in [Tids -> Policies] : \A t \in Tids \ threads : p[t] = "other"}
    /\ step = "match"
    /\ rule \in Rules /\ cfg \in Configs
    /\ is_realtime = FALSE
    /\ tids = {Leader} /\ tids_failed = FALSE
    /\ applied_any = FALSE /\ failure = {} /\ result = "none"
    /\ took = Nothing /\ status = Untried

-----------------------------------------------------------------------------
(* External: the process.  A new thread has the policy of its creator, and  *)
(* not the id of a listed one.                                              *)

SpawnThread(parent, t) ==
    /\ parent \in threads /\ t \notin threads \cup tids
    /\ threads' = threads \cup {t}
    /\ policy' = [policy EXCEPT ![t] = policy[parent]]
    /\ UNCHANGED <<step, input, outcome, result>>

ThreadExits(t) ==
    /\ t \in threads /\ t # Leader
    /\ threads' = threads \ {t} /\ policy' = [policy EXCEPT ![t] = "other"]
    /\ UNCHANGED <<step, input, outcome, result>>

ProcessExits ==
    /\ threads # {}
    /\ threads' = {} /\ policy' = [t \in Tids |-> "other"]
    /\ UNCHANGED <<step, input, outcome, result>>

-----------------------------------------------------------------------------
(* work_loop up to apply_rule.                                              *)

MatchRule ==
    /\ step = "match" /\ step' = "tids"
    /\ is_realtime' = (threads # {} /\ policy[Leader] = "fifo")
    /\ UNCHANGED <<process, v2, rule, cfg, tids, tids_failed, outcome, result>>

GetTidsAsListed ==
    /\ step = "tids" /\ step' = "nice"
    /\ tids' = threads /\ tids_failed' = FALSE
    /\ UNCHANGED <<process, v2, rule, cfg, is_realtime, outcome, result>>

(* An empty or failed listing leaves the process id alone.                  *)
GetTids ==
    /\ step = "tids" /\ step' = "nice"
    /\ \/ threads # {} /\ tids' = threads /\ tids_failed' = FALSE
       \/ tids' = {Leader} /\ tids_failed' = TRUE
    /\ UNCHANGED <<process, v2, rule, cfg, is_realtime, outcome, result>>

-----------------------------------------------------------------------------
(* apply_rule.                                                              *)

Requested == {a \in Attributes : a \in cfg /\ rule[a] # "absent"}

RefusalOnlyIfNoneTook(took_it, refusing) ==
    IF took_it # {} THEN {} ELSE IF refusing # {} THEN {"refused"} ELSE {"gone"}

(* Of the results of the listed threads, a refusal by a live one is         *)
(* reported, and "gone" only when no thread took the attribute.             *)
first_real_error(took_it, refusing) ==
    IF refusing # {} THEN {"refused"} ELSE IF took_it = {} THEN {"gone"} ELSE {}

(* One attribute's result is recorded and the next one follows; the first   *)
(* error is the one kept.                                                   *)
StopAtFailure(a, next, error, took_it) ==
    /\ applied_any' = (applied_any \/ error = {})
    /\ failure' = IF failure = {} THEN error ELSE failure
    /\ took' = [took EXCEPT ![a] = took_it]
    /\ status' = [status EXCEPT ![a] = IF error = {} THEN "ok" ELSE "failed"]
    /\ step' = IF error = {} THEN next ELSE "result"

Record(a, next, error, took_it) ==
    /\ applied_any' = (applied_any \/ error = {})
    /\ failure' = IF failure = {} THEN error ELSE failure
    /\ took' = [took EXCEPT ![a] = took_it]
    /\ status' = [status EXCEPT ![a] = IF error = {} THEN "ok" ELSE "failed"]
    /\ step' = next

NotRequested(a, next) ==
    /\ a \notin Requested
    /\ step' = next /\ UNCHANGED outcome

SetPriority ==
    /\ step = "nice"
    /\ \/ /\ "nice" \in Requested
          /\ \E took_it \in SUBSET (tids \cap threads) :
                Record("nice", "cpu_weight",
                       first_real_error(took_it, (tids \cap threads) \ took_it), took_it)
       \/ NotRequested("nice", "latnice")
    /\ UNCHANGED <<process, input, result>>

(* The optional mirror: its success counts, its failure does not.           *)
SetCpuWeight ==
    /\ step = "cpu_weight" /\ step' = "latnice"
    /\ \/ "cpu_weight" \in cfg /\ v2 /\ threads # {} /\ applied_any' = TRUE
       \/ UNCHANGED applied_any
    /\ UNCHANGED <<process, input, failure, took, status, result>>

SetLatencyNice ==
    /\ step = "latnice"
    /\ \/ /\ "latnice" \in Requested
          /\ \E took_it \in SUBSET (tids \cap threads) :
                Record("latnice", "sched",
                       first_real_error(took_it, (tids \cap threads) \ took_it), took_it)
       \/ NotRequested("latnice", "sched")
    /\ UNCHANGED <<process, input, result>>

(* "deadline" sets the normal policy and is reported as skipped.            *)
SetSched ==
    /\ step = "sched"
    /\ \/ /\ "sched" \in Requested /\ rule["sched"] = "unknown"
          /\ Record("sched", "ionice", {"refused"}, {})
          /\ UNCHANGED policy
       \/ /\ "sched" \in Requested /\ rule["sched"] # "unknown"
          /\ \E took_it \in SUBSET (tids \cap threads) :
                LET error == first_real_error(took_it, (tids \cap threads) \ took_it)
                IN  /\ Record("sched", "ionice",
                              IF error = {} /\ rule["sched"] = "deadline" THEN {"refused"}
                              ELSE error, took_it)
                    /\ policy' = [t \in Tids |->
                          IF t \notin took_it THEN policy[t]
                          ELSE IF rule["sched"] = "fifo" THEN "fifo" ELSE "other"]
       \/ NotRequested("sched", "ionice") /\ UNCHANGED policy
    /\ UNCHANGED <<threads, input, result>>

(* ioprio_set of the process id alone; class "none" is left untouched.      *)
SetIoPriority ==
    /\ step = "ionice"
    /\ \/ /\ "ionice" \in Requested
          /\ \E took_it \in SUBSET ({Leader} \cap threads) :
                Record("ionice", "oom",
                       CASE rule["ionice"] = "unknown" -> {"refused"}
                         [] rule["ionice"] = "none" -> {}
                         [] OTHER -> first_real_error(took_it,
                                                      ({Leader} \cap threads) \ took_it),
                       IF rule["ionice"] \in {"unknown", "none"} THEN {} ELSE took_it)
       \/ NotRequested("ionice", "oom")
    /\ UNCHANGED <<process, input, result>>

SetOomScoreAdj ==
    /\ step = "oom"
    /\ \/ /\ "oom" \in Requested
          /\ \E took_it \in SUBSET ({Leader} \cap threads) :
                Record("oom", "cgroup",
                       first_real_error(took_it, ({Leader} \cap threads) \ took_it), took_it)
       \/ NotRequested("oom", "cgroup")
    /\ UNCHANGED <<process, input, result>>

SkipsCgroup == is_realtime /\ "realtime_workaround" \in cfg /\ v2

(* add_pid_to_cgroup: a cgroup that is not there is NotFound; a move that   *)
(* fails, for a process that has ended too, is Unsupported.                 *)
AddPidToCgroup ==
    /\ step = "cgroup"
    /\ \/ /\ SkipsCgroup
          /\ step' = "cpuset" /\ UNCHANGED outcome
       \/ /\ ~SkipsCgroup /\ "cgroup" \in Requested
          /\ \/ /\ rule["cgroup"] = "missing"
                /\ Record("cgroup", "cpuset", {"gone"}, {})
             \/ /\ rule["cgroup"] # "missing" /\ threads # {}
                /\ Record("cgroup", "cpuset", {}, {Leader})
             \/ /\ rule["cgroup"] # "missing"
                /\ Record("cgroup", "cpuset", {"refused"}, {})
       \/ ~SkipsCgroup /\ NotRequested("cgroup", "cpuset")
    /\ UNCHANGED <<process, input, result>>

(* set_affinity, the narrower retry included: one thread that took a mask   *)
(* is a success.                                                            *)
affinity_error(took_it, refusing) ==
    IF took_it # {} THEN {} ELSE IF refusing # {} THEN {"refused"} ELSE {"gone"}

SetAffinity ==
    /\ step = "cpuset"
    /\ \/ /\ "cpuset" \in Requested /\ rule["cpuset"] = "empty"
          /\ step' = "result" /\ UNCHANGED outcome
       \/ /\ "cpuset" \in Requested /\ rule["cpuset"] = "unknown"
          /\ Record("cpuset", "result", {"refused"}, {})
       \/ /\ "cpuset" \in Requested /\ rule["cpuset"] \notin {"empty", "unknown"}
          /\ \E took_it \in SUBSET (tids \cap threads) :
                Record("cpuset", "result",
                       affinity_error(took_it, (tids \cap threads) \ took_it), took_it)
       \/ NotRequested("cpuset", "result")
    /\ UNCHANGED <<process, input, result>>

-----------------------------------------------------------------------------
(* The end of apply_rule and what work_loop makes of it.                    *)

Report ==
    /\ step = "result" /\ step' = "done"
    /\ result' = CASE failure = {"gone"} -> "exited"
                   [] failure = {"refused"} /\ applied_any -> "partial"
                   [] failure = {"refused"} /\ ~applied_any -> "failed"
                   [] failure = {} /\ applied_any /\ tids_failed -> "incomplete"
                   [] failure = {} /\ applied_any /\ ~tids_failed -> "logged"
                   [] failure = {} /\ ~applied_any -> "no_applicable"
    /\ UNCHANGED <<process, input, outcome>>

(* The next report with this rule: of this process, or of another one if it *)
(* has ended.                                                               *)
NextReport ==
    /\ step = "done" /\ step' = "match"
    /\ \/ threads # {} /\ UNCHANGED process
       \/ /\ threads = {} /\ threads' = {Leader}
          /\ policy' \in {[policy EXCEPT ![Leader] = p] : p \in Policies}
    /\ is_realtime' = FALSE /\ tids' = {Leader} /\ tids_failed' = FALSE
    /\ applied_any' = FALSE /\ failure' = {} /\ result' = "none"
    /\ took' = Nothing /\ status' = Untried
    /\ UNCHANGED <<v2, rule, cfg>>

Next ==
    \/ \E p, t \in Tids : SpawnThread(p, t)
    \/ \E t \in Tids : ThreadExits(t)
    \/ ProcessExits
    \/ MatchRule \/ GetTids
    \/ SetPriority \/ SetCpuWeight \/ SetLatencyNice \/ SetSched \/ SetIoPriority
    \/ SetOomScoreAdj \/ AddPidToCgroup \/ SetAffinity
    \/ Report \/ NextReport

Spec == Init /\ [][Next]_vars

-----------------------------------------------------------------------------
(* Properties.                                                              *)

With(st) == {a \in Attributes : status[a] = st}

(* What the code leaves alone on purpose.                                   *)
Skipped ==
    {a \in Requested : \/ a = "cgroup" /\ SkipsCgroup
                       \/ a = "cpuset" /\ rule[a] = "empty"}

(* The applied-rule line is the truth about the process: a requested        *)
(* attribute was taken by some thread, and nice, latency nice and policy by *)
(* each listed thread that is still there, though threads came and went     *)
(* between the calls (worker.rs apply_rule, priority.rs first_real_error).  *)
LoggedMeansApplied ==
    result = "logged" =>
        \A a \in Requested \ Skipped :
            /\ took[a] # {} \/ (a = "ionice" /\ rule[a] = "none")
            /\ a \in PerThread \ {"cpuset"} => tids \cap threads \subseteq took[a]

(* The attributes still to be attempted are the requested ones without      *)
(* those the code leaves alone on purpose.                                  *)
Outcome == INSTANCE RuleOutcome WITH
    phase <- CASE step = "match" -> "idle" [] step = "done" -> "done"
               [] OTHER -> "applying",
    pending <- IF step = "match" THEN {} ELSE (Requested \ Skipped) \cap With("untried"),
    honoured <- With("ok"), failed <- With("failed"), result <- result

(* apply_rule keeps the promise of RuleOutcome: a failed attribute does not *)
(* cost the rule the ones after it, and the fixed order, the early branches *)
(* and the process changing under it never change what a result stands for  *)
(* (worker.rs work_loop and apply_rule).                                    *)
ImplementsOutcome == Outcome!Spec

(* Stated by CONFIGURATION.md:121-125: with the workaround, for a process   *)
(* of a rule that sets a realtime policy on cgroup v2 "the task stays in    *)
(* the cgroup it is already in".                                            *)
RealtimeStaysInPlace ==
    step = "done" /\ v2 /\ {"realtime_workaround", "sched"} \subseteq cfg
        /\ rule["sched"] = "fifo" /\ took["sched"] # {}
        => took["cgroup"] = {}

(* Stated by worker.rs:495: an error means "Nothing was applied and         *)
(* something failed: the rule did not take effect at all".                  *)
FailedMeansNoEffect == result = "failed" => \A a \in Attributes : took[a] = {}

(* Stated by worker.rs:225: what is reported as NotFound is a process that  *)
(* "exited before rule could be applied".                                   *)
ExitedMeansGone == result = "exited" => threads = {}

(* Stated by priority.rs:185: set_sched "Applies a scheduling policy to     *)
(* every thread of a process".                                              *)
EveryThreadHasPolicy ==
    result = "logged" /\ "sched" \in Requested
        => \A t \in threads : policy[t] = rule["sched"]
=============================================================================
