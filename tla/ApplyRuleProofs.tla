-------------------------- MODULE ApplyRuleProofs --------------------------
(***************************************************************************)
(* apply_rule implements RuleOutcome, for every set of threads, rule and    *)
(* configuration.                                                           *)
(***************************************************************************)
EXTENDS ApplyRule, TLAPS

Errors == {{}, {"gone"}, {"refused"}}
Wanted == Requested \ Skipped

(* The attributes whose turn is over when the worker is at a step.          *)
Behind(s) ==
    CASE s \in {"cpu_weight", "latnice"} -> {"nice"}
      [] s = "sched" -> {"nice", "latnice"}
      [] s = "ionice" -> {"nice", "latnice", "sched"}
      [] s = "oom" -> {"nice", "latnice", "sched", "ionice"}
      [] s = "cgroup" -> {"nice", "latnice", "sched", "ionice", "oom"}
      [] s = "cpuset" -> Attributes \ {"cpuset"}
      [] s \in {"result", "done"} -> Attributes
      [] OTHER -> {}

Shape ==
    /\ step \in Steps
    /\ status \in [Attributes -> {"untried", "ok", "failed"}]
    /\ failure \in Errors
    /\ step = "cpu_weight" => "nice" \in Requested
    /\ step = "match" => result = "none"

(* An attribute whose turn is over was attempted if and only if it was      *)
(* wanted, and none before its turn.                                        *)
TriedInTurn ==
    \A a \in Attributes : status[a] # "untried" <=> a \in Behind(step) \cap Wanted

(* What apply_rule keeps of the attempts is enough to tell how they went.   *)
Accounts ==
    /\ failure = {} <=> With("failed") = {}
    /\ With("ok") # {} => applied_any
    /\ applied_any => With("ok") # {} \/ With("failed") # {}

IInv == Shape /\ TriedInTurn /\ Accounts

(* Nothing has been attempted yet, and RuleOutcome is idle.                 *)
LEMMA InitIInv == Init => IInv /\ Outcome!Init
<1> SUFFICES ASSUME Init PROVE IInv /\ Outcome!Init
  OBVIOUS
<1>1. \A a \in Attributes : status[a] = "untried"
  BY DEF Init, Untried
<1>2. Behind(step) = {}
  BY DEF Init, Behind
<1>3. Shape
  BY DEF Init, Shape, Steps, Untried, Errors
<1>4. TriedInTurn
  BY <1>1, <1>2 DEF TriedInTurn
<1>5. With("ok") = {} /\ With("failed") = {}
  BY <1>1 DEF With
<1>6. Accounts
  BY <1>5 DEF Init, Accounts
<1>7. Outcome!Init
  BY <1>5 DEF Init, Outcome!Init
<1> QED
  BY <1>3, <1>4, <1>6, <1>7 DEF IInv

(* What is wanted is fixed by the rule, the configuration and what was read *)
(* before.                                                                  *)
LEMMA SameInput ==
    ASSUME UNCHANGED input
    PROVE  Requested' = Requested /\ Wanted' = Wanted
BY DEF input, Requested, Wanted, Skipped, SkipsCgroup

(* An attribute is attempted in its turn.                                   *)
LEMMA Attempts ==
    ASSUME IInv, NEW a \in Attributes, NEW next \in Steps, NEW error \in Errors,
           NEW took_it, Record(a, next, error, took_it), UNCHANGED <<input, result>>,
           a \in Wanted, a \notin Behind(step), Behind(next) = Behind(step) \cup {a},
           step \notin {"match", "done"}, next \notin {"match", "done"},
           next = "cpu_weight" => a = "nice"
    PROVE  IInv' /\ Outcome!Attempt(a)
<1>1. Requested' = Requested /\ Wanted' = Wanted /\ a \in Requested
  BY SameInput DEF Wanted
<1>2. /\ status[a] = "untried" /\ status'[a] = IF error = {} THEN "ok" ELSE "failed"
      /\ \A b \in Attributes \ {a} : status'[b] = status[b]
      /\ step' = next /\ result' = result
  BY DEF Record, IInv, Shape, TriedInTurn
<1>3. /\ With("ok")' = IF error = {} THEN With("ok") \cup {a} ELSE With("ok")
      /\ With("failed")' = IF error = {} THEN With("failed") ELSE With("failed") \cup {a}
      /\ With("untried")' = With("untried") \ {a} /\ a \in With("untried")
  BY <1>2 DEF With
<1>4. Shape'
  BY <1>1, <1>2 DEF Record, IInv, Shape, Errors
<1>5. TriedInTurn'
  BY <1>1, <1>2 DEF IInv, TriedInTurn
<1>6. Accounts'
  BY <1>3 DEF Record, IInv, Accounts, Errors
<1>7. Outcome!Attempt(a)
  BY <1>1, <1>2, <1>3 DEF Outcome!Attempt, Wanted
<1> QED
  BY <1>4, <1>5, <1>6, <1>7 DEF IInv

(* An attribute that is not wanted is passed over.                          *)
LEMMA Passes ==
    ASSUME IInv, NEW a \in Attributes, NEW next \in Steps, step' = next,
           UNCHANGED <<outcome, input, result>>,
           a \notin Wanted, Behind(next) = Behind(step) \cup {a},
           step \notin {"match", "done"}, next \notin {"match", "done", "cpu_weight"}
    PROVE  IInv' /\ UNCHANGED Outcome!vars
<1>1. Requested' = Requested /\ Wanted' = Wanted
  BY SameInput
<1>2. \A st : With(st)' = With(st)
  BY DEF With, outcome
<1>3. IInv'
  BY <1>1, <1>2 DEF IInv, Shape, TriedInTurn, Accounts, outcome
<1>4. UNCHANGED Outcome!vars
  BY <1>1, <1>2 DEF Outcome!vars, Wanted
<1> QED
  BY <1>3, <1>4

(* Both ways to sum up the threads' results give at most one error.         *)
LEMMA ErrorTypes ==
    \A S, T : first_real_error(S, T) \in Errors /\ affinity_error(S, T) \in Errors
BY DEF first_real_error, affinity_error, Errors

(* Simulated: the step keeps IInv and is a step of RuleOutcome or none.     *)
Simulated == IInv' /\ (Outcome!Next \/ UNCHANGED Outcome!vars)

(* The attributes that are attempted whenever they are requested.           *)
LEMMA SetsOne ==
    ASSUME IInv,
           SetPriority \/ SetLatencyNice \/ SetIoPriority \/ SetOomScoreAdj
    PROVE  Simulated
<1> USE ErrorTypes DEF Attributes, Steps, Behind, Wanted, Skipped
<1> SUFFICES \/ \E a \in Attributes : IInv' /\ Outcome!Attempt(a)
             \/ IInv' /\ UNCHANGED Outcome!vars
  BY DEF Simulated, Outcome!Next
<1>1. CASE SetPriority
  <2>1. CASE "nice" \in Requested
    <3> PICK took_it : Record("nice", "cpu_weight",
                    first_real_error(took_it, (tids \cap threads) \ took_it), took_it)
      BY <1>1, <2>1 DEF SetPriority, NotRequested
    <3> QED
      BY <1>1, <2>1, Attempts DEF SetPriority
  <2>2. CASE "nice" \notin Requested
    BY <1>1, <2>2, Passes DEF SetPriority, NotRequested
  <2> QED
    BY <2>1, <2>2
<1>2. CASE SetLatencyNice
  <2>1. CASE "latnice" \in Requested
    <3> PICK took_it : Record("latnice", "sched",
                    first_real_error(took_it, (tids \cap threads) \ took_it), took_it)
      BY <1>2, <2>1 DEF SetLatencyNice, NotRequested
    <3> QED
      BY <1>2, <2>1, Attempts DEF SetLatencyNice
  <2>2. CASE "latnice" \notin Requested
    BY <1>2, <2>2, Passes DEF SetLatencyNice, NotRequested
  <2> QED
    BY <2>1, <2>2
<1>3. CASE SetIoPriority
  <2>1. CASE "ionice" \in Requested
    <3> PICK error \in Errors : \E took_it : Record("ionice", "oom", error, took_it)
      BY <1>3, <2>1 DEF SetIoPriority, NotRequested, Errors
    <3> QED
      BY <1>3, <2>1, Attempts DEF SetIoPriority
  <2>2. CASE "ionice" \notin Requested
    BY <1>3, <2>2, Passes DEF SetIoPriority, NotRequested
  <2> QED
    BY <2>1, <2>2
<1>4. CASE SetOomScoreAdj
  <2>1. CASE "oom" \in Requested
    <3> PICK took_it : Record("oom", "cgroup",
                    first_real_error(took_it, ({Leader} \cap threads) \ took_it), took_it)
      BY <1>4, <2>1 DEF SetOomScoreAdj, NotRequested
    <3> QED
      BY <1>4, <2>1, Attempts DEF SetOomScoreAdj
  <2>2. CASE "oom" \notin Requested
    BY <1>4, <2>2, Passes DEF SetOomScoreAdj, NotRequested
  <2> QED
    BY <2>1, <2>2
<1> QED
  BY <1>1, <1>2, <1>3, <1>4

(* The attributes with branches of their own.                               *)
LEMMA SetsBranching ==
    ASSUME IInv, SetSched \/ AddPidToCgroup \/ SetAffinity
    PROVE  Simulated
<1> USE ErrorTypes DEF Attributes, Steps, Behind, Wanted, Skipped
<1> SUFFICES \/ \E a \in Attributes : IInv' /\ Outcome!Attempt(a)
             \/ IInv' /\ UNCHANGED Outcome!vars
  BY DEF Simulated, Outcome!Next
<1>1. CASE SetSched
  <2>1. CASE "sched" \in Requested
    <3> PICK error \in Errors : \E took_it : Record("sched", "ionice", error, took_it)
      BY <1>1, <2>1 DEF SetSched, NotRequested, Errors
    <3> QED
      BY <1>1, <2>1, Attempts DEF SetSched
  <2>2. CASE "sched" \notin Requested
    BY <1>1, <2>2, Passes DEF SetSched, NotRequested
  <2> QED
    BY <2>1, <2>2
<1>2. CASE AddPidToCgroup
  <2>1. CASE "cgroup" \in Requested /\ ~SkipsCgroup
    <3> PICK error \in Errors : \E took_it : Record("cgroup", "cpuset", error, took_it)
      BY <1>2, <2>1 DEF AddPidToCgroup, NotRequested, Errors
    <3> QED
      BY <1>2, <2>1, Attempts DEF AddPidToCgroup
  <2>2. CASE "cgroup" \notin Requested \/ SkipsCgroup
    BY <1>2, <2>2, Passes DEF AddPidToCgroup, NotRequested
  <2> QED
    BY <2>1, <2>2
<1>3. CASE SetAffinity
  <2>1. CASE "cpuset" \in Requested /\ rule["cpuset"] # "empty"
    <3> PICK error \in Errors : \E took_it : Record("cpuset", "result", error, took_it)
      BY <1>3, <2>1 DEF SetAffinity, NotRequested, Errors
    <3> QED
      BY <1>3, <2>1, Attempts DEF SetAffinity
  <2>2. CASE "cpuset" \notin Requested \/ rule["cpuset"] = "empty"
    BY <1>3, <2>2, Passes DEF SetAffinity, NotRequested
  <2> QED
    BY <2>1, <2>2
<1> QED
  BY <1>1, <1>2, <1>3

(* The process may change under the worker, and the listing and the mirror  *)
(* attempt no attribute of the rule.                                        *)
LEMMA LeavesOutcome ==
    ASSUME IInv,
           \/ UNCHANGED <<step, input, outcome, result>>
           \/ GetTids \/ SetCpuWeight
    PROVE  Simulated
<1> SUFFICES IInv' /\ UNCHANGED Outcome!vars
  BY DEF Simulated
<1>1. /\ Requested' = Requested /\ Wanted' = Wanted
      /\ UNCHANGED <<status, failure, result>>
  BY DEF GetTids, SetCpuWeight, input, outcome, Requested, Wanted, Skipped, SkipsCgroup
<1>2. \A st : With(st)' = With(st)
  BY <1>1 DEF With
<1>3. /\ step' \in Steps /\ Behind(step') = Behind(step)
      /\ step' # step => /\ step \notin {"match", "done"}
                         /\ step' \notin {"match", "done", "cpu_weight"}
  BY DEF GetTids, SetCpuWeight, IInv, Shape, Steps, Behind
<1>4. Shape' /\ TriedInTurn'
  BY <1>1, <1>3 DEF IInv, Shape, TriedInTurn
<1>5. Accounts'
  <2>1. CASE UNCHANGED applied_any
    BY <1>1, <1>2, <2>1 DEF IInv, Accounts
  <2>2. CASE SetCpuWeight
    <3>1. status["nice"] \in {"ok", "failed"}
      BY <2>2 DEF SetCpuWeight, IInv, Shape, TriedInTurn, Behind, Attributes, Wanted, Skipped
    <3>2. With("ok") # {} \/ With("failed") # {}
      BY <3>1 DEF With, Attributes
    <3> QED
      BY <1>1, <1>2, <2>2, <3>2 DEF IInv, Accounts, SetCpuWeight
  <2> QED
    BY <2>1, <2>2 DEF GetTids, outcome
<1>6. UNCHANGED Outcome!vars
  BY <1>1, <1>2, <1>3 DEF Outcome!vars, Wanted
<1> QED
  BY <1>4, <1>5, <1>6 DEF IInv

(* The start of a rule, its report and the next report.                     *)
LEMMA Reports ==
    ASSUME IInv, MatchRule \/ Report \/ NextReport
    PROVE  Simulated
<1>1. CASE MatchRule
  <2>1. \A st : With(st)' = With(st)
    BY <1>1 DEF MatchRule, outcome, With
  <2>2. Behind(step) = {} /\ Behind(step') = {}
    BY <1>1 DEF MatchRule, Behind
  <2>3. IInv'
    BY <1>1, <2>1, <2>2 DEF MatchRule, outcome, IInv, Shape, TriedInTurn, Accounts, Steps
  <2>4. Outcome!Begin
    BY <1>1, <2>1 DEF MatchRule, Outcome!Begin, With
  <2> QED
    BY <2>3, <2>4 DEF Simulated, Outcome!Next
<1>2. CASE Report
  <2>1. /\ Requested' = Requested /\ Wanted' = Wanted
        /\ \A st : With(st)' = With(st)
    BY <1>2, SameInput DEF Report, outcome, With
  <2>2. Behind(step) = Attributes /\ Behind(step') = Attributes
    BY <1>2 DEF Report, Behind
  <2>3. IInv'
    BY <1>2, <2>1, <2>2 DEF Report, outcome, IInv, Shape, TriedInTurn, Accounts, Steps
  <2>4. Wanted \cap With("untried") = {}
    BY <2>2 DEF IInv, TriedInTurn, With
  <2>5. result' \in Outcome!Allowed
    BY <1>2 DEF Report, IInv, Shape, Accounts, Errors, Outcome!Allowed
  <2>6. Outcome!Finish
    BY <1>2, <2>1, <2>4, <2>5 DEF Report, Outcome!Finish, Wanted
  <2> QED
    BY <2>3, <2>6 DEF Simulated, Outcome!Next
<1>3. CASE NextReport
  <2>1. \A a \in Attributes : status'[a] = "untried"
    BY <1>3 DEF NextReport, Untried
  <2>2. With("ok")' = {} /\ With("failed")' = {}
    BY <2>1 DEF With
  <2>3. Behind(step') = {} /\ Behind(step) = Attributes
    BY <1>3 DEF NextReport, Behind
  <2>4. Shape'
    BY <1>3 DEF NextReport, Shape, Steps, Untried, Errors
  <2>5. TriedInTurn'
    BY <2>1, <2>3 DEF TriedInTurn
  <2>6. Accounts'
    BY <1>3, <2>2 DEF NextReport, Accounts
  <2>7. Wanted \cap With("untried") = {}
    BY <2>3 DEF IInv, TriedInTurn, With
  <2>8. Outcome!Reset
    BY <1>3, <2>2, <2>7 DEF NextReport, Outcome!Reset, Wanted
  <2> QED
    BY <2>4, <2>5, <2>6, <2>8 DEF IInv, Simulated, Outcome!Next
<1> QED
  BY <1>1, <1>2, <1>3

(* Every step of the worker and of the process is simulated.                *)
LEMMA StepSimulated == IInv /\ [Next]_vars => Simulated
<1> SUFFICES ASSUME IInv, [Next]_vars PROVE Simulated
  OBVIOUS
<1>1. CASE \/ \E p, t \in Tids : SpawnThread(p, t)
           \/ \E t \in Tids : ThreadExits(t)
           \/ ProcessExits
  BY <1>1, LeavesOutcome DEF SpawnThread, ThreadExits, ProcessExits
<1>2. CASE GetTids \/ SetCpuWeight
  BY <1>2, LeavesOutcome
<1>3. CASE MatchRule \/ Report \/ NextReport
  BY <1>3, Reports
<1>4. CASE SetPriority \/ SetLatencyNice \/ SetIoPriority \/ SetOomScoreAdj
  BY <1>4, SetsOne
<1>5. CASE SetSched \/ AddPidToCgroup \/ SetAffinity
  BY <1>5, SetsBranching
<1>6. CASE UNCHANGED vars
  BY <1>6, LeavesOutcome DEF vars
<1> QED
  BY <1>1, <1>2, <1>3, <1>4, <1>5, <1>6 DEF Next

(* apply_rule and work_loop implement RuleOutcome whatever the threads, the *)
(* rule and the configuration: each wanted attribute is attempted exactly   *)
(* once, whichever failed before it, and the line reported is one the       *)
(* attempts allow, though threads come, go and the process may end between  *)
(* any two of the calls.                                                    *)
THEOREM RuleOutcomeImplemented == Spec => ImplementsOutcome
<1>1. IInv /\ [Next]_vars => IInv' /\ [Outcome!Next]_(Outcome!vars)
  BY StepSimulated DEF Simulated
<1> QED
  BY InitIInv, <1>1, PTL DEF Spec, ImplementsOutcome, Outcome!Spec

-----------------------------------------------------------------------------
(* What the applied-rule line says of the threads.                          *)

TookIt(a, took_it) ==
    /\ took_it # {} \/ (a = "ionice" /\ rule[a] = "none")
    /\ a \in PerThread \ {"cpuset"} => tids \cap threads \subseteq took_it

(* An attribute counted as applied was taken, and still is by the listed    *)
(* threads that are left.                                                   *)
Honest ==
    /\ took = [a \in Attributes |-> took[a]]
    /\ \A a \in Attributes : status[a] = "ok" => TookIt(a, took[a])
    /\ result = "logged" => step = "done" /\ failure = {}

(* Recording a result keeps it, if no error means that threads took it.     *)
LEMMA RecordsHonestly ==
    ASSUME IInv, Honest, NEW a \in Attributes, NEW next, NEW error, NEW took_it,
           Record(a, next, error, took_it), step # "done",
           UNCHANGED <<rule, tids, threads, result>>,
           error = {} => TookIt(a, took_it)
    PROVE  Honest'
<1>1. /\ took'[a] = took_it /\ status'[a] = IF error = {} THEN "ok" ELSE "failed"
      /\ \A b \in Attributes \ {a} : took'[b] = took[b] /\ status'[b] = status[b]
  BY DEF Record, IInv, Shape, Honest
<1>2. \A b \in Attributes : status'[b] = "ok" => TookIt(b, took[b])' 
  BY <1>1 DEF Honest, TookIt
<1>3. took' = [b \in Attributes |-> took'[b]]
  BY DEF Record, Honest
<1>4. result' # "logged"
  BY DEF Honest
<1> QED
  BY <1>2, <1>3, <1>4 DEF Honest

(* A step that records nothing and lets no listed thread be born keeps it.  *)
LEMMA KeepsHonest ==
    ASSUME Honest, UNCHANGED <<rule, tids, took, status>>,
           tids \cap threads' \subseteq threads,
           result' = "logged" => step' = "done" /\ failure' = {}
    PROVE  Honest'
BY DEF Honest, TookIt

(* One case per step of apply_rule and of the process.                      *)
LEMMA StepHonest == IInv /\ Honest /\ [Next]_vars => Honest'
<1> SUFFICES ASSUME IInv, Honest, [Next]_vars PROVE Honest'
  OBVIOUS
<1> USE DEF input, outcome, process
<1>1. CASE UNCHANGED vars
  BY <1>1, KeepsHonest DEF vars, Honest
<1>2. ASSUME NEW p \in Tids, NEW t \in Tids, SpawnThread(p, t) PROVE Honest'
  BY <1>2, KeepsHonest DEF SpawnThread, Honest
<1>3. CASE (\E t \in Tids : ThreadExits(t)) \/ ProcessExits
  BY <1>3, KeepsHonest DEF ThreadExits, ProcessExits, Honest
<1>4. CASE MatchRule \/ SetCpuWeight \/ Report
  <2>1. UNCHANGED <<rule, tids, took, status, threads>>
    BY <1>4 DEF MatchRule, SetCpuWeight, Report
  <2>2. result' = "logged" => step' = "done" /\ failure' = {}
    BY <1>4 DEF MatchRule, SetCpuWeight, Report, Honest, IInv, Shape, Errors
  <2> QED
    BY <2>1, <2>2, KeepsHonest
<1>5. CASE GetTids
  <2>1. \A a \in Attributes : status[a] = "untried"
    BY <1>5 DEF GetTids, IInv, TriedInTurn, Behind
  <2> QED
    BY <1>5, <2>1 DEF GetTids, Honest
<1>6. CASE NextReport
  BY <1>6 DEF NextReport, Honest, Untried, Nothing
<1>7. CASE SetPriority \/ SetLatencyNice
  BY <1>7, RecordsHonestly, KeepsHonest
  DEF SetPriority, SetLatencyNice, NotRequested, first_real_error, TookIt, Honest,
      Attributes
<1>8. CASE SetSched
  BY <1>8, RecordsHonestly, KeepsHonest
  DEF SetSched, NotRequested, first_real_error, TookIt, Honest, Attributes
<1>9. CASE SetIoPriority
  BY <1>9, RecordsHonestly, KeepsHonest
  DEF SetIoPriority, NotRequested, first_real_error, TookIt, Honest, Attributes, PerThread
<1>10. CASE SetOomScoreAdj
  BY <1>10, RecordsHonestly, KeepsHonest
  DEF SetOomScoreAdj, NotRequested, first_real_error, TookIt, Honest, Attributes, PerThread
<1>11. CASE AddPidToCgroup
  BY <1>11, RecordsHonestly, KeepsHonest
  DEF AddPidToCgroup, NotRequested, TookIt, Honest, Attributes, PerThread
<1>12. CASE SetAffinity
  BY <1>12, RecordsHonestly, KeepsHonest
  DEF SetAffinity, NotRequested, affinity_error, TookIt, Honest, Attributes, PerThread
<1> QED
  BY <1>1, <1>2, <1>3, <1>4, <1>5, <1>6, <1>7, <1>8, <1>9, <1>10, <1>11, <1>12 DEF Next

(* Whatever the threads, the rule and the configuration, the applied-rule   *)
(* line is logged only for a rule each wanted attribute of which was taken, *)
(* by every listed thread still there where the attribute is per thread     *)
(* (apply_rule, first_real_error).                                          *)
THEOREM LogIsTrue == Spec => []LoggedMeansApplied
<1>1. Init => Honest
  BY DEF Init, Honest, Untried, Nothing
<1>2. IInv /\ [Next]_vars => IInv'
  BY StepSimulated DEF Simulated
<1>3. IInv /\ Honest => LoggedMeansApplied
  <2> SUFFICES ASSUME IInv, Honest, result = "logged",
                      NEW a \in Requested \ Skipped
               PROVE  TookIt(a, took[a])
    BY DEF LoggedMeansApplied, TookIt
  <2>1. a \in Attributes /\ a \in Behind(step) \cap Wanted
    BY DEF Requested, Wanted, Honest, Behind
  <2>2. With("failed") = {}
    BY DEF IInv, Accounts, Honest
  <2>3. status[a] = "ok"
    BY <2>1, <2>2 DEF IInv, Shape, TriedInTurn, With
  <2> QED
    BY <2>1, <2>3 DEF Honest
<1> QED
  BY InitIInv, <1>1, <1>2, <1>3, StepHonest, PTL DEF Spec
=============================================================================
