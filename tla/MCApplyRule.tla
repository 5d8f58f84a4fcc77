---------------------------- MODULE MCApplyRule ----------------------------
(* Instances of ApplyRule for TLC: rules of a few attributes each.          *)
EXTENDS ApplyRule, FiniteSetsExt

CONSTANT MaxAttributes   \* bound on the attributes of one rule

Settings ==
    ({"nice", "latnice", "oom", "ionice", "cgroup", "cpuset"} \X {"set"})
        \cup ({"sched"} \X {"other", "fifo", "deadline", "unknown"})
        \cup ({"ionice"} \X {"none", "unknown"})
        \cup {<<"cgroup", "missing">>, <<"cpuset", "empty">>, <<"cpuset", "unknown">>}

RuleOf(S) ==
    [a \in Attributes |->
        IF \E s \in S : s[1] = a THEN (CHOOSE s \in S : s[1] = a)[2] ELSE "absent"]

MCRules == {RuleOf(S) : S \in UNION {kSubset(k, Settings) : k \in 0..MaxAttributes}}

MCConfigs == {Options, Options \ {"realtime_workaround", "cpu_weight", "oom"}}
=============================================================================
