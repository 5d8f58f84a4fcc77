------------------------------ MODULE Topology ------------------------------
(***************************************************************************)
(* From the machine's CPUs to a process's affinity: topology and X3D        *)
(* detection at start-up, the aliases they give, the worker's resolution of *)
(* a rule's cpuset, and set_affinity with its narrower retry, while CPUs go *)
(* on and off line, cpusets change and threads end.                         *)
(*                                                                          *)
(* A CPU list is a sequence of tokens: a range <<lo, hi>>, a number being   *)
(* <<n, n>>; <<>> for an empty token; <<0>> for one that is no number.      *)
(* A sysfs figure of 0, or an empty one, is a file that is not readable.    *)
(***************************************************************************)
EXTENDS Integers, Sequences, FiniteSets, SequencesExt, FiniteSetsExt

CONSTANTS
    ByteBits,   \* 8
    U32,        \* 2^32
    Tids,       \* the listed threads of the process, the leader first
    Scenes      \* records of a machine and a rule, see below

(* cpus: those sysfs has; online at the start; capacity: each source's      *)
(* figure of each CPU, most precise first; shared: the L2 and the L3's      *)
(* shared_cpu_list; l3: its size; die_id and cluster_id: none or one;       *)
(* x3d: whether the driver or cpuinfo names it; maxCores:                   *)
(* get_max_number_of_cpus; known: what MachineCpus::read can find.          *)
MachineRecord(C) ==
    [cpus : {C}, online : SUBSET C, capacity : Seq([C -> Nat]),
     shared : [{2, 3} -> [C -> SUBSET C]], l3 : [C -> Nat], node : [C -> Nat],
     die_id : [C -> SUBSET Int], cluster_id : [C -> SUBSET Int], x3d : BOOLEAN,
     maxCores : Nat, known : {"possible", "online", "none"}]

(* name: the alias the rule gives, if it gives one, else list; allowed:     *)
(* each thread's cpuset at the start; denied: the threads the daemon may    *)
(* not change; maxChanges: bound on hotplug, cpuset and thread changes.     *)
RuleRecord(C) ==
    [name : SUBSET (STRING \X Int), list : Seq(Seq(Int)),
     allowed : [Range(Tids) -> (SUBSET C) \ {{}}], denied : SUBSET Range(Tids),
     maxChanges : Nat]

ASSUME TopologyAssumption ==
    /\ ByteBits \in Nat \ {0} /\ U32 \in Nat \ {0}
    /\ Tids \in Seq(Range(Tids)) /\ Tids # <<>>
    /\ \A s \in Scenes :
          /\ s.machine \in MachineRecord(s.machine.cpus) /\ 0 \in s.machine.online
          /\ s.rule \in RuleRecord(s.machine.cpus)

VARIABLES
    machine,    \* the machine: a MachineRecord
    rule,       \* the rule's cpuset and the process: a RuleRecord
    online,     \* the CPUs online now
    changes,    \* number of changes so far
    aliases,    \* cpuset_aliases: from names to lists
    pc,         \* where start-up or the worker is
    mask,       \* the CPUs asked for; the narrowed ones on the second pass
    todo,       \* threads the pass has yet to visit
    allowed,    \* the leader's affinity, as narrow_and_retry read it
    errors,     \* what the pass has met
    result,     \* set_affinity's answer, or the worker's
    live,       \* the threads that have not ended
    cpuset,     \* the CPUs each thread's cgroup lets it use
    affinity,   \* the CPUs each thread runs on
    placed,     \* history: threads the rule has set
    disturbed   \* history: something changed since the worker took the rule

vars == <<machine, rule, online, changes, aliases, pc, mask, todo, allowed, errors, result,
          live, cpuset, affinity, placed, disturbed>>

-----------------------------------------------------------------------------
(* CPU lists.                                                               *)

UpToGap(acc, cpu) ==
    IF acc # <<>> /\ cpu = Last(acc)[2] + 1
    THEN [acc EXCEPT ![Len(acc)] = <<@[1], cpu>>]
    ELSE Append(acc, <<cpu, cpu>>)

WithTrailingComma(cores) ==
    IF cores = {} THEN <<>>
    ELSE Append(FoldLeft(UpToGap, <<>>, SetToSortSeq(cores, <)), <<>>)

(* format_cpuset, of topology.rs and of x3d.rs: the CPUs in order, a run of *)
(* consecutive ones as a range.                                             *)
format_cpuset(cores) == FoldLeft(UpToGap, <<>>, SetToSortSeq(cores, <))

IsRange(token) == Len(token) = 2

(* CpuSet::parse: none or one set.  The last of several tokens may be       *)
(* empty; any other irregularity refuses the list.                          *)
parse(list, maxCores) ==
    LET Accepts(i) ==
            \/ list[i] = <<>> /\ i = Len(list)
            \/ /\ IsRange(list[i])
               /\ list[i][1] <= list[i][2] /\ list[i][2] < maxCores
    IN  IF list \in {<<>>, <<<<>>>>} \/ \E i \in 1..Len(list) : ~Accepts(i) THEN {}
        ELSE {UNION {list[i][1]..list[i][2] : i \in {j \in 1..Len(list) : IsRange(list[j])}}}

-----------------------------------------------------------------------------
(* topology.rs.                                                             *)

Key(m, c) == IF m.shared[3][c] # {} THEN m.shared[3][c] ELSE m.shared[2][c]

LlcKeysAsListed(m, up) ==
    FoldLeft(LAMBDA keys, c : IF Key(m, c) \in {{}} \cup Range(keys) THEN keys
                              ELSE Append(keys, Key(m, c)),
             <<>>, SetToSortSeq(up, >))

(* get_llc_id over the CPUs in ascending order: the keys seen so far are    *)
(* numbered in order, and a CPU without a key is given 0.                   *)
LlcKeys(m, up) ==
    FoldLeft(LAMBDA keys, c : IF Key(m, c) \in {{}} \cup Range(keys) THEN keys
                              ELSE Append(keys, Key(m, c)),
             <<>>, SetToSortSeq(up, <))

LlcId(m, up, c) ==
    IF Key(m, c) = {} THEN 0
    ELSE (CHOOSE i \in 1..Len(LlcKeys(m, up)) : LlcKeys(m, up)[i] = Key(m, c)) - 1

LlcIds(m, up) == {LlcId(m, up, c) : c \in up}
LlcGroup(m, up, id) == {c \in up : LlcId(m, up, c) = id}

(* llc_l3_size: the last readable size of the group.                        *)
L3(m, cores) ==
    LET readable == {c \in cores : m.l3[c] > 0}
    IN  IF readable = {} THEN 0 ELSE m.l3[Max(readable)]

BiggestLlc(m, up) ==
    LET size == [id \in LlcIds(m, up) |-> L3(m, LlcGroup(m, up, id))]
        biggest == Max({0} \cup Range(size))
    IN  IF biggest = 0 THEN {}
        ELSE UNION {LlcGroup(m, up, id) : id \in {i \in DOMAIN size : size[i] = biggest}}

FirstReadable(m, up) ==
    LET reports == {s \in 1..Len(m.capacity) : m.capacity[s][Min(up)] > 0}
    IN  IF reports # {} THEN Min(reports) ELSE Len(m.capacity)

(* The first source that reports a value for the first CPU and another one  *)
(* for some CPU; else the last that reports one; else the last.             *)
pick_capacity_source(m, up) ==
    LET reports == {s \in 1..Len(m.capacity) : m.capacity[s][Min(up)] > 0}
        tellsApart == {s \in reports : \E c \in up :
                           m.capacity[s][c] \notin {0, m.capacity[s][Min(up)]}}
    IN  IF tellsApart # {} THEN Min(tellsApart)
        ELSE IF reports # {} THEN Max(reports) ELSE Len(m.capacity)

Homogeneous(up) == [has_big_little |-> FALSE, big |-> up, little |-> {}, turbo |-> {}]

(* The core classes, from the chosen source's figures.                      *)
Tiers(metric, up) ==
    LET measured == {c \in up : metric[c] > 0}
        values == {metric[c] : c \in measured}
        sum == MapThenSumSet(LAMBDA c : metric[c], measured)
    IN  IF Cardinality(values) <= 1 \/ 10 * Max(values) < 13 * Min(values)
        THEN Homogeneous(up)
        ELSE [has_big_little |-> TRUE,
              little |-> {c \in measured : metric[c] * Cardinality(measured) < sum},
              big |-> {c \in measured : metric[c] * Cardinality(measured) >= sum},
              turbo |-> {c \in measured : metric[c] = Max(values)}]

DetectedTiers(m, up) == Tiers(m.capacity[pick_capacity_source(m, up)], up)

(* generate_cpuset_aliases.  all-cores and efficiency-cores are all and     *)
(* little-cores once more.                                                  *)
TopologyAliases(m, up) ==
    LET tiers == DetectedTiers(m, up)
        performance == IF tiers.turbo \notin {{}, up} THEN tiers.turbo ELSE tiers.big
        fixed == (<<"all", 0>> :> up) @@ (<<"big-cores", 0>> :> tiers.big)
                 @@ (<<"little-cores", 0>> :> tiers.little)
                 @@ (<<"turbo-cores", 0>> :> tiers.turbo)
                 @@ (<<"performance-cores", 0>> :> performance)
        cache == IF BiggestLlc(m, up) = {} THEN <<>>
                 ELSE <<"x3d-cache", 0>> :> BiggestLlc(m, up)
        llcs == [a \in {"llc"} \X LlcIds(m, up) |-> LlcGroup(m, up, a[2])]
        nodes == [a \in {"node"} \X {m.node[c] : c \in up} |->
                      {c \in up : m.node[c] = a[2]}]
        sets == fixed @@ cache @@ llcs @@ nodes
    IN  [a \in DOMAIN sets |-> format_cpuset(sets[a])]

-----------------------------------------------------------------------------
(* x3d.rs: every CPU sysfs has, online or not.                              *)

DieIdOnly(m, c) == IF m.die_id[c] = {} THEN 0 ELSE (CHOOSE i \in m.die_id[c] : TRUE) % U32

(* A die_id that is missing or -1 is replaced by a readable cluster_id;     *)
(* what is left of -1 wraps.                                                *)
Die(m, c) ==
    LET id == IF m.die_id[c] \in {{}, {-1}} /\ m.cluster_id[c] # {} THEN m.cluster_id[c]
              ELSE m.die_id[c]
    IN  IF id = {} THEN 0 ELSE (CHOOSE i \in id : TRUE) % U32

DieCores(m, d) == {c \in m.cpus : Die(m, c) = d}

(* detect_x3d_topology_impl: none or one pair of cache and frequency cores. *)
(* read_dir's order decides which CPU's size stands for a die.              *)
X3DTopologies(m) ==
    LET dies == {Die(m, c) : c \in m.cpus}
        sized == {d \in dies : L3(m, DieCores(m, d)) > 0}
        sizes == [sized -> {m.l3[c] : c \in m.cpus}]
        CacheDie(size) == Min({d \in sized : size[d] = Max(Range(size))})
        Split(d) == [cache |-> DieCores(m, d), frequency |-> m.cpus \ DieCores(m, d)]
    IN  IF ~m.x3d THEN {{}}
        ELSE IF Cardinality(dies) < 2
             THEN {{[cache |-> m.cpus, frequency |-> m.cpus]}}
        ELSE IF sized = {} THEN {{}}
        ELSE {{Split(CacheDie(size))} : size \in
                  {f \in sizes : \A d \in sized :
                       f[d] > 0 /\ f[d] \in {m.l3[c] : c \in DieCores(m, d)}}}

X3DAliases(t) ==
    (<<"x3d-cache", 0>> :> format_cpuset(t.cache))
    @@ (<<"x3d-frequency", 0>> :> format_cpuset(t.frequency))

-----------------------------------------------------------------------------
(* The machine, the kernel and the process (external).                      *)

environment == <<machine, rule, online, changes, live, cpuset, affinity, disturbed>>

Change ==
    /\ changes < rule.maxChanges
    /\ changes' = changes + 1
    /\ disturbed' = TRUE
    /\ UNCHANGED <<machine, rule, aliases, pc, mask, todo, allowed, errors, result, placed>>

(* A CPU other than 0 goes off line or comes back.                          *)
Hotplug(c) ==
    /\ Change
    /\ online' = IF c \in online THEN online \ {c} ELSE online \cup {c}
    /\ UNCHANGED <<live, cpuset, affinity>>

(* The thread is moved to a cpuset: what is left of its CPUs, else all.     *)
MoveToCpuset(t, cpus) ==
    /\ Change
    /\ t \in live /\ cpuset[t] # cpus
    /\ cpuset' = [cpuset EXCEPT ![t] = cpus]
    /\ affinity' = [affinity EXCEPT ![t] = IF @ \cap cpus # {} THEN @ \cap cpus ELSE cpus]
    /\ UNCHANGED <<online, live>>

(* A thread ends, or with its leader the process.                           *)
ThreadEnds(t) ==
    /\ Change
    /\ t \in live
    /\ live' = IF t = Head(Tids) THEN {} ELSE live \ {t}
    /\ UNCHANGED <<online, cpuset, affinity>>

(* sched_setaffinity(2): the mask's CPUs that the thread's cpuset has, at   *)
(* least one of them online.                                                *)
SetAffinityFor(t) ==
    IF t \notin live THEN "ESRCH"
    ELSE IF t \in rule.denied THEN "EPERM"
    ELSE IF mask \cap cpuset[t] \cap online = {} THEN "EINVAL" ELSE "ok"

-----------------------------------------------------------------------------
(* Start-up.                                                                *)

(* detect_topology, and the aliases it gives.                               *)
DetectTopology ==
    /\ pc = "detect"
    /\ aliases' = TopologyAliases(machine, online)
    /\ pc' = "x3d"
    /\ UNCHANGED <<environment, mask, todo, allowed, errors, result, placed>>

(* detect_x3d_topology, whose aliases replace topology's.                   *)
DetectX3D ==
    /\ pc = "x3d"
    /\ \E found \in X3DTopologies(machine) :
           aliases' = IF found = {} THEN aliases
                      ELSE X3DAliases(CHOOSE t \in found : TRUE) @@ aliases
    /\ pc' = "rule"
    /\ UNCHANGED <<environment, mask, todo, allowed, errors, result, placed>>

-----------------------------------------------------------------------------
(* The worker.                                                              *)

NoErrors == [applied |-> FALSE, notFound |-> FALSE, first |-> "none"]
NumBytes == machine.maxCores \div ByteBits

Answer(r) == pc' = "done" /\ result' = r

(* The list the rule's cpuset stands for: an alias's, else what it says; a  *)
(* name that is no alias is no list.                                        *)
RuleList ==
    IF rule.name = {} THEN rule.list
    ELSE LET name == CHOOSE n \in rule.name : TRUE
         IN  IF name \in DOMAIN aliases THEN aliases[name] ELSE <<<<0>>>>

(* mask_from: a CPU past the last whole byte.                               *)
OutOfBounds(cpus) == \E c \in cpus : c \div ByteBits >= NumBytes

(* apply_rule's cpuset: an empty alias is left alone, a list that does not  *)
(* parse is an error, and otherwise set_affinity builds its mask and goes   *)
(* through the threads.                                                     *)
TakeRule ==
    /\ pc = "rule"
    /\ LET parsed == parse(RuleList, machine.maxCores) IN
       \/ RuleList = <<>> /\ Answer("left alone") /\ UNCHANGED <<mask, todo, errors>>
       \/ /\ RuleList # <<>> /\ parsed = {}
          /\ Answer("invalid") /\ UNCHANGED <<mask, todo, errors>>
       \/ \E requested \in parsed :
              IF OutOfBounds(requested)
              THEN Answer("panicked") /\ UNCHANGED <<mask, todo, errors>>
              ELSE /\ mask' = requested /\ todo' = Tids /\ errors' = NoErrors
                   /\ pc' = "first pass"
                   /\ UNCHANGED result
    /\ disturbed' = FALSE
    /\ UNCHANGED <<machine, rule, online, changes, live, cpuset, affinity, aliases, allowed,
                   placed>>

Passing == pc \in {"first pass", "second pass"}

StopsAtSuccess(r) == IF r = "ok" THEN <<>> ELSE Tail(todo)

(* apply_to_tids goes on whatever a thread's call answered.                 *)
Remaining(r) == Tail(todo)

(* apply_to_tids, one thread.                                               *)
SetOne ==
    /\ Passing /\ todo # <<>>
    /\ LET t == Head(todo)
           r == SetAffinityFor(t)
           refused == r \in {"EINVAL", "EPERM"}
       IN  /\ errors' = [applied |-> errors.applied \/ r = "ok",
                         notFound |-> errors.notFound \/ r = "ESRCH",
                         first |-> IF errors.first = "none" /\ refused THEN r ELSE errors.first]
           /\ affinity' = IF r = "ok" THEN [affinity EXCEPT ![t] = mask \cap cpuset[t]]
                          ELSE affinity
           /\ placed' = IF r = "ok" THEN placed \cup {t} ELSE placed
           /\ todo' = Remaining(r)
    /\ UNCHANGED <<machine, rule, online, changes, aliases, pc, mask, allowed, result, live,
                   cpuset, disturbed>>

ErrorsFirst(e) ==
    IF e.first # "none" THEN e.first
    ELSE IF e.notFound THEN "not found" ELSE "applied"

(* What a whole pass amounts to.                                            *)
PassResult(e) ==
    IF e.applied THEN "applied"
    ELSE IF e.first # "none" THEN e.first
    ELSE IF e.notFound THEN "not found" ELSE "applied"

(* The end of a pass: EINVAL leads to the retry the first time, and is a    *)
(* skip the second; EPERM is final.                                         *)
EndPass ==
    /\ Passing /\ todo = <<>>
    /\ LET r == PassResult(errors) IN
       \/ r # "EINVAL" /\ Answer(r)
       \/ r = "EINVAL" /\ pc = "second pass" /\ Answer("skipped")
       \/ r = "EINVAL" /\ pc = "first pass" /\ pc' = "allowed" /\ UNCHANGED result
    /\ UNCHANGED <<environment, aliases, mask, todo, allowed, errors, placed>>

(* A kernel list read into a mask: the CPUs of whole bytes.                 *)
Visible(cpus) == {c \in cpus : c \div ByteBits < NumBytes}

(* narrow_and_retry reads the leader's affinity.                            *)
ReadAllowed ==
    /\ pc = "allowed"
    /\ LET read == IF live = {} THEN {} ELSE Visible(affinity[Head(Tids)]) IN
       \/ read = {} /\ Answer("allowed unreadable") /\ UNCHANGED allowed
       \/ read # {} /\ allowed' = read /\ pc' = "narrow" /\ UNCHANGED result
    /\ UNCHANGED <<environment, aliases, mask, todo, errors, placed>>

(* MachineCpus::read: none or one set.                                      *)
MachineCpus ==
    LET cpus == Visible(IF machine.known = "possible" THEN machine.cpus ELSE online)
    IN  IF machine.known = "none" \/ cpus = {} THEN {} ELSE {cpus}

(* What narrow_and_retry makes of the mask: CPUs the machine does not have, *)
(* none the process may use, nothing narrowed, or a second pass.            *)
NarrowDecision(narrowed) ==
    IF \E cpus \in MachineCpus : mask \cap cpus = {} THEN "absent"
    ELSE IF narrowed = {} THEN IF MachineCpus = {} THEN "EIO" ELSE "skipped"
    ELSE IF narrowed = mask THEN "EIO" ELSE "retry"

Narrow ==
    /\ pc = "narrow"
    /\ LET narrowed == mask \cap allowed
           decision == NarrowDecision(narrowed)
       IN  \/ /\ decision = "retry" /\ pc' = "second pass"
              /\ mask' = narrowed /\ todo' = Tids /\ errors' = NoErrors
              /\ UNCHANGED result
           \/ decision # "retry" /\ Answer(decision) /\ UNCHANGED <<mask, todo, errors>>
    /\ UNCHANGED <<environment, aliases, allowed, placed>>

-----------------------------------------------------------------------------

Init ==
    /\ \E s \in Scenes :
          /\ machine = s.machine /\ rule = s.rule
          /\ online = s.machine.online
          /\ cpuset = s.rule.allowed /\ affinity = s.rule.allowed
    /\ changes = 0 /\ disturbed = FALSE
    /\ aliases = <<>> /\ pc = "detect" /\ result = "none"
    /\ mask = {} /\ todo = <<>> /\ allowed = {} /\ errors = NoErrors
    /\ live = Range(Tids) /\ placed = {}

Environment ==
    \/ \E c \in machine.cpus \ {0} : Hotplug(c)
    \/ \E t \in Range(Tids), cpus \in (SUBSET machine.cpus) \ {{}} : MoveToCpuset(t, cpus)
    \/ \E t \in Range(Tids) : ThreadEnds(t)

Daemon ==
    \/ DetectTopology \/ DetectX3D \/ TakeRule
    \/ SetOne \/ EndPass \/ ReadAllowed \/ Narrow

Next == Environment \/ Daemon

Spec == Init /\ [][Next]_vars

-----------------------------------------------------------------------------
(* Properties.                                                              *)

Results == {"none", "left alone", "invalid", "panicked", "applied", "EPERM", "not found",
            "skipped", "allowed unreadable", "absent", "EIO"}

(* Every variable has its type: the aliases are CPU lists, the mask is of   *)
(* CPUs below get_max_number_of_cpus.                                       *)
TypeOK ==
    /\ online \subseteq machine.cpus
    /\ changes \in 0..rule.maxChanges
    /\ \A a \in DOMAIN aliases : \A i \in 1..Len(aliases[a]) : IsRange(aliases[a][i])
    /\ pc \in {"detect", "x3d", "rule", "first pass", "allowed", "narrow", "second pass", "done"}
    /\ mask \subseteq 0..(machine.maxCores - 1)
    /\ allowed \subseteq machine.cpus
    /\ result \in Results
    /\ live \subseteq Range(Tids) /\ placed \subseteq Range(Tids)
    /\ \A t \in Range(Tids) :
          affinity[t] # {} /\ affinity[t] \subseteq machine.cpus

Named(a) == UNION parse(aliases[a], machine.maxCores)
Detected == pc = "x3d" /\ changes = 0

(* The llc-N aliases, read back with the worker's own parser, are the       *)
(* caches of topology.rs's walk: two online CPUs are in one of them exactly *)
(* when they share the last cache that is readable, each online CPU is in   *)
(* one, and N counts the caches by their first CPU.  A CPU without a        *)
(* readable cache is the exception, see LlcZeroIsCpuZeros.                  *)
LlcAliasesAreTheCaches ==
    Detected /\ (\A c \in online : Key(machine, c) # {}) =>
        LET llcs == {a \in DOMAIN aliases : a[1] = "llc"} IN
        /\ UNION {Named(a) : a \in llcs} = online
        /\ \A a \in llcs : \A c \in Named(a) :
               Named(a) = {d \in online : Key(machine, d) = Key(machine, c)}
        /\ \A a, b \in llcs : a[2] < b[2] => Min(Named(a)) < Min(Named(b))

(* Some source that every CPU reports puts two CPUs a factor of 1.3 apart,   *)
(* and no source before it tells any two apart.                             *)
Heterogeneous ==
    \E s \in 1..Len(machine.capacity) :
        LET figure == machine.capacity[s] IN
        /\ \A c \in online : figure[c] > 0
        /\ \E c, d \in online : 10 * figure[c] >= 13 * figure[d]
        /\ \A r \in 1..(s - 1) : \A c, d \in online :
               machine.capacity[r][c] = machine.capacity[r][d]

(* A uniform source does not hide a heterogeneous machine (TOPOLOGY.md:37),  *)
(* and there little-cores and big-cores both name some CPU, every little    *)
(* CPU is weaker than every big one by the chosen source, and               *)
(* performance-cores are big.  On a machine without classes only big-cores  *)
(* and performance-cores name CPUs, all of them, so that a rule for another *)
(* class leaves the process alone (pick_capacity_source,                    *)
(* detect_topology_impl).                                                   *)
TiersAreOrdered ==
    Detected =>
        LET little == Named(<<"little-cores", 0>>)
            big == Named(<<"big-cores", 0>>)
            turbo == Named(<<"turbo-cores", 0>>)
            performance == Named(<<"performance-cores", 0>>)
            metric == machine.capacity[pick_capacity_source(machine, online)]
        IN  /\ Heterogeneous => little # {}
            /\ \/ /\ little # {} /\ big # {} /\ turbo # {}
                  /\ \A c \in little, d \in big : metric[c] < metric[d]
                  /\ performance \subseteq big
               \/ little = {} /\ turbo = {} /\ big = online /\ performance = online

(* Where die_id, or cluster_id when die_id is -1, tells any two CPUs of     *)
(* different L3 sizes apart, an X3D machine's x3d-cache names only CPUs of  *)
(* the largest L3, whatever order the directory is read in, and every CPU   *)
(* is in x3d-cache or in x3d-frequency.                                     *)
X3DCacheIsTheLargest ==
    /\ pc = "rule" /\ changes = 0 /\ <<"x3d-frequency", 0>> \in DOMAIN aliases
    /\ \A c, d \in machine.cpus : machine.l3[c] # machine.l3[d] =>
           \/ machine.die_id[c] # machine.die_id[d]
           \/ machine.die_id[c] = {-1} /\ machine.cluster_id[c] # machine.cluster_id[d]
    => LET cache == Named(<<"x3d-cache", 0>>) IN
       /\ \A c \in cache, d \in machine.cpus : machine.l3[d] <= machine.l3[c]
       /\ cache \cup Named(<<"x3d-frequency", 0>>) = machine.cpus

(* What the rule's list asks for.                                           *)
Requested == UNION parse(RuleList, machine.maxCores)
Reaches(t) == t \in live \ rule.denied /\ Requested \cap cpuset[t] \cap online # {}

(* One thread's refusal costs no other thread its placement: when nothing   *)
(* else changed meanwhile and set_affinity succeeds, every live thread that *)
(* may run on a CPU of the rule runs only on the rule's CPUs, of its        *)
(* cpuset.                                                                  *)
EveryThreadPlaced ==
    pc = "done" /\ result = "applied" /\ ~disturbed =>
        \A t \in Range(Tids) : Reaches(t) => affinity[t] = Requested \cap cpuset[t]

(* An error of set_affinity is the truth.  It means that no thread's        *)
(* affinity was changed, through both passes and whatever else changed.     *)
(* And if nothing did, "absent" means that the machine has (or has online,  *)
(* if only that is readable) none of the rule's CPUs, and "skipped" that it *)
(* has one and that no thread the daemon may change could have been placed  *)
(* (set_affinity, narrow_and_retry).                                        *)
FailureIsTrue ==
    pc = "done" =>
        /\ result # "applied" => placed = {}
        /\ result = "absent" /\ ~disturbed =>
              Requested \cap (IF machine.known = "possible" THEN machine.cpus ELSE online) = {}
        /\ result = "skipped" /\ ~disturbed =>
              /\ Requested \cap machine.cpus # {}
              /\ \A t \in Range(Tids) : ~Reaches(t)

(* Stated by COMPATIBILITY.md:329: llc-0 is the cache that contains CPU 0.  *)
LlcZeroIsCpuZeros ==
    Detected => \A c \in Named(<<"llc", 0>>) : Key(machine, c) = Key(machine, 0)

(* Stated by affinity.rs:9-13: a machine with more than 1024 CPUs is given  *)
(* a mask of its own size.                                                  *)
MaskHoldsEveryCpu == result # "panicked"

(* Stated by x3d.rs:127-129 and TOPOLOGY.md:24: the X3D and the topology    *)
(* detector agree on which CPUs have the largest L3.                        *)
DetectorsAgree ==
    pc = "rule" /\ changes = 0 /\ <<"x3d-frequency", 0>> \in DOMAIN aliases
    /\ BiggestLlc(machine, online) # {} =>
        Named(<<"x3d-cache", 0>>) = BiggestLlc(machine, online)

=============================================================================
