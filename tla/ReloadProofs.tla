---------------------------- MODULE ReloadProofs ----------------------------
(***************************************************************************)
(* What a reload may change, for any number of files, edits and requests.   *)
(***************************************************************************)
EXTENDS Reload, TLAPS

USE ReloadAssumption DEF RuleFiles

Places == {"idle", "level", "rules", "load", "cgroups", "stopped"}

Shape ==
    /\ signal \in [pc : Places, next : 1..(Files + 1), fresh : [RuleFiles -> Nat]]
    /\ files \in [RuleFiles -> Nat] /\ edits \in Nat
    /\ seen \in [RuleFiles -> SUBSET Nat]

(* The level lags only where Reload::apply is about to set it.              *)
LevelFollows == signal.pc # "level" => level = LevelOf(config)

(* While a reload is under way, what each file is now has been seen.        *)
SeenIsCurrent ==
    signal.pc \in {"level", "rules", "load", "cgroups"} =>
        \A f \in RuleFiles : files[f] \in seen[f]

(* While the set is loaded, rule_load is on and the files loaded so far are *)
(* in it as they were seen.                                                 *)
FreshIsSeen ==
    signal.pc = "load" =>
        /\ config.rule_load
        /\ \A f \in RuleFiles : f < signal.next => signal.fresh[f] \in seen[f]

IInv == Shape /\ LevelFollows /\ SeenIsCurrent /\ FreshIsSeen

(* The daemon starts with what it has read and no reload under way.         *)
LEMMA InitIInv == Init => IInv
<1> SUFFICES ASSUME Init PROVE IInv
  OBVIOUS
<1>1. Shape
  BY DEF Init, Shape, Places
<1>2. LevelFollows /\ SeenIsCurrent /\ FreshIsSeen
  BY DEF Init, LevelFollows, SeenIsCurrent, FreshIsSeen
<1> QED
  BY <1>1, <1>2 DEF IInv

(* Steps of the command, of the worker and of an edit of the configuration. *)
LEMMA Bystander ==
    ASSUME IInv, UNCHANGED <<files, config, level, override, signal, seen>>,
           edits' \in Nat
    PROVE  IInv'
BY DEF IInv, Shape, LevelFollows, LevelOf, SeenIsCurrent, FreshIsSeen

(* An edit of a rule file; a reload under way is told of it as seen.        *)
LEMMA EditRulesIInv ==
    ASSUME IInv, EditRules
    PROVE  IInv'
<1> PICK f \in RuleFiles, v \in {Absent, edits + 2} :
        /\ files' = [files EXCEPT ![f] = v]
        /\ seen' = [seen EXCEPT ![f] = IF signal.pc = "idle" THEN @ ELSE @ \cup {v}]
  BY DEF EditRules
<1>1. v \in Nat
  BY DEF Absent, IInv, Shape
<1>2. UNCHANGED <<config, level, override, signal>> /\ edits' = edits + 1
  BY DEF EditRules
<1>3. \A g \in RuleFiles : seen[g] \subseteq seen'[g]
  BY DEF IInv, Shape
<1>4. Shape'
  BY <1>1, <1>2, SMTT(30) DEF IInv, Shape
<1>5. LevelFollows'
  BY <1>2 DEF IInv, LevelFollows, LevelOf
<1>6. SeenIsCurrent'
  BY <1>2, <1>3 DEF IInv, Shape, SeenIsCurrent
<1>7. FreshIsSeen'
  BY <1>2, <1>3 DEF IInv, Shape, FreshIsSeen
<1> QED
  BY <1>4, <1>5, <1>6, <1>7 DEF IInv

(* The signal thread: Reload::apply, one file after another, and the end.   *)
LEMMA SignalIInv ==
    ASSUME IInv, SignalThread \/ Stop
    PROVE  IInv'
<1> USE DEF input, Places
<1>1. CASE ReloadConfig
  <2>1. /\ signal'.pc \in {"level", "rules"}
        /\ signal' \in [pc : Places, next : 1..(Files + 1), fresh : [RuleFiles -> Nat]]
    BY <1>1 DEF ReloadConfig, ReadConfig, IInv, Shape
  <2>2. Shape'
    BY <1>1, <2>1 DEF ReloadConfig, IInv, Shape
  <2>3. LevelFollows'
    BY <1>1, <2>1 DEF ReloadConfig, ReadConfig, IInv, Shape, LevelFollows, LevelOf
  <2>4. SeenIsCurrent' /\ FreshIsSeen'
    BY <1>1, <2>1 DEF ReloadConfig, IInv, Shape, SeenIsCurrent, FreshIsSeen
  <2> QED
    BY <2>2, <2>3, <2>4 DEF IInv
<1>2. CASE SetLogLevel
  <2>1. Shape' /\ signal'.pc = "rules"
    BY <1>2 DEF SetLogLevel, IInv, Shape
  <2>2. LevelFollows' /\ SeenIsCurrent' /\ FreshIsSeen'
    BY <1>2, <2>1 DEF SetLogLevel, IInv, LevelFollows, LevelOf, SeenIsCurrent, FreshIsSeen
  <2> QED
    BY <2>1, <2>2 DEF IInv
<1>3. CASE CheckRuleLoad
  <2>1. /\ signal'.pc \in {"load", "idle"}
        /\ signal'.pc = "load" => config.rule_load /\ signal'.next = 1
    BY <1>3 DEF CheckRuleLoad, IInv, Shape
  <2>2. Shape'
    <3>1. CASE config.rule_load
      BY <1>3, <3>1 DEF CheckRuleLoad, IInv, Shape, Absent
    <3>2. CASE ~config.rule_load
      BY <1>3, <3>2 DEF CheckRuleLoad, IInv, Shape
    <3> QED
      BY <3>1, <3>2
  <2>3. LevelFollows' /\ SeenIsCurrent' /\ FreshIsSeen'
    BY <1>3, <2>1 DEF CheckRuleLoad, IInv, LevelFollows, LevelOf, SeenIsCurrent, FreshIsSeen
  <2> QED
    BY <2>2, <2>3 DEF IInv
<1>4. CASE LoadRuleFile
  <2>1. /\ signal'.pc = "load" /\ signal'.next = signal.next + 1
        /\ signal'.fresh = [signal.fresh EXCEPT ![signal.next] = files[signal.next]]
    BY <1>4 DEF LoadRuleFile, IInv, Shape
  <2>2. Shape'
    <3>1. signal.next + 1 \in 1..(Files + 1) /\ files[signal.next] \in Nat
      BY <1>4 DEF LoadRuleFile, IInv, Shape
    <3>2. signal' = [pc |-> "load", next |-> signal.next + 1,
                     fresh |-> [signal.fresh EXCEPT ![signal.next] = files[signal.next]]]
      BY <1>4 DEF LoadRuleFile, IInv, Shape
    <3>3. [signal.fresh EXCEPT ![signal.next] = files[signal.next]] \in [RuleFiles -> Nat]
      BY <3>1 DEF IInv, Shape
    <3>4. signal' \in [pc : Places, next : 1..(Files + 1), fresh : [RuleFiles -> Nat]]
      BY <3>1, <3>2, <3>3
    <3> QED
      BY <1>4, <3>4 DEF LoadRuleFile, IInv, Shape
  <2>3. LevelFollows' /\ SeenIsCurrent'
    BY <1>4, <2>1 DEF LoadRuleFile, IInv, LevelFollows, LevelOf, SeenIsCurrent
  <2>4. FreshIsSeen'
    BY <1>4, <2>1, SMTT(30) DEF LoadRuleFile, IInv, Shape, SeenIsCurrent, FreshIsSeen
  <2> QED
    BY <2>2, <2>3, <2>4 DEF IInv
<1>5. CASE Replace \/ CreateCgroups \/ Stop
  BY <1>5 DEF Replace, CreateCgroups, Stop, IInv, Shape, LevelFollows, LevelOf,
              SeenIsCurrent, FreshIsSeen
<1> QED
  BY <1>1, <1>2, <1>3, <1>4, <1>5 DEF SignalThread

(* Every step of the command, the editors, the signal thread and the        *)
(* worker.                                                                  *)
LEMMA StepIInv == IInv /\ [Next]_vars => IInv'
<1> SUFFICES ASSUME IInv, [Next]_vars PROVE IInv'
  OBVIOUS
<1> USE DEF input
<1>1. CASE UNCHANGED vars
  BY <1>1, Bystander DEF vars, IInv, Shape
<1>2. CASE EditConf \/ CommandLoads \/ CommandSignals \/ Match \/ Apply
  <2>1. UNCHANGED <<files, config, level, override, signal, seen>>
    BY <1>2 DEF EditConf, CommandLoads, CommandSignals, Match, Apply
  <2>2. edits' = edits + 1 \/ edits' = edits
    BY <1>2 DEF EditConf, CommandLoads, CommandSignals, Match, Apply
  <2> QED
    BY <2>1, <2>2, Bystander, SMTT(30) DEF IInv, Shape
<1>3. CASE EditRules
  BY <1>3, EditRulesIInv
<1>4. CASE SignalThread \/ Stop
  BY <1>4, SignalIInv
<1> QED
  BY <1>1, <1>2, <1>3, <1>4 DEF Next, SignalThread

(* A reload changes the configuration, the level and the rules only to what *)
(* it has read, and swaps in complete, new sets (Reload::apply).            *)
THEOREM ReloadChangesAreRead == Spec => ChangesAreRead
<1> DEFINE Read ==
        /\ config' # config => conf.state = "there" /\ config' = Parse(conf)
        /\ signal'.pc # "level" => level' = LevelOf(config')
        /\ rules' # rules =>
              config.rule_load /\ \A f \in RuleFiles : rules'[f] \in seen[f]
<1>1. IInv /\ IInv' /\ Next => Read
  <2> SUFFICES ASSUME IInv, IInv', Next PROVE Read
    OBVIOUS
  <2> USE DEF input
  <2>1. override' = override
    BY DEF Next, EditConf, EditRules, CommandLoads, CommandSignals, ReloadConfig,
           SetLogLevel, CheckRuleLoad, LoadRuleFile, Replace, CreateCgroups, Stop,
           Match, Apply
  <2>2. signal'.pc # "level" => level' = LevelOf(config')
    BY <2>1 DEF IInv, LevelFollows, LevelOf
  <2>3. config' # config => conf.state = "there" /\ config' = Parse(conf)
    BY DEF Next, EditConf, EditRules, CommandLoads, CommandSignals, ReloadConfig,
           ReadConfig, SetLogLevel, CheckRuleLoad, LoadRuleFile, Replace, CreateCgroups,
           Stop, Match, Apply
  <2>4. rules' # rules => Replace
    BY DEF Next, EditConf, EditRules, CommandLoads, CommandSignals, ReloadConfig,
           SetLogLevel, CheckRuleLoad, LoadRuleFile, CreateCgroups, Stop, Match, Apply
  <2>5. Replace => config.rule_load /\ \A f \in RuleFiles : rules'[f] \in seen[f]
    BY DEF Replace, IInv, Shape, FreshIsSeen
  <2> QED
    BY <2>2, <2>3, <2>4, <2>5
<1>2. Spec => []IInv
  BY InitIInv, StepIInv, PTL DEF Spec
<1>3. IInv /\ IInv' /\ [Next]_vars => [Read]_vars
  BY <1>1
<1> QED
  BY <1>2, <1>3, PTL DEF Spec, ChangesAreRead
=============================================================================
