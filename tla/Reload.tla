------------------------------- MODULE Reload -------------------------------
(***************************************************************************)
(* A reload: an operator edits the files and runs `ananicy-rs --reload';    *)
(* the signal thread re-reads the configuration and the rule files and      *)
(* swaps them in, while the worker takes the snapshots it applies.          *)
(*                                                                         *)
(* A configuration has one key besides rule_load: the log level, which also *)
(* stands for the keys that are read at each event.  A rule file is the     *)
(* number of its last edit, or Absent, and defines a cgroup of that number. *)
(***************************************************************************)
EXTENDS Naturals, FiniteSets

CONSTANTS
    MaxLevel,    \* the log levels are 0..MaxLevel, the last the most verbose
    Default,     \* the default level
    Files,       \* the rule files are 1..Files
    Edits,       \* what the operator does: a subset of {"conf", "rules"}
    MaxEdits,    \* bound on the edits
    MaxReloads   \* bound on the reload commands

ASSUME ReloadAssumption ==
    /\ MaxLevel \in Nat /\ Default \in 0..MaxLevel
    /\ Files \in Nat \ {0} /\ MaxEdits \in Nat /\ MaxReloads \in Nat

VARIABLES
    conf,       \* ananicy.conf: its state and what its lines say
    files,      \* the rule files
    edits,      \* number of edits so far
    client,     \* the reload command: "none" or "loaded"
    commands,   \* number of reload commands so far
    pending,    \* SIGUSR1 is waiting for the signal thread
    config,     \* Config::snapshot
    level,      \* the active log level
    verbose,    \* --verbose
    override,   \* Reload::log_level_override, an Option of a level
    rules,      \* SharedRules: the files of the set in force
    dirs,       \* the cgroups that exist
    signal,     \* the signal thread: where it is and the set it is loading
    worker,     \* the worker: where it is and the set it matched in
    asked,      \* history: a reload was asked for after the last change of the files
    written,    \* history: the levels the operator has had in the file
    seen,       \* history: what each rule file was since the reload began
    missed      \* history: a rule's cgroup was not there

input == <<conf, files, edits, client, commands, verbose, override, asked, written>>
vars == <<input, pending, config, level, rules, dirs, signal, worker, seen, missed>>

Levels == 0..MaxLevel
RuleFiles == 1..Files
Absent == 0
Versions == 0..(MaxEdits + 1)

\* parse_file_with_diagnostics: every parse starts from the defaults, and a
\* line it does not understand leaves them.
Parse(c) ==
    [loglevel |-> IF c.loglevel = {} THEN Default ELSE CHOOSE l \in c.loglevel : TRUE,
     rule_load |-> c.rule_load]

\* A bug more_verbose_than does not have: a step past the last level.
one_more_than(l) == l + 1

more_verbose_than(l) == IF l = MaxLevel THEN l ELSE l + 1

log_level_override(l) == IF verbose THEN {more_verbose_than(l)} ELSE {}

LevelOf(cfg) == IF override = {} THEN cfg.loglevel ELSE CHOOSE l \in override : TRUE

Cgroups(set) == {<<f, set[f]>> : f \in {g \in RuleFiles : set[g] # Absent}}

TypeOK ==
    /\ conf.state \in {"there", "missing", "unreadable"}
    /\ conf.loglevel \subseteq Levels /\ conf.rule_load \in BOOLEAN
    /\ files \in [RuleFiles -> Versions] /\ edits \in 0..MaxEdits
    /\ client \in {"none", "loaded"} /\ commands \in 0..MaxReloads
    /\ config \in [loglevel : Levels, rule_load : BOOLEAN]
    /\ level \in Levels /\ override \subseteq Levels
    /\ rules \in [RuleFiles -> Versions] /\ dirs \subseteq RuleFiles \X Versions
    /\ signal.pc \in {"idle", "level", "rules", "load", "cgroups", "stopped"}
    /\ signal.next \in 1..(Files + 1) /\ signal.fresh \in [RuleFiles -> Versions]
    /\ worker.pc \in {"idle", "apply"} /\ worker.set \in [RuleFiles -> Versions]
    /\ written \subseteq Levels /\ seen \in [RuleFiles -> SUBSET Versions]
    /\ {verbose, pending, asked, missed} \subseteq BOOLEAN

\* The daemon has started: main has loaded the files, run has made the cgroups.
Init ==
    /\ conf \in [state : {"there"}, loglevel : {{l} : l \in Levels}, rule_load : {TRUE}]
    /\ files = [f \in RuleFiles |-> 1]
    /\ edits = 0 /\ client = "none" /\ commands = 0 /\ pending = FALSE
    /\ config = Parse(conf)
    /\ verbose \in BOOLEAN
    /\ override = log_level_override(config.loglevel)
    /\ level = LevelOf(config)
    /\ rules = files
    /\ dirs = Cgroups(files)
    /\ signal = [pc |-> "idle", next |-> 1, fresh |-> files]
    /\ worker = [pc |-> "idle", set |-> files]
    /\ asked = FALSE /\ written = conf.loglevel /\ missed = FALSE
    /\ seen = [f \in RuleFiles |-> {}]

-----------------------------------------------------------------------------
(* The operator and the reload command.                                     *)

EditConf ==
    /\ "conf" \in Edits /\ edits < MaxEdits
    /\ conf' \in [state : {"there"}, loglevel : {{}} \cup {{l} : l \in Levels}, rule_load : BOOLEAN]
              \cup [state : {"missing", "unreadable"}, loglevel : {{}}, rule_load : {TRUE}]
    /\ conf' # conf
    /\ edits' = edits + 1
    /\ asked' = FALSE
    /\ written' = written \cup conf'.loglevel
    /\ UNCHANGED <<files, client, commands, pending, config, level, verbose, override, rules,
                   dirs, signal, worker, seen, missed>>

EditRules ==
    /\ "rules" \in Edits /\ edits < MaxEdits
    /\ \E f \in RuleFiles, v \in {Absent, edits + 2} :
           /\ files' = [files EXCEPT ![f] = v]
           /\ seen' = [seen EXCEPT ![f] = IF signal.pc = "idle" THEN @ ELSE @ \cup {v}]
    /\ edits' = edits + 1
    /\ asked' = FALSE
    /\ UNCHANGED <<conf, client, commands, pending, config, level, verbose, override, rules,
                   dirs, signal, worker, written, missed>>

\* main loads the configuration before it looks at --reload, and a missing
\* file is written with the defaults.
CommandLoads ==
    /\ client = "none" /\ commands < MaxReloads
    /\ client' = "loaded" /\ commands' = commands + 1
    /\ IF conf.state = "missing"
       THEN conf' = [state |-> "there", loglevel |-> {Default}, rule_load |-> TRUE] /\ asked' = FALSE
       ELSE UNCHANGED <<conf, asked>>
    /\ UNCHANGED <<files, edits, pending, config, level, verbose, override, rules, dirs, signal,
                   worker, written, seen, missed>>

CommandSignals ==
    /\ client = "loaded"
    /\ client' = "none" /\ pending' = TRUE /\ asked' = TRUE
    /\ UNCHANGED <<conf, files, edits, commands, config, level, verbose, override, rules, dirs,
                   signal, worker, written, seen, missed>>

-----------------------------------------------------------------------------
(* The signal thread.                                                       *)

\* reload_file_with_diagnostics: a file that cannot be read leaves the
\* configuration as it is, and its level too.
ReadConfig ==
    IF conf.state = "there"
    THEN config' = Parse(conf) /\ signal' = [signal EXCEPT !.pc = "level"]
    ELSE UNCHANGED config /\ signal' = [signal EXCEPT !.pc = "rules"]

\* The iterator clears SIGUSR1 and hands it over; Reload::apply starts.
ReloadConfig ==
    /\ signal.pc = "idle" /\ pending
    /\ pending' = FALSE
    /\ ReadConfig
    /\ seen' = [f \in RuleFiles |-> {files[f]}]
    /\ UNCHANGED <<input, level, rules, dirs, worker, missed>>

SetLogLevel ==
    /\ signal.pc = "level"
    /\ level' = LevelOf(config)
    /\ signal' = [signal EXCEPT !.pc = "rules"]
    /\ UNCHANGED <<input, pending, config, rules, dirs, worker, seen, missed>>

CheckRuleLoad ==
    /\ signal.pc = "rules"
    /\ signal' = IF config.rule_load
                 THEN [pc |-> "load", next |-> 1, fresh |-> [f \in RuleFiles |-> Absent]]
                 ELSE [signal EXCEPT !.pc = "idle"]
    /\ UNCHANGED <<input, pending, config, level, rules, dirs, worker, seen, missed>>

\* load_rules into a set of its own, a file at a time.
LoadRuleFile ==
    /\ signal.pc = "load" /\ signal.next \in RuleFiles
    /\ signal' = [signal EXCEPT !.fresh[signal.next] = files[signal.next], !.next = @ + 1]
    /\ UNCHANGED <<input, pending, config, level, rules, dirs, worker, seen, missed>>

\* A bug Replace does not have: the set is shared before its last file is in.
ReplaceEarly ==
    /\ signal.pc = "load" /\ signal.next > 1
    /\ rules' = signal.fresh
    /\ signal' = [signal EXCEPT !.pc = IF signal.next > Files THEN "cgroups" ELSE "load"]
    /\ UNCHANGED <<input, pending, config, level, dirs, worker, seen, missed>>

Replace ==
    /\ signal.pc = "load" /\ signal.next = Files + 1
    /\ rules' = signal.fresh
    /\ signal' = [signal EXCEPT !.pc = "cgroups"]
    /\ UNCHANGED <<input, pending, config, level, dirs, worker, seen, missed>>

\* A bug CreateCgroups does not have: requests that came meanwhile are dropped.
CreateCgroupsAndForget ==
    /\ signal.pc = "cgroups"
    /\ dirs' = dirs \cup Cgroups(rules)
    /\ signal' = [signal EXCEPT !.pc = "idle"]
    /\ pending' = FALSE
    /\ UNCHANGED <<input, config, level, rules, worker, seen, missed>>

CreateCgroups ==
    /\ signal.pc = "cgroups"
    /\ dirs' = dirs \cup Cgroups(rules)
    /\ signal' = [signal EXCEPT !.pc = "idle"]
    /\ UNCHANGED <<input, pending, config, level, rules, worker, seen, missed>>

\* SIGINT or SIGTERM ends the thread, whether SIGUSR1 is waiting or not.
Stop ==
    /\ signal.pc = "idle"
    /\ signal' = [signal EXCEPT !.pc = "stopped"]
    /\ UNCHANGED <<input, pending, config, level, rules, dirs, worker, seen, missed>>

SignalThread ==
    ReloadConfig \/ SetLogLevel \/ CheckRuleLoad \/ LoadRuleFile \/ Replace \/ CreateCgroups

-----------------------------------------------------------------------------
(* The worker: a match takes the set in force, and applies what it found.   *)

Match ==
    /\ worker.pc = "idle"
    /\ worker' = [pc |-> "apply", set |-> rules]
    /\ UNCHANGED <<input, pending, config, level, rules, dirs, signal, seen, missed>>

Apply ==
    /\ worker.pc = "apply"
    /\ missed' = (missed \/ ~(Cgroups(worker.set) \subseteq dirs))
    /\ worker' = [worker EXCEPT !.pc = "idle"]
    /\ UNCHANGED <<input, pending, config, level, rules, dirs, signal, seen>>

Next ==
    \/ EditConf \/ EditRules \/ CommandLoads \/ CommandSignals
    \/ ReloadConfig \/ SetLogLevel \/ CheckRuleLoad \/ LoadRuleFile \/ Replace \/ CreateCgroups
    \/ Stop
    \/ Match \/ Apply

\* The signal thread runs whenever it has something to do; nothing is assumed
\* of the operator, the command or the worker.
Spec == Init /\ [][Next]_vars /\ WF_vars(SignalThread)

-----------------------------------------------------------------------------
(* A reload changes only what it has read.  A configuration file that       *)
(* cannot be read changes nothing, and but for the moment of its change the *)
(* active level is the one of the command line or else of the configuration *)
(* in force.  The rules change only under a configuration that has          *)
(* rule_load, and a set that is swapped in is complete and new: each file   *)
(* is in it as it was at some moment since the reload began, also when it   *)
(* is edited or removed while the set is being loaded (Reload::apply,       *)
(* reload_file_with_diagnostics, SharedRules).                              *)
ChangesAreRead ==
    [][/\ config' # config => conf.state = "there" /\ config' = Parse(conf)
       /\ signal'.pc # "level" => level' = LevelOf(config')
       /\ rules' # rules =>
             config.rule_load /\ \A f \in RuleFiles : rules'[f] \in seen[f]]_vars

\* What the files say is what the daemon works with.
InForce ==
    /\ conf.state = "there" => config = Parse(conf)
    /\ config.rule_load => rules = files /\ Cgroups(files) \subseteq dirs

(* A reload asked for after the last change of the files takes effect,      *)
(* however many requests came before it or fell together while one was      *)
(* being served, unless the daemon is stopped (signals::install).           *)
ReloadTakesEffect ==
    asked ~> (InForce \/ ~asked \/ signal.pc = "stopped")

(* "A file that fails to parse keeps the values already in force rather     *)
(* than resetting them" (Reload::apply).                                    *)
FailedParseKeepsPrevious ==
    [][(conf.state = "there" /\ conf.loglevel = {} /\ conf' = conf) =>
            config'.loglevel = config.loglevel]_vars

(* "The daemon does not silently fall back to defaults" (SYSTEMD.md): the   *)
(* level in force is one that somebody wrote.                               *)
NoUnwrittenDefault ==
    conf.loglevel # {} => config.loglevel \in written

(* --verbose selects "one step more verbose than the configuration asked    *)
(* for" (more_verbose_than), whichever configuration is in force.           *)
VerboseIsOneStepMore ==
    (verbose /\ signal.pc = "idle") => level = more_verbose_than(config.loglevel)

(* When a rule is applied its cgroup has been made: a reload is "equivalent *)
(* to the restart it stands in for" (Reload::apply), and a restart makes    *)
(* the cgroups before there is a worker.                                    *)
CgroupIsThere == ~missed

(* "Those files require a restart" (COMPATIBILITY.md): a reload leaves the  *)
(* rules as they were loaded.                                               *)
RulesNeedRestart == [][rules' = rules]_vars
=============================================================================
