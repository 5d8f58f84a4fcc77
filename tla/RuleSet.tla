------------------------------ MODULE RuleSet ------------------------------
(***************************************************************************)
(* A rule set: read from the files of the rule directory in path order,     *)
(* types overlaid in place, and looked up by process name through an LRU    *)
(* cache.  NAME_TABLE outlives the rule sets; everything else is new with   *)
(* each load.                                                               *)
(*                                                                         *)
(* An Option is a set of at most one element, so a JSON key is {} (not      *)
(* there), {{}} (there, nothing usable in it) or {{v}}.  `nice' stands for  *)
(* the numeric attributes and `cgroup' for the named ones.  A file is one   *)
(* line; a longer one is several in a row.                                  *)
(***************************************************************************)
EXTENDS Integers, Sequences, FiniteSets, SequencesExt

CONSTANTS
    Names,         \* process names and rule names
    LongNames,     \* those longer than MAX_CACHEABLE_NAME
    Patterns,      \* values of name_regex
    BadPatterns,   \* those the engine cannot compile
    Matches,       \* pairs of a pattern and a name it matches
    Disks,         \* what the rule directory can hold: sequences of lines
    LoadFlags,     \* values of {ext : <ext>_load is set}
    CacheCap,      \* capacity of resolved_cache
    U16Max,        \* u16::MAX
    I32Bits,       \* width of i32
    MaxReloads     \* bound on the reloads of one behaviour

ASSUME RuleSetAssumption ==
    /\ LongNames \subseteq Names
    /\ BadPatterns \subseteq Patterns
    /\ Matches \subseteq Patterns \X Names
    /\ CacheCap \in Nat \ {0} /\ U16Max \in Nat \ {0} /\ I32Bits \in Nat \ {0}
    /\ MaxReloads \in Nat

VARIABLES
    disk,           \* the files, in path order
    flags,          \* the extensions the configuration loads
    pos,            \* the file load_directory reads next, 0 while serving
    table,          \* NAME_TABLE
    programs,       \* rule name to its index in rules
    rules,          \* Rules::rules
    types,          \* type name to the line that defines it
    cgroups,        \* names of the cgroups defined
    regex_programs, \* the compiled patterns, in load order
    cache,          \* resolved_cache, most recently used first
    answer,         \* the last lookup: the name asked for and what came back
    reloads,        \* number of reloads so far
    loaded          \* history: the lines read into this rule set

ruleset == <<programs, rules, types, cgroups, regex_programs>>
vars == <<disk, flags, pos, table, ruleset, cache, answer, reloads, loaded>>

The(S) == CHOOSE x \in S : TRUE

NAME_FIRST_VALUE == 2
Absent == 0       \* NameAttribute::absent
Unusable == 1     \* NameAttribute::unusable

TypeOK ==
    /\ disk \in Disks /\ flags \in LoadFlags /\ pos \in 0..Len(disk) + 1
    /\ table \in Seq(STRING) /\ IsInjective(table)
    /\ NAME_FIRST_VALUE + Len(table) <= U16Max + 1
    /\ DOMAIN programs \subseteq Names
    /\ \A i \in DOMAIN rules :
          /\ rules[i].type_name \in 0..Len(table)
          /\ rules[i].cgroup \in 0..Len(table) + 1
          /\ \A v \in UNION rules[i].nice : v \in -(2^(I32Bits - 1))..2^(I32Bits - 1) - 1
    /\ regex_programs \in Seq([pattern : Patterns, name : Names])
    /\ reloads \in 0..MaxReloads

-----------------------------------------------------------------------------
(* NameTable, and the conversion of one line.                               *)

\* A mutant of Intern: the bound compares the entries and not the identifier.
InternPastTheEnd(t, name) ==
    CASE name \in Range(t) -> [table |-> t, id |-> 1 + SelectInSeq(t, LAMBDA x : x = name)]
      [] name \notin Range(t) /\ Len(t) >= U16Max -> [table |-> t, id |-> Unusable]
      [] OTHER -> [table |-> Append(t, name), id |-> NAME_FIRST_VALUE + Len(t)]

Intern(t, name) ==
    CASE name \in Range(t) -> [table |-> t, id |-> 1 + SelectInSeq(t, LAMBDA x : x = name)]
      [] name \notin Range(t) /\ NAME_FIRST_VALUE + Len(t) > U16Max -> [table |-> t, id |-> Unusable]
      [] OTHER -> [table |-> Append(t, name), id |-> NAME_FIRST_VALUE + Len(t)]

\* NameAttribute::as_str and TypeNameId::as_str; a TypeNameId is one less.
NameOf(id) ==
    {table[i] : i \in {id - NAME_FIRST_VALUE + 1} \cap DOMAIN table}
TypeOf(id) ==
    {table[i] : i \in {id} \cap DOMAIN table}

\* `n as i32': the low bits, as a signed number.
AsI32(n) ==
    ((n + 2^(I32Bits - 1)) % 2^I32Bits) - 2^(I32Bits - 1)

InternAttribute(t, json) ==
    CASE json = {} -> [table |-> t, id |-> Absent]
      [] json = {{}} -> [table |-> t, id |-> Unusable]
      [] OTHER -> Intern(t, The(The(json)))

from_json(t, line) ==
    LET type == IF line.type = {} THEN [table |-> t, id |-> 1]
                ELSE Intern(t, The(line.type))
        cgroup == InternAttribute(type.table, line.cgroup)
    IN  [table |-> cgroup.table,
         rule |-> [type_name |-> type.id - 1,
                   nice |-> {{AsI32(n) : n \in v} : v \in line.nice},
                   cgroup |-> cgroup.id]]

\* A mutant of inherit: a key with nothing usable in it is overlaid as well.
InheritOverUnusable(rule, base) ==
    [rule EXCEPT !.nice = IF UNION @ = {} THEN base.nice ELSE @,
                 !.cgroup = IF @ \in {Absent, Unusable} THEN base.cgroup ELSE @]

inherit(rule, base) ==
    [rule EXCEPT !.nice = IF @ = {} THEN base.nice ELSE @,
                 !.cgroup = IF @ = Absent THEN base.cgroup ELSE @]

-----------------------------------------------------------------------------
(* Loading.                                                                 *)

Init ==
    /\ disk \in Disks /\ flags \in LoadFlags
    /\ pos = 1
    /\ table = <<>>
    /\ programs = <<>> /\ rules = <<>> /\ types = <<>> /\ cgroups = {}
    /\ regex_programs = <<>> /\ cache = <<>>
    /\ answer = [asked |-> {}, got |-> {}]
    /\ reloads = 0
    /\ loaded = <<>>

\* A mutant of LoadRule: a name that is there already is pushed again.
LoadRuleByPushing(line) ==
    LET parsed == from_json(table, line)
        name == The(line.name)
    IN  /\ table' = parsed.table
        /\ rules' = Append(rules, parsed.rule)
        /\ programs' = [n \in DOMAIN programs \cup {name} |->
                            IF n = name THEN Len(rules) + 1 ELSE programs[n]]
        /\ regex_programs' = regex_programs \o
              SetToSeq({[pattern |-> p, name |-> name] : p \in line.name_regex \ BadPatterns})
        /\ UNCHANGED <<types, cgroups>>

\* The branch of load_rule_from_named for a line with a name.
LoadRule(line) ==
    LET parsed == from_json(table, line)
        name == The(line.name)
        index == IF name \in DOMAIN programs THEN programs[name] ELSE Len(rules) + 1
    IN  /\ table' = parsed.table
        /\ rules' = IF index <= Len(rules) THEN [rules EXCEPT ![index] = parsed.rule]
                    ELSE Append(rules, parsed.rule)
        /\ programs' = [n \in DOMAIN programs \cup {name} |->
                            IF n = name THEN index ELSE programs[n]]
        /\ regex_programs' = regex_programs \o
              SetToSeq({[pattern |-> p, name |-> name] : p \in line.name_regex \ BadPatterns})
        /\ UNCHANGED <<types, cgroups>>

LoadType(line) ==
    /\ types' = [t \in DOMAIN types \cup line.type |->
                    IF t \in line.type THEN line ELSE types[t]]
    /\ UNCHANGED <<table, programs, rules, cgroups, regex_programs>>

LoadCgroup(line) ==
    /\ cgroups' = cgroups \cup UNION line.cgroup
    /\ UNCHANGED <<table, programs, rules, types, regex_programs>>

load_rule_from_named(line) ==
    \/ line.name # {} /\ LoadRule(line)
    \/ line.name = {} /\ line.type # {} /\ LoadType(line)
    \/ line.name = {} /\ line.type = {} /\ LoadCgroup(line)

\* One file of load_directory: read, skipped by its extension, or unreadable.
LoadFile ==
    /\ pos \in DOMAIN disk
    /\ disk[pos].ext \in flags
    /\ load_rule_from_named(disk[pos])
    /\ loaded' = Append(loaded, disk[pos])
    /\ pos' = pos + 1
    /\ UNCHANGED <<disk, flags, cache, answer, reloads>>

SkipFile ==
    /\ pos \in DOMAIN disk
    /\ pos' = pos + 1
    /\ UNCHANGED <<disk, flags, table, ruleset, cache, answer, reloads, loaded>>

\* The bases, resolved in the order the hash map yields the types.
Bases(order) ==
    LET parse[k \in 0..Len(order)] ==
            IF k = 0 THEN [table |-> table, base |-> <<>>]
            ELSE LET p == from_json(parse[k - 1].table, types[order[k]])
                 IN  [table |-> p.table, base |-> Append(parse[k - 1].base, p.rule)]
    IN  parse[Len(order)]

precompute_inheritance ==
    /\ pos = Len(disk) + 1
    /\ \E order \in SetToSeqs(DOMAIN types) :
          LET bases == Bases(order) IN
          /\ table' = bases.table
          /\ rules' = [i \in DOMAIN rules |->
                LET base == {bases.base[k] : k \in {j \in DOMAIN order :
                                order[j] \in TypeOf(rules[i].type_name)}}
                IN  IF base = {} THEN rules[i] ELSE inherit(rules[i], The(base))]
    /\ cache' = <<>>
    /\ pos' = 0
    /\ UNCHANGED <<disk, flags, programs, types, cgroups, regex_programs, answer, reloads, loaded>>

\* A mutant of Reload: what was resolved for the old set is kept.
ReloadKeepingPatterns ==
    /\ pos = 0 /\ reloads < MaxReloads
    /\ disk' \in Disks /\ flags' \in {f \in LoadFlags : "rules" \in f}
    /\ pos' = 1 /\ reloads' = reloads + 1
    /\ programs' = <<>> /\ rules' = <<>> /\ types' = <<>> /\ cgroups' = {}
    /\ cache' = <<>> /\ loaded' = <<>>
    /\ answer' = [asked |-> {}, got |-> {}]
    /\ UNCHANGED <<table, regex_programs>>

\* A reload reads the files as they now are into a rule set of its own.
Reload ==
    /\ pos = 0 /\ reloads < MaxReloads
    /\ disk' \in Disks /\ flags' \in {f \in LoadFlags : "rules" \in f}
    /\ pos' = 1 /\ reloads' = reloads + 1
    /\ programs' = <<>> /\ rules' = <<>> /\ types' = <<>> /\ cgroups' = {}
    /\ regex_programs' = <<>> /\ cache' = <<>> /\ loaded' = <<>>
    /\ answer' = [asked |-> {}, got |-> {}]
    /\ UNCHANGED table

-----------------------------------------------------------------------------
(* Lookup.                                                                  *)

find_best_match(x) ==
    LET hit == SelectInSeq(regex_programs,
                   LAMBDA m : <<m.pattern, x>> \in Matches /\ m.name \in DOMAIN programs)
    IN  CASE x \in DOMAIN programs -> {x}
          [] x \notin DOMAIN programs /\ hit # 0 -> {regex_programs[hit].name}
          [] OTHER -> {}

\* The rule as its accessors report it.
resolve(found) ==
    {[name |-> n, nice |-> UNION rules[programs[n]].nice,
      cgroup |-> NameOf(rules[programs[n]].cgroup)] : n \in found \cap DOMAIN programs}

\* LruCache::put behind the MAX_CACHEABLE_NAME test.
Put(x, found) ==
    IF x \in LongNames THEN cache
    ELSE <<[name |-> x, found |-> found]>>
             \o SubSeq(cache, 1, IF Len(cache) < CacheCap THEN Len(cache) ELSE CacheCap - 1)

get_rule(x) ==
    LET hit == SelectInSeq(cache, LAMBDA e : e.name = x)
        found == IF hit # 0 THEN cache[hit].found ELSE find_best_match(x)
    IN  /\ pos = 0
        /\ cache' = IF hit = 0 THEN Put(x, found)
                    ELSE <<cache[hit]>> \o RemoveAt(cache, hit)
        /\ answer' = [asked |-> {x}, got |-> resolve(found)]
        /\ UNCHANGED <<disk, flags, pos, table, ruleset, reloads, loaded>>

Lookup == \E x \in Names : get_rule(x)

Next == LoadFile \/ SkipFile \/ precompute_inheritance \/ Reload \/ Lookup

Spec == Init /\ [][Next]_vars

-----------------------------------------------------------------------------
(* What the files say, without order of evaluation, indices or caches.      *)

Defs(n) == {i \in DOMAIN loaded : loaded[i].name = {n}}
TypeDefs(t) == {i \in DOMAIN loaded : loaded[i].name = {} /\ loaded[i].type = {t}}
LastOf(S) == CHOOSE i \in S : \A j \in S : j <= i
FirstOf(S) == CHOOSE i \in S : \A j \in S : i <= j

DocumentedRule(n) ==
    LET own == loaded[LastOf(Defs(n))]
        base == {loaded[LastOf(TypeDefs(t))] : t \in {t \in own.type : TypeDefs(t) # {}}}
        Json(key) == IF own[key] = {} /\ base # {} THEN The(base)[key] ELSE own[key]
    IN  [name |-> n, nice |-> {AsI32(v) : v \in UNION Json("nice")},
         cgroup |-> UNION Json("cgroup")]

PatternHits(x) ==
    {i \in DOMAIN loaded :
        loaded[i].name # {} /\ \E p \in loaded[i].name_regex \ BadPatterns : <<p, x>> \in Matches}

DocumentedName(x, hits) ==
    CASE Defs(x) # {} -> {x}
      [] Defs(x) = {} /\ hits # {} -> loaded[FirstOf(hits)].name
      [] OTHER -> {}

(* While NAME_TABLE has room, a lookup answers as the files read say: the   *)
(* last definition of the exact name, else the first pattern in load order, *)
(* with what the definition leaves out taken from the last definition of    *)
(* its type.  The indices, the in-place overlay, the cache and any earlier  *)
(* rule set make no difference.  Full table or not, a cgroup it answers     *)
(* with is one that the rule's own definition or its type's wrote: an       *)
(* identifier never reads back as another name (NameTable::intern past      *)
(* u16::MAX).                                                               *)
AnswerFollowsFiles ==
    /\ (NAME_FIRST_VALUE + Len(table) <= U16Max) =>
          \A x \in answer.asked :
              answer.got = {DocumentedRule(n) : n \in DocumentedName(x, PatternHits(x))}
    /\ \A r \in answer.got : \A c \in r.cgroup :
          \E i \in DOMAIN loaded :
              /\ loaded[i].cgroup = {{c}}
              /\ \/ loaded[i].name = {r.name}
                 \/ loaded[i].name = {} /\ \E d \in Defs(r.name) : loaded[d].type = loaded[i].type

(* `programs' and `rules' stay in step: every index is in range and every   *)
(* rule of the vector belongs to exactly one name (the comment at           *)
(* Rules::resolve).  The cache follows both: it holds what a lookup without *)
(* it would find, each name once, no name past MAX_CACHEABLE_NAME, within   *)
(* its capacity.                                                            *)
IndexAndCacheInStep ==
    /\ \A n \in DOMAIN programs : programs[n] \in DOMAIN rules
    /\ \A i \in DOMAIN rules : Cardinality({n \in DOMAIN programs : programs[n] = i}) = 1
    /\ Len(cache) <= CacheCap
    /\ \A i \in DOMAIN cache :
          /\ cache[i].name \notin LongNames
          /\ cache[i].found = find_best_match(cache[i].name)
          /\ \A j \in DOMAIN cache : cache[i].name = cache[j].name => i = j

(* A definition that was replaced is gone outright, its name_regex with it  *)
(* (CONFIGURATION.md, on two rules of one name).                            *)
ReplacedOutright ==
    \A x \in answer.asked :
        {r.name : r \in answer.got} =
            DocumentedName(x, {i \in PatternHits(x) : i = LastOf(Defs(The(loaded[i].name)))})

(* A number a lookup answers with is one somebody wrote (the comment at     *)
(* Rule::nice).                                                             *)
NumbersAsWritten ==
    \A r \in answer.got : \A v \in r.nice : \E i \in DOMAIN loaded : loaded[i].nice = {{v}}
=============================================================================
