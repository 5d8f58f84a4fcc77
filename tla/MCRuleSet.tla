----------------------------- MODULE MCRuleSet -----------------------------
(* Instances of RuleSet for TLC: directories of a few lines each.           *)
EXTENDS RuleSet

CONSTANT MaxLines   \* bound on the lines of a rule directory

Line(ext, name, type, nice, cgroup, regex) ==
    [ext |-> ext, name |-> name, type |-> type, nice |-> nice, cgroup |-> cgroup,
     name_regex |-> regex]

\* Two definitions of a, one with a pattern, that inherit, suppress or set;
\* b with another pattern; two definitions of type t; a type in a rules file;
\* a cgroup; a line that defines nothing.
MCLines ==
    {Line("rules", {"a"}, {"t"}, {}, {}, {}),
     Line("rules", {"a"}, {"t"}, {{}}, {{"g"}}, {"p"}),
     Line("rules", {"a"}, {"u"}, {{3}}, {{}}, {"q"}),
     Line("rules", {"b"}, {}, {{9}}, {}, {"q"}),
     Line("rules", {"b"}, {"t"}, {}, {}, {"bad"}),
     Line("types", {}, {"t"}, {{3}}, {{"g"}}, {}),
     Line("types", {}, {"t"}, {}, {{"h"}}, {}),
     Line("rules", {}, {"u"}, {{9}}, {{"h"}}, {}),
     Line("cgroups", {}, {}, {}, {{"g"}}, {}),
     Line("rules", {}, {}, {{3}}, {}, {})}

MCDisks == UNION {[1..n -> MCLines] : n \in 0..MaxLines}

MCMatches == {<<"p", "c">>, <<"q", "c">>, <<"q", "long">>, <<"p", "a">>}

AllLoaded == {{"rules", "types", "cgroups"}}
AnyLoaded == {{"rules", "types", "cgroups"}, {"rules"}, {"types"}}
=============================================================================
