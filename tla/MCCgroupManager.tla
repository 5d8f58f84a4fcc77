-------------------------- MODULE MCCgroupManager --------------------------
(* Hosts and names for TLC: a slice with the daemon's unit and another unit, *)
(* and a user session beside it.                                             *)
EXTENDS CgroupManager

Unit == <<"slice", "unit">>
Other == <<"slice", "other">>

Name(absolute, path) == [absolute |-> absolute, dots |-> FALSE, path |-> path]
One == {Name(FALSE, <<"a">>)}
Simple == One \cup {Name(FALSE, <<"b">>)}
AllNames == {Name(FALSE, <<>>), Name(FALSE, <<"a">>), Name(FALSE, <<"a", "b">>),
             Name(TRUE, Other), Name(TRUE, <<"user", "c">>),
             [absolute |-> FALSE, dots |-> TRUE, path |-> <<"a">>]}

Host(self, scope, delegated) ==
    [version |-> "v2", self |-> self, scope |-> scope, writable |-> TRUE, delegated |-> delegated,
     dirs |-> {<<>>, <<"slice">>, Unit, Other, <<"user">>, self},
     populated |-> {<<>>, Other, <<"user">>},
     subtree |-> {<<>>, <<"slice">>},
     names |-> AllNames, ops |-> {}, creates |-> 2]

Shipped == Host(Append(Unit, "delegated"), FALSE, {Unit})
Plain == Host(Unit, FALSE, {Unit})
Top == Host(<<>>, FALSE, {})
Manual == Host(<<"user">>, TRUE, {})
Legacy == [Plain EXCEPT !.version = "v1", !.dirs = {<<>>, <<"cpu">>, <<"cpu", "x">>},
                        !.populated = {<<"cpu">>}, !.subtree = {}, !.self = <<"cpu">>]

\* Names of every form on six hosts where processes stay; two cgroups under the
\* shipped unit while the process may end; one cgroup while its pid is used
\* again, others move it and the resolver's entries age.
AllHosts ==
    {Shipped, Plain, Top, Manual, [Shipped EXCEPT !.writable = FALSE], Legacy,
     [Shipped EXCEPT !.names = Simple, !.ops = {"exit"}],
     [Shipped EXCEPT !.names = One, !.ops = {"exit", "spawn", "move", "tick"}, !.creates = 1]}
=============================================================================
