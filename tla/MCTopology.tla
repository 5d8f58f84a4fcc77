----------------------------- MODULE MCTopology -----------------------------
(***************************************************************************)
(* Three families of machines and rules for Topology: what the capacity     *)
(* files can say, what the caches and dies can look like, and a process     *)
(* whose threads, cpusets and CPUs change under set_affinity.               *)
(***************************************************************************)
EXTENDS Topology

TwoTids == <<"leader", "thread">>

Uniform(C, v) == [c \in C |-> v]

(* A machine with nothing to tell its CPUs apart.                           *)
Plain(C) ==
    [cpus |-> C, online |-> C, capacity |-> <<Uniform(C, 0)>>,
     shared |-> [l \in {2, 3} |-> Uniform(C, C)], l3 |-> Uniform(C, 1), node |-> Uniform(C, 0),
     die_id |-> Uniform(C, {0}), cluster_id |-> Uniform(C, {}), x3d |-> FALSE,
     maxCores |-> 5, known |-> "possible"]

Asking(C, name) ==
    [name |-> {name}, list |-> <<>>, allowed |-> [t \in Range(TwoTids) |-> C],
     denied |-> {}, maxChanges |-> 0]

(* Two sources on three CPUs: about the 1.3 edge, and about the mean.       *)
Capacities ==
    {[machine |-> [Plain(0..2) EXCEPT !.capacity = <<precise, coarse>>],
      rule |-> Asking(0..2, <<"little-cores", 0>>)] :
        precise \in [0..2 -> {0, 10, 12, 13}], coarse \in [0..2 -> {0, 1, 2}]}

(* Four CPUs in one, two neighbouring or two interleaved caches, readable   *)
(* or not, on dies that die_id or cluster_id tell, or that nothing does.    *)
Blocks == {<<0..3>>, <<{0, 1}, {2, 3}>>, <<{0, 2}, {1, 3}>>}
BlockOf(b, c) == CHOOSE i \in 1..Len(b) : c \in b[i]

CacheMachine(b, hidden, l2, size, ids, x3d, up) ==
    [Plain(0..3) EXCEPT
        !.online = up, !.x3d = x3d,
        !.shared = [l \in {2, 3} |-> [c \in 0..3 |->
                       IF l = 3 THEN IF c \in hidden THEN {} ELSE b[BlockOf(b, c)]
                       ELSE IF l2 THEN {c} ELSE {}]],
        !.l3 = [c \in 0..3 |-> size[BlockOf(b, c)]],
        !.node = [c \in 0..3 |-> c \div 2],
        !.die_id = [c \in 0..3 |-> IF ids = "die" THEN {BlockOf(b, c)}
                                   ELSE IF ids = "cluster" THEN {-1} ELSE {}],
        !.cluster_id = [c \in 0..3 |-> IF ids = "cluster" THEN {BlockOf(b, c)}
                                       ELSE IF ids = "neither" THEN {-1} ELSE {}]]

Caches ==
    {[machine |-> CacheMachine(b, hidden, l2, size, ids, x3d, up),
      rule |-> Asking(0..3, <<"llc", 1>>)] :
        b \in Blocks, hidden \in {{}, {0}, {2, 3}}, l2 \in BOOLEAN,
        size \in [1..2 -> 0..2], ids \in {"die", "cluster", "neither"}, x3d \in BOOLEAN,
        up \in {0..3, {0, 1, 3}, {0, 2}}}

(* A process of two threads on three CPUs.  CPU 3 does not exist, and CPU 4 *)
(* is past the mask's last whole byte.                                      *)
Lists == {<<<<0, 1>>>>, <<<<2, 2>>, <<>>>>, <<<<1, 1>>, <<2, 3>>>>, <<<<3, 3>>>>}
BadLists == {<<<<>>>>, <<<<>>, <<1, 1>>>>, <<<<1, 0>>>>, <<<<1, 5>>>>, <<<<0>>>>, <<<<4, 4>>>>}

Process(list, sets, denied, bound) ==
    [name |-> {}, list |-> list, allowed |-> sets, denied |-> denied, maxChanges |-> bound]

Affinities ==
    {[machine |-> [Plain(0..2) EXCEPT !.online = up, !.known = known],
      rule |-> Process(list, [t \in Range(TwoTids) |-> IF t = "leader" THEN a ELSE b], denied, 1)] :
        up \in {0..2, {0, 1}}, known \in {"possible", "online", "none"}, list \in Lists,
        a \in {0..2, {0, 2}, {0}}, b \in {0..2, {1}}, denied \in {{}, {"thread"}, Range(TwoTids)}}
    \cup
    {[machine |-> Plain(0..2), rule |-> Process(list, Asking(0..2, <<"all", 0>>).allowed, {}, 0)] :
        list \in BadLists}

AllScenes == Capacities \cup Caches \cup Affinities
=============================================================================
