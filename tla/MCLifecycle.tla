---------------------------- MODULE MCLifecycle ----------------------------
(* Instances of Lifecycle for TLC.                                          *)
EXTENDS Lifecycle

Default ==
    [bpf |-> FALSE, netlink |-> TRUE, systemd |-> TRUE, manual |-> FALSE,
     benchmark |-> FALSE, count |-> {}, x3d |-> "auto", unwind |-> FALSE]

(* The shipped build; every event source with the X3D mode set; a build     *)
(* with eBPF alone; both benchmark limits; a build that unwinds.            *)
AllOptions ==
    {Default,
     [Default EXCEPT !.bpf = TRUE, !.manual = TRUE, !.x3d = "cache"],
     [Default EXCEPT !.bpf = TRUE, !.netlink = FALSE, !.x3d = "frequency"],
     [Default EXCEPT !.benchmark = TRUE, !.count = {2}, !.manual = TRUE],
     [Default EXCEPT !.bpf = TRUE, !.unwind = TRUE, !.x3d = "cache"]}

BenchmarkOptions == {[Default EXCEPT !.count = {1}]}
=============================================================================
