---------------------------- MODULE RuleOutcome ----------------------------
(***************************************************************************)
(* What applying a rule promises, whatever the order of its attributes:     *)
(* each wanted attribute is attempted once, a failure of one leaves the     *)
(* others to be attempted, and the report says how it went.                 *)
(***************************************************************************)
CONSTANT Attributes

VARIABLES
    phase,      \* "idle", "applying" or "done"
    pending,    \* the attributes still to be attempted
    honoured,   \* those that were applied
    failed,     \* those that were not
    result      \* the report

vars == <<phase, pending, honoured, failed, result>>

Init ==
    /\ phase = "idle"
    /\ pending = {} /\ honoured = {} /\ failed = {}
    /\ result = "none"

Begin ==
    /\ phase = "idle" /\ phase' = "applying"
    /\ pending' \in SUBSET Attributes
    /\ UNCHANGED <<honoured, failed, result>>

Attempt(a) ==
    /\ phase = "applying" /\ a \in pending
    /\ pending' = pending \ {a}
    /\ \/ honoured' = honoured \cup {a} /\ UNCHANGED failed
       \/ failed' = failed \cup {a} /\ UNCHANGED honoured
    /\ UNCHANGED <<phase, result>>

(* The line that says a rule was applied is for a rule without a failure;   *)
(* "failed" is for one nothing of which was applied.  The cpu.weight mirror *)
(* of a refused nice value counts as something applied.                     *)
Allowed ==
    IF failed # {}
    THEN {"partial", "exited"} \cup (IF honoured = {} THEN {"failed"} ELSE {})
    ELSE IF honoured # {} THEN {"logged", "incomplete"} ELSE {"no_applicable"}

Finish ==
    /\ phase = "applying" /\ pending = {} /\ phase' = "done"
    /\ result' \in Allowed
    /\ UNCHANGED <<pending, honoured, failed>>

Reset ==
    /\ phase = "done" /\ phase' = "idle"
    /\ honoured' = {} /\ failed' = {} /\ result' = "none"
    /\ UNCHANGED pending

Next == Begin \/ (\E a \in Attributes : Attempt(a)) \/ Finish \/ Reset

Spec == Init /\ [][Next]_vars
=============================================================================
