--------------------------- MODULE TopologyProofs ---------------------------
(***************************************************************************)
(* What set_affinity's errors mean, for any machine, any rule, any number   *)
(* of threads and whatever changes meanwhile.                               *)
(***************************************************************************)
EXTENDS Topology, TLAPS

USE TopologyAssumption

Shape ==
    /\ machine.maxCores \in Nat
    /\ online \subseteq machine.cpus /\ allowed \subseteq machine.cpus
    /\ affinity = [t \in Range(Tids) |-> affinity[t]]
    /\ cpuset = [t \in Range(Tids) |-> cpuset[t]]
    /\ \A t \in Range(Tids) : affinity[t] \subseteq machine.cpus /\ cpuset[t] \subseteq machine.cpus

(* The mask is what the rule asks for until it is narrowed.                 *)
MaskIsAsked ==
    /\ pc \in {"first pass", "allowed", "narrow"} => mask = Requested /\ ~OutOfBounds(mask)
    /\ pc = "second pass" => mask # {} /\ mask \subseteq Requested \cap machine.cpus

(* The threads a pass has yet to visit are the last ones, and what it has   *)
(* met are the kernel's errors.                                             *)
Visited == Len(Tids) - Len(todo)
VisitsInTurn ==
    Passing =>
        /\ todo \in Seq(Range(Tids)) /\ Len(todo) <= Len(Tids)
        /\ \A i \in 1..Len(todo) : todo[i] = Tids[Visited + i]
        /\ errors.first \in {"none", "EINVAL", "EPERM"}

(* A thread is placed only on the way to success.                           *)
PlacedIsKnown ==
    placed # {} => \/ Passing /\ errors.applied
                   \/ pc = "done" /\ result = "applied"

Settled(t) == Reaches(t) => affinity[t] = Requested \cap cpuset[t]

(* While nothing changes, the threads the first pass could not place are    *)
(* those nobody could have placed.                                          *)
RefusedInTurn ==
    /\ pc = "first pass" /\ ~errors.applied /\ ~disturbed =>
          \A i \in 1..Visited : ~Reaches(Tids[i])
    /\ pc \in {"allowed", "narrow", "second pass"} /\ ~disturbed =>
          \A t \in Range(Tids) : ~Reaches(t)

(* And the others have been placed.                                         *)
PlacedInTurn ==
    pc = "first pass" /\ ~disturbed =>
        \A i \in 1..Visited : Settled(Tids[i])

IInv ==
    /\ Shape /\ MaskIsAsked /\ VisitsInTurn /\ PlacedIsKnown /\ RefusedInTurn /\ PlacedInTurn
    /\ FailureIsTrue /\ EveryThreadPlaced

-----------------------------------------------------------------------------
(* The listed threads.                                                      *)
LEMMA ListOfThreads ==
    /\ Tids \in Seq(Range(Tids)) /\ Len(Tids) \in Nat
    /\ \A i \in 1..Len(Tids) : Tids[i] \in Range(Tids)
    /\ \A t \in Range(Tids) : \E i \in 1..Len(Tids) : t = Tids[i]
<1>1. Tids \in Seq(Range(Tids))
  OBVIOUS
<1>2. Len(Tids) \in Nat /\ DOMAIN Tids = 1..Len(Tids)
  BY <1>1
<1> QED
  BY <1>1, <1>2 DEF Range

(* A pass begins with all of them.                                          *)
LEMMA PassBegins ==
    ASSUME todo' = Tids, errors' = NoErrors
    PROVE  Visited' = 0 /\ VisitsInTurn'
<1>1. Len(Tids) \in Nat /\ Len(todo)' = Len(Tids)
  BY ListOfThreads
<1>2. Visited' = 0
  BY <1>1 DEF Visited
<1> QED
  BY <1>1, <1>2, ListOfThreads DEF VisitsInTurn, NoErrors

(* CpuSet::parse gives one set at most, of numbers.                         *)
LEMMA ParsedIsOne ==
    ASSUME NEW list, NEW n, NEW r \in parse(list, n)
    PROVE  UNION parse(list, n) = r
<1> DEFINE accepted ==
        UNION {list[i][1]..list[i][2] : i \in {j \in 1..Len(list) : IsRange(list[j])}}
<1>1. parse(list, n) \in {{}, {accepted}}
  BY DEF parse
<1> HIDE DEF accepted
<1> QED
  BY <1>1

(* The CPUs of a parsed list are numbers.                                   *)
LEMMA ParsedAreNumbers ==
    ASSUME NEW list, NEW n, NEW r \in parse(list, n)
    PROVE  r \subseteq Int
BY DEF parse

(* At start-up nothing was asked of any thread.                             *)
LEMMA InitIInv == Init => IInv
<1> SUFFICES ASSUME Init PROVE IInv
  OBVIOUS
<1>1. Shape
  BY DEF Init, Shape, MachineRecord, RuleRecord
<1>2. MaskIsAsked /\ VisitsInTurn /\ PlacedIsKnown /\ RefusedInTurn /\ PlacedInTurn
  BY DEF Init, MaskIsAsked, VisitsInTurn, Passing, PlacedIsKnown, RefusedInTurn, PlacedInTurn
<1>3. FailureIsTrue /\ EveryThreadPlaced
  BY DEF Init, FailureIsTrue, EveryThreadPlaced
<1> QED
  BY <1>1, <1>2, <1>3 DEF IInv

(* Hotplug, a move to another cpuset, a thread's end: only what holds       *)
(* whatever changes is left.                                                *)
LEMMA ChangeIInv ==
    ASSUME IInv, Change, Shape'
    PROVE  IInv'
<1>1. /\ UNCHANGED <<machine, rule, aliases, pc, mask, todo, allowed, errors, result, placed>>
      /\ disturbed'
  BY DEF Change
<1>2. Requested' = Requested /\ Visited' = Visited /\ OutOfBounds(mask)' = OutOfBounds(mask)
  BY <1>1 DEF Requested, RuleList, Visited, OutOfBounds, NumBytes
<1>3. MaskIsAsked'
  BY <1>1, <1>2 DEF IInv, MaskIsAsked
<1>4. VisitsInTurn'
  BY <1>1, <1>2 DEF IInv, VisitsInTurn, Passing
<1>5. PlacedIsKnown'
  BY <1>1 DEF IInv, PlacedIsKnown, Passing
<1>6. RefusedInTurn' /\ PlacedInTurn' /\ EveryThreadPlaced'
  BY <1>1 DEF RefusedInTurn, PlacedInTurn, EveryThreadPlaced
<1>7. FailureIsTrue'
  BY <1>1 DEF IInv, FailureIsTrue
<1> QED
  BY <1>3, <1>4, <1>5, <1>6, <1>7 DEF IInv

(* What changes stay what the kernel allows.                                *)
LEMMA EnvironmentIInv ==
    ASSUME IInv, Environment
    PROVE  IInv'
<1>1. ASSUME NEW c \in machine.cpus \ {0}, Hotplug(c) PROVE IInv'
  <2>1. Change /\ Shape'
    BY <1>1 DEF Hotplug, Change, IInv, Shape
  <2> QED
    BY <2>1, ChangeIInv
<1>2. ASSUME NEW t \in Range(Tids), NEW cpus \in (SUBSET machine.cpus) \ {{}},
             MoveToCpuset(t, cpus)
      PROVE  IInv'
  <2>1. Change /\ Shape'
    BY <1>2 DEF MoveToCpuset, Change, IInv, Shape
  <2> QED
    BY <2>1, ChangeIInv
<1>3. ASSUME NEW t \in Range(Tids), ThreadEnds(t) PROVE IInv'
  <2>1. Change /\ Shape'
    BY <1>3 DEF ThreadEnds, Change, IInv, Shape
  <2> QED
    BY <2>1, ChangeIInv
<1> QED
  BY <1>1, <1>2, <1>3 DEF Environment

(* DetectTopology and DetectX3D come before any rule.                       *)
LEMMA DetectIInv ==
    ASSUME IInv, DetectTopology \/ DetectX3D
    PROVE  IInv'
<1>1. /\ UNCHANGED <<environment, mask, todo, allowed, errors, result, placed>>
      /\ pc \in {"detect", "x3d"} /\ pc' \in {"x3d", "rule"}
  BY DEF DetectTopology, DetectX3D
<1>2. Shape'
  BY <1>1 DEF IInv, Shape, environment
<1>3. MaskIsAsked' /\ VisitsInTurn' /\ RefusedInTurn' /\ PlacedInTurn' /\ FailureIsTrue'
      /\ EveryThreadPlaced'
  BY <1>1 DEF MaskIsAsked, VisitsInTurn, Passing, RefusedInTurn, PlacedInTurn, FailureIsTrue,
              EveryThreadPlaced
<1>4. PlacedIsKnown'
  BY <1>1 DEF IInv, PlacedIsKnown, Passing
<1> QED
  BY <1>2, <1>3, <1>4 DEF IInv

(* apply_rule answers at once, or the first pass begins with every thread   *)
(* to visit.                                                                *)
LEMMA TakeRuleIInv ==
    ASSUME IInv, TakeRule
    PROVE  IInv'
<1>1. /\ UNCHANGED <<machine, rule, online, changes, live, cpuset, affinity, aliases, allowed,
                     placed>>
      /\ pc = "rule" /\ placed = {} /\ ~disturbed'
  BY DEF TakeRule, IInv, PlacedIsKnown, Passing
<1>2. Shape'
  BY <1>1 DEF IInv, Shape
<1>3. PlacedIsKnown'
  BY <1>1 DEF PlacedIsKnown
<1>4. ASSUME Answer("left alone") \/ Answer("invalid") \/ Answer("panicked") PROVE IInv'
  <2>1. pc' = "done" /\ result' \in {"left alone", "invalid", "panicked"}
    BY <1>4 DEF Answer
  <2>2. /\ MaskIsAsked' /\ VisitsInTurn' /\ RefusedInTurn' /\ PlacedInTurn'
        /\ FailureIsTrue' /\ EveryThreadPlaced'
    BY <1>1, <2>1 DEF MaskIsAsked, VisitsInTurn, Passing, RefusedInTurn, PlacedInTurn,
                      FailureIsTrue, EveryThreadPlaced
  <2> QED
    BY <1>2, <1>3, <2>2 DEF IInv
<1>5. ASSUME NEW requested \in parse(RuleList, machine.maxCores), ~OutOfBounds(requested),
             mask' = requested, todo' = Tids, errors' = NoErrors, pc' = "first pass"
      PROVE  IInv'
  <2>1. Requested' = requested /\ OutOfBounds(mask)' = OutOfBounds(requested)
    BY <1>1, <1>5, ParsedIsOne DEF Requested, RuleList, OutOfBounds, NumBytes
  <2>2. MaskIsAsked'
    BY <1>5, <2>1 DEF MaskIsAsked
  <2>3. Visited' = 0 /\ VisitsInTurn'
    BY <1>5, PassBegins
  <2>4. \A i \in 1..Visited' : FALSE
    BY <2>3
  <2>5. RefusedInTurn' /\ PlacedInTurn'
    BY <1>5, <2>4 DEF RefusedInTurn, PlacedInTurn
  <2>6. FailureIsTrue' /\ EveryThreadPlaced'
    BY <1>5 DEF FailureIsTrue, EveryThreadPlaced
  <2> QED
    BY <1>2, <1>3, <2>2, <2>3, <2>5, <2>6 DEF IInv
<1> QED
  BY <1>4, <1>5 DEF TakeRule

(* One thread of a pass: placed, or one the kernel would place for nobody.  *)
LEMMA SetOneIInv ==
    ASSUME IInv, SetOne
    PROVE  IInv'
<1> DEFINE t == Head(todo)
           r == SetAffinityFor(t)
<1>1. /\ UNCHANGED <<machine, rule, online, changes, aliases, pc, mask, allowed, result, live,
                     cpuset, disturbed>>
      /\ Passing /\ todo # <<>> /\ todo' = Tail(todo)
      /\ errors'.applied = (errors.applied \/ r = "ok")
      /\ errors'.first \in {errors.first, "EINVAL", "EPERM"}
      /\ affinity' = IF r = "ok" THEN [affinity EXCEPT ![t] = mask \cap cpuset[t]] ELSE affinity
      /\ placed' = IF r = "ok" THEN placed \cup {t} ELSE placed
  BY DEF SetOne, Remaining
<1>2. /\ Len(todo) \in Nat \ {0} /\ Len(Tids) \in Nat /\ Len(todo) <= Len(Tids)
      /\ Len(todo') = Len(todo) - 1 /\ todo' \in Seq(Range(Tids))
      /\ \A i \in 1..Len(todo') : todo'[i] = todo[i + 1]
      /\ t = todo[1]
  BY <1>1 DEF IInv, VisitsInTurn
<1>3. /\ Visited' = Visited + 1 /\ Visited \in Nat /\ t = Tids[Visited + 1]
      /\ Visited + 1 \in 1..Len(Tids)
  BY <1>1, <1>2 DEF IInv, VisitsInTurn, Visited
<1>4. t \in Range(Tids) /\ \A i \in 1..Len(Tids) : Tids[i] \in Range(Tids)
  BY <1>3 DEF Range
<1>5. /\ Requested' = Requested /\ OutOfBounds(mask)' = OutOfBounds(mask)
      /\ \A u : Reaches(u)' = Reaches(u)
  BY <1>1 DEF Requested, RuleList, OutOfBounds, NumBytes, Reaches
<1>6. pc = "first pass" => (r = "ok" <=> Reaches(t)) /\ mask = Requested
  BY DEF IInv, MaskIsAsked, SetAffinityFor, Reaches
<1> HIDE DEF r, t
<1>7. \A u \in Range(Tids) :
         affinity'[u] = IF u = t /\ r = "ok" THEN mask \cap cpuset[u] ELSE affinity[u]
  BY <1>1, <1>4 DEF IInv, Shape
<1>8. Shape'
  <2>1. affinity' = [u \in Range(Tids) |-> affinity'[u]]
    BY <1>1, <1>4 DEF IInv, Shape
  <2> QED
    BY <1>1, <1>7, <2>1 DEF IInv, Shape
<1>9. MaskIsAsked'
  BY <1>1, <1>5 DEF IInv, MaskIsAsked
<1>10. VisitsInTurn'
  BY <1>1, <1>2, <1>3 DEF IInv, VisitsInTurn
<1>11. PlacedIsKnown'
  BY <1>1 DEF IInv, PlacedIsKnown, Passing
<1>12. RefusedInTurn'
  <2>1. ASSUME pc = "first pass", ~errors.applied, r # "ok", ~disturbed, NEW i \in 1..Visited'
        PROVE  ~Reaches(Tids[i])
    <3>1. CASE i = Visited + 1
      BY <1>3, <1>6, <2>1, <3>1
    <3>2. CASE i # Visited + 1
      <4>1. i \in 1..Visited
        BY <1>3, <3>2
      <4> QED
        BY <2>1, <4>1 DEF IInv, RefusedInTurn
    <3> QED
      BY <3>1, <3>2
  <2> QED
    BY <1>1, <1>5, <2>1 DEF IInv, RefusedInTurn
<1>13. PlacedInTurn'
  <2>1. ASSUME pc = "first pass", ~disturbed, NEW i \in 1..(Visited + 1)
        PROVE  Settled(Tids[i])'
    <3>1. i \in 1..Len(Tids) /\ Tids[i] \in Range(Tids)
      BY <1>2, <1>3, <1>4
    <3>2. CASE Tids[i] = t
      BY <1>1, <1>5, <1>6, <1>7, <2>1, <3>1, <3>2 DEF Settled
    <3>3. CASE Tids[i] # t
      <4>1. i \in 1..Visited
        BY <1>3, <3>3
      <4>2. Settled(Tids[i])
        BY <2>1, <4>1 DEF IInv, PlacedInTurn
      <4> QED
        BY <1>1, <1>5, <1>7, <3>1, <3>3, <4>2 DEF Settled
    <3> QED
      BY <3>2, <3>3
  <2> QED
    BY <1>1, <1>3, <2>1 DEF PlacedInTurn
<1>14. FailureIsTrue' /\ EveryThreadPlaced'
  BY <1>1 DEF Passing, FailureIsTrue, EveryThreadPlaced
<1> QED
  BY <1>8, <1>9, <1>10, <1>11, <1>12, <1>13, <1>14 DEF IInv

(* The end of a pass.  Every thread was visited, so that what was said of   *)
(* the visited ones is said of all.                                         *)
LEMMA EndPassIInv ==
    ASSUME IInv, EndPass
    PROVE  IInv'
<1>1. /\ UNCHANGED <<machine, rule, online, live, cpuset, affinity, disturbed, aliases, mask,
                     todo, allowed, errors, placed>>
      /\ Passing /\ todo = <<>>
  BY DEF EndPass, environment
<1>2. /\ Requested' = Requested /\ OutOfBounds(mask)' = OutOfBounds(mask)
      /\ \A u : Reaches(u)' = Reaches(u)
  BY <1>1 DEF Requested, RuleList, OutOfBounds, NumBytes, Reaches
<1>3. Visited = Len(Tids) /\ errors.first \in {"none", "EINVAL", "EPERM"}
  BY <1>1, ListOfThreads DEF IInv, VisitsInTurn, Visited
<1>4. pc = "first pass" /\ ~disturbed => \A t \in Range(Tids) : Settled(t)
  BY <1>3, ListOfThreads DEF IInv, PlacedInTurn
<1>5. pc = "first pass" /\ ~disturbed /\ ~errors.applied =>
          \A t \in Range(Tids) : ~Reaches(t)
  BY <1>3, ListOfThreads DEF IInv, RefusedInTurn
<1>6. pc = "second pass" /\ ~disturbed => \A t \in Range(Tids) : ~Reaches(t)
  BY DEF IInv, RefusedInTurn
<1>7. ~errors.applied => placed = {}
  BY <1>1 DEF IInv, PlacedIsKnown, Passing
<1>8. Shape'
  BY <1>1 DEF IInv, Shape
<1>9. ASSUME PassResult(errors) # "EINVAL", Answer(PassResult(errors)) PROVE IInv'
  <2>1. /\ pc' = "done" /\ result' \in {"applied", "EPERM", "not found"}
        /\ errors.applied => result' = "applied"
    BY <1>3, <1>9 DEF Answer, PassResult
  <2>2. MaskIsAsked' /\ VisitsInTurn' /\ RefusedInTurn' /\ PlacedInTurn'
    BY <2>1 DEF MaskIsAsked, VisitsInTurn, Passing, RefusedInTurn, PlacedInTurn
  <2>3. PlacedIsKnown' /\ FailureIsTrue'
    BY <1>1, <1>7, <2>1 DEF PlacedIsKnown, FailureIsTrue
  <2>4. ~disturbed => \A t \in Range(Tids) : Settled(t)
    BY <1>1, <1>4, <1>6 DEF Passing, Settled
  <2>5. EveryThreadPlaced'
    BY <1>1, <1>2, <2>4 DEF EveryThreadPlaced, Settled
  <2> QED
    BY <1>8, <2>2, <2>3, <2>5 DEF IInv
<1>10. ASSUME PassResult(errors) = "EINVAL" PROVE ~errors.applied /\ placed = {}
  BY <1>7, <1>10 DEF PassResult
<1>11. ASSUME PassResult(errors) = "EINVAL", pc = "second pass", Answer("skipped") PROVE IInv'
  <2>1. pc' = "done" /\ result' = "skipped" /\ placed' = {}
    BY <1>1, <1>10, <1>11 DEF Answer
  <2>2. MaskIsAsked' /\ VisitsInTurn' /\ RefusedInTurn' /\ PlacedInTurn' /\ PlacedIsKnown'
        /\ EveryThreadPlaced'
    BY <2>1 DEF MaskIsAsked, VisitsInTurn, Passing, RefusedInTurn, PlacedInTurn,
                PlacedIsKnown, EveryThreadPlaced
  <2>3. Requested \cap machine.cpus # {}
    BY <1>11 DEF IInv, MaskIsAsked
  <2>4. FailureIsTrue'
    BY <1>1, <1>2, <1>6, <1>11, <2>1, <2>3 DEF FailureIsTrue
  <2> QED
    BY <1>8, <2>2, <2>4 DEF IInv
<1>12. ASSUME PassResult(errors) = "EINVAL", pc = "first pass", pc' = "allowed" PROVE IInv'
  <2>1. MaskIsAsked'
    BY <1>1, <1>2, <1>12 DEF IInv, MaskIsAsked
  <2>2. VisitsInTurn' /\ PlacedInTurn' /\ PlacedIsKnown' /\ EveryThreadPlaced' /\ FailureIsTrue'
    BY <1>1, <1>10, <1>12 DEF VisitsInTurn, Passing, PlacedInTurn, PlacedIsKnown,
                              EveryThreadPlaced, FailureIsTrue
  <2>3. RefusedInTurn'
    BY <1>1, <1>2, <1>5, <1>10, <1>12 DEF RefusedInTurn
  <2> QED
    BY <1>8, <2>1, <2>2, <2>3 DEF IInv
<1> QED
  BY <1>9, <1>11, <1>12 DEF EndPass

(* narrow_and_retry reads where the leader may run.                         *)
LEMMA ReadAllowedIInv ==
    ASSUME IInv, ReadAllowed
    PROVE  IInv'
<1>1. /\ UNCHANGED <<machine, rule, online, live, cpuset, affinity, disturbed, aliases, mask,
                     todo, errors, placed>>
      /\ pc = "allowed" /\ placed = {}
  BY DEF ReadAllowed, environment, IInv, PlacedIsKnown, Passing
<1>2. /\ Requested' = Requested /\ OutOfBounds(mask)' = OutOfBounds(mask)
      /\ \A u : Reaches(u)' = Reaches(u)
  BY <1>1 DEF Requested, RuleList, OutOfBounds, NumBytes, Reaches
<1>3. PlacedIsKnown'
  BY <1>1 DEF PlacedIsKnown
<1>4. ASSUME Answer("allowed unreadable"), UNCHANGED allowed PROVE IInv'
  <2>1. pc' = "done" /\ result' = "allowed unreadable"
    BY <1>4 DEF Answer
  <2>2. Shape'
    BY <1>1, <1>4 DEF IInv, Shape
  <2>3. MaskIsAsked' /\ VisitsInTurn' /\ RefusedInTurn' /\ PlacedInTurn' /\ EveryThreadPlaced'
        /\ FailureIsTrue'
    BY <1>1, <2>1 DEF MaskIsAsked, VisitsInTurn, Passing, RefusedInTurn, PlacedInTurn,
                      EveryThreadPlaced, FailureIsTrue
  <2> QED
    BY <1>3, <2>2, <2>3 DEF IInv
<1>5. ASSUME live # {}, allowed' = Visible(affinity[Head(Tids)]), pc' = "narrow" PROVE IInv'
  <2>1. Head(Tids) \in Range(Tids)
    BY ListOfThreads
  <2>2. allowed' \subseteq machine.cpus
    BY <1>5, <2>1 DEF IInv, Shape, Visible
  <2>3. Shape'
    BY <1>1, <2>2 DEF IInv, Shape
  <2>4. MaskIsAsked'
    BY <1>1, <1>2, <1>5 DEF IInv, MaskIsAsked
  <2>5. RefusedInTurn'
    BY <1>1, <1>2, <1>5 DEF IInv, RefusedInTurn
  <2>6. VisitsInTurn' /\ PlacedInTurn' /\ EveryThreadPlaced' /\ FailureIsTrue'
    BY <1>5 DEF VisitsInTurn, Passing, PlacedInTurn, EveryThreadPlaced, FailureIsTrue
  <2> QED
    BY <1>3, <2>3, <2>4, <2>5, <2>6 DEF IInv
<1> QED
  BY <1>4, <1>5 DEF ReadAllowed

(* A quotient is a number.                                                  *)
LEMMA Quotient ==
    ASSUME NEW a \in Int, NEW b \in Nat \ {0}
    PROVE  a \div b \in Int
OBVIOUS

(* What the mask can hold of some CPUs is all the mask has of them.         *)
LEMMA MaskSeesAll ==
    ASSUME IInv, pc = "narrow", NEW cpus
    PROVE  Requested \cap Visible(cpus) = Requested \cap cpus
<1>1. mask = Requested /\ ~OutOfBounds(mask)
  BY DEF IInv, MaskIsAsked
<1>2. Requested \subseteq Int
  BY ParsedAreNumbers DEF Requested
<1>3. NumBytes \in Int
  BY DEF NumBytes, IInv, Shape
<1>4. ASSUME NEW c \in Requested PROVE c \div ByteBits < NumBytes
  <2>1. ~(c \div ByteBits >= NumBytes)
    BY <1>1 DEF OutOfBounds
  <2>2. c \div ByteBits \in Int
    <3>1. c \in Int /\ ByteBits \in Nat \ {0}
      BY <1>2
    <3> QED
      BY <3>1, Quotient
  <2> QED
    BY <1>3, <2>1, <2>2
<1> QED
  BY <1>4 DEF Visible

(* The decision: an error for CPUs that do not exist, a skip for CPUs the   *)
(* process may not use, or a second pass with what is left of the mask.     *)
LEMMA NarrowIInv ==
    ASSUME IInv, Narrow
    PROVE  IInv'
<1> DEFINE narrowed == mask \cap allowed
           found == IF machine.known = "possible" THEN machine.cpus ELSE online
<1>1. /\ UNCHANGED <<machine, rule, online, live, cpuset, affinity, disturbed, aliases,
                     allowed, placed>>
      /\ pc = "narrow" /\ placed = {} /\ mask = Requested
  BY DEF Narrow, environment, IInv, PlacedIsKnown, Passing, MaskIsAsked
<1>2. /\ Requested' = Requested
      /\ \A u : Reaches(u)' = Reaches(u)
  BY <1>1 DEF Requested, RuleList, Reaches
<1>3. Shape' /\ PlacedIsKnown'
  BY <1>1 DEF IInv, Shape, PlacedIsKnown
<1>4. MachineCpus \subseteq {Visible(found)} /\ Requested \cap Visible(found) = Requested \cap found
  BY <1>1, MaskSeesAll DEF MachineCpus
<1>5. found \subseteq machine.cpus
  BY DEF IInv, Shape
<1>6. ASSUME NarrowDecision(narrowed) # "retry", Answer(NarrowDecision(narrowed)) PROVE IInv'
  <2>1. pc' = "done" /\ result' = NarrowDecision(narrowed)
    BY <1>6 DEF Answer
  <2>2. result' \in {"absent", "skipped", "EIO"}
    BY <1>6, <2>1 DEF NarrowDecision
  <2>3. result' = "absent" => Requested \cap found = {}
    BY <1>1, <1>4, <2>1 DEF NarrowDecision
  <2>4. result' = "skipped" => Requested \cap machine.cpus # {}
    BY <1>1, <1>4, <1>5, <2>1 DEF NarrowDecision
  <2>5. ~disturbed => \A t \in Range(Tids) : ~Reaches(t)
    BY <1>1 DEF IInv, RefusedInTurn
  <2>6. FailureIsTrue'
    BY <1>1, <1>2, <2>3, <2>4, <2>5 DEF FailureIsTrue
  <2>7. MaskIsAsked' /\ VisitsInTurn' /\ RefusedInTurn' /\ PlacedInTurn' /\ EveryThreadPlaced'
    BY <2>1, <2>2 DEF MaskIsAsked, VisitsInTurn, Passing, RefusedInTurn, PlacedInTurn,
                      EveryThreadPlaced
  <2> QED
    BY <1>3, <2>6, <2>7 DEF IInv
<1>7. ASSUME NarrowDecision(narrowed) = "retry", pc' = "second pass", mask' = narrowed,
             todo' = Tids, errors' = NoErrors
      PROVE  IInv'
  <2>1. narrowed # {} /\ narrowed \subseteq Requested \cap machine.cpus
    BY <1>1, <1>7 DEF NarrowDecision, IInv, Shape
  <2>2. MaskIsAsked'
    BY <1>1, <1>2, <1>7, <2>1 DEF MaskIsAsked
  <2>3. VisitsInTurn'
    BY <1>7, PassBegins
  <2>4. RefusedInTurn'
    BY <1>1, <1>2, <1>7 DEF IInv, RefusedInTurn
  <2>5. PlacedInTurn' /\ EveryThreadPlaced' /\ FailureIsTrue'
    BY <1>7 DEF PlacedInTurn, EveryThreadPlaced, FailureIsTrue
  <2> QED
    BY <1>3, <2>2, <2>3, <2>4, <2>5 DEF IInv
<1> QED
  BY <1>6, <1>7 DEF Narrow

(* Every step of the machine and of the daemon.                             *)
LEMMA StepIInv == IInv /\ [Next]_vars => IInv'
<1> SUFFICES ASSUME IInv, [Next]_vars PROVE IInv'
  OBVIOUS
<1>1. CASE UNCHANGED vars
  <2>1. UNCHANGED <<machine, rule, online, changes, aliases, pc, mask, todo, allowed, errors,
                    result, live, cpuset, affinity, placed, disturbed>>
    BY <1>1 DEF vars
  <2>2. /\ Requested' = Requested /\ OutOfBounds(mask)' = OutOfBounds(mask)
        /\ Visited' = Visited /\ Passing' = Passing
        /\ \A u : Reaches(u)' = Reaches(u) /\ Settled(u)' = Settled(u)
    BY <2>1 DEF Requested, RuleList, OutOfBounds, NumBytes, Visited, Passing, Reaches, Settled
  <2>3. Shape' /\ MaskIsAsked'
    BY <2>1, <2>2 DEF IInv, Shape, MaskIsAsked
  <2>4. VisitsInTurn' /\ PlacedIsKnown'
    BY <2>1, <2>2 DEF IInv, VisitsInTurn, PlacedIsKnown
  <2>5. RefusedInTurn' /\ PlacedInTurn'
    BY <2>1, <2>2 DEF IInv, RefusedInTurn, PlacedInTurn
  <2>6. FailureIsTrue' /\ EveryThreadPlaced'
    BY <2>1, <2>2 DEF IInv, FailureIsTrue, EveryThreadPlaced
  <2> QED
    BY <2>3, <2>4, <2>5, <2>6 DEF IInv
<1>2. CASE Environment
  BY <1>2, EnvironmentIInv
<1>3. CASE Daemon
  BY <1>3, DetectIInv, TakeRuleIInv, SetOneIInv, EndPassIInv, ReadAllowedIInv, NarrowIInv
     DEF Daemon
<1> QED
  BY <1>1, <1>2, <1>3 DEF Next

(* The inductive invariant of a rule's cpuset on its way to the threads     *)
(* (worker.rs apply_rule, affinity.rs).                                     *)
THEOREM Invariance == Spec => []IInv
BY InitIInv, StepIInv, PTL DEF Spec

(* An error of set_affinity means that no thread was changed, and, if       *)
(* nothing else changed meanwhile, what it says: for any machine, list,     *)
(* thread count and interference (affinity.rs set_affinity,                 *)
(* narrow_and_retry).                                                       *)
THEOREM ErrorsAreTrue == Spec => []FailureIsTrue
BY Invariance, PTL DEF IInv

(* And a success means that every thread which may run on a CPU of the rule *)
(* does, whatever happened to the others (affinity.rs apply_to_tids).       *)
THEOREM SuccessIsForAll == Spec => []EveryThreadPlaced
BY Invariance, PTL DEF IInv
=============================================================================
