--------------------------- MODULE BpfSourceProofs ---------------------------
(***************************************************************************)
(* The minimum interval of the eBPF program, for any number of CPUs, any    *)
(* interval and any clock that stays below 2^64.                            *)
(***************************************************************************)
EXTENDS BpfSource, TLAPS

USE SourceAssumption

Places == {"clock", "filter", "store", "output"}

Shape ==
    /\ scene \in Scenes
    /\ clock \in Nat /\ clock < Word /\ clock <= scene.maxClock
    /\ failed \in Nat
    /\ cpu = [c \in Cpus |-> cpu[c]]
    /\ \A c \in Cpus :
          \/ cpu[c].pc = "idle"
          \/ /\ cpu[c] = [pc |-> cpu[c].pc, prog |-> cpu[c].prog, current |-> cpu[c].current,
                          pid |-> cpu[c].pid, prev_pid |-> cpu[c].prev_pid, ts |-> cpu[c].ts]
             /\ cpu[c].pc \in Places /\ cpu[c].prog \in Programs
             /\ cpu[c].ts \in Nat /\ cpu[c].ts <= clock
    /\ prev_ts \in [Programs -> Nat] /\ \A g \in Programs : prev_ts[g] <= clock
    /\ passed = [g \in Programs |-> passed[g]] /\ dropped = [g \in Programs |-> dropped[g]]
    /\ \A g \in Programs : \A e \in passed[g] \cup dropped[g] : e.ts \in Nat

(* A static holds the time of an event that passed, or none.                *)
Stored ==
    /\ \A g \in Programs : prev_ts[g] = 0 \/ \E e \in passed[g] : e.ts = prev_ts[g]
    /\ \A c \in Cpus : cpu[c].pc = "store" =>
          \E e \in passed[cpu[c].prog] : e.ts = cpu[c].ts

(* The statics are new only while nothing has passed, until a failure.      *)
FirstAttach ==
    failed = 0 =>
        /\ main # "sleep"
        /\ main = "new" => /\ \A g \in Programs : passed[g] = {}
                           /\ \A c \in Cpus : cpu[c].pc = "idle"

(* As long as no two CPUs are in one program: they take turns, and the      *)
(* static is the latest of what passed, but for the one about to be stored. *)
Turns ==
    (~overlapped /\ failed = 0) =>
        /\ \A c, d \in Cpus :
              cpu[c].pc # "idle" /\ cpu[d].pc # "idle" /\ cpu[c].prog = cpu[d].prog => c = d
        /\ \A c \in Cpus : cpu[c].pc \in {"filter", "store"} => prev_ts[cpu[c].prog] <= cpu[c].ts
        /\ \A g \in Programs : \A e \in passed[g] :
              \/ e.ts <= prev_ts[g]
              \/ \E c \in Cpus : cpu[c].pc = "store" /\ cpu[c].prog = g /\ e.ts <= cpu[c].ts

IInv == Shape /\ Stored /\ FirstAttach /\ Turns /\ IntervalThinsBursts

-----------------------------------------------------------------------------
(* Arithmetic of the interval.                                              *)

(* Division by the nanoseconds of a microsecond keeps the order.            *)
LEMMA DivMonotone ==
    ASSUME NEW n \in Nat \ {0}, NEW a \in Nat, NEW b \in Nat, a <= b
    PROVE  a \div n <= b \div n
<1>1. a \div n \in Nat /\ b \div n \in Nat
  BY SMT
<1>2. n * (a \div n) <= a /\ b < n * (b \div n) + n
  BY SMT
<1> QED
  BY <1>1, <1>2, SMT

(* The unsigned difference of two times of a clock below 2^64.              *)
LEMMA Difference ==
    ASSUME NEW w \in Nat \ {0}, NEW s \in 0..(w - 1), NEW t \in 0..(w - 1)
    PROVE  (t - s + w) % w = IF s <= t THEN t - s ELSE t - s + w
BY SMT

(* A time that is not after the static's is taken for one long after it; if *)
(* it is dropped all the same, it is soon after the machine's start.        *)
LEMMA DropIsSoon ==
    ASSUME NEW s \in 0..(Word - 1), NEW t \in 0..(Word - 1), scene.minUs \in Nat,
           ((t - s + Word) % Word) \div NsPerUs <= scene.minUs
    PROVE  Soon(0, t) \/ Soon(s, t)
<1>1. CASE s <= t
  BY <1>1, Difference DEF Soon
<1>2. CASE t < s
  <2>1. (t - s + Word) % Word = t - s + Word /\ t <= t - s + Word
    BY <1>2, Difference
  <2> DEFINE late == t - s + Word
  <2>2. t \div NsPerUs <= late \div NsPerUs
    <3>1. late \in Nat /\ t \in Nat /\ t <= late /\ NsPerUs \in Nat \ {0}
      BY <2>1
    <3> HIDE DEF late
    <3> QED
      BY <3>1, DivMonotone
  <2>3. t \div NsPerUs \in Nat /\ (t - s + Word) \div NsPerUs \in Nat
    BY <1>2
  <2> QED
    BY <2>1, <2>2, <2>3 DEF Soon
<1> QED
  BY <1>1, <1>2

(* What passes is later than the static by more than the interval, and so   *)
(* than anything before the static.                                         *)
LEMMA PassIsLate ==
    ASSUME NEW s \in 0..(Word - 1), NEW t \in 0..(Word - 1), scene.minUs \in Nat,
           s <= t, ((t - s + Word) % Word) \div NsPerUs > scene.minUs,
           NEW e \in Nat, e <= s
    PROVE  ~Soon(e, t) /\ ~Soon(t, e)
<1>1. (t - s + Word) % Word = t - s
  BY Difference
<1>2. (t - s) \div NsPerUs <= (t - e) \div NsPerUs
  BY DivMonotone
<1>3. (t - s) \div NsPerUs \in Nat /\ (t - e) \div NsPerUs \in Nat
  OBVIOUS
<1>4. ~Soon(e, t)
  BY <1>1, <1>2, <1>3 DEF Soon
<1>5. t # s
  <2>1. 0 \div NsPerUs = 0
    OBVIOUS
  <2> QED
    BY <1>1, <2>1
<1> QED
  BY <1>4, <1>5 DEF Soon

(* No event has passed or been dropped, and no CPU is in a program.         *)
LEMMA InitIInv == Init => IInv
<1> SUFFICES ASSUME Init PROVE IInv
  OBVIOUS
<1>1. Shape
  <2>1. scene \in Scenes /\ clock \in Nat /\ clock < Word /\ clock <= scene.maxClock
    BY DEF Init, SceneRecord
  <2>2. cpu = [c \in Cpus |-> cpu[c]] /\ \A c \in Cpus : cpu[c].pc = "idle"
    BY DEF Init, NoRun
  <2> QED
    BY <2>1, <2>2 DEF Init, Shape
<1>2. Stored /\ FirstAttach /\ Turns
  BY DEF Init, Stored, FirstAttach, Turns, NoRun
<1>3. IntervalThinsBursts
  BY DEF Init, IntervalThinsBursts
<1> QED
  BY <1>1, <1>2, <1>3 DEF IInv

(* Steps that leave the program alone: time passes, the listener goes on,   *)
(* processes end, names are read.                                           *)
LEMMA Elsewhere ==
    ASSUME IInv, UNCHANGED <<scene, cpu, prev_ts, passed, dropped, overlapped>>,
           clock' \in Nat, clock <= clock', clock' <= scene.maxClock,
           failed' \in Nat, failed' = 0 => failed = 0,
           failed' = 0 => main' # "sleep" /\ (main' = "new" => main = "new")
    PROVE  IInv'
<1> USE DEF Cpus
<1>1. Shape'
  <2>1. clock' < Word
    BY DEF IInv, Shape, SceneRecord
  <2>2. \A c \in Cpus : cpu[c].ts \in Nat /\ cpu[c].ts <= clock => cpu[c].ts <= clock'
    BY DEF IInv, Shape
  <2>3. \A g \in Programs : prev_ts[g] <= clock'
    BY DEF IInv, Shape
  <2> QED
    BY <2>1, <2>2, <2>3 DEF IInv, Shape
<1>2. Stored' /\ FirstAttach'
  BY DEF IInv, Stored, FirstAttach
<1>3. Turns'
  BY DEF IInv, Turns
<1>4. IntervalThinsBursts'
  BY DEF IInv, IntervalThinsBursts, Soon
<1> QED
  BY <1>1, <1>2, <1>3, <1>4 DEF IInv

(* The record of one CPU's run is set.                                      *)
LEMMA OneRun ==
    ASSUME Shape, scene' = scene, NEW c \in Cpus, NEW r, cpu' = [cpu EXCEPT ![c] = r]
    PROVE  /\ Cpus' = Cpus /\ cpu' = [d \in Cpus' |-> cpu'[d]]
           /\ cpu'[c] = r /\ \A d \in Cpus \ {c} : cpu'[d] = cpu[d]
<1>1. Cpus' = Cpus
  BY DEF Cpus
<1>2. cpu = [d \in Cpus |-> cpu[d]]
  BY DEF Shape
<1> QED
  BY <1>1, <1>2

(* Shape and the times of what passed, when one CPU has moved on.           *)
LEMMA ShapeOfRun ==
    ASSUME Shape, UNCHANGED <<scene, clock, failed>>, NEW c \in Cpus,
           Cpus' = Cpus, cpu' = [d \in Cpus' |-> cpu'[d]],
           \A d \in Cpus \ {c} : cpu'[d] = cpu[d],
           \/ cpu'[c].pc = "idle"
           \/ /\ cpu'[c] = [pc |-> cpu'[c].pc, prog |-> cpu'[c].prog,
                             current |-> cpu'[c].current, pid |-> cpu'[c].pid,
                             prev_pid |-> cpu'[c].prev_pid, ts |-> cpu'[c].ts]
              /\ cpu'[c].pc \in Places /\ cpu'[c].prog \in Programs
              /\ cpu'[c].ts \in Nat /\ cpu'[c].ts <= clock,
           prev_ts' \in [Programs -> Nat], \A g \in Programs : prev_ts'[g] <= clock,
           passed' = [g \in Programs |-> passed'[g]],
           dropped' = [g \in Programs |-> dropped'[g]],
           \A g \in Programs : \A e \in passed'[g] \cup dropped'[g] : e.ts \in Nat
    PROVE  Shape'
<1>1. \A d \in Cpus :
          \/ cpu'[d].pc = "idle"
          \/ /\ cpu'[d] = [pc |-> cpu'[d].pc, prog |-> cpu'[d].prog, current |-> cpu'[d].current,
                           pid |-> cpu'[d].pid, prev_pid |-> cpu'[d].prev_pid, ts |-> cpu'[d].ts]
             /\ cpu'[d].pc \in Places /\ cpu'[d].prog \in Programs
             /\ cpu'[d].ts \in Nat /\ cpu'[d].ts <= clock
  <2> SUFFICES ASSUME NEW d \in Cpus
               PROVE
          \/ cpu'[d].pc = "idle"
          \/ /\ cpu'[d] = [pc |-> cpu'[d].pc, prog |-> cpu'[d].prog, current |-> cpu'[d].current,
                           pid |-> cpu'[d].pid, prev_pid |-> cpu'[d].prev_pid, ts |-> cpu'[d].ts]
             /\ cpu'[d].pc \in Places /\ cpu'[d].prog \in Programs
             /\ cpu'[d].ts \in Nat /\ cpu'[d].ts <= clock
    OBVIOUS
  <2>1. CASE d = c
    BY <2>1
  <2>2. CASE d # c
    <3>1. cpu'[d] = cpu[d]
      BY <2>2
    <3> QED
      BY <3>1 DEF Shape
  <2> QED
    BY <2>1, <2>2
<1>2. /\ scene' \in Scenes /\ failed' \in Nat
      /\ clock' \in Nat /\ clock' < Word /\ clock' <= scene'.maxClock
  BY DEF Shape
<1> QED
  BY <1>1, <1>2 DEF Shape

(* A tracepoint puts its CPU into the program; two CPUs in one program are  *)
(* an overlap.                                                              *)
LEMMA TraceIInv ==
    ASSUME IInv, NEW c \in Cpus, NEW g \in Programs, NEW current, NEW pid,
           Trace(c, g, current, pid), cpu[c].pc = "idle",
           UNCHANGED <<scene, clock, main, failed>>
    PROVE  IInv'
<1> DEFINE r == [pc |-> "clock", prog |-> g, current |-> current, pid |-> pid,
                 prev_pid |-> 0, ts |-> 0]
<1>1. /\ UNCHANGED <<prev_ts, passed, dropped>>
      /\ overlapped' = (overlapped \/ \E d \in Cpus : cpu[d].pc # "idle" /\ cpu[d].prog = g)
  BY DEF Trace
<1>2. CASE ~attached
  <2>1. cpu' = cpu
    BY <1>2 DEF Trace
  <2>2. ~overlapped' => ~overlapped
    BY <1>1
  <2>3. Cpus' = Cpus
    BY DEF Cpus
  <2>4. Shape'
    BY <1>1, <2>1, <2>3 DEF IInv, Shape
  <2>5. Stored' /\ FirstAttach'
    BY <1>1, <2>1, <2>3 DEF IInv, Stored, FirstAttach
  <2>6. Turns'
    BY <1>1, <2>1, <2>2, <2>3 DEF IInv, Turns
  <2>7. IntervalThinsBursts'
    BY <1>1, <2>2 DEF IInv, IntervalThinsBursts, Soon
  <2> QED
    BY <2>4, <2>5, <2>6, <2>7 DEF IInv
<1>3. CASE attached
  <2>1. cpu' = [cpu EXCEPT ![c] = r]
    BY <1>3 DEF Trace
  <2> HIDE DEF r
  <2>2. /\ Cpus' = Cpus /\ cpu' = [d \in Cpus' |-> cpu'[d]]
        /\ cpu'[c] = r /\ \A d \in Cpus \ {c} : cpu'[d] = cpu[d]
    BY <2>1, OneRun DEF IInv
  <2>3. /\ r = [pc |-> r.pc, prog |-> r.prog, current |-> r.current, pid |-> r.pid,
                prev_pid |-> r.prev_pid, ts |-> r.ts]
        /\ r.pc = "clock" /\ r.prog = g /\ r.ts = 0
    BY DEF r
  <2>4. Shape'
    <3>1. 0 <= clock /\ r.pc \in Places /\ r.ts \in Nat
      BY <2>3 DEF IInv, Shape, Places
    <3>2. /\ prev_ts' \in [Programs -> Nat] /\ \A h \in Programs : prev_ts'[h] <= clock
          /\ passed' = [h \in Programs |-> passed'[h]] /\ dropped' = [h \in Programs |-> dropped'[h]]
          /\ \A h \in Programs : \A e \in passed'[h] \cup dropped'[h] : e.ts \in Nat
      BY <1>1 DEF IInv, Shape
    <3> QED
      BY <2>2, <2>3, <3>1, <3>2, ShapeOfRun DEF IInv
  <2>5. Stored'
    BY <1>1, <2>2, <2>3 DEF IInv, Stored
  <2>6. FirstAttach'
    BY <1>1, <1>3, <2>2 DEF IInv, FirstAttach, attached
  <2>7. Turns'
    <3> SUFFICES ASSUME ~overlapped', failed = 0 PROVE Turns'
      BY DEF Turns
    <3>1. ~overlapped /\ \A d \in Cpus : cpu[d].pc # "idle" => cpu[d].prog # g
      BY <1>1
    <3> QED
      BY <1>1, <2>2, <2>3, <3>1 DEF IInv, Turns
  <2>8. IntervalThinsBursts'
    BY <1>1 DEF IInv, IntervalThinsBursts, Soon
  <2> QED
    BY <2>4, <2>5, <2>6, <2>7, <2>8 DEF IInv
<1> QED
  BY <1>2, <1>3

(* ReadClock: the time is at least that of every store so far.              *)
LEMMA ReadClockIInv ==
    ASSUME IInv, NEW c \in Cpus, ReadClock(c)
    PROVE  IInv'
<1> DEFINE r == [pc |-> "filter", prog |-> cpu[c].prog, current |-> cpu[c].current,
                 pid |-> cpu[c].pid, prev_pid |-> cpu[c].prev_pid, ts |-> clock]
<1>1. /\ UNCHANGED <<prev_ts, passed, dropped, overlapped, scene, clock, main, failed>>
      /\ cpu[c].pc = "clock"
  BY DEF ReadClock, ProgramStep, kernel, daemon
<1>2. cpu' = [cpu EXCEPT ![c] = r]
  <2>1. cpu[c] = [pc |-> cpu[c].pc, prog |-> cpu[c].prog, current |-> cpu[c].current,
                  pid |-> cpu[c].pid, prev_pid |-> cpu[c].prev_pid, ts |-> cpu[c].ts]
    BY <1>1 DEF IInv, Shape
  <2> DEFINE x == [cpu[c] EXCEPT !.pc = "filter"]
  <2>2. x = [pc |-> "filter", prog |-> cpu[c].prog, current |-> cpu[c].current,
             pid |-> cpu[c].pid, prev_pid |-> cpu[c].prev_pid, ts |-> cpu[c].ts]
    BY <2>1
  <2>3. cpu' = [cpu EXCEPT ![c] = [x EXCEPT !.ts = clock]]
    BY DEF ReadClock, IInv, Shape
  <2> HIDE DEF x
  <2>4. [x EXCEPT !.ts = clock] = r
    BY <2>2
  <2> QED
    BY <2>3, <2>4
<1>3. /\ r = [pc |-> r.pc, prog |-> r.prog, current |-> r.current, pid |-> r.pid,
              prev_pid |-> r.prev_pid, ts |-> r.ts]
      /\ r.pc = "filter" /\ r.prog = cpu[c].prog /\ r.ts = clock
  OBVIOUS
<1>4. cpu[c].prog \in Programs
  BY <1>1 DEF IInv, Shape
<1> HIDE DEF r
<1>5. /\ Cpus' = Cpus /\ cpu' = [d \in Cpus' |-> cpu'[d]]
      /\ cpu'[c] = r /\ \A d \in Cpus \ {c} : cpu'[d] = cpu[d]
  BY <1>1, <1>2, OneRun DEF IInv
<1>6. Shape'
  <2>1. r.pc \in Places /\ r.prog \in Programs /\ r.ts \in Nat /\ r.ts <= clock
    BY <1>3, <1>4 DEF IInv, Shape, Places
  <2>2. /\ prev_ts' \in [Programs -> Nat] /\ \A h \in Programs : prev_ts'[h] <= clock
        /\ passed' = [h \in Programs |-> passed'[h]] /\ dropped' = [h \in Programs |-> dropped'[h]]
        /\ \A h \in Programs : \A e \in passed'[h] \cup dropped'[h] : e.ts \in Nat
    BY <1>1 DEF IInv, Shape
  <2> QED
    BY <1>1, <1>3, <1>5, <2>1, <2>2, ShapeOfRun DEF IInv
<1>7. Stored'
  BY <1>1, <1>3, <1>5 DEF IInv, Stored
<1>8. FirstAttach'
  BY <1>1, <1>5 DEF IInv, FirstAttach
<1>9. Turns'
  <2>1. prev_ts[cpu[c].prog] <= clock
    BY <1>4 DEF IInv, Shape
  <2> QED
    BY <1>1, <1>3, <1>5, <2>1 DEF IInv, Turns
<1>10. IntervalThinsBursts'
  BY <1>1 DEF IInv, IntervalThinsBursts, Soon
<1> QED
  BY <1>6, <1>7, <1>8, <1>9, <1>10 DEF IInv

(* Store: the static becomes the time of the event that passed.             *)
LEMMA StoreIInv ==
    ASSUME IInv, NEW c \in Cpus, Store(c)
    PROVE  IInv'
<1> DEFINE g == cpu[c].prog
           r == [pc |-> "output", prog |-> g, current |-> cpu[c].current,
                 pid |-> cpu[c].pid, prev_pid |-> cpu[c].prev_pid, ts |-> cpu[c].ts]
<1>1. /\ UNCHANGED <<passed, dropped, overlapped, scene, clock, main, failed>>
      /\ cpu[c].pc = "store" /\ prev_ts' = [prev_ts EXCEPT ![g] = cpu[c].ts]
  BY DEF Store, ProgramStep, kernel, daemon
<1>2. cpu' = [cpu EXCEPT ![c] = r]
  <2>1. cpu[c] = [pc |-> cpu[c].pc, prog |-> cpu[c].prog, current |-> cpu[c].current,
                  pid |-> cpu[c].pid, prev_pid |-> cpu[c].prev_pid, ts |-> cpu[c].ts]
    BY <1>1 DEF IInv, Shape
  <2>2. [cpu[c] EXCEPT !.pc = "output"] = r
    BY <2>1
  <2>3. cpu' = [cpu EXCEPT ![c] = [cpu[c] EXCEPT !.pc = "output"]]
    BY DEF Store, IInv, Shape
  <2> QED
    BY <2>2, <2>3
<1>3. /\ r = [pc |-> r.pc, prog |-> r.prog, current |-> r.current, pid |-> r.pid,
              prev_pid |-> r.prev_pid, ts |-> r.ts]
      /\ r.pc = "output" /\ r.prog = g /\ r.ts = cpu[c].ts
  OBVIOUS
<1>4. g \in Programs /\ cpu[c].ts \in Nat /\ cpu[c].ts <= clock
  BY <1>1 DEF IInv, Shape
<1> HIDE DEF r
<1>5. /\ Cpus' = Cpus /\ cpu' = [d \in Cpus' |-> cpu'[d]]
      /\ cpu'[c] = r /\ \A d \in Cpus \ {c} : cpu'[d] = cpu[d]
  BY <1>1, <1>2, OneRun DEF IInv
<1>6. prev_ts'[g] = cpu[c].ts /\ \A h \in Programs \ {g} : prev_ts'[h] = prev_ts[h]
  BY <1>1, <1>4 DEF IInv, Shape
<1>7. Shape'
  <2>1. r.pc \in Places
    BY <1>3 DEF Places
  <2>2. /\ prev_ts' \in [Programs -> Nat] /\ \A h \in Programs : prev_ts'[h] <= clock
    BY <1>1, <1>4, <1>6 DEF IInv, Shape
  <2>3. /\ passed' = [h \in Programs |-> passed'[h]] /\ dropped' = [h \in Programs |-> dropped'[h]]
        /\ \A h \in Programs : \A e \in passed'[h] \cup dropped'[h] : e.ts \in Nat
    BY <1>1 DEF IInv, Shape
  <2> QED
    BY <1>1, <1>3, <1>4, <1>5, <2>1, <2>2, <2>3, ShapeOfRun DEF IInv
<1>8. Stored'
  BY <1>1, <1>3, <1>4, <1>5, <1>6 DEF IInv, Stored
<1>9. FirstAttach'
  BY <1>1, <1>5 DEF IInv, FirstAttach
<1>10. Turns'
  <2> SUFFICES ASSUME ~overlapped, failed = 0 PROVE Turns'
    BY <1>1 DEF Turns
  <2>1. \A d \in Cpus : cpu[d].pc # "idle" /\ cpu[d].prog = g => d = c
    BY <1>1 DEF IInv, Turns
  <2>2. \A e \in passed[g] : e.ts <= cpu[c].ts
    <3>1. prev_ts[g] <= cpu[c].ts /\ prev_ts[g] \in Nat /\ \A e \in passed[g] : e.ts \in Nat
      BY <1>1, <1>4 DEF IInv, Turns, Shape
    <3> QED
      BY <1>4, <2>1, <3>1 DEF IInv, Turns
  <2>3. \A d, f \in Cpus :
          cpu'[d].pc # "idle" /\ cpu'[f].pc # "idle" /\ cpu'[d].prog = cpu'[f].prog => d = f
    BY <1>1, <1>3, <1>5 DEF IInv, Turns
  <2>4. \A d \in Cpus : cpu'[d].pc \in {"filter", "store"} => prev_ts'[cpu'[d].prog] <= cpu'[d].ts
    <3> SUFFICES ASSUME NEW d \in Cpus, cpu'[d].pc \in {"filter", "store"}
                 PROVE  prev_ts'[cpu'[d].prog] <= cpu'[d].ts
      OBVIOUS
    <3>1. d # c /\ cpu'[d] = cpu[d] /\ cpu[d].prog # g
      BY <1>3, <1>5, <2>1
    <3>2. cpu[d].prog \in Programs
      BY <3>1 DEF IInv, Shape
    <3> QED
      BY <1>6, <3>1, <3>2 DEF IInv, Turns
  <2>5. \A h \in Programs : \A e \in passed[h] :
          \/ e.ts <= prev_ts'[h]
          \/ \E d \in Cpus : cpu'[d].pc = "store" /\ cpu'[d].prog = h /\ e.ts <= cpu'[d].ts
    <3> SUFFICES ASSUME NEW h \in Programs, NEW e \in passed[h], h # g
                 PROVE
          \/ e.ts <= prev_ts[h]
          \/ \E d \in Cpus : cpu'[d].pc = "store" /\ cpu'[d].prog = h /\ e.ts <= cpu'[d].ts
      BY <1>6, <2>2
    <3>1. CASE e.ts <= prev_ts[h]
      BY <3>1
    <3>2. ASSUME NEW d \in Cpus, cpu[d].pc = "store", cpu[d].prog = h, e.ts <= cpu[d].ts
          PROVE  cpu'[d].pc = "store" /\ cpu'[d].prog = h /\ e.ts <= cpu'[d].ts
      BY <1>5, <3>2
    <3> QED
      BY <3>1, <3>2 DEF IInv, Turns
  <2> QED
    BY <1>1, <1>5, <2>3, <2>4, <2>5 DEF Turns
<1>11. IntervalThinsBursts'
  BY <1>1 DEF IInv, IntervalThinsBursts, Soon
<1> QED
  BY <1>7, <1>8, <1>9, <1>10, <1>11 DEF IInv

(* A CPU leaves the program, after a drop or after the output.              *)
LEMMA LeavesProgram ==
    ASSUME IInv, NEW c \in Cpus, cpu' = [cpu EXCEPT ![c] = NoRun],
           cpu[c].pc # "store",
           UNCHANGED <<prev_ts, passed, overlapped, scene, clock, main, failed>>,
           dropped' = [g \in Programs |-> dropped'[g]],
           \A g \in Programs : \A d \in dropped'[g] :
               /\ d.ts \in Nat
               /\ Soon(0, d.ts) \/ \E e \in passed[g] : Soon(e.ts, d.ts)
    PROVE  IInv'
<1>1. /\ Cpus' = Cpus /\ cpu' = [d \in Cpus' |-> cpu'[d]]
      /\ cpu'[c] = NoRun /\ \A d \in Cpus \ {c} : cpu'[d] = cpu[d]
  BY OneRun DEF IInv
<1>2. cpu'[c].pc = "idle"
  BY <1>1 DEF NoRun
<1>3. Shape'
  <2>1. /\ prev_ts' \in [Programs -> Nat] /\ \A h \in Programs : prev_ts'[h] <= clock
        /\ passed' = [h \in Programs |-> passed'[h]]
        /\ \A h \in Programs : \A e \in passed'[h] \cup dropped'[h] : e.ts \in Nat
    BY DEF IInv, Shape
  <2> QED
    BY <1>1, <1>2, <2>1, ShapeOfRun DEF IInv
<1>4. Stored' /\ FirstAttach'
  BY <1>1, <1>2 DEF IInv, Stored, FirstAttach
<1>5. Turns'
  <2> SUFFICES ASSUME ~overlapped, failed = 0 PROVE Turns'
    BY DEF Turns
  <2>1. \A d, f \in Cpus :
          cpu'[d].pc # "idle" /\ cpu'[f].pc # "idle" /\ cpu'[d].prog = cpu'[f].prog => d = f
    BY <1>1, <1>2 DEF IInv, Turns
  <2>2. \A d \in Cpus : cpu'[d].pc \in {"filter", "store"} => prev_ts[cpu'[d].prog] <= cpu'[d].ts
    BY <1>1, <1>2 DEF IInv, Turns
  <2>3. \A h \in Programs : \A e \in passed[h] :
          \/ e.ts <= prev_ts[h]
          \/ \E d \in Cpus : cpu'[d].pc = "store" /\ cpu'[d].prog = h /\ e.ts <= cpu'[d].ts
    BY <1>1, <1>2 DEF IInv, Turns
  <2> QED
    BY <1>1, <2>1, <2>2, <2>3 DEF Turns
<1>6. IntervalThinsBursts'
  BY DEF IInv, IntervalThinsBursts, Soon
<1> QED
  BY <1>3, <1>4, <1>5, <1>6 DEF IInv

(* Filter, on the branch that drops: the static is too close.               *)
LEMMA DropIInv ==
    ASSUME IInv, NEW c \in Cpus, Filter(c), ~Passes(c)
    PROVE  IInv'
<1> DEFINE g == cpu[c].prog
<1>1. /\ UNCHANGED <<prev_ts, overlapped, scene, clock, main, failed>> /\ cpu[c].pc = "filter"
      /\ UNCHANGED passed /\ cpu' = [cpu EXCEPT ![c] = NoRun]
      /\ dropped' = [dropped EXCEPT ![g] = @ \cup {Moment(c)}]
  BY DEF Filter, ProgramStep, kernel, daemon
<1>2. /\ g \in Programs /\ cpu[c].ts \in 0..(Word - 1) /\ prev_ts[g] \in 0..(Word - 1)
      /\ scene.minUs \in Nat
  BY <1>1 DEF IInv, Shape, SceneRecord
<1>3. DeltaUs(c) <= scene.minUs
  <2>1. (cpu[c].ts - prev_ts[g] + Word) % Word \in Nat
    BY <1>2
  <2>2. DeltaUs(c) \in Nat
    BY <2>1 DEF DeltaUs
  <2> QED
    BY <1>2, <2>2 DEF Passes
<1>4. Soon(0, cpu[c].ts) \/ Soon(prev_ts[g], cpu[c].ts)
  BY <1>2, <1>3, DropIsSoon DEF DeltaUs
<1>5. Soon(0, cpu[c].ts) \/ \E e \in passed[g] : Soon(e.ts, cpu[c].ts)
  BY <1>2, <1>4 DEF IInv, Stored
<1>6. \A h \in Programs : \A d \in dropped'[h] :
          d \in dropped[h] \/ (h = g /\ d = Moment(c))
  BY <1>1, <1>2 DEF IInv, Shape
<1>7. Moment(c).ts = cpu[c].ts
  BY DEF Moment
<1>8. dropped' = [h \in Programs |-> dropped'[h]]
  BY <1>1, <1>2 DEF IInv, Shape
<1>9. \A h \in Programs : \A d \in dropped[h] :
          d.ts \in Nat /\ (Soon(0, d.ts) \/ \E e \in passed[h] : Soon(e.ts, d.ts))
  BY DEF IInv, Shape, IntervalThinsBursts
<1>10. \A h \in Programs : \A d \in dropped'[h] :
          d.ts \in Nat /\ (Soon(0, d.ts) \/ \E e \in passed[h] : Soon(e.ts, d.ts))
  BY <1>2, <1>5, <1>6, <1>7, <1>9
<1> QED
  BY <1>1, <1>8, <1>10, LeavesProgram

(* Output.                                                                  *)
LEMMA OutputIInv ==
    ASSUME IInv, NEW c \in Cpus, Output(c)
    PROVE  IInv'
<1>1. /\ UNCHANGED <<prev_ts, passed, dropped, overlapped, scene, clock, main, failed>>
      /\ cpu[c].pc = "output" /\ cpu' = [cpu EXCEPT ![c] = NoRun]
  BY DEF Output, ProgramStep, kernel, daemon
<1>2. /\ dropped' = [h \in Programs |-> dropped'[h]]
      /\ \A h \in Programs : \A d \in dropped'[h] :
            d.ts \in Nat /\ (Soon(0, d.ts) \/ \E e \in passed[h] : Soon(e.ts, d.ts))
  BY <1>1 DEF IInv, Shape, IntervalThinsBursts
<1> QED
  BY <1>1, <1>2, LeavesProgram

(* BpfNew: the statics of a program that is loaded again are new.           *)
LEMMA BpfNewIInv ==
    ASSUME IInv, BpfNew
    PROVE  IInv'
<1>1. /\ UNCHANGED <<cpu, passed, dropped, overlapped, scene, clock, failed>>
      /\ main = "new" /\ main' = "attached" /\ prev_ts' = [g \in Programs |-> 0]
  BY DEF BpfNew, MainStep, kernel
<1>2. Cpus' = Cpus
  BY <1>1 DEF Cpus
<1>3. Shape'
  <2>1. prev_ts' \in [Programs -> Nat] /\ \A g \in Programs : prev_ts'[g] <= clock
    BY <1>1 DEF IInv, Shape
  <2> QED
    BY <1>1, <1>2, <2>1 DEF IInv, Shape
<1>4. Stored' /\ FirstAttach'
  BY <1>1, <1>2 DEF IInv, Stored, FirstAttach
<1>5. Turns'
  BY <1>1, <1>2 DEF IInv, Turns, FirstAttach
<1>6. IntervalThinsBursts'
  BY <1>1 DEF IInv, IntervalThinsBursts, Soon
<1> QED
  BY <1>3, <1>4, <1>5, <1>6 DEF IInv

(* Filter, on the branch that passes.  While CPUs take turns, the static is *)
(* the latest of what passed, and this event is later than it.              *)
LEMMA PassIInv ==
    ASSUME IInv, NEW c \in Cpus, Filter(c), Passes(c)
    PROVE  IInv'
<1> DEFINE g == cpu[c].prog
           m == Moment(c)
           r == [pc |-> "store", prog |-> g, current |-> cpu[c].current,
                 pid |-> cpu[c].pid, prev_pid |-> prev_pid[g], ts |-> cpu[c].ts]
<1>1. /\ UNCHANGED <<prev_ts, dropped, overlapped, scene, clock, main, failed>>
      /\ cpu[c].pc = "filter" /\ passed' = [passed EXCEPT ![g] = @ \cup {m}]
  BY DEF Filter, ProgramStep, kernel, daemon
<1>2. cpu' = [cpu EXCEPT ![c] = r]
  <2>1. cpu[c] = [pc |-> cpu[c].pc, prog |-> cpu[c].prog, current |-> cpu[c].current,
                  pid |-> cpu[c].pid, prev_pid |-> cpu[c].prev_pid, ts |-> cpu[c].ts]
    BY <1>1 DEF IInv, Shape
  <2> DEFINE x == [cpu[c] EXCEPT !.pc = "store"]
  <2>2. x = [pc |-> "store", prog |-> cpu[c].prog, current |-> cpu[c].current,
             pid |-> cpu[c].pid, prev_pid |-> cpu[c].prev_pid, ts |-> cpu[c].ts]
    BY <2>1
  <2>3. cpu' = [cpu EXCEPT ![c] = [x EXCEPT !.prev_pid = prev_pid[g]]]
    BY DEF Filter, IInv, Shape
  <2> HIDE DEF x
  <2>4. [x EXCEPT !.prev_pid = prev_pid[g]] = r
    BY <2>2
  <2> QED
    BY <2>3, <2>4
<1>3. /\ r = [pc |-> r.pc, prog |-> r.prog, current |-> r.current, pid |-> r.pid,
              prev_pid |-> r.prev_pid, ts |-> r.ts]
      /\ r.pc = "store" /\ r.prog = g /\ r.ts = cpu[c].ts
  OBVIOUS
<1>4. /\ g \in Programs /\ cpu[c].ts \in 0..(Word - 1) /\ prev_ts[g] \in 0..(Word - 1)
      /\ scene.minUs \in Nat /\ cpu[c].ts <= clock /\ cpu[c].ts \in Nat
  BY <1>1 DEF IInv, Shape, SceneRecord
<1>5. m.ts = cpu[c].ts
  BY DEF Moment
<1> HIDE DEF r, m
<1>6. /\ Cpus' = Cpus /\ cpu' = [d \in Cpus' |-> cpu'[d]]
      /\ cpu'[c] = r /\ \A d \in Cpus \ {c} : cpu'[d] = cpu[d]
  BY <1>1, <1>2, OneRun DEF IInv
<1>7. /\ passed'[g] = passed[g] \cup {m} /\ \A h \in Programs \ {g} : passed'[h] = passed[h]
      /\ passed' = [h \in Programs |-> passed'[h]]
  BY <1>1, <1>4 DEF IInv, Shape
<1>8. Shape'
  <2>1. r.pc \in Places
    BY <1>3 DEF Places
  <2>2. /\ prev_ts' \in [Programs -> Nat] /\ \A h \in Programs : prev_ts'[h] <= clock
        /\ dropped' = [h \in Programs |-> dropped'[h]]
    BY <1>1 DEF IInv, Shape
  <2>3. \A h \in Programs : \A e \in passed'[h] \cup dropped'[h] : e.ts \in Nat
    BY <1>1, <1>4, <1>5, <1>7 DEF IInv, Shape
  <2> QED
    BY <1>1, <1>3, <1>4, <1>6, <1>7, <2>1, <2>2, <2>3, ShapeOfRun DEF IInv
<1>9. Stored'
  BY <1>1, <1>3, <1>4, <1>5, <1>6, <1>7, SMTT(30) DEF IInv, Stored
<1>10. FirstAttach'
  BY <1>1, <1>6 DEF IInv, FirstAttach
<1>11. ~overlapped /\ failed = 0 =>
          /\ \A d \in Cpus : cpu[d].pc # "idle" /\ cpu[d].prog = g => d = c
          /\ prev_ts[g] <= cpu[c].ts /\ \A e \in passed[g] : e.ts <= prev_ts[g]
  <2> HAVE ~overlapped /\ failed = 0
  <2>1. \A d \in Cpus : cpu[d].pc # "idle" /\ cpu[d].prog = g => d = c
    BY <1>1, <1>4 DEF IInv, Turns
  <2>2. prev_ts[g] <= cpu[c].ts
    BY <1>1, <1>4 DEF IInv, Turns
  <2>3. \A e \in passed[g] : e.ts <= prev_ts[g]
    BY <1>1, <1>4, <2>1 DEF IInv, Turns
  <2> QED
    BY <2>1, <2>2, <2>3
<1>12. Turns'
  <2> SUFFICES ASSUME ~overlapped, failed = 0 PROVE Turns'
    BY <1>1 DEF Turns
  <2>1. \A d, f \in Cpus :
          cpu'[d].pc # "idle" /\ cpu'[f].pc # "idle" /\ cpu'[d].prog = cpu'[f].prog => d = f
    BY <1>1, <1>3, <1>6, SMTT(30) DEF IInv, Turns
  <2>2. \A d \in Cpus : cpu'[d].pc \in {"filter", "store"} => prev_ts[cpu'[d].prog] <= cpu'[d].ts
    BY <1>3, <1>6, <1>11 DEF IInv, Turns
  <2>3. \A h \in Programs : \A e \in passed'[h] :
          \/ e.ts <= prev_ts[h]
          \/ \E d \in Cpus : cpu'[d].pc = "store" /\ cpu'[d].prog = h /\ e.ts <= cpu'[d].ts
    <3> SUFFICES ASSUME NEW h \in Programs, NEW e \in passed'[h], ~(e.ts <= prev_ts[h])
                 PROVE  \E d \in Cpus : /\ cpu'[d].pc = "store" /\ cpu'[d].prog = h
                                        /\ e.ts <= cpu'[d].ts
      OBVIOUS
    <3>1. CASE h = g
      <4>1. e = m
        BY <1>7, <1>11, <3>1
      <4> QED
        BY <1>3, <1>4, <1>5, <1>6, <3>1, <4>1
    <3>2. CASE h # g
      <4>1. PICK d \in Cpus : cpu[d].pc = "store" /\ cpu[d].prog = h /\ e.ts <= cpu[d].ts
        BY <1>7, <3>2 DEF IInv, Turns
      <4> QED
        BY <1>1, <1>6, <4>1
    <3> QED
      BY <3>1, <3>2
  <2> QED
    BY <1>1, <1>6, <2>1, <2>2, <2>3 DEF Turns
<1>13. IntervalThinsBursts'
  <2>1. \A s, t : Soon(s, t)' = Soon(s, t)
    BY <1>1 DEF Soon
  <2>2. \A h \in Programs : passed[h] \subseteq passed'[h]
    BY <1>7
  <2>3. \A h \in Programs : \A d \in dropped'[h] :
            Soon(0, d.ts) \/ \E e \in passed'[h] : Soon(e.ts, d.ts)
    BY <1>1, <2>2 DEF IInv, IntervalThinsBursts
  <2>4. ASSUME ~overlapped, scene.minUs > 0, failed = 0
        PROVE  \A h \in Programs : \A d, e \in passed'[h] : d # e => ~Soon(d.ts, e.ts)
    <3>1. ((cpu[c].ts - prev_ts[g] + Word) % Word) \div NsPerUs > scene.minUs
      BY <1>4, <2>4 DEF Passes, DeltaUs
    <3>2. \A e \in passed[g] : ~Soon(e.ts, m.ts) /\ ~Soon(m.ts, e.ts)
      <4> SUFFICES ASSUME NEW e \in passed[g]
                   PROVE  ~Soon(e.ts, m.ts) /\ ~Soon(m.ts, e.ts)
        OBVIOUS
      <4>1. e.ts \in Nat /\ e.ts <= prev_ts[g] /\ prev_ts[g] <= cpu[c].ts
        BY <1>4, <1>11, <2>4 DEF IInv, Shape
      <4> QED
        BY <1>4, <1>5, <3>1, <4>1, PassIsLate
    <3>3. \A h \in Programs : \A d, e \in passed[h] : d # e => ~Soon(d.ts, e.ts)
      BY <2>4 DEF IInv, IntervalThinsBursts
    <3> QED
      BY <1>7, <3>2, <3>3
  <2> QED
    BY <1>1, <2>1, <2>3, <2>4 DEF IntervalThinsBursts
<1> QED
  BY <1>8, <1>9, <1>10, <1>12, <1>13 DEF IInv

(* Every step of the kernel, the program and the daemon.                    *)
LEMMA StepIInv == IInv /\ [Next]_vars => IInv'
<1> SUFFICES ASSUME IInv, [Next]_vars PROVE IInv'
  OBVIOUS
<1> USE DEF kernel, program, daemon
<1>0. clock \in Nat /\ clock <= clock /\ clock <= scene.maxClock /\ failed \in Nat
      /\ (failed = 0 => main # "sleep")
  BY DEF IInv, Shape, FirstAttach
<1>1. CASE UNCHANGED vars \/ Waits
  BY <1>0, <1>1, Elsewhere DEF vars, Waits
<1>2. ASSUME NEW c \in Cpus, NEW p \in Pids, NEW q \in Pids, Fork(c, p, q) PROVE IInv'
  BY <1>2, TraceIInv DEF Fork, Operate, Programs
<1>3. ASSUME NEW c \in Cpus, NEW p \in Pids, NEW i \in Images, Exec(c, p, i) PROVE IInv'
  BY <1>3, TraceIInv DEF Exec, Operate, Programs
<1>4. ASSUME NEW c \in Cpus, NEW p \in Pids, Exit(c, p) PROVE IInv'
  BY <1>0, <1>4, Elsewhere DEF Exit, Operate
<1>5. ASSUME NEW c \in Cpus, Run(c) PROVE IInv'
  BY <1>5, ReadClockIInv, PassIInv, DropIInv, StoreIInv, OutputIInv DEF Run
<1>6. CASE Tick
  <2>1. clock' \in Nat /\ clock <= clock' /\ clock' <= scene.maxClock
    BY <1>0, <1>6 DEF Tick, IInv, Shape, SceneRecord
  <2> QED
    BY <1>0, <1>6, <2>1, Elsewhere DEF Tick
<1>7. CASE Listener
  <2>1. CASE BpfNew
    BY <2>1, BpfNewIInv
  <2>2. CASE BpfNewFails \/ BuildPerfBuffer \/ \E c \in Cpus : Poll(c)
    BY <1>0, <2>2, Elsewhere DEF BpfNewFails, BuildPerfBuffer, Poll, MainStep
  <2>3. CASE BuildFails
    <3>1. failed' \in Nat /\ failed' # 0
      BY <1>0, <2>3 DEF BuildFails
    <3> QED
      BY <1>0, <2>3, <3>1, Elsewhere DEF BuildFails, MainStep
  <2>4. CASE Restart
    BY <1>0, <2>4, Elsewhere DEF Restart, MainStep
  <2> QED
    BY <1>7, <2>1, <2>2, <2>3, <2>4 DEF Listener
<1>8. CASE Scanner \/ Worker
  BY <1>0, <1>8, Elsewhere DEF Scanner, Worker, ScanNext, ScanSend, ScanEnds, ReadStep,
                               Take, Apply
<1> QED
  BY <1>1, <1>2, <1>3, <1>4, <1>5, <1>6, <1>7, <1>8 DEF Next

(* For any number of CPUs, any interval and any interleaving of their       *)
(* accesses to the statics: a dropped event came soon after one that        *)
(* passed, or soon after boot, a wrapped difference included; and without   *)
(* overlap the interval holds between any two events that pass              *)
(* (ananicy_cpp.bpf.c handle_event).                                        *)
THEOREM IntervalHolds == Spec => []IntervalThinsBursts
<1>1. Spec => []IInv
  BY InitIInv, StepIInv, PTL DEF Spec
<1> QED
  BY <1>1, PTL DEF IInv
=============================================================================
