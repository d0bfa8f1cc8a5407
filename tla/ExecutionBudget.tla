--------------------------- MODULE ExecutionBudget ---------------------------
(***************************************************************************)
(* ExecutionBudget (src/src/cpu/execution_budget.cpp) with the threads     *)
(* that run guest code through it (DynarmicCpu::Run): a queue of tickets,  *)
(* a number of lanes, and a bucket of ticks that is filled by the clock.   *)
(*                                                                         *)
(* An action is one critical section of the budget's mutex.  The wait      *)
(* between two attempts ends after 2 ms at the latest, so that an attempt  *)
(* is always possible.  Left out: peak_active and consumed_ticks, which    *)
(* are only reported, and running without a budget.                        *)
(***************************************************************************)
EXTENDS Integers, FiniteSets, SequencesExt

CONSTANTS
  Threads,
  Lanes,       (* maximum_parallelism, 0: unrestricted                     *)
  Rate,        (* ticks_per_second, 0: unrestricted                        *)
  Second,      (* units of the clock in a second                           *)
  Capacity,    (* capacity                                                 *)
  Slice,       (* kSliceTicks                                              *)
  MaxRequest   (* bound: the ticks a thread asks for                       *)

ASSUME BudgetAssumption ==
  /\ IsFiniteSet(Threads)
  /\ Lanes \in Nat /\ Rate \in Nat
  /\ Second \in Nat \ {0} /\ Capacity \in Nat \ {0} /\ Slice \in Nat \ {0}
  /\ MaxRequest \in Nat
  /\ Rate # 0 => Capacity <= Rate

VARIABLES
  tokens, fraction,    (* tokens, fraction                                 *)
  elapsed,             (* now() - last_ns, up to Second                    *)
  queue,               (* the threads behind the tickets, in order         *)
  active, draining,    (* stats.active, stats.draining                     *)
  pc,                  (* where each thread is in Run                      *)
  ticks,               (* the ticks it asks for, then those of its Lease   *)
  used,                (* those of them that its JIT has consumed          *)
  halt                 (* halt_requested_ of its CPU                       *)

bucketVars == <<tokens, fraction, elapsed>>
vars == <<bucketVars, queue, active, draining, pc, ticks, used, halt>>

Places == {"guest", "admission", "queued", "refused", "running", "stopped"}

\* Every variable has its type.  `tokens` stays within the bucket's capacity and
\* `active` above zero: both are unsigned in execution_budget.cpp and would wrap.
TypeOK ==
  /\ tokens \in 0 .. Capacity
  /\ fraction \in 0 .. Second - 1
  /\ elapsed \in 0 .. Second
  /\ queue \in Seq(Threads)
  /\ active \in Nat
  /\ draining \in BOOLEAN
  /\ pc \in [Threads -> Places]
  /\ ticks \in [Threads -> Nat]
  /\ used \in [Threads -> Nat]
  /\ halt \in [Threads -> BOOLEAN]

Init ==
  /\ tokens = Capacity
  /\ fraction = 0
  /\ elapsed = 0
  /\ queue = <<>>
  /\ active = 0
  /\ draining = FALSE
  /\ pc = [t \in Threads |-> "guest"]
  /\ ticks = [t \in Threads |-> 0]
  /\ used = [t \in Threads |-> 0]
  /\ halt = [t \in Threads |-> FALSE]

-----------------------------------------------------------------------------
Smaller(a, b) == IF a <= b THEN a ELSE b
Larger(a, b) == IF a >= b THEN a ELSE b

\* std::erase of a ticket that is in the queue.
Without(q, t) == RemoveAt(q, CHOOSE i \in DOMAIN q : q[i] = t)

\* At most half the bucket, so that the bucket is never too small for a slice.
Quantum == IF Rate = 0 THEN Slice ELSE Smaller(Slice, Larger(Capacity \div 2, 1))

Accrued == elapsed * Rate + fraction

\* Mutants of Refilled: the bucket has no limit; the fraction of a tick that is
\* over is dropped.
RefilledUncapped == <<tokens + Accrued \div Second, Accrued % Second>>
RefilledRounded == <<Smaller(Capacity, tokens + Accrued \div Second), 0>>

\* Refill: the pair of tokens and fraction.
Refilled ==
  IF elapsed = 0 THEN <<tokens, fraction>>
  ELSE IF elapsed >= Second THEN <<Capacity, 0>>
  ELSE LET filled == Smaller(Capacity, tokens + Accrued \div Second)
       IN <<filled, IF filled = Capacity THEN 0 ELSE Accrued % Second>>

\* The clock goes on; what happens after a second makes no difference.
Tick ==
  /\ elapsed < Second
  /\ elapsed' = elapsed + 1
  /\ UNCHANGED <<tokens, fraction, queue, active, draining, pc, ticks, used, halt>>

-----------------------------------------------------------------------------
(* One call of Run.                                                        *)

\* A halt that came before the call ends it at once.
RunHalted(t) ==
  /\ pc[t] = "guest" /\ halt[t]
  /\ halt' = [halt EXCEPT ![t] = FALSE]
  /\ UNCHANGED <<bucketVars, queue, active, draining, pc, ticks, used>>

Run(t, n) ==
  /\ pc[t] = "guest" /\ ~halt[t]
  /\ n > 0
  /\ pc' = [pc EXCEPT ![t] = "admission"]
  /\ ticks' = [ticks EXCEPT ![t] = Smaller(n, Quantum)]
  /\ UNCHANGED <<bucketVars, queue, active, draining, used, halt>>

\* The ticket is taken in the same critical section as the first attempt.
InLine(t) == IF pc[t] = "admission" THEN Append(queue, t) ELSE queue

Waits(t) == pc[t] \in {"admission", "queued"}

\* Mutant of Cancel: the ticket stays in the queue.
CancelInLine(t) ==
  /\ Waits(t) /\ halt[t]
  /\ queue' = InLine(t)
  /\ pc' = [pc EXCEPT ![t] = "refused"]
  /\ ticks' = [ticks EXCEPT ![t] = 0]
  /\ UNCHANGED <<bucketVars, active, draining, used, halt>>

Cancel(t) ==
  /\ Waits(t) /\ halt[t]
  /\ queue' = Without(InLine(t), t)
  /\ pc' = [pc EXCEPT ![t] = "refused"]
  /\ ticks' = [ticks EXCEPT ![t] = 0]
  /\ UNCHANGED <<bucketVars, active, draining, used, halt>>

LaneFree == Lanes = 0 \/ active < Lanes
CreditFor(t) == Rate = 0 \/ Refilled[1] >= ticks[t]
Admissible(t) == draining \/ (Head(InLine(t)) = t /\ LaneFree /\ CreditFor(t))

Admit(t) ==
  /\ Waits(t) /\ ~halt[t]
  /\ Admissible(t)
  /\ queue' = Without(InLine(t), t)
  /\ active' = active + 1
  /\ tokens' = Refilled[1] - IF draining \/ Rate = 0 THEN 0 ELSE ticks[t]
  /\ fraction' = Refilled[2]
  /\ elapsed' = 0
  /\ pc' = [pc EXCEPT ![t] = "running"]
  /\ UNCHANGED <<draining, ticks, used, halt>>

StayQueued(t) ==
  /\ Waits(t) /\ ~halt[t]
  /\ ~Admissible(t)
  /\ queue' = InLine(t)
  /\ tokens' = Refilled[1]
  /\ fraction' = Refilled[2]
  /\ elapsed' = 0
  /\ pc' = [pc EXCEPT ![t] = "queued"]
  /\ UNCHANGED <<active, draining, ticks, used, halt>>

\* Run returns halt_requested.
Refuse(t) ==
  /\ pc[t] = "refused"
  /\ halt' = [halt EXCEPT ![t] = FALSE]
  /\ pc' = [pc EXCEPT ![t] = "guest"]
  /\ UNCHANGED <<bucketVars, queue, active, draining, ticks, used>>

\* The JIT stops after `n` ticks: an SVC, a halt, or all of them.
StopJit(t, n) ==
  /\ pc[t] = "running"
  /\ n \in 0 .. ticks[t]
  /\ used' = [used EXCEPT ![t] = n]
  /\ pc' = [pc EXCEPT ![t] = "stopped"]
  /\ UNCHANGED <<bucketVars, queue, active, draining, ticks, halt>>

\* Mutant of Release: the whole lease is refunded.
ReleaseWhole(t) ==
  /\ pc[t] = "stopped"
  /\ active' = active - 1
  /\ tokens' = Smaller(Capacity, tokens + ticks[t])
  /\ pc' = [pc EXCEPT ![t] = "guest"]
  /\ ticks' = [ticks EXCEPT ![t] = 0]
  /\ used' = [used EXCEPT ![t] = 0]
  /\ halt' \in {halt, [halt EXCEPT ![t] = FALSE]}
  /\ UNCHANGED <<fraction, elapsed, queue, draining>>

\* Complete, before anything else is done with the result; then Run returns.  It
\* takes the halt with it unless there is an SVC to report, or the JIT itself has
\* stopped for the halt: then the flag stays, and ends the next call as well.
Release(t) ==
  /\ pc[t] = "stopped"
  /\ active' = active - 1
  /\ tokens' = Smaller(Capacity, tokens + ticks[t] - used[t])
  /\ pc' = [pc EXCEPT ![t] = "guest"]
  /\ ticks' = [ticks EXCEPT ![t] = 0]
  /\ used' = [used EXCEPT ![t] = 0]
  /\ halt' \in {halt, [halt EXCEPT ![t] = FALSE]}
  /\ UNCHANGED <<fraction, elapsed, queue, draining>>

-----------------------------------------------------------------------------
RequestHalt(t) ==
  /\ ~halt[t]
  /\ halt' = [halt EXCEPT ![t] = TRUE]
  /\ UNCHANGED <<bucketVars, queue, active, draining, pc, ticks, used>>

BeginDrain ==
  /\ ~draining
  /\ draining' = TRUE
  /\ UNCHANGED <<bucketVars, queue, active, pc, ticks, used, halt>>

Attempt(t) == Cancel(t) \/ Admit(t) \/ StayQueued(t)

Next ==
  \/ Tick \/ BeginDrain
  \/ \E t \in Threads :
       \/ RunHalted(t) \/ Attempt(t) \/ Refuse(t) \/ Release(t) \/ RequestHalt(t)
       \/ \E n \in 1 .. MaxRequest : Run(t, n)
       \/ \E n \in 0 .. ticks[t] : StopJit(t, n)

\* The clock goes on, the wait is a poll, and the JIT stops when its ticks are
\* used up.  Nothing is asked of threads that do not call Run.
Fairness ==
  /\ WF_vars(Tick)
  /\ \A t \in Threads :
       /\ WF_vars(Attempt(t))
       /\ WF_vars(Refuse(t))
       /\ WF_vars(\E n \in 0 .. ticks[t] : StopJit(t, n))
       /\ WF_vars(Release(t))

Spec == Init /\ [][Next]_vars /\ Fairness

-----------------------------------------------------------------------------
HoldsLease(t) == pc[t] \in {"running", "stopped"}
Leased == {t \in Threads : HoldsLease(t)}

\* stats.active is the number of leases that are out, and the queue holds each
\* waiting thread once and nobody else: through cancelled waits, admissions out
\* of order while draining, and leases that are returned unused.
AdmissionIsExact ==
  /\ active = Cardinality(Leased)
  /\ IsInjective(queue)
  /\ Range(queue) = {t \in Threads : pc[t] = "queued"}

Bucket == INSTANCE TokenBucket WITH
  credit <- Smaller(Capacity * Second + Second - 1, tokens * Second + fraction + elapsed * Rate),
  lease <- [t \in Threads |-> IF HoldsLease(t) THEN ticks[t] ELSE 0]

\* With a rate and a number of lanes: the aggregate rate is exactly that of a
\* token bucket, whatever is refunded, rounded or forgotten, and no more than
\* `Lanes` threads run.
KeepsRate == Bucket!Spec

\* First come, first served: a thread that waits is admitted or told to halt, if
\* the running threads use up their slices and time goes on.
EveryWaitEnds == \A t \in Threads : Waits(t) ~> ~Waits(t)
=============================================================================
