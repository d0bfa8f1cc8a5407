---------------------------- MODULE AbstractFutex ----------------------------
(***************************************************************************)
(* What cpu::FutexTable promises its callers, without locks, condition     *)
(* variables or sweeps: a WAKE of n issues as many permits as it counted   *)
(* waiters, a permit is taken by exactly one waiter, nobody gives up a     *)
(* wait while a permit is outstanding, and closing the table (InterruptAll)*)
(* lets every waiter go and admits nobody again.                           *)
(*                                                                         *)
(* The permits are anonymous: which of the waiters takes one is left open. *)
(* Futex.tla implements this specification.                                *)
(***************************************************************************)
EXTENDS Naturals, FiniteSets

CONSTANTS Threads,    (* the guest threads that may wait                   *)
          Addresses   (* the futex words                                   *)

VARIABLES waiting,    (* the threads waiting on each address               *)
          permits,    (* the wakes issued on each address and not taken    *)
          closed      (* InterruptAll was published; never reset           *)

vars == <<waiting, permits, closed>>

Init ==
  /\ waiting = [a \in Addresses |-> {}]
  /\ permits = [a \in Addresses |-> 0]
  /\ closed = FALSE

Join(t, a) ==
  /\ ~closed
  /\ \A b \in Addresses : t \notin waiting[b]
  /\ waiting' = [waiting EXCEPT ![a] = @ \cup {t}]
  /\ UNCHANGED <<permits, closed>>

Signal(a, n) ==
  /\ ~closed
  /\ n > 0
  /\ permits[a] + n <= Cardinality(waiting[a])
  /\ permits' = [permits EXCEPT ![a] = @ + n]
  /\ UNCHANGED <<waiting, closed>>

Take(t, a) ==
  /\ ~closed
  /\ t \in waiting[a]
  /\ permits[a] > 0
  /\ waiting' = [waiting EXCEPT ![a] = @ \ {t}]
  /\ permits' = [permits EXCEPT ![a] = @ - 1]
  /\ UNCHANGED closed

GiveUp(t, a) ==
  /\ closed \/ permits[a] = 0
  /\ t \in waiting[a]
  /\ waiting' = [waiting EXCEPT ![a] = @ \ {t}]
  /\ UNCHANGED <<permits, closed>>

Close ==
  /\ ~closed
  /\ closed' = TRUE
  /\ UNCHANGED <<waiting, permits>>

Next ==
  \/ \E t \in Threads, a \in Addresses : Join(t, a) \/ Take(t, a) \/ GiveUp(t, a)
  \/ \E a \in Addresses, n \in 1 .. Cardinality(Threads) : Signal(a, n)
  \/ Close

Evict(a) == closed /\ \E t \in Threads : GiveUp(t, a)

\* An issued permit is eventually taken, and a closed table empties.
Fairness ==
  \A a \in Addresses :
    /\ WF_vars(\E t \in Threads : Take(t, a))
    /\ WF_vars(Evict(a))

SafetySpec == Init /\ [][Next]_vars

Spec == SafetySpec /\ Fairness
=============================================================================
