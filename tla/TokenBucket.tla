---------------------------- MODULE TokenBucket ----------------------------
(***************************************************************************)
(* What the execution budget promises (ADR-0081, src/src/cpu/MODULE.md     *)
(* 44-49): whatever the threads do, the ticks they may run are drawn from  *)
(* a bucket that fills at Rate ticks in Second units of time, and no more  *)
(* than Lanes of them run at a time, until the budget is drained.          *)
(* Credit is counted in units of one tick per Second, so that nothing is   *)
(* rounded.                                                                *)
(***************************************************************************)
EXTENDS Integers, FiniteSets

CONSTANTS Threads, Lanes, Rate, Second, Capacity

VARIABLES credit,     (* what may still be spent                           *)
          lease,      (* the ticks each thread has reserved, 0: none       *)
          used,       (* those of them that it has run                     *)
          draining    (* no limit any more                                 *)

vars == <<credit, lease, used, draining>>

\* A bucket that is full may still hold the fraction of a tick.
Full == Capacity * Second + Second - 1

Running == {t \in Threads : lease[t] # 0}

Init ==
  /\ credit = Capacity * Second
  /\ lease = [t \in Threads |-> 0]
  /\ used = [t \in Threads |-> 0]
  /\ draining = FALSE

Elapse ==
  /\ credit' = IF credit + Rate <= Full THEN credit + Rate ELSE Full
  /\ UNCHANGED <<lease, used, draining>>

\* `spent` is taken; less than one tick more may be lost by rounding.
Draw(spent) == credit - spent - Second < credit' /\ credit' <= credit - spent

Reserve(t) ==
  LET n == lease'[t] IN
  /\ lease[t] = 0 /\ n > 0
  /\ lease' = [lease EXCEPT ![t] = n]
  /\ \/ draining /\ Draw(0)
     \/ Draw(n * Second) /\ credit' >= 0 /\ (Lanes = 0 \/ Cardinality(Running) < Lanes)
  /\ UNCHANGED <<used, draining>>

Look == Draw(0) /\ UNCHANGED <<lease, used, draining>>

Consume(t) ==
  /\ used' = [used EXCEPT ![t] = used'[t]]
  /\ used'[t] \in 0 .. lease[t]
  /\ UNCHANGED <<credit, lease, draining>>

\* What a thread did not use is given back, as far as there is room.
Return(t) ==
  /\ lease[t] # 0
  /\ LET c == credit + (lease[t] - used[t]) * Second
     IN /\ credit' <= c /\ credit' <= Full
        /\ credit' = c \/ credit' >= Capacity * Second
  /\ lease' = [lease EXCEPT ![t] = 0]
  /\ used' = [used EXCEPT ![t] = 0]
  /\ UNCHANGED draining

Drain == draining' = TRUE /\ UNCHANGED <<credit, lease, used>>

Next ==
  \/ Elapse \/ Look \/ Drain
  \/ \E t \in Threads : Reserve(t) \/ Consume(t) \/ Return(t)

Spec == Init /\ [][Next]_vars
=============================================================================
