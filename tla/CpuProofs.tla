------------------------------- MODULE CpuProofs -------------------------------
(***************************************************************************)
(* Proofs about what a slice of guest code runs on.  ExecutionBudget, for  *)
(* any finite set of threads, any number of lanes, any rate, clock and     *)
(* bucket; AddressSpace, for any number of pages, any layout on host pages *)
(* and any protections, owners and snapshots.                              *)
(***************************************************************************)
EXTENDS ExecutionBudget, AddressSpace, FiniteSetTheorems, SequenceTheorems, TLAPS

\* A lease that is out or asked for is of at least one tick, and no more of it is
\* used than was reserved.
TicksInv ==
  \A t \in Threads :
    /\ Waits(t) \/ HoldsLease(t) => ticks[t] > 0
    /\ used[t] <= ticks[t]
    /\ pc[t] # "stopped" => used[t] = 0

BInv == TypeOK /\ TicksInv /\ AdmissionIsExact

-----------------------------------------------------------------------------
(* Arithmetic.                                                             *)

\* Quotient and remainder, as the accrual of ticks uses them.
LEMMA DivMod ==
  ASSUME NEW a \in Nat, NEW k \in Nat \ {0}
  PROVE  /\ a \div k \in Nat
         /\ a % k \in 0 .. k - 1
         /\ a = k * (a \div k) + (a % k)
  OBVIOUS

\* What Refill leaves is again a whole number of ticks that fits the bucket, and
\* less than one tick.
LEMMA RefilledType ==
  ASSUME TypeOK
  PROVE  /\ Refilled[1] \in 0 .. Capacity
         /\ Refilled[2] \in 0 .. Second - 1
         /\ Accrued \in Nat
<1>0. /\ Rate \in Nat /\ Second \in Nat \ {0} /\ Capacity \in Nat \ {0}
      /\ tokens \in 0 .. Capacity /\ fraction \in 0 .. Second - 1 /\ elapsed \in Nat
  BY BudgetAssumption DEF BudgetAssumption, TypeOK
<1>1. elapsed * Rate \in Nat
  BY <1>0
<1>2. Accrued \in Nat
  BY <1>0, <1>1 DEF Accrued
<1>3. /\ Accrued \div Second \in Nat
      /\ Accrued % Second \in 0 .. Second - 1
  BY <1>0, <1>2, DivMod
<1>4. Smaller(Capacity, tokens + Accrued \div Second) \in 0 .. Capacity
  BY <1>0, <1>3 DEF Smaller
<1> QED
  BY <1>0, <1>2, <1>3, <1>4 DEF Refilled

\* A thread asks for at least one tick.
LEMMA QuantumPositive == Quantum \in Nat \ {0}
<1>1. /\ Rate \in Nat /\ Slice \in Nat \ {0} /\ Capacity \in Nat \ {0}
  BY BudgetAssumption DEF BudgetAssumption
<1>2. Capacity \div 2 \in Nat
  BY <1>1, DivMod
<1> QED
  BY <1>1, <1>2 DEF Quantum, Smaller, Larger

-----------------------------------------------------------------------------
(* The queue of tickets.                                                   *)

\* The end of a sequence from its m-th element.
LEMMA SuffixProperties ==
  ASSUME NEW S, NEW q \in Seq(S), NEW m \in 1 .. Len(q) + 1
  PROVE  /\ SubSeq(q, m, Len(q)) \in Seq(S)
         /\ Len(SubSeq(q, m, Len(q))) = Len(q) - m + 1
         /\ \A j \in 1 .. Len(q) - m + 1 : SubSeq(q, m, Len(q))[j] = q[m + j - 1]
  OBVIOUS

\* A sequence without its i-th element.
LEMMA RemoveAtProperties ==
  ASSUME NEW S, NEW q \in Seq(S), NEW i \in 1 .. Len(q)
  PROVE  /\ RemoveAt(q, i) \in Seq(S)
         /\ Len(RemoveAt(q, i)) = Len(q) - 1
         /\ \A j \in 1 .. Len(q) - 1 :
              RemoveAt(q, i)[j] = IF j < i THEN q[j] ELSE q[j + 1]
<1> DEFINE f == SubSeq(q, 1, i - 1)
           g == SubSeq(q, i + 1, Len(q))
<1>1. /\ f \in Seq(S)
      /\ Len(f) = i - 1
      /\ \A j \in 1 .. i - 1 : f[j] = q[j]
  OBVIOUS
<1>2. /\ g \in Seq(S)
      /\ Len(g) = Len(q) - i
      /\ \A j \in 1 .. Len(q) - i : g[j] = q[i + j]
  BY i + 1 \in 1 .. Len(q) + 1, SuffixProperties
<1>3. RemoveAt(q, i) = f \o g
  BY DEF RemoveAt
<1> HIDE DEF f, g
<1>4. /\ f \o g \in Seq(S)
      /\ Len(f \o g) = Len(f) + Len(g)
      /\ \A j \in 1 .. Len(f) + Len(g) :
           (f \o g)[j] = IF j <= Len(f) THEN f[j] ELSE g[j - Len(f)]
  BY <1>1, <1>2, ConcatProperties
<1>5. ASSUME NEW j \in 1 .. Len(q) - 1
      PROVE  (f \o g)[j] = IF j < i THEN q[j] ELSE q[j + 1]
  <2>1. CASE j < i
    BY <1>1, <1>2, <1>4, <2>1
  <2>2. CASE ~(j < i)
    <3>1. j - Len(f) \in 1 .. Len(q) - i /\ i + (j - Len(f)) = j + 1 /\ ~(j <= Len(f))
      BY <1>1, <2>2
    <3>2. (f \o g)[j] = g[j - Len(f)]
      BY <1>1, <1>2, <1>4, <3>1
    <3>3. g[j - Len(f)] = q[i + (j - Len(f))]
      BY <1>2, <3>1
    <3> QED
      BY <2>2, <3>1, <3>2, <3>3
  <2> QED
    BY <2>1, <2>2
<1>6. Len(f) + Len(g) = Len(q) - 1
  BY <1>1, <1>2
<1> QED
  BY <1>3, <1>4, <1>5, <1>6

\* Erasing the ticket of a thread that is in the queue once leaves the others,
\* each of them once.
LEMMA WithoutLeavesOthers ==
  ASSUME NEW q \in Seq(Threads), IsInjective(q), NEW t \in Range(q)
  PROVE  /\ Without(q, t) \in Seq(Threads)
         /\ IsInjective(Without(q, t))
         /\ Range(Without(q, t)) = Range(q) \ {t}
<1> DEFINE i == CHOOSE j \in DOMAIN q : q[j] = t
           w == Without(q, t)
<1>1. i \in 1 .. Len(q) /\ q[i] = t
  BY DEF Range
<1>2. /\ w = RemoveAt(q, i)
      /\ DOMAIN q = 1 .. Len(q) /\ Len(q) \in Nat
      /\ \A j \in 1 .. Len(q) : q[j] \in Threads
  BY DEF Without
<1> HIDE DEF i
<1> DEFINE old(j) == IF j < i THEN j ELSE j + 1
<1>3. /\ w \in Seq(Threads)
      /\ Len(w) = Len(q) - 1
      /\ \A j \in 1 .. Len(q) - 1 : w[j] = q[old(j)]
  BY <1>1, <1>2, RemoveAtProperties
<1>4. /\ DOMAIN w = 1 .. Len(q) - 1
      /\ \A j \in 1 .. Len(q) - 1 : old(j) \in 1 .. Len(q) /\ old(j) # i
      /\ \A j, k \in 1 .. Len(q) - 1 : old(j) = old(k) => j = k
      /\ \A k \in 1 .. Len(q) : k # i => \E j \in 1 .. Len(q) - 1 : old(j) = k
  <2>1. DOMAIN w = 1 .. Len(q) - 1
    BY <1>3
  <2>2. ASSUME NEW k \in 1 .. Len(q), k # i
        PROVE  \E j \in 1 .. Len(q) - 1 : old(j) = k
    <3>1. CASE k < i
      BY <1>1, <1>2, <3>1
    <3>2. CASE k > i
      <4>1. k - 1 \in 1 .. Len(q) - 1 /\ old(k - 1) = k
        BY <1>1, <1>2, <3>2
      <4> QED
        BY <4>1
    <3> QED
      BY <1>1, <1>2, <2>2, <3>1, <3>2
  <2> QED
    BY <1>1, <1>2, <2>1, <2>2
<1> HIDE DEF w, old
<1>5. IsInjective(w)
  <2>1. SUFFICES ASSUME NEW j \in 1 .. Len(q) - 1, NEW k \in 1 .. Len(q) - 1, w[j] = w[k]
                 PROVE  j = k
    BY <1>4 DEF IsInjective
  <2>2. q[old(j)] = q[old(k)]
    BY <1>3, <2>1
  <2>3. old(j) \in DOMAIN q /\ old(k) \in DOMAIN q
    BY <1>2, <1>4
  <2>4. old(j) = old(k)
    BY <2>2, <2>3 DEF IsInjective
  <2> QED
    BY <1>4, <2>4
<1>6. Range(w) \subseteq Range(q) \ {t}
  <2>1. SUFFICES ASSUME NEW j \in 1 .. Len(q) - 1
                 PROVE  w[j] \in Range(q) \ {t}
    BY <1>4 DEF Range
  <2>2. w[j] = q[old(j)] /\ old(j) \in DOMAIN q /\ old(j) # i /\ i \in DOMAIN q
    BY <1>1, <1>2, <1>3, <1>4
  <2>3. w[j] # t
    BY <1>1, <2>2 DEF IsInjective
  <2> QED
    BY <2>2, <2>3 DEF Range
<1>7. Range(q) \ {t} \subseteq Range(w)
  <2>1. SUFFICES ASSUME NEW k \in 1 .. Len(q), q[k] # t
                 PROVE  q[k] \in Range(w)
    BY <1>2 DEF Range
  <2>2. PICK j \in 1 .. Len(q) - 1 : old(j) = k
    BY <1>1, <1>4, <2>1
  <2> QED
    BY <1>3, <1>4, <2>2 DEF Range
<1> QED
  BY <1>3, <1>5, <1>6, <1>7 DEF w

\* Taking a ticket.
LEMMA AppendAddsOne ==
  ASSUME NEW q \in Seq(Threads), IsInjective(q), NEW t \in Threads, t \notin Range(q)
  PROVE  /\ Append(q, t) \in Seq(Threads)
         /\ IsInjective(Append(q, t))
         /\ Range(Append(q, t)) = Range(q) \cup {t}
<1> DEFINE w == Append(q, t)
<1>1. /\ w \in Seq(Threads)
      /\ Len(w) = Len(q) + 1
      /\ \A j \in 1 .. Len(q) : w[j] = q[j]
      /\ w[Len(q) + 1] = t
  OBVIOUS
<1> HIDE DEF w
<1>2. IsInjective(w)
  BY <1>1 DEF IsInjective, Range
<1>3. Range(w) = Range(q) \cup {t}
  BY <1>1 DEF Range
<1> QED
  BY <1>1, <1>2, <1>3 DEF w

\* The queue in which a thread that waits makes its attempt.
LEMMA InLineIsExact ==
  ASSUME BInv, NEW t \in Threads, Waits(t)
  PROVE  /\ InLine(t) \in Seq(Threads)
         /\ IsInjective(InLine(t))
         /\ Range(InLine(t)) = Range(queue) \cup {t}
<1>1. queue \in Seq(Threads) /\ IsInjective(queue)
  BY DEF BInv, TypeOK, AdmissionIsExact
<1>2. CASE pc[t] = "admission"
  <2>1. t \notin Range(queue)
    BY <1>2 DEF BInv, AdmissionIsExact
  <2> QED
    BY <1>1, <1>2, <2>1, AppendAddsOne DEF InLine
<1>3. CASE pc[t] = "queued"
  <2>1. t \in Range(queue)
    BY <1>3 DEF BInv, AdmissionIsExact
  <2> QED
    BY <1>1, <1>3, <2>1 DEF InLine
<1> QED
  BY <1>2, <1>3 DEF Waits

\* The queue after a thread that waits has left it.
LEMMA LeavingIsExact ==
  ASSUME BInv, NEW t \in Threads, Waits(t)
  PROVE  /\ Without(InLine(t), t) \in Seq(Threads)
         /\ IsInjective(Without(InLine(t), t))
         /\ Range(Without(InLine(t), t)) = Range(queue) \ {t}
<1>1. /\ InLine(t) \in Seq(Threads)
      /\ IsInjective(InLine(t))
      /\ Range(InLine(t)) = Range(queue) \cup {t}
  BY InLineIsExact
<1> QED
  BY <1>1, WithoutLeavesOthers

-----------------------------------------------------------------------------
(* The invariant.                                                          *)

\* Finitely many threads hold a lease.
LEMMA LeasedFinite ==
  /\ IsFiniteSet(Leased)
  /\ Cardinality(Leased) \in Nat
<1>1. IsFiniteSet(Threads)
  BY BudgetAssumption DEF BudgetAssumption
<1> QED
  BY <1>1, FS_Subset, FS_CardinalityType DEF Leased

\* The invariant holds before anybody asks for a lease.
LEMMA InitBInv == Init => BInv
<1> SUFFICES ASSUME Init
             PROVE  BInv
  OBVIOUS
<1>1. TypeOK
  <2>1. Second \in Nat \ {0} /\ Capacity \in Nat \ {0}
    BY BudgetAssumption DEF BudgetAssumption
  <2>2. tokens \in 0 .. Capacity /\ fraction \in 0 .. Second - 1 /\ elapsed \in 0 .. Second
    BY <2>1 DEF Init
  <2>3. queue \in Seq(Threads)
    BY DEF Init
  <2> QED
    BY <2>2, <2>3 DEF Init, TypeOK, Places
<1>2. TicksInv
  BY DEF Init, TicksInv, Waits, HoldsLease
<1>3. Leased = {} /\ Cardinality({}) = 0
  BY FS_EmptySet DEF Init, Leased, HoldsLease
<1>4. IsInjective(queue) /\ Range(queue) = {}
  BY DEF Init, IsInjective, Range
<1> QED
  BY <1>1, <1>2, <1>3, <1>4 DEF BInv, AdmissionIsExact, Init

\* Types: the bucket never overflows nor goes below zero.
LEMMA NextType ==
  ASSUME BInv, [Next]_vars
  PROVE  TypeOK'
<1> USE DEF BInv, TypeOK
<1>0. /\ Second \in Nat \ {0} /\ Capacity \in Nat \ {0}
      /\ Refilled[1] \in 0 .. Capacity /\ Refilled[2] \in 0 .. Second - 1
  BY BudgetAssumption, RefilledType DEF BudgetAssumption
<1>1. CASE Tick
  <2>1. elapsed' \in 0 .. Second
    BY <1>0, <1>1 DEF Tick
  <2> QED
    BY <1>1, <2>1 DEF Tick
<1>2. CASE BeginDrain
  BY <1>2 DEF BeginDrain, bucketVars
<1>3. ASSUME NEW t \in Threads, RunHalted(t)
      PROVE  TypeOK'
  BY <1>3 DEF RunHalted, bucketVars
<1>4. ASSUME NEW t \in Threads, NEW n \in 1 .. MaxRequest, Run(t, n)
      PROVE  TypeOK'
  <2>1. Smaller(n, Quantum) \in Nat
    BY QuantumPositive, BudgetAssumption DEF Smaller, BudgetAssumption
  <2> QED
    BY <1>4, <2>1 DEF Run, bucketVars, Places
<1>5. ASSUME NEW t \in Threads, Cancel(t)
      PROVE  TypeOK'
  BY <1>5, LeavingIsExact DEF Cancel, bucketVars, Places
<1>6. ASSUME NEW t \in Threads, Admit(t)
      PROVE  TypeOK'
  <2>1. tokens' \in 0 .. Capacity
    BY <1>0, <1>6 DEF Admit, Admissible, CreditFor
  <2> QED
    BY <1>0, <1>6, <2>1, LeavingIsExact DEF Admit, Places
<1>7. ASSUME NEW t \in Threads, StayQueued(t)
      PROVE  TypeOK'
  BY <1>0, <1>7, InLineIsExact DEF StayQueued, Places
<1>8. ASSUME NEW t \in Threads, Refuse(t)
      PROVE  TypeOK'
  BY <1>8 DEF Refuse, bucketVars, Places
<1>9. ASSUME NEW t \in Threads, NEW n \in 0 .. ticks[t], StopJit(t, n)
      PROVE  TypeOK'
  BY <1>9 DEF StopJit, bucketVars, Places
<1>10. ASSUME NEW t \in Threads, Release(t)
       PROVE  TypeOK'
  <2>1. tokens' \in 0 .. Capacity
    BY <1>0, <1>10 DEF Release, Smaller, TicksInv
  <2>2. active' \in Nat
    <3>1. t \in Leased
      BY <1>10 DEF Release, Leased, HoldsLease
    <3>2. Cardinality(Leased) # 0
      BY <3>1, LeasedFinite, FS_EmptySet
    <3> QED
      BY <1>10, <3>2, LeasedFinite DEF Release, AdmissionIsExact
  <2> QED
    BY <1>10, <2>1, <2>2 DEF Release, Places
<1>11. ASSUME NEW t \in Threads, RequestHalt(t)
       PROVE  TypeOK'
  BY <1>11 DEF RequestHalt, bucketVars
<1>12. CASE UNCHANGED vars
  BY <1>12 DEF vars, bucketVars
<1> QED
  BY <1>1, <1>2, <1>3, <1>4, <1>5, <1>6, <1>7, <1>8, <1>9, <1>10, <1>11, <1>12
     DEF Next, Attempt

\* Leases are of at least one tick and are not overrun.
LEMMA NextTicks ==
  ASSUME BInv, [Next]_vars
  PROVE  TicksInv'
<1> USE DEF BInv, TypeOK, TicksInv, Waits, HoldsLease
<1>1. CASE Tick \/ BeginDrain
  BY <1>1 DEF Tick, BeginDrain, bucketVars
<1>2. ASSUME NEW t \in Threads, RunHalted(t) \/ RequestHalt(t)
      PROVE  TicksInv'
  BY <1>2 DEF RunHalted, RequestHalt, bucketVars
<1>3. ASSUME NEW t \in Threads, NEW n \in 1 .. MaxRequest, Run(t, n)
      PROVE  TicksInv'
  <2>1. Smaller(n, Quantum) \in Nat \ {0}
    BY QuantumPositive, BudgetAssumption DEF Smaller, BudgetAssumption
  <2> QED
    BY <1>3, <2>1 DEF Run, bucketVars
<1>4. ASSUME NEW t \in Threads, Cancel(t)
      PROVE  TicksInv'
  BY <1>4 DEF Cancel, bucketVars
<1>5. ASSUME NEW t \in Threads, Admit(t)
      PROVE  TicksInv'
  BY <1>5 DEF Admit
<1>6. ASSUME NEW t \in Threads, StayQueued(t)
      PROVE  TicksInv'
  BY <1>6 DEF StayQueued
<1>7. ASSUME NEW t \in Threads, Refuse(t)
      PROVE  TicksInv'
  BY <1>7 DEF Refuse, bucketVars
<1>8. ASSUME NEW t \in Threads, NEW n \in 0 .. ticks[t], StopJit(t, n)
      PROVE  TicksInv'
  BY <1>8 DEF StopJit, bucketVars
<1>9. ASSUME NEW t \in Threads, Release(t)
      PROVE  TicksInv'
  BY <1>9 DEF Release
<1>10. CASE UNCHANGED vars
  BY <1>10 DEF vars, bucketVars
<1> QED
  BY <1>1, <1>2, <1>3, <1>4, <1>5, <1>6, <1>7, <1>8, <1>9, <1>10 DEF Next, Attempt

\* The counter of leases and the queue of tickets stay exact.
LEMMA NextAdmission ==
  ASSUME BInv, [Next]_vars
  PROVE  AdmissionIsExact'
<1> USE DEF BInv, TypeOK, AdmissionIsExact
<1>1. ASSUME UNCHANGED <<queue, active, pc>>
      PROVE  AdmissionIsExact'
  <2>1. Leased' = Leased
    BY <1>1 DEF Leased, HoldsLease
  <2> QED
    BY <1>1, <2>1
<1>2. ASSUME NEW t \in Threads, \E n \in 1 .. MaxRequest : Run(t, n)
      PROVE  AdmissionIsExact'
  <2>1. pc[t] = "guest" /\ pc' = [pc EXCEPT ![t] = "admission"] /\ UNCHANGED <<queue, active>>
    BY <1>2 DEF Run
  <2>2. Leased' = Leased
    BY <2>1 DEF Leased, HoldsLease
  <2>3. {u \in Threads : pc'[u] = "queued"} = {u \in Threads : pc[u] = "queued"}
    BY <2>1
  <2> QED
    BY <2>1, <2>2, <2>3
<1>3. ASSUME NEW t \in Threads, Cancel(t)
      PROVE  AdmissionIsExact'
  <2>1. /\ Waits(t) /\ pc' = [pc EXCEPT ![t] = "refused"]
        /\ queue' = Without(InLine(t), t) /\ active' = active
    BY <1>3 DEF Cancel
  <2>2. Leased' = Leased
    BY <2>1 DEF Leased, HoldsLease, Waits
  <2>3. {u \in Threads : pc'[u] = "queued"} = {u \in Threads : pc[u] = "queued"} \ {t}
    BY <2>1
  <2> QED
    BY <2>1, <2>2, <2>3, LeavingIsExact
<1>4. ASSUME NEW t \in Threads, Admit(t)
      PROVE  AdmissionIsExact'
  <2>1. /\ Waits(t) /\ pc' = [pc EXCEPT ![t] = "running"]
        /\ queue' = Without(InLine(t), t) /\ active' = active + 1
    BY <1>4 DEF Admit
  <2>2. Leased' = Leased \cup {t} /\ t \notin Leased
    BY <2>1 DEF Leased, HoldsLease, Waits
  <2>3. Cardinality(Leased') = Cardinality(Leased) + 1
    BY <2>2, LeasedFinite, FS_AddElement
  <2>4. {u \in Threads : pc'[u] = "queued"} = {u \in Threads : pc[u] = "queued"} \ {t}
    BY <2>1
  <2> QED
    BY <2>1, <2>3, <2>4, LeavingIsExact
<1>5. ASSUME NEW t \in Threads, StayQueued(t)
      PROVE  AdmissionIsExact'
  <2>1. /\ Waits(t) /\ pc' = [pc EXCEPT ![t] = "queued"]
        /\ queue' = InLine(t) /\ active' = active
    BY <1>5 DEF StayQueued
  <2>2. Leased' = Leased
    BY <2>1 DEF Leased, HoldsLease, Waits
  <2>3. {u \in Threads : pc'[u] = "queued"} = {u \in Threads : pc[u] = "queued"} \cup {t}
    BY <2>1
  <2> QED
    BY <2>1, <2>2, <2>3, InLineIsExact
<1>6. ASSUME NEW t \in Threads, Refuse(t)
      PROVE  AdmissionIsExact'
  <2>1. pc[t] = "refused" /\ pc' = [pc EXCEPT ![t] = "guest"] /\ UNCHANGED <<queue, active>>
    BY <1>6 DEF Refuse
  <2>2. Leased' = Leased
    BY <2>1 DEF Leased, HoldsLease
  <2>3. {u \in Threads : pc'[u] = "queued"} = {u \in Threads : pc[u] = "queued"}
    BY <2>1
  <2> QED
    BY <2>1, <2>2, <2>3
<1>7. ASSUME NEW t \in Threads, NEW n \in 0 .. ticks[t], StopJit(t, n)
      PROVE  AdmissionIsExact'
  <2>1. pc[t] = "running" /\ pc' = [pc EXCEPT ![t] = "stopped"] /\ UNCHANGED <<queue, active>>
    BY <1>7 DEF StopJit
  <2>2. Leased' = Leased
    BY <2>1 DEF Leased, HoldsLease
  <2>3. {u \in Threads : pc'[u] = "queued"} = {u \in Threads : pc[u] = "queued"}
    BY <2>1
  <2> QED
    BY <2>1, <2>2, <2>3
<1>8. ASSUME NEW t \in Threads, Release(t)
      PROVE  AdmissionIsExact'
  <2>1. /\ pc[t] = "stopped" /\ pc' = [pc EXCEPT ![t] = "guest"]
        /\ queue' = queue /\ active' = active - 1
    BY <1>8 DEF Release
  <2>2. Leased' = Leased \ {t} /\ t \in Leased
    BY <2>1 DEF Leased, HoldsLease
  <2>3. Cardinality(Leased') = Cardinality(Leased) - 1
    BY <2>2, LeasedFinite, FS_RemoveElement
  <2>4. {u \in Threads : pc'[u] = "queued"} = {u \in Threads : pc[u] = "queued"}
    BY <2>1
  <2> QED
    BY <2>1, <2>3, <2>4
<1>9. CASE UNCHANGED vars
  BY <1>1, <1>9 DEF vars
<1> QED
  BY <1>1, <1>2, <1>3, <1>4, <1>5, <1>6, <1>7, <1>8, <1>9
     DEF Next, Attempt, Tick, BeginDrain, RunHalted, RequestHalt

\* Every state of an execution satisfies the invariant.
THEOREM BudgetInvariant == Spec => []BInv
<1>1. BInv /\ [Next]_vars => BInv'
  BY NextType, NextTicks, NextAdmission DEF BInv
<1> QED
  BY InitBInv, <1>1, PTL DEF Spec

\* The bucket holds between none and Capacity ticks and less than one tick more,
\* whatever is granted, refunded and accrued: `tokens - ticks` and `active - 1`,
\* unsigned in the code, never wrap around.
THEOREM TypeCorrect == Spec => []TypeOK
<1>1. BInv => TypeOK
  BY DEF BInv
<1> QED
  BY BudgetInvariant, <1>1, PTL

\* The counter of leases is exact and the queue holds the waiting threads, once
\* each, through every order of cancelled waits, admissions, returns and drains.
THEOREM AdmissionCorrect == Spec => []AdmissionIsExact
<1>1. BInv => AdmissionIsExact
  BY DEF BInv
<1> QED
  BY BudgetInvariant, <1>1, PTL

-----------------------------------------------------------------------------
(* The budget is a token bucket.                                           *)

\* The credit before it is cut off at the size of the bucket, the size, and what
\* the refinement maps to TokenBucket's variables.
Account == tokens * Second + fraction + elapsed * Rate
Brim == Capacity * Second + Second - 1
Credit == Smaller(Brim, Account)
Lease == [t \in Threads |-> IF HoldsLease(t) THEN ticks[t] ELSE 0]

\* Products of naturals.
LEMMA Products ==
  ASSUME NEW a \in Nat, NEW b \in Nat, NEW k \in Nat
  PROVE  /\ a * k \in Nat
         /\ (a + b) * k = a * k + b * k
         /\ a <= b => a * k <= b * k
         /\ a <= b => (b - a) * k = b * k - a * k
  OBVIOUS

\* Every term of the account of credit is a natural number.
LEMMA AccountType ==
  ASSUME TypeOK
  PROVE  /\ Rate \in Nat /\ Second \in Nat \ {0} /\ Capacity \in Nat \ {0}
         /\ tokens \in Nat /\ fraction \in Nat /\ elapsed \in Nat
         /\ tokens * Second \in Nat /\ elapsed * Rate \in Nat
         /\ Capacity * Second \in Nat
         /\ Account \in Nat /\ Brim \in Nat /\ Credit \in Nat
<1>1. /\ Rate \in Nat /\ Second \in Nat \ {0} /\ Capacity \in Nat \ {0}
      /\ tokens \in Nat /\ fraction \in Nat /\ elapsed \in Nat
  BY BudgetAssumption DEF BudgetAssumption, TypeOK
<1>2. tokens * Second \in Nat /\ elapsed * Rate \in Nat /\ Capacity * Second \in Nat
  BY <1>1, Products
<1> QED
  BY <1>1, <1>2 DEF Account, Brim, Credit, Smaller

\* Refill neither makes credit nor loses a whole tick of it.
LEMMA RefillKeepsCredit ==
  ASSUME TypeOK, Rate # 0
  PROVE  LET left == Refilled[1] * Second + Refilled[2]
         IN /\ left \in Nat /\ left <= Brim
            /\ left <= Credit /\ Credit - Second < left
<1> DEFINE left == Refilled[1] * Second + Refilled[2]
<1>0. /\ Capacity <= Rate /\ elapsed \in 0 .. Second /\ Second \in Nat
      /\ tokens <= Capacity /\ fraction <= Second - 1
  BY BudgetAssumption DEF BudgetAssumption, TypeOK
<1>1. left \in Nat /\ left <= Brim
  <2>1. Refilled[1] * Second \in Nat /\ Refilled[1] * Second <= Capacity * Second
    BY RefilledType, AccountType, Products
  <2> QED
    BY <2>1, RefilledType, AccountType DEF Brim
<1>2. CASE elapsed = 0
  <2>1. left = tokens * Second + fraction /\ elapsed * Rate = 0
    BY <1>2, AccountType DEF Refilled
  <2>2. left = Account
    BY <2>1, AccountType DEF Account
  <2> QED
    BY <1>1, <2>2, AccountType DEF Credit, Smaller
<1>3. CASE elapsed # 0 /\ elapsed >= Second
  <2>1. left = Capacity * Second
    BY <1>3, AccountType DEF Refilled
  <2>2. elapsed * Rate = Rate * Second
    <3>1. elapsed = Second
      BY <1>0, <1>3
    <3> QED
      BY <3>1, AccountType
  <2>3. Capacity * Second <= Rate * Second
    BY <1>0, AccountType, Products
  <2>4. left <= Account
    BY <2>1, <2>2, <2>3, AccountType DEF Account
  <2> QED
    BY <1>1, <2>1, <2>4, AccountType DEF Credit, Brim, Smaller
<1>4. CASE elapsed # 0 /\ elapsed < Second
  <2> DEFINE d == Accrued \div Second
             m == Accrued % Second
  <2>1. d \in Nat /\ m \in 0 .. Second - 1 /\ Accrued = Second * d + m
    BY RefilledType, AccountType, DivMod
  <2>2. Refilled = <<Smaller(Capacity, tokens + d),
                     IF Smaller(Capacity, tokens + d) = Capacity THEN 0 ELSE m>>
    BY <1>0, <1>4, AccountType DEF Refilled
  <2> HIDE DEF d, m
  <2>3. (tokens + d) * Second = tokens * Second + d * Second /\ d * Second = Second * d
    BY <2>1, AccountType, Products
  <2>4. Account = (tokens + d) * Second + m
    BY <2>1, <2>3, AccountType DEF Account, Accrued
  <2>5. CASE tokens + d < Capacity
    <3>1. left = Account
      BY <2>1, <2>2, <2>4, <2>5, AccountType DEF Smaller
    <3> QED
      BY <1>1, <3>1, AccountType DEF Credit, Smaller
  <2>6. CASE tokens + d >= Capacity
    <3>1. left = Capacity * Second
      BY <2>1, <2>2, <2>6, AccountType DEF Smaller
    <3>2. Capacity * Second <= (tokens + d) * Second
      BY <2>1, <2>6, AccountType, Products
    <3>3. left <= Account
      BY <2>1, <2>3, <2>4, <3>1, <3>2, AccountType
    <3> QED
      BY <1>1, <3>1, <3>3, AccountType DEF Credit, Brim, Smaller
  <2> QED
    BY <2>1, <2>5, <2>6, AccountType
<1> QED
  BY <1>1, <1>2, <1>3, <1>4, AccountType

\* Steps that leave the bucket and the leases alone.
LEMMA SameBucket ==
  ASSUME UNCHANGED <<bucketVars, used, draining>>, Lease' = Lease
  PROVE  UNCHANGED <<Credit, Lease, used, draining>>
BY DEF bucketVars, Credit, Account, Brim, Smaller

\* Time passes.
LEMMA TickFills ==
  ASSUME TypeOK, Tick
  PROVE  Credit' = IF Credit + Rate <= Brim THEN Credit + Rate ELSE Brim
<1>1. tokens' = tokens /\ fraction' = fraction /\ elapsed' = elapsed + 1
  BY DEF Tick
<1>2. (elapsed + 1) * Rate = elapsed * Rate + 1 * Rate
  BY AccountType, Products
<1>3. Account' = Account + Rate
  BY <1>1, <1>2, AccountType DEF Account
<1>4. Brim' = Brim
  BY DEF Brim
<1>5. Account \in Nat /\ Brim \in Nat /\ Rate \in Nat
  BY AccountType
<1> QED
  BY <1>3, <1>4, <1>5 DEF Credit, Smaller

\* An attempt takes `spent` ticks out of what the refill has left.
LEMMA AttemptDraws ==
  ASSUME TypeOK, Rate # 0, NEW spent \in Nat, spent <= Refilled[1],
         tokens' = Refilled[1] - spent, fraction' = Refilled[2], elapsed' = 0
  PROVE  /\ Credit - spent * Second - Second < Credit'
         /\ Credit' <= Credit - spent * Second
         /\ Credit' \in Nat
<1> DEFINE left == Refilled[1] * Second + Refilled[2]
<1>1. /\ left \in Nat /\ left <= Brim
      /\ left <= Credit /\ Credit - Second < left
  BY RefillKeepsCredit
<1>2. /\ spent * Second \in Nat
      /\ (Refilled[1] - spent) * Second = Refilled[1] * Second - spent * Second
      /\ spent * Second <= Refilled[1] * Second
      /\ Refilled[1] * Second \in Nat
  BY RefilledType, AccountType, Products
<1>3. Account' = left - spent * Second
  <2>1. elapsed' * Rate = 0
    BY AccountType
  <2>2. tokens' * Second = Refilled[1] * Second - spent * Second
    BY <1>2
  <2> QED
    BY <1>2, <2>1, <2>2, RefilledType, AccountType DEF Account
<1>4. left - spent * Second \in Nat
  BY <1>2, RefilledType, AccountType
<1> HIDE DEF left
<1>5. Credit' = left - spent * Second
  <2>1. Brim' = Brim /\ Brim \in Nat
    BY AccountType DEF Brim
  <2>2. left - spent * Second <= Brim
    BY <1>1, <1>2, <2>1
  <2> DEFINE rest == left - spent * Second
  <2>3. rest \in Nat /\ rest <= Brim /\ Account' = rest
    BY <1>3, <1>4, <2>2
  <2> HIDE DEF rest
  <2>4. Credit' = rest
    BY <2>1, <2>3 DEF Credit, Smaller
  <2> QED
    BY <2>4 DEF rest
<1> QED
  BY <1>1, <1>2, <1>4, <1>5, AccountType

\* A return gives the rest of the lease back, unless the bucket is full.
LEMMA ReleaseRefunds ==
  ASSUME BInv, NEW t \in Threads, Release(t)
  PROVE  LET c == Credit + (ticks[t] - used[t]) * Second
         IN /\ Credit' <= c /\ Credit' <= Brim
            /\ Credit' = c \/ Credit' >= Capacity * Second
<1> DEFINE d == ticks[t] - used[t]
<1>0. TypeOK
  BY DEF BInv
<1>1. d \in Nat /\ ticks[t] \in Nat /\ used[t] \in Nat
  BY DEF BInv, TypeOK, TicksInv
<1>2. /\ tokens' = Smaller(Capacity, tokens + d)
      /\ fraction' = fraction /\ elapsed' = elapsed
  BY <1>0, <1>1, AccountType DEF Release, Smaller
<1> HIDE DEF d
<1>3. /\ (tokens + d) * Second = tokens * Second + d * Second
      /\ d * Second \in Nat
  BY <1>0, <1>1, AccountType, Products
<1>6. /\ Brim' = Brim /\ Brim \in Nat /\ Account \in Nat
      /\ Capacity * Second \in Nat /\ Capacity * Second <= Brim
  BY <1>0, AccountType DEF Brim
<1>4. CASE tokens + d <= Capacity
  <2>1. tokens' = tokens + d
    BY <1>0, <1>1, <1>2, <1>4, AccountType DEF Smaller
  <2>2. tokens' * Second = tokens * Second + d * Second
    BY <1>3, <2>1
  <2>3. Account' = Account + d * Second
    BY <1>0, <1>2, <1>3, <2>2, AccountType DEF Account
  <2> QED
    BY <1>3, <1>6, <2>3 DEF Credit, Smaller, d
<1>5. CASE tokens + d > Capacity
  <2>1. Account' = Capacity * Second + fraction + elapsed * Rate
    BY <1>0, <1>1, <1>2, <1>5, AccountType DEF Account, Smaller
  <2>2. Capacity * Second <= (tokens + d) * Second
    <3>1. Capacity \in Nat /\ tokens + d \in Nat /\ Capacity <= tokens + d /\ Second \in Nat
      BY <1>0, <1>1, <1>5, AccountType
    <3> QED
      BY <3>1, Products
  <2>3. Account' <= Account + d * Second /\ Account' >= Capacity * Second /\ Account' \in Nat
    BY <1>0, <1>3, <2>1, <2>2, AccountType DEF Account
  <2> QED
    BY <1>3, <1>6, <2>3 DEF Credit, Smaller, d
<1> QED
  BY <1>0, <1>1, <1>4, <1>5, AccountType

\* The threads that hold a lease, as TokenBucket counts them.
LEMMA RunningIsLeased ==
  ASSUME BInv
  PROVE  {t \in Threads : Lease[t] # 0} = Leased
BY DEF BInv, TypeOK, TicksInv, Lease, Leased, HoldsLease

\* TokenBucket's Cardinality is that of FiniteSets.
LEMMA SameCardinality == \A s : Bucket!Cardinality(s) = Cardinality(s)
BY DEF Bucket!Cardinality, Cardinality

\* Every step of the budget is a step of the bucket or leaves it alone.
LEMMA StepRefinesBucket ==
  ASSUME BInv, Rate # 0, [Next]_vars
  PROVE  [Bucket!Next]_(Bucket!vars)
<1> USE DEF BInv
<1>a. /\ Bucket!vars = <<Credit, Lease, used, draining>>
      /\ Bucket!Full = Brim
  BY DEF Bucket!vars, Bucket!Full, Credit, Account, Brim, Lease
<1>1. CASE Tick
  <2>1. Lease' = Lease /\ UNCHANGED <<used, draining>>
    BY <1>1 DEF Tick, Lease, HoldsLease
  <2>2. Bucket!Elapse
    BY <1>1, <2>1, TickFills DEF Bucket!Elapse, Bucket!Full, Credit, Account, Brim, Lease
  <2> QED
    BY <2>2 DEF Bucket!Next
<1>2. CASE BeginDrain
  <2>1. Lease' = Lease /\ Credit' = Credit /\ used' = used /\ draining' = TRUE
    BY <1>2 DEF BeginDrain, bucketVars, Lease, HoldsLease, Credit, Account, Brim, Smaller
  <2> QED
    BY <2>1 DEF Bucket!Next, Bucket!Drain, Credit, Account, Brim, Lease
<1>3. ASSUME NEW t \in Threads,
             \/ RunHalted(t) \/ RequestHalt(t) \/ Cancel(t) \/ Refuse(t)
             \/ \E n \in 1 .. MaxRequest : Run(t, n)
      PROVE  UNCHANGED Bucket!vars
  <2>1. Lease' = Lease
    BY <1>3 DEF RunHalted, RequestHalt, Cancel, Refuse, Run, Waits, Lease, HoldsLease, TypeOK
  <2>2. UNCHANGED <<bucketVars, used, draining>>
    BY <1>3 DEF RunHalted, RequestHalt, Cancel, Refuse, Run
  <2> QED
    BY <1>a, <2>1, <2>2, SameBucket
       DEF Bucket!vars, Credit, Account, Brim, Lease
<1>4. ASSUME NEW t \in Threads, StayQueued(t)
      PROVE  Bucket!Look
  <2>1. /\ tokens' = Refilled[1] - 0 /\ fraction' = Refilled[2] /\ elapsed' = 0
        /\ Refilled[1] \in Nat /\ Second \in Nat
    BY <1>4, RefilledType, AccountType DEF StayQueued
  <2>2. /\ Credit - 0 * Second - Second < Credit' /\ Credit' <= Credit - 0 * Second
        /\ Credit \in Nat
    BY <2>1, AttemptDraws, AccountType
  <2>3. Credit - 0 - Second < Credit' /\ Credit' <= Credit - 0
    BY <2>1, <2>2
  <2>4. Lease' = Lease /\ UNCHANGED <<used, draining>>
    BY <1>4 DEF StayQueued, Waits, Lease, HoldsLease, TypeOK
  <2> QED
    BY <2>3, <2>4 DEF Bucket!Look, Bucket!Draw, Credit, Account, Brim, Lease
<1>5. ASSUME NEW t \in Threads, Admit(t)
      PROVE  Bucket!Reserve(t)
  <2> DEFINE n == ticks[t]
             spent == IF draining THEN 0 ELSE n
  <2>1. n \in Nat /\ n > 0 /\ spent \in Nat /\ spent <= Refilled[1]
    <3>1. n \in Nat /\ n > 0
      BY <1>5 DEF Admit, TypeOK, TicksInv
    <3>2. draining \/ Refilled[1] >= n
      BY <1>5 DEF Admit, Admissible, CreditFor
    <3>3. Refilled[1] \in Nat
      BY RefilledType, AccountType
    <3> HIDE DEF n
    <3> QED
      BY <3>1, <3>2, <3>3
  <2>2. tokens' = Refilled[1] - spent /\ fraction' = Refilled[2] /\ elapsed' = 0
    BY <1>5 DEF Admit
  <2>3. /\ Credit - spent * Second - Second < Credit'
        /\ Credit' <= Credit - spent * Second
        /\ Credit' \in Nat
    BY <2>1, <2>2, AttemptDraws
  <2>4. /\ Lease[t] = 0 /\ Lease' = [Lease EXCEPT ![t] = n] /\ Lease'[t] = n
        /\ UNCHANGED <<used, draining>>
    BY <1>5 DEF Admit, Waits, Lease, HoldsLease, TypeOK
  <2>5. CASE draining
    <3>1. Credit - 0 - Second < Credit' /\ Credit' <= Credit - 0
      BY <2>3, <2>5, AccountType
    <3> HIDE DEF n
    <3> QED
      BY <2>1, <2>4, <2>5, <3>1 DEF Bucket!Reserve, Bucket!Draw, Credit, Account, Brim, Lease
  <2>6. CASE ~draining
    <3>1. LaneFree /\ active = Cardinality(Leased)
      BY <1>5, <2>6 DEF Admit, Admissible, AdmissionIsExact
    <3>2. Bucket!Running = Leased
      BY RunningIsLeased DEF Bucket!Running, Lease
    <3>3. Lanes = 0 \/ Bucket!Cardinality(Bucket!Running) < Lanes
      BY <3>1, <3>2, SameCardinality DEF LaneFree
    <3>4. /\ Credit - n * Second - Second < Credit' /\ Credit' <= Credit - n * Second
          /\ Credit' >= 0
      BY <2>3, <2>6
    <3> HIDE DEF n
    <3> QED
      BY <2>1, <2>4, <2>6, <3>3, <3>4 DEF Bucket!Reserve, Bucket!Draw, Credit, Account, Brim, Lease
  <2> QED
    BY <2>5, <2>6
<1>6. ASSUME NEW t \in Threads, NEW n \in 0 .. ticks[t], StopJit(t, n)
      PROVE  Bucket!Consume(t)
  <2>1. Lease' = Lease /\ Credit' = Credit /\ Lease[t] = ticks[t]
    BY <1>6 DEF StopJit, bucketVars, Lease, HoldsLease, TypeOK, Credit, Account, Brim, Smaller
  <2>2. /\ used' = [used EXCEPT ![t] = used'[t]] /\ used'[t] \in 0 .. Lease[t]
        /\ UNCHANGED draining
    BY <1>6, <2>1 DEF StopJit, TypeOK
  <2> QED
    BY <2>1, <2>2 DEF Bucket!Consume, Credit, Account, Brim, Lease
<1>7. ASSUME NEW t \in Threads, Release(t)
      PROVE  Bucket!Return(t)
  <2>1. /\ Lease[t] = ticks[t] /\ ticks[t] # 0
        /\ Lease' = [Lease EXCEPT ![t] = 0] /\ used' = [used EXCEPT ![t] = 0]
        /\ UNCHANGED draining
    <3>1. pc[t] = "stopped" /\ pc' = [pc EXCEPT ![t] = "guest"]
      BY <1>7 DEF Release
    <3>2. ticks' = [ticks EXCEPT ![t] = 0] /\ UNCHANGED draining
      BY <1>7 DEF Release
    <3>3. Lease[t] = ticks[t] /\ ticks[t] # 0
      BY <3>1 DEF Lease, HoldsLease, TypeOK, TicksInv
    <3>4. Lease' = [Lease EXCEPT ![t] = 0]
      BY <3>1, <3>2 DEF Lease, HoldsLease, TypeOK
    <3> QED
      BY <1>7, <3>2, <3>3, <3>4 DEF Release
  <2>2. LET c == Credit + (Lease[t] - used[t]) * Second
        IN /\ Credit' <= c /\ Credit' <= Brim
           /\ Credit' = c \/ Credit' >= Capacity * Second
    BY <1>7, <2>1, ReleaseRefunds
  <2> QED
    BY <1>a, <2>1, <2>2 DEF Bucket!Return, Credit, Account, Brim, Lease
<1>8. CASE UNCHANGED vars
  <2>1. UNCHANGED <<Credit, Lease, used, draining>>
    BY <1>8 DEF vars, bucketVars, Credit, Account, Brim, Smaller, Lease, HoldsLease
  <2> QED
    BY <2>1 DEF Bucket!vars, Credit, Account, Brim, Lease
<1> QED
  BY <1>1, <1>2, <1>3, <1>4, <1>5, <1>6, <1>7, <1>8 DEF Next, Attempt, Bucket!Next

\* A full budget with no lease is the bucket's initial state.
LEMMA InitRefinesBucket == Init => Bucket!Init
<1> SUFFICES ASSUME Init
             PROVE  Bucket!Init
  OBVIOUS
<1>1. TypeOK
  BY InitBInv DEF BInv
<1>2. Account = Capacity * Second
  BY <1>1, AccountType DEF Init, Account
<1>3. Credit = Capacity * Second
  BY <1>1, <1>2, AccountType DEF Credit, Brim, Smaller
<1>4. Lease = [t \in Threads |-> 0]
  BY DEF Init, Lease, HoldsLease
<1> QED
  BY <1>3, <1>4 DEF Init, Bucket!Init, Credit, Account, Brim, Lease

\* With a rate, the budget is a token bucket of that rate and size: no order of
\* requests, cancellations, refunds of whole ticks and roundings of the clock lets
\* the threads run more, except the fraction of a tick that Release forgets to
\* clear, or lose as much as a tick at an attempt; no more than Lanes of them run.
THEOREM RateIsKept == ASSUME Rate # 0 PROVE Spec => KeepsRate
<1>1. BInv /\ [Next]_vars => [Bucket!Next]_(Bucket!vars)
  BY StepRefinesBucket
<1>2. Spec => Init /\ [][Next]_vars
  BY DEF Spec
<1> QED
  BY <1>1, <1>2, InitRefinesBucket, BudgetInvariant, PTL DEF KeepsRate, Bucket!Spec

-----------------------------------------------------------------------------
(* The address space.                                                      *)

\* The tables are what UpdateDirectPages makes of the ledger.
TablesInv ==
  /\ direct = {p \in mapped : {"r", "w"} \subseteq prot[p] /\ "x" \notin prot[p]}
  /\ readable = {p \in mapped : "r" \in prot[p]}

\* Mapped pages are backed and above the guard, also those about to be mapped;
\* pages that are being unmapped are no longer in the ledger.
BackingInv ==
  /\ mapped \cap Guard = {}
  /\ Backing(mapped) \subseteq committed
  /\ phase = "committing" => /\ range \cap Guard = {}
                             /\ hosts \subseteq Backing(range)
                             /\ hosts \cap Backing(mapped) = {}
  /\ phase = "releasing" => range \cap mapped = {}

AInv == MemoryTypeOK /\ TablesInv /\ BackingInv

-----------------------------------------------------------------------------
(* What an action does, whichever it is.                                   *)

\* The four ways to begin a mapping and the two to begin an unmapping, by what
\* they have in common.
LEMMA NextCases ==
  ASSUME MemoryNext
  PROVE  \/ \E r \in Ranges, p \in Protections :
              /\ phase = "free" /\ r \cap Guard = {}
              /\ r \cap mapped = {} \/ ~Owned(r)
              /\ BeginMapping(r, p, None) /\ UNCHANGED entries
         \/ \E o \in Owners, r \in Ranges : MapProtectedAnywhere(o, r)
         \/ \E h \in HostPages : Commit(h) \/ ReleaseUnused(h)
         \/ CommitFails
         \/ PublishMapping
         \/ \E r \in Ranges, p \in Protections : Protect(r, p)
         \/ \E r \in Ranges : phase = "free" /\ ~Owned(r) /\ BeginUnmapping(r, None)
         \/ \E o \in Owners, r \in Ranges : UnmapProtected(o, r)
         \/ DecommitThrows
         \/ FinishUnmapping
         \/ OwnerCall
         \/ \E r \in Ranges : PreflightWrite(r)
         \/ \E s \in Snapshots : BeginRestore(s)
         \/ RefuseRestore
         \/ Restore
         \/ CodeStep
<1>1. ASSUME NEW r \in Ranges, NEW p \in Protections,
             Map(r, p) \/ ReplaceAnonymous(r, p) \/ MapAnywhere(r, p)
      PROVE  /\ phase = "free" /\ r \cap Guard = {}
             /\ r \cap mapped = {} \/ ~Owned(r)
             /\ BeginMapping(r, p, None) /\ UNCHANGED entries
  BY <1>1 DEF Map, ReplaceAnonymous, MapAnywhere, Locked, Fits, FirstFit
<1>2. ASSUME NEW r \in Ranges, Unmap(r)
      PROVE  phase = "free" /\ ~Owned(r) /\ BeginUnmapping(r, None)
  BY <1>2 DEF Unmap, Locked
<1> QED
  BY <1>1, <1>2 DEF MemoryNext, MappingCall, MappingStep, SnapshotCall

LEMMA RangesArePages == ASSUME NEW r \in Ranges PROVE r \subseteq Pages /\ r # {}
  BY DEF Ranges, Interval

LEMMA ConstantTypes ==
  /\ NumPages \in Nat /\ Guard \subseteq Pages /\ HostOf \in [Pages -> HostPages]
  /\ \A p \in Protections : p \subseteq {"r", "w", "x"}
  /\ None \notin Owners
  /\ \A s \in Snapshots : s.mapped \subseteq Pages \ Guard /\ s.prot \in [Pages -> Protections]
  /\ \A r \in SUBSET Pages : Backing(r) \subseteq HostPages
  BY AddressSpaceAssumption DEF AddressSpaceAssumption, Backing

\* SetPages changes the ledger as it says and brings the tables up to date.
LEMMA SetPagesType ==
  ASSUME MemoryTypeOK, NEW r \in SUBSET Pages, NEW isMapped \in BOOLEAN,
         NEW p \in SUBSET {"r", "w", "x"}, SetPages(r, isMapped, p)
  PROVE  /\ mapped' = IF isMapped THEN mapped \cup r ELSE mapped \ r
         /\ prot' = [q \in Pages |-> IF q \in r THEN p ELSE prot[q]]
         /\ mapped' \subseteq Pages /\ prot' \in [Pages -> SUBSET {"r", "w", "x"}]
         /\ TablesInv'
         /\ direct' \subseteq Pages /\ readable' \subseteq Pages
<1>1. /\ mapped' = IF isMapped THEN mapped \cup r ELSE mapped \ r
      /\ prot' = [q \in Pages |-> IF q \in r THEN p ELSE prot[q]]
      /\ UpdateDirectPages(mapped', prot')
  BY DEF SetPages
<1>2. TablesInv'
  BY <1>1 DEF UpdateDirectPages, TablesInv
<1>3. mapped' \subseteq Pages /\ prot' \in [Pages -> SUBSET {"r", "w", "x"}]
  BY <1>1 DEF MemoryTypeOK
<1> QED
  BY <1>1, <1>2, <1>3 DEF TablesInv

LEMMA EntriesType ==
  ASSUME MemoryTypeOK, NEW o \in Owners, NEW r \in SUBSET Pages
  PROVE  entries \cup {[owner |-> o, pages |-> r, base |-> base]}
           \subseteq [owner : Owners, pages : SUBSET Pages, base : Nat]
  BY DEF MemoryTypeOK

-----------------------------------------------------------------------------
(* Types, tables and backing.                                              *)

LEMMA InitAInv == MemoryInit => AInv
<1>1. MemoryInit => MemoryTypeOK
  <2>1. MemoryInit => prot \in [Pages -> SUBSET {"r", "w", "x"}]
    BY DEF MemoryInit, NoPages
  <2>2. MemoryInit => refused \in BOOLEAN
    BY DEF MemoryInit
  <2> QED
    BY <2>1, <2>2, ConstantTypes DEF MemoryInit, MemoryTypeOK
<1>2. MemoryInit => TablesInv /\ BackingInv
  BY DEF MemoryInit, TablesInv, BackingInv, Backing
<1> QED
  BY <1>1, <1>2 DEF AInv

LEMMA TypeStep ==
  ASSUME MemoryTypeOK, [MemoryNext]_memoryVars
  PROVE  MemoryTypeOK'
<1> USE RangesArePages, ConstantTypes
<1>1. ASSUME NEW r \in Ranges, NEW p \in Protections, NEW e, NEW o \in Owners \cup {None},
             BeginMapping(r, p, o), entries' = e,
             e \subseteq [owner : Owners, pages : SUBSET Pages, base : Nat]
      PROVE  MemoryTypeOK'
  BY <1>1 DEF BeginMapping, Enter, MemoryTypeOK, ledgerVars, codeVars
<1>2. ASSUME NEW o \in Owners, NEW r \in Ranges, MapProtectedAnywhere(o, r)
      PROVE  MemoryTypeOK'
  <2>1. entries' \subseteq [owner : Owners, pages : SUBSET Pages, base : Nat]
    BY <1>2, EntriesType DEF MapProtectedAnywhere, MemoryTypeOK
  <2> QED
    BY <1>2, <2>1 DEF MapProtectedAnywhere, BeginMapping, Enter, MemoryTypeOK, ledgerVars, codeVars, RW
<1>3. ASSUME NEW h \in HostPages, Commit(h) \/ ReleaseUnused(h)
      PROVE  MemoryTypeOK'
  BY <1>3 DEF Commit, ReleaseUnused, MemoryTypeOK, ledgerVars, ownerVars, codeVars
<1>4. CASE CommitFails
  <2>1. committed' \subseteq HostPages
    BY <1>4 DEF CommitFails, MemoryTypeOK
  <2>2. entries' \subseteq entries
    BY <1>4 DEF CommitFails
  <2> QED
    BY <1>4, <2>1, <2>2 DEF CommitFails, Leave, Enter, MemoryTypeOK, ledgerVars, codeVars
<1>5. CASE PublishMapping
  <2>1. /\ mapped' \subseteq Pages /\ prot' \in [Pages -> SUBSET {"r", "w", "x"}]
        /\ direct' \subseteq Pages /\ readable' \subseteq Pages
    BY <1>5, SetPagesType DEF PublishMapping, MemoryTypeOK
  <2> QED
    BY <1>5, <2>1 DEF PublishMapping, Leave, Enter, Outdate, Announce, MemoryTypeOK, ownerVars
<1>6. ASSUME NEW r \in Ranges, NEW p \in Protections, Protect(r, p)
      PROVE  MemoryTypeOK'
  <2>1. /\ mapped' \subseteq Pages /\ prot' \in [Pages -> SUBSET {"r", "w", "x"}]
        /\ direct' \subseteq Pages /\ readable' \subseteq Pages
    BY <1>6, SetPagesType DEF Protect
  <2> QED
    BY <1>6, <2>1 DEF Protect, Outdate, Announce, MemoryTypeOK, ownerVars, callVars
<1>7. ASSUME NEW r \in Ranges, NEW o \in Owners \cup {None}, BeginUnmapping(r, o)
      PROVE  MemoryTypeOK'
  <2>1. /\ mapped' \subseteq Pages /\ prot' \in [Pages -> SUBSET {"r", "w", "x"}]
        /\ direct' \subseteq Pages /\ readable' \subseteq Pages
    BY <1>7, SetPagesType DEF BeginUnmapping
  <2> QED
    BY <1>7, <2>1 DEF BeginUnmapping, Enter, Outdate, MemoryTypeOK, ownerVars
<1>8. CASE DecommitThrows
  BY <1>8 DEF DecommitThrows, Leave, Enter, MemoryTypeOK, ledgerVars, ownerVars, codeVars
<1>9. CASE FinishUnmapping
  <2>1. entries' \subseteq entries
    BY <1>9 DEF FinishUnmapping
  <2> QED
    BY <1>9, <2>1 DEF FinishUnmapping, Leave, Enter, Announce, MemoryTypeOK, ledgerVars
<1>10. CASE OwnerCall
  BY <1>10 DEF OwnerCall, RegisterOwner, UnregisterOwner, MemoryTypeOK, ledgerVars, callVars, codeVars
<1>11. ASSUME NEW r \in Ranges, PreflightWrite(r)
       PROVE  MemoryTypeOK'
  BY <1>11 DEF PreflightWrite, MemoryTypeOK, ledgerVars, ownerVars, callVars, codeVars
<1>12. CASE RefuseRestore \/ \E s \in Snapshots : BeginRestore(s)
  BY <1>12 DEF RefuseRestore, BeginRestore, MemoryTypeOK, ledgerVars, ownerVars, callVars, codeVars
<1>13. CASE Restore
  <2>1. restoring \in Snapshots
    BY <1>13 DEF Restore, MemoryTypeOK
  <2>2. mapped' \subseteq Pages /\ prot' \in [Pages -> SUBSET {"r", "w", "x"}]
    BY <1>13, <2>1 DEF Restore
  <2>3. direct' \subseteq Pages /\ readable' \subseteq Pages
    BY <1>13, <2>1 DEF Restore, UpdateDirectPages
  <2>4. committed' \subseteq HostPages
    BY <1>13, <2>1 DEF Restore
  <2> QED
    BY <1>13, <2>2, <2>3, <2>4 DEF Restore, Outdate, Announce, MemoryTypeOK, callVars
<1>14. CASE CodeStep
  BY <1>14 DEF CodeStep, Translate, PublishMappingChange, MemoryTypeOK, ledgerVars, ownerVars, callVars
<1>15. CASE UNCHANGED memoryVars
  BY <1>15 DEF memoryVars, MemoryTypeOK, ledgerVars, ownerVars, callVars, codeVars
<1>16. ASSUME NEW r \in Ranges, NEW p \in Protections, BeginMapping(r, p, None), UNCHANGED entries
       PROVE  MemoryTypeOK'
  BY <1>16, <1>1 DEF MemoryTypeOK
<1>17. ASSUME NEW o \in Owners, NEW r \in Ranges, UnmapProtected(o, r)
       PROVE  MemoryTypeOK'
  BY <1>17, <1>7 DEF UnmapProtected
<1>18. ASSUME NEW r \in Ranges, BeginUnmapping(r, None)
       PROVE  MemoryTypeOK'
  BY <1>18, <1>7
<1>19. CASE MemoryNext
  BY <1>19, <1>2, <1>3, <1>4, <1>5, <1>6, <1>8, <1>9, <1>10, <1>11, <1>12, <1>13, <1>14,
     <1>16, <1>17, <1>18, NextCases
<1> QED
  BY <1>15, <1>19

\* A step leaves the ledger alone or brings the tables up to date.
LEMMA TablesStep ==
  ASSUME AInv, [MemoryNext]_memoryVars
  PROVE  TablesInv'
<1> USE RangesArePages, ConstantTypes DEF AInv
<1>1. CASE UNCHANGED ledgerVars
  BY <1>1 DEF TablesInv, ledgerVars
<1>2. CASE UpdateDirectPages(mapped', prot')
  BY <1>2 DEF UpdateDirectPages, TablesInv
<1>3. CASE PublishMapping
  BY <1>3, <1>2 DEF PublishMapping, SetPages
<1>4. CASE \E r \in Ranges, p \in Protections : Protect(r, p)
  BY <1>4, <1>2 DEF Protect, SetPages
<1>5. ASSUME NEW r \in Ranges, NEW o, BeginUnmapping(r, o)
      PROVE  TablesInv'
  BY <1>5, <1>2 DEF BeginUnmapping, SetPages
<1>6. CASE Restore
  BY <1>6, <1>2 DEF Restore
<1>7. CASE UNCHANGED memoryVars
  BY <1>7, <1>1 DEF memoryVars
<1>8. CASE MemoryNext
  <2>1. ASSUME NEW r, NEW p, NEW o, BeginMapping(r, p, o) PROVE UNCHANGED ledgerVars
    BY <2>1 DEF BeginMapping
  <2>2. CASE \E o \in Owners, r \in Ranges : MapProtectedAnywhere(o, r)
    BY <2>2, <2>1, <1>1 DEF MapProtectedAnywhere
  <2>3. CASE \E h \in HostPages : Commit(h) \/ ReleaseUnused(h)
    BY <2>3, <1>1 DEF Commit, ReleaseUnused
  <2>4. CASE CommitFails \/ DecommitThrows \/ FinishUnmapping \/ OwnerCall \/ RefuseRestore \/ CodeStep
    BY <2>4, <1>1 DEF CommitFails, DecommitThrows, FinishUnmapping, OwnerCall, RegisterOwner,
       UnregisterOwner, RefuseRestore, CodeStep, Translate, PublishMappingChange
  <2>5. CASE \/ \E r \in Ranges : PreflightWrite(r)
             \/ \E s \in Snapshots : BeginRestore(s)
    BY <2>5, <1>1 DEF PreflightWrite, BeginRestore
  <2>6. CASE \E o \in Owners, r \in Ranges : UnmapProtected(o, r)
    BY <2>6, <1>5 DEF UnmapProtected
  <2> QED
    BY <1>8, <1>1, <1>3, <1>4, <1>5, <1>6, <2>1, <2>2, <2>3, <2>4, <2>5, <2>6, NextCases
<1> QED
  BY <1>7, <1>8

\* The host pages of mapped pages stay committed: what a mapping that fails gives
\* back is its own, and what an unmapping gives back is nobody's.
LEMMA BackingStep ==
  ASSUME AInv, [MemoryNext]_memoryVars
  PROVE  BackingInv'
<1> USE RangesArePages, ConstantTypes DEF AInv
<1>1. ASSUME NEW r \in Ranges, NEW p, NEW o, r \cap Guard = {}, BeginMapping(r, p, o)
      PROVE  BackingInv'
  BY <1>1 DEF BeginMapping, Enter, ledgerVars, BackingInv, Backing
<1>2. ASSUME NEW o \in Owners, NEW r \in Ranges, MapProtectedAnywhere(o, r)
      PROVE  BackingInv'
  BY <1>2, <1>1 DEF MapProtectedAnywhere, FirstFit, Fits
<1>3. ASSUME NEW h \in HostPages, Commit(h)
      PROVE  BackingInv'
  BY <1>3 DEF Commit, ledgerVars, BackingInv, Backing
<1>4. ASSUME NEW h \in HostPages, ReleaseUnused(h)
      PROVE  BackingInv'
  BY <1>4 DEF ReleaseUnused, ledgerVars, BackingInv, Backing
<1>5. CASE CommitFails
  <2>1. Backing(mapped) \subseteq committed'
    BY <1>5 DEF CommitFails, BackingInv
  <2> QED
    BY <1>5, <2>1 DEF CommitFails, Leave, Enter, ledgerVars, BackingInv, Backing
<1>6. CASE PublishMapping
  <2>1. mapped' = mapped \cup range
    BY <1>6, SetPagesType DEF PublishMapping, MemoryTypeOK
  <2> QED
    BY <1>6, <2>1 DEF PublishMapping, Leave, Enter, BackingInv, Backing
<1>7. ASSUME NEW r \in Ranges, NEW p \in Protections, Protect(r, p)
      PROVE  BackingInv'
  <2>1. mapped' = mapped \cup r /\ r \subseteq mapped
    BY <1>7, SetPagesType DEF Protect
  <2> QED
    BY <1>7, <2>1 DEF Protect, callVars, Locked, BackingInv, Backing
<1>8. ASSUME NEW r \in Ranges, NEW o, BeginUnmapping(r, o)
      PROVE  BackingInv'
  <2>1. mapped' = mapped \ r
    BY <1>8, SetPagesType DEF BeginUnmapping
  <2> QED
    BY <1>8, <2>1 DEF BeginUnmapping, Enter, BackingInv, Backing
<1>9. CASE DecommitThrows \/ FinishUnmapping
  BY <1>9 DEF DecommitThrows, FinishUnmapping, Leave, Enter, ledgerVars, BackingInv, Backing
<1>10. CASE Restore
  <2>1. restoring \in Snapshots
    BY <1>10 DEF Restore, MemoryTypeOK
  <2> QED
    BY <1>10, <2>1 DEF Restore, Locked, callVars, BackingInv, Backing
<1>11. CASE \/ OwnerCall \/ RefuseRestore \/ CodeStep \/ UNCHANGED memoryVars
            \/ \E r \in Ranges : PreflightWrite(r)
            \/ \E s \in Snapshots : BeginRestore(s)
  BY <1>11 DEF OwnerCall, RegisterOwner, UnregisterOwner, RefuseRestore, CodeStep, Translate,
     PublishMappingChange, memoryVars, PreflightWrite, BeginRestore, ledgerVars, callVars, BackingInv,
     Backing
<1>12. ASSUME NEW o \in Owners, NEW r \in Ranges, UnmapProtected(o, r)
       PROVE  BackingInv'
  BY <1>12, <1>8 DEF UnmapProtected
<1> QED
  BY <1>1, <1>2, <1>3, <1>4, <1>5, <1>6, <1>7, <1>8, <1>9, <1>10, <1>11, <1>12, NextCases

\* The ledger, the tables and the backing are consistent at every moment.
THEOREM LedgerConsistent == MemorySpec => []AInv
<1>1. AInv /\ [MemoryNext]_memoryVars => AInv'
  BY TypeStep, TablesStep, BackingStep DEF AInv
<1> QED
  BY <1>1, InitAInv, PTL DEF MemorySpec

\* Every variable keeps its type, whatever the sizes.
THEOREM MemoryTypeCorrect == MemorySpec => []MemoryTypeOK
<1>1. AInv => MemoryTypeOK
  BY DEF AInv
<1> QED
  BY <1>1, LedgerConsistent, PTL

\* Generated code finds only backed pages that the ledger allows it
\* (UpdateDirectPages, EnsureHostBacking, ReleaseUnusedHostBacking), also when the
\* host refuses to commit or to decommit.
THEOREM TablesBacked == MemorySpec => []TablesAreBacked
<1>1. AInv => TablesAreBacked
  <2>1. ASSUME AInv, NEW p \in direct PROVE prot[p] = RW
    BY <2>1 DEF AInv, MemoryTypeOK, TablesInv, RW
  <2> QED
    BY <2>1 DEF AInv, MemoryTypeOK, TablesInv, BackingInv, Backing, TablesAreBacked
<1> QED
  BY <1>1, LedgerConsistent, PTL

-----------------------------------------------------------------------------
(* A refusal of the host is not forgotten.                                 *)

LEMMA RefusalLasts ==
  ASSUME MemoryTypeOK, [MemoryNext]_memoryVars, refused' = FALSE
  PROVE  refused = FALSE
<1>1. CASE UNCHANGED refused
  BY <1>1
<1>2. CASE CommitFails \/ DecommitThrows
  BY <1>2 DEF CommitFails, DecommitThrows, MemoryTypeOK
<1>3. ASSUME NEW r, NEW p, NEW o, BeginMapping(r, p, o) \/ BeginUnmapping(r, o)
      PROVE  UNCHANGED refused
  BY <1>3 DEF BeginMapping, BeginUnmapping
<1>4. CASE \/ \E o \in Owners, r \in Ranges : MapProtectedAnywhere(o, r) \/ UnmapProtected(o, r)
           \/ \E r \in Ranges, p \in Protections : Protect(r, p)
           \/ \E r \in Ranges : PreflightWrite(r)
  BY <1>1, <1>3, <1>4 DEF MapProtectedAnywhere, UnmapProtected, Protect, PreflightWrite
<1>5. CASE \/ \E h \in HostPages : Commit(h) \/ ReleaseUnused(h)
           \/ PublishMapping \/ FinishUnmapping \/ OwnerCall \/ CodeStep
  BY <1>1, <1>5 DEF Commit, ReleaseUnused, PublishMapping, FinishUnmapping, OwnerCall, RegisterOwner,
     UnregisterOwner, CodeStep, Translate, PublishMappingChange
<1>6. CASE \/ RefuseRestore \/ Restore \/ UNCHANGED memoryVars
           \/ \E s \in Snapshots : BeginRestore(s)
  BY <1>1, <1>6 DEF RefuseRestore, Restore, BeginRestore, memoryVars
<1> QED
  BY <1>1, <1>2, <1>3, <1>4, <1>5, <1>6, NextCases

-----------------------------------------------------------------------------
(* Host memory that nobody uses.                                           *)

\* Beyond what mapped pages need, only what a mapping has just added and what an
\* unmapping has still to look at is committed.
IdleInv ==
  committed \subseteq Backing(mapped) \cup (IF phase = "free" THEN {} ELSE hosts)

LEMMA IdleStep ==
  ASSUME AInv, IdleInv, [MemoryNext]_memoryVars, refused' = FALSE
  PROVE  IdleInv'
<1> USE RangesArePages, ConstantTypes DEF AInv
<1>1. ASSUME NEW r \in Ranges, NEW p, NEW o, phase = "free", BeginMapping(r, p, o)
      PROVE  IdleInv'
  BY <1>1 DEF BeginMapping, Enter, ledgerVars, IdleInv, Backing
<1>2. ASSUME NEW o \in Owners, NEW r \in Ranges, MapProtectedAnywhere(o, r)
      PROVE  IdleInv'
  BY <1>2, <1>1 DEF MapProtectedAnywhere, Locked
<1>3. ASSUME NEW h \in HostPages, Commit(h) \/ ReleaseUnused(h)
      PROVE  IdleInv'
  BY <1>3 DEF Commit, ReleaseUnused, ledgerVars, IdleInv, Backing
<1>4. CASE CommitFails
  <2>1. committed' = committed \ hosts
    BY <1>4 DEF CommitFails
  <2> QED
    BY <1>4, <2>1 DEF CommitFails, Leave, Enter, ledgerVars, IdleInv, Backing
<1>5. CASE PublishMapping
  <2>1. mapped' = mapped \cup range
    BY <1>5, SetPagesType DEF PublishMapping, MemoryTypeOK
  <2> QED
    BY <1>5, <2>1 DEF PublishMapping, Leave, Enter, BackingInv, IdleInv, Backing
<1>6. ASSUME NEW r \in Ranges, NEW p \in Protections, Protect(r, p)
      PROVE  IdleInv'
  <2>1. mapped' = mapped \cup r /\ r \subseteq mapped
    BY <1>6, SetPagesType DEF Protect
  <2> QED
    BY <1>6, <2>1 DEF Protect, callVars, Locked, IdleInv, Backing
<1>7. ASSUME NEW r \in Ranges, NEW o, phase = "free", BeginUnmapping(r, o)
      PROVE  IdleInv'
  <2>1. mapped' = mapped \ r
    BY <1>7, SetPagesType DEF BeginUnmapping
  <2> QED
    BY <1>7, <2>1 DEF BeginUnmapping, Enter, IdleInv, Backing
<1>8. CASE FinishUnmapping
  BY <1>8 DEF FinishUnmapping, Leave, Enter, ledgerVars, IdleInv
<1>9. CASE Restore
  BY <1>9 DEF Restore, Locked, callVars, IdleInv
<1>10. CASE \/ OwnerCall \/ RefuseRestore \/ CodeStep \/ UNCHANGED memoryVars
            \/ \E r \in Ranges : PreflightWrite(r)
            \/ \E s \in Snapshots : BeginRestore(s)
  BY <1>10 DEF OwnerCall, RegisterOwner, UnregisterOwner, RefuseRestore, CodeStep, Translate,
     PublishMappingChange, memoryVars, PreflightWrite, BeginRestore, ledgerVars, callVars, IdleInv,
     Backing
<1>11. ASSUME NEW o \in Owners, NEW r \in Ranges, UnmapProtected(o, r)
       PROVE  IdleInv'
  BY <1>11, <1>7 DEF UnmapProtected, Locked
<1> QED
  BY <1>1, <1>2, <1>3, <1>4, <1>5, <1>6, <1>7, <1>8, <1>9, <1>10, <1>11, NextCases
     DEF DecommitThrows

\* Until the host has refused a decommit, no mapping and no unmapping leaves a
\* host page committed that no guest page needs.
THEOREM NothingIdle == MemorySpec => []NoIdleBacking
<1> DEFINE Idle == refused = FALSE => IdleInv
<1>1. MemoryInit => Idle
  BY DEF MemoryInit, IdleInv
<1>2. AInv /\ Idle /\ [MemoryNext]_memoryVars => Idle'
  <2>1. SUFFICES ASSUME AInv, Idle, [MemoryNext]_memoryVars, refused' = FALSE
                 PROVE  IdleInv'
    OBVIOUS
  <2>2. IdleInv
    BY <2>1, RefusalLasts DEF AInv
  <2> QED
    BY <2>1, <2>2, IdleStep
<1>3. AInv /\ Idle => NoIdleBacking
  BY DEF AInv, MemoryTypeOK, BackingInv, IdleInv, NoIdleBacking
<1> HIDE DEF Idle
<1> QED
  BY <1>1, <1>2, <1>3, LedgerConsistent, PTL DEF MemorySpec

-----------------------------------------------------------------------------
(* Prevalidated writes.                                                    *)

\* A ticket is never newer than the ledger, and one of this generation is good
\* unless an unmapping is under way, which will end the generation.
TicketInv ==
  /\ ticket.generation <= generation
  /\ phase # "releasing" /\ ticket.generation = generation => Writable(ticket.pages)

LEMMA TicketStep ==
  ASSUME MemoryTypeOK, TicketInv, [MemoryNext]_memoryVars, refused' = FALSE
  PROVE  TicketInv'
<1> USE RangesArePages
<1>1. CASE UNCHANGED <<mapped, prot, ticket, generation>> /\ (phase = "releasing" => phase' = "releasing")
  BY <1>1 DEF TicketInv, Writable
<1>2. CASE generation' = generation + 1 /\ UNCHANGED ticket
  BY <1>2 DEF TicketInv, MemoryTypeOK
<1>3. ASSUME NEW r \in Ranges, PreflightWrite(r)
      PROVE  TicketInv'
  BY <1>3 DEF PreflightWrite, TicketInv, MemoryTypeOK, Writable, ledgerVars
<1>4. ASSUME NEW r, NEW p, NEW o, phase = "free", BeginMapping(r, p, o)
      PROVE  TicketInv'
  BY <1>4, <1>1 DEF BeginMapping, Enter, ledgerVars
<1>5. ASSUME NEW r, NEW o, BeginUnmapping(r, o)
      PROVE  TicketInv'
  BY <1>5 DEF BeginUnmapping, Enter, TicketInv
<1>6. CASE PublishMapping \/ FinishUnmapping \/ Restore
           \/ \E r \in Ranges, p \in Protections : Protect(r, p)
  BY <1>6, <1>2 DEF PublishMapping, FinishUnmapping, Restore, Protect
<1>7. CASE CommitFails \/ \E h \in HostPages : Commit(h) \/ ReleaseUnused(h)
  BY <1>7, <1>1 DEF CommitFails, Commit, ReleaseUnused, Leave, Enter, ledgerVars
<1>8. CASE OwnerCall \/ RefuseRestore \/ CodeStep \/ UNCHANGED memoryVars
           \/ \E s \in Snapshots : BeginRestore(s)
  BY <1>8, <1>1 DEF OwnerCall, RegisterOwner, UnregisterOwner, RefuseRestore, CodeStep,
     Translate, PublishMappingChange, memoryVars, BeginRestore, ledgerVars, callVars
<1>9. CASE \/ \E o \in Owners, r \in Ranges : MapProtectedAnywhere(o, r) \/ UnmapProtected(o, r)
  BY <1>9, <1>4, <1>5 DEF MapProtectedAnywhere, UnmapProtected, Locked
<1> QED
  BY <1>3, <1>4, <1>5, <1>6, <1>7, <1>8, <1>9, NextCases DEF DecommitThrows

\* Until the host has refused a decommit, WritePrevalidated never writes a page
\* that is not mapped and writable.
THEOREM TicketsHold == MemorySpec => []TicketHolds
<1> DEFINE Good == refused = FALSE => TicketInv
<1>1. MemoryInit => Good
  BY DEF MemoryInit, TicketInv, Writable
<1>2. MemoryTypeOK /\ Good /\ [MemoryNext]_memoryVars => Good'
  <2>1. SUFFICES ASSUME MemoryTypeOK, Good, [MemoryNext]_memoryVars, refused' = FALSE
                 PROVE  TicketInv'
    OBVIOUS
  <2>2. TicketInv
    BY <2>1, RefusalLasts
  <2> QED
    BY <2>1, <2>2, TicketStep
<1>3. MemoryTypeOK /\ Good => TicketHolds
  BY DEF MemoryTypeOK, TicketInv, TicketHolds
<1> HIDE DEF Good
<1> QED
  BY <1>1, <1>2, <1>3, MemoryTypeCorrect, PTL DEF MemorySpec

-----------------------------------------------------------------------------
(* Translations.                                                           *)

LEMMA StaleStep ==
  ASSUME MemoryTypeOK, StaleIsAnnounced, [MemoryNext]_memoryVars, refused = FALSE, refused' = FALSE
  PROVE  StaleIsAnnounced'
<1> USE RangesArePages
<1>1. CASE UNCHANGED <<stale, announcing>> /\ (phase = "releasing" => UNCHANGED <<phase, range>>)
  BY <1>1 DEF StaleIsAnnounced
<1>2. ASSUME NEW r \in SUBSET Pages, Outdate(r), Announce(r), phase # "releasing"
      PROVE  StaleIsAnnounced'
  BY <1>2 DEF Outdate, Announce, StaleIsAnnounced
<1>3. ASSUME NEW r, NEW o, phase = "free", BeginUnmapping(r, o)
      PROVE  StaleIsAnnounced'
  BY <1>3 DEF BeginUnmapping, Enter, Outdate, StaleIsAnnounced
<1>4. CASE FinishUnmapping
  BY <1>4 DEF FinishUnmapping, Announce, StaleIsAnnounced
<1>5. ASSUME NEW r \in announcing, PublishMappingChange(r)
      PROVE  StaleIsAnnounced'
  BY <1>5 DEF PublishMappingChange, callVars, StaleIsAnnounced
<1>6. CASE PublishMapping
  BY <1>6, <1>2 DEF PublishMapping, MemoryTypeOK
<1>7. CASE \E r \in Ranges, p \in Protections : Protect(r, p)
  BY <1>7, <1>2 DEF Protect, Locked
<1>8. CASE Restore
  BY <1>8, <1>2 DEF Restore, Locked
<1>9. ASSUME NEW r, NEW p, NEW o, phase = "free", BeginMapping(r, p, o)
      PROVE  StaleIsAnnounced'
  BY <1>9, <1>1 DEF BeginMapping, codeVars
<1>10. CASE CommitFails \/ OwnerCall \/ RefuseRestore \/ UNCHANGED memoryVars
            \/ (\E h \in HostPages : Commit(h) \/ ReleaseUnused(h))
            \/ (\E r \in Ranges : PreflightWrite(r))
            \/ (\E s \in Snapshots : BeginRestore(s))
            \/ \E p \in Pages : Translate(p)
  BY <1>10, <1>1 DEF CommitFails, OwnerCall, RegisterOwner, UnregisterOwner, RefuseRestore, memoryVars,
     Commit, ReleaseUnused, PreflightWrite, BeginRestore, Translate, codeVars, callVars
<1>11. CASE \E o \in Owners, r \in Ranges : MapProtectedAnywhere(o, r) \/ UnmapProtected(o, r)
  BY <1>11, <1>3, <1>9 DEF MapProtectedAnywhere, UnmapProtected, Locked
<1> QED
  BY <1>3, <1>4, <1>5, <1>6, <1>7, <1>8, <1>9, <1>10, <1>11, NextCases DEF DecommitThrows, CodeStep

\* Until the host has refused a decommit, every mapping change is told to the
\* observers before its call returns (PublishMappingChange).
THEOREM StaleCodeIsAnnounced == MemorySpec => []StaleIsAnnounced
<1>1. MemoryInit => StaleIsAnnounced
  BY DEF MemoryInit, StaleIsAnnounced
<1>2. MemoryTypeOK /\ StaleIsAnnounced /\ [MemoryNext]_memoryVars => StaleIsAnnounced'
  <2>1. SUFFICES ASSUME MemoryTypeOK, StaleIsAnnounced, [MemoryNext]_memoryVars, ~refused'
                 PROVE  StaleIsAnnounced'
    BY DEF StaleIsAnnounced
  <2>2. MemoryTypeOK'
    BY <2>1, TypeStep
  <2>3. refused' = FALSE
    BY <2>1, <2>2 DEF MemoryTypeOK
  <2> QED
    BY <2>1, <2>3, RefusalLasts, StaleStep
<1> QED
  BY <1>1, <1>2, MemoryTypeCorrect, PTL DEF MemorySpec

-----------------------------------------------------------------------------
(* The ranges of owners.                                                   *)

\* The call that holds the mutex works on exactly one entry, or on none and then
\* on pages of nobody.
AtWork(e) == phase # "free" /\ who = e.owner /\ range = e.pages

EntryInv ==
  /\ \A e \in entries : e.owner \in owners /\ e.pages \in Ranges
  /\ \A d, e \in entries : d = e \/ d.pages \cap e.pages = {}
  /\ phase # "free" /\ who # None =>
       /\ \E e \in entries : AtWork(e)
       /\ phase = "committing" => range \cap mapped = {} /\ want = RW
                                  /\ \A e \in entries : AtWork(e) => e.base = base
  /\ phase # "free" /\ who = None => \A e \in entries : e.pages \cap range = {}

PInv == MemoryTypeOK /\ EntryInv /\ PayloadStays /\ refused = FALSE

LEMMA RangeStarts ==
  ASSUME NEW r \in Ranges
  PROVE  \E a \in Pages : StartsAt(r, a)
<1>1. PICK a \in Pages, b \in Pages : r = Interval(a, b) /\ r # {}
  BY DEF Ranges
<1>2. a <= b
  BY <1>1, ConstantTypes DEF Interval, Pages
<1>3. StartsAt(r, a)
  BY <1>1, <1>2, ConstantTypes DEF Interval, StartsAt, Pages
<1> QED
  BY <1>3

\* While no call is under way every entry is whole.
LEMMA WholeEntry ==
  ASSUME PInv, phase = "free", NEW e \in entries
  PROVE  e.pages \subseteq mapped /\ e.base = base /\ \A p \in e.pages : prot[p] = RW
  BY DEF PInv, PayloadStays

LEMMA EntryStep ==
  ASSUME PInv, [MemoryNext]_memoryVars, refused' = FALSE
  PROVE  EntryInv' /\ PayloadStays'
<1> USE RangesArePages, ConstantTypes DEF PInv
<1>1. CASE UNCHANGED <<entries, owners, base, mapped, prot, phase, range, who, want>>
  BY <1>1 DEF EntryInv, PayloadStays, AtWork
<1>2. ASSUME NEW r \in Ranges, NEW p \in Protections, phase = "free",
             r \cap mapped = {} \/ ~Owned(r), BeginMapping(r, p, None), UNCHANGED entries
      PROVE  EntryInv' /\ PayloadStays'
  <2>1. \A e \in entries : e.pages \cap r = {}
    BY <1>2, WholeEntry DEF Owned
  <2> QED
    BY <1>2, <2>1, WholeEntry
       DEF BeginMapping, Enter, ledgerVars, EntryInv, PayloadStays, AtWork
<1>3. ASSUME NEW o \in Owners, NEW r \in Ranges, MapProtectedAnywhere(o, r)
      PROVE  EntryInv' /\ PayloadStays'
  <2>1. /\ phase = "free" /\ o \in owners /\ r \cap mapped = {}
        /\ BeginMapping(r, RW, o)
    BY <1>3 DEF MapProtectedAnywhere, Locked, FirstFit, Fits
  <2>2. \A e \in entries : e.pages \cap r = {}
    BY <2>1, WholeEntry
  <2> DEFINE new == [owner |-> o, pages |-> r, base |-> base]
  <2>3. entries' = entries \cup {new}
    BY <1>3, <2>2 DEF MapProtectedAnywhere, StartsAt
  <2>4. new.owner = o /\ new.pages = r /\ new.base = base
    OBVIOUS
  <2>5. /\ phase' = "committing" /\ range' = r /\ who' = o /\ want' = RW
        /\ UNCHANGED <<mapped, prot, base, owners>>
    BY <2>1 DEF BeginMapping, Enter, ledgerVars
  <2> HIDE DEF new
  <2>6. EntryInv'
    BY <2>1, <2>2, <2>3, <2>4, <2>5 DEF EntryInv, AtWork
  <2>7. PayloadStays'
    BY <2>1, <2>3, <2>4, <2>5, WholeEntry DEF PayloadStays
  <2> QED
    BY <2>6, <2>7
<1>4. CASE \E h \in HostPages : Commit(h) \/ ReleaseUnused(h)
  BY <1>4, <1>1 DEF Commit, ReleaseUnused, ledgerVars, ownerVars
<1>5. CASE CommitFails
  <2>1. phase = "committing" /\ phase' = "free" /\ UNCHANGED <<mapped, prot, base, owners>>
    BY <1>5 DEF CommitFails, Leave, Enter, ledgerVars
  <2>2. entries' \subseteq entries
    BY <1>5 DEF CommitFails
  <2>3. ASSUME NEW e \in entries' PROVE ~AtWork(e)
    BY <1>5, <2>3, <2>2, RangeStarts DEF CommitFails, AtWork, EntryInv, MemoryTypeOK
  <2> QED
    BY <2>1, <2>2, <2>3 DEF EntryInv, PayloadStays, AtWork
<1>6. CASE PublishMapping
  <2>1. /\ phase = "committing" /\ phase' = "free" /\ UNCHANGED <<base, owners, entries>>
        /\ mapped' = mapped \cup range
        /\ prot' = [q \in Pages |-> IF q \in range THEN want ELSE prot[q]]
    BY <1>6, SetPagesType DEF PublishMapping, Leave, Enter, MemoryTypeOK, ownerVars
  <2>2. ASSUME NEW e \in entries
        PROVE  e.pages \subseteq mapped' /\ e.base = base /\ \A p \in e.pages : prot'[p] = RW
    <3>1. e.pages \subseteq Pages
      BY DEF MemoryTypeOK
    <3>2. CASE AtWork(e)
      BY <2>1, <3>1, <3>2 DEF EntryInv, AtWork, MemoryTypeOK
    <3>3. CASE ~AtWork(e)
      <4>1. e.pages \cap range = {}
        BY <2>1, <3>3 DEF EntryInv, AtWork
      <4>2. e.pages \subseteq mapped /\ e.base = base /\ \A p \in e.pages : prot[p] = RW
        BY <3>3 DEF PayloadStays, AtWork
      <4> QED
        BY <2>1, <3>1, <4>1, <4>2
    <3> QED
      BY <3>2, <3>3
  <2> QED
    BY <2>1, <2>2 DEF EntryInv, PayloadStays
<1>7. ASSUME NEW r \in Ranges, NEW p \in Protections, Protect(r, p)
      PROVE  EntryInv' /\ PayloadStays'
  <2>1. /\ phase = "free" /\ phase' = "free" /\ UNCHANGED <<base, owners, entries>>
        /\ mapped' = mapped \cup r
        /\ prot' = [q \in Pages |-> IF q \in r THEN p ELSE prot[q]]
        /\ \A e \in entries : e.pages \cap r = {} /\ e.pages \subseteq Pages
    BY <1>7, SetPagesType DEF Protect, Locked, Owned, MemoryTypeOK, ownerVars, callVars
  <2> QED
    BY <2>1, WholeEntry DEF EntryInv, PayloadStays
<1>8. ASSUME NEW r \in Ranges, NEW o \in Owners \cup {None}, phase = "free", BeginUnmapping(r, o),
             IF o = None THEN ~Owned(r) ELSE \E e \in entries : e.owner = o /\ e.pages = r
      PROVE  EntryInv' /\ PayloadStays'
  <2>1. /\ mapped' = mapped \ r
        /\ prot' = [q \in Pages |-> IF q \in r THEN {} ELSE prot[q]]
    BY <1>8 DEF BeginUnmapping, SetPages
  <2>4. /\ phase' = "releasing" /\ range' = r /\ who' = o
        /\ UNCHANGED <<base, owners, entries>>
    BY <1>8 DEF BeginUnmapping, Enter, ownerVars
  <2>2. ASSUME NEW e \in entries, ~(e.owner = o /\ e.pages = r)
        PROVE  e.pages \cap r = {}
    BY <1>8, <2>2 DEF Owned, EntryInv
  <2>3. PayloadStays'
    <3>1. SUFFICES ASSUME NEW e \in entries, ~(e.owner = o /\ e.pages = r)
                   PROVE  /\ e.pages \subseteq mapped' /\ e.base = base
                          /\ \A p \in e.pages : prot'[p] = RW
      BY <2>4 DEF PayloadStays
    <3>2. e.pages \cap r = {} /\ e.pages \subseteq Pages
      BY <2>2, <3>1 DEF MemoryTypeOK
    <3>3. e.pages \subseteq mapped /\ e.base = base /\ \A p \in e.pages : prot[p] = RW
      BY <1>8, WholeEntry
    <3> QED
      BY <2>1, <3>2, <3>3
  <2> QED
    BY <1>8, <2>4, <2>3 DEF EntryInv, AtWork, Owned
<1>9. CASE FinishUnmapping
  <2>1. /\ phase = "releasing" /\ phase' = "free" /\ UNCHANGED <<mapped, prot, base, owners>>
        /\ entries' = {e \in entries : ~AtWork(e)}
    BY <1>9 DEF FinishUnmapping, Leave, Enter, ledgerVars, AtWork, MemoryTypeOK
  <2> QED
    BY <2>1 DEF EntryInv, PayloadStays, AtWork
<1>10. CASE OwnerCall
  BY <1>10 DEF OwnerCall, RegisterOwner, UnregisterOwner, ledgerVars, callVars, EntryInv,
     PayloadStays, AtWork
<1>11. CASE Restore
  <2>1. entries = {} /\ entries' = {} /\ phase' = "free"
    BY <1>11 DEF Restore, Locked, callVars, EntryInv
  <2> QED
    BY <2>1 DEF EntryInv, PayloadStays
<1>12. CASE \/ RefuseRestore \/ CodeStep \/ UNCHANGED memoryVars
            \/ \E r \in Ranges : PreflightWrite(r)
            \/ \E s \in Snapshots : BeginRestore(s)
  BY <1>12, <1>1 DEF RefuseRestore, CodeStep, Translate, PublishMappingChange, memoryVars,
     PreflightWrite, BeginRestore, ledgerVars, ownerVars, callVars
<1>13. ASSUME NEW o \in Owners, NEW r \in Ranges, UnmapProtected(o, r)
       PROVE  EntryInv' /\ PayloadStays'
  BY <1>13, <1>8 DEF UnmapProtected, Locked
<1> QED
  BY <1>2, <1>3, <1>4, <1>5, <1>6, <1>7, <1>8, <1>9, <1>10, <1>11, <1>12, <1>13, NextCases
     DEF DecommitThrows

\* Until the host has refused a decommit, the range of an owner is its own until it
\* gives it back (RejectProtectedLocked, RejectRestoreLocked).
THEOREM OwnersKeepTheirRanges == MemorySpec => []PayloadStays
<1> DEFINE Kept == refused = FALSE => EntryInv /\ PayloadStays
<1>1. MemoryInit => Kept
  BY DEF MemoryInit, EntryInv, PayloadStays
<1>2. MemoryTypeOK /\ Kept /\ [MemoryNext]_memoryVars => Kept'
  <2>1. SUFFICES ASSUME MemoryTypeOK, Kept, [MemoryNext]_memoryVars, refused' = FALSE
                 PROVE  EntryInv' /\ PayloadStays'
    OBVIOUS
  <2>2. PInv
    BY <2>1, RefusalLasts DEF PInv
  <2> QED
    BY <2>1, <2>2, EntryStep
<1>3. MemoryTypeOK /\ Kept => PayloadStays
  BY DEF MemoryTypeOK, PayloadStays
<1> HIDE DEF Kept
<1> QED
  BY <1>1, <1>2, <1>3, MemoryTypeCorrect, PTL DEF MemorySpec

=============================================================================
