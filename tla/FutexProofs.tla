------------------------------ MODULE FutexProofs ------------------------------
(***************************************************************************)
(* Proofs about Futex for any finite set of threads, any addresses, any    *)
(* values and any count of a WAKE.                                         *)
(***************************************************************************)
EXTENDS Futex, FiniteSetTheorems, TLAPS

-----------------------------------------------------------------------------
(* The inductive invariant.                                                *)

\* A thread is in waiter_details of one queue exactly while it is between its
\* registration and remove_waiter.
RegisteredMatchesPc ==
  \A t \in Threads, a \in Addresses :
    t \in registered[a] <=> pc[t] \in Waiting /\ call[t].address = a

\* The owner of a queue's mutex is the thread inside that queue's region.
HolderMatchesPc ==
  \A t \in Threads, a \in Addresses :
    holder[a] = t <=> pc[t] \in Locked /\ call[t].address = a

\* Only parked threads are on the condition variable.
AsleepAreParked ==
  \A a \in Addresses : \A t \in asleep[a] : pc[t] = "parked" /\ call[t].address = a

\* A waiter decides only after its predicate held, and neither half of the
\* predicate can be withdrawn while it holds the mutex.
DecidingWasReady ==
  \A t \in Threads : pc[t] = "deciding" => Ready(t)

IInv ==
  /\ TypeOK
  /\ RegisteredMatchesPc
  /\ HolderMatchesPc
  /\ AsleepAreParked
  /\ DecidingWasReady
  /\ TokensCovered

-----------------------------------------------------------------------------
(* Counting.                                                               *)

\* Every queue holds finitely many threads.
LEMMA FiniteQueues ==
  ASSUME TypeOK, NEW a \in Addresses
  PROVE  /\ IsFiniteSet(registered[a])
         /\ IsFiniteSet(asleep[a])
         /\ IsFiniteSet(Awake(a))
         /\ Cardinality(registered[a]) \in 0 .. SizeMax
         /\ Cardinality(asleep[a]) \in Nat
         /\ Cardinality(Awake(a)) \in Nat
  <1>1. registered[a] \subseteq Threads /\ asleep[a] \subseteq Threads
    BY DEF TypeOK
  <1>2. IsFiniteSet(registered[a]) /\ IsFiniteSet(asleep[a])
    BY <1>1, FutexAssumption, FS_Subset DEF FutexAssumption
  <1>3. IsFiniteSet(Awake(a))
    BY <1>2, FS_Subset DEF Awake
  <1>4. Cardinality(registered[a]) <= Cardinality(Threads)
    BY <1>1, FutexAssumption, FS_Subset DEF FutexAssumption
  <1>5. /\ Cardinality(registered[a]) \in Nat
        /\ Cardinality(asleep[a]) \in Nat
        /\ Cardinality(Awake(a)) \in Nat
        /\ Cardinality(Threads) \in Nat
    BY <1>2, <1>3, FutexAssumption, FS_CardinalityType DEF FutexAssumption
  <1> QED
    BY <1>2, <1>3, <1>4, <1>5, FutexAssumption DEF FutexAssumption

\* As many threads are awake as are registered and not asleep.
LEMMA AwakeCount ==
  ASSUME TypeOK, NEW a \in Addresses, asleep[a] \subseteq registered[a]
  PROVE  Cardinality(Awake(a)) = Cardinality(registered[a]) - Cardinality(asleep[a])
  <1>1. IsFiniteSet(registered[a]) /\ IsFiniteSet(asleep[a])
    BY FiniteQueues
  <1>2. asleep[a] = registered[a] \cap asleep[a]
    OBVIOUS
  <1>3. Cardinality(registered[a] \ asleep[a])
          = Cardinality(registered[a]) - Cardinality(registered[a] \cap asleep[a])
    BY <1>1, FS_Difference
  <1> QED
    BY <1>2, <1>3 DEF Awake

\* A finite set that contains another has at least its cardinality.
LEMMA MoreAwake ==
  ASSUME NEW S, NEW T, IsFiniteSet(T), S \subseteq T, NEW n \in Nat, n <= Cardinality(S)
  PROVE  n <= Cardinality(T)
  BY FS_Subset, FS_CardinalityType

-----------------------------------------------------------------------------
\* Whoever sleeps on a queue's condition variable is registered there.
LEMMA AsleepRegistered ==
  ASSUME RegisteredMatchesPc, AsleepAreParked, TypeOK, NEW a \in Addresses
  PROVE  asleep[a] \subseteq registered[a]
  <1>1. asleep[a] \subseteq Threads
    BY DEF TypeOK
  <1> QED
    BY <1>1 DEF RegisteredMatchesPc, AsleepAreParked, Waiting

\* The invariant holds of the empty table.
LEMMA InitIInv == Init => IInv
  <1> SUFFICES ASSUME Init PROVE IInv
    OBVIOUS
  <1>1. TypeOK
    <2>1. sweep \in [Sweepers -> Sweeps]
      BY DEF Init, Sweeps
    <2>2. tokens \in [Addresses -> 0 .. SizeMax]
      BY FutexAssumption DEF Init, FutexAssumption
    <2>3. pc \in [Threads -> Free \cup Waiting \cup {"entering"}]
      BY DEF Init, Free
    <2>4. \A t \in Threads : pc[t] \notin Free => call[t] \in Calls
      BY DEF Init, Free
    <2>5. holder \in [Addresses -> Threads \cup {NoThread}]
      BY DEF Init
    <2> QED
      BY <2>1, <2>2, <2>3, <2>4, <2>5 DEF Init, TypeOK
  <1>2. RegisteredMatchesPc /\ HolderMatchesPc /\ AsleepAreParked /\ DecidingWasReady
    BY FutexAssumption DEF Init, FutexAssumption, RegisteredMatchesPc, HolderMatchesPc,
       AsleepAreParked, DecidingWasReady, Waiting, Locked
  <1>3. TokensCovered
    <2> SUFFICES ASSUME NEW a \in Addresses PROVE tokens[a] <= Cardinality(Awake(a))
      BY DEF TokensCovered
    <2>1. tokens[a] = 0
      BY DEF Init
    <2> QED
      BY <1>1, <2>1, FiniteQueues
  <1> QED
    BY <1>1, <1>2, <1>3 DEF IInv

\* A sweep record stays well formed.
LEMMA SweepTypes ==
  ASSUME TypeOK, NEW s \in Sweepers
  PROVE  /\ \A kind \in {"wake_all", "notify", "interrupt"} :
               [kind |-> kind, started |-> FALSE, left |-> {}] \in Sweeps
         /\ sweep[s].kind # "none" =>
               \A left \in SUBSET Addresses : Remaining(s, left) \in Sweeps
         /\ sweep[s].started => sweep[s].kind # "none" /\ sweep[s].left \subseteq Addresses
  <1>1. sweep[s] \in Sweeps
    BY DEF TypeOK
  <1>2. \A kind \in {"wake_all", "notify", "interrupt"} :
          [kind |-> kind, started |-> FALSE, left |-> {}] \in Sweeps
    BY DEF Sweeps
  <1>3. ASSUME sweep[s].kind # "none", NEW left \in SUBSET Addresses
        PROVE  Remaining(s, left) \in Sweeps
    <2>1. sweep[s] = NoSweep \/ sweep[s].kind \in {"wake_all", "notify", "interrupt"}
      BY <1>1 DEF Sweeps
    <2>2. sweep[s].kind \in {"wake_all", "notify", "interrupt"}
      BY <1>3, <2>1 DEF NoSweep
    <2>4. [kind |-> sweep[s].kind, started |-> TRUE, left |-> left] \in Sweeps
      BY <2>2 DEF Sweeps
    <2>5. NoSweep \in Sweeps
      BY DEF Sweeps
    <2> QED
      BY <2>4, <2>5 DEF Remaining
  <1>4. sweep[s].started => sweep[s].kind # "none" /\ sweep[s].left \subseteq Addresses
    <2>1. CASE sweep[s] = NoSweep
      BY <2>1 DEF NoSweep
    <2>2. CASE sweep[s] \in [kind: {"wake_all", "notify", "interrupt"}, started: {FALSE}, left: {{}}]
      BY <2>2
    <2>3. CASE sweep[s] \in [kind: {"wake_all", "notify", "interrupt"}, started: {TRUE},
                             left: SUBSET Addresses]
      BY <2>3
    <2> QED
      BY <1>1, <2>1, <2>2, <2>3 DEF Sweeps
  <1> QED
    BY <1>2, <1>3, <1>4

\* Type correctness of one step.
LEMMA TypeStep ==
  ASSUME IInv, [Next]_vars
  PROVE  TypeOK'
  <1> USE FutexAssumption DEF FutexAssumption, IInv, TypeOK, Free, Results, Waiting
  <1>1. ASSUME NEW t \in Threads, WaitStep(t) PROVE TypeOK'
    <2>1. CASE \E a \in Addresses, c \in Calls : CallWait(t, a, c)
      BY <2>1 DEF CallWait
    <2>2. CASE Refuse(t)
      BY <2>2 DEF Refuse, Return
    <2>3. CASE Register(t)
      BY <2>3 DEF Register, Calls
    <2>4. CASE FindReady(t)
      BY <2>4 DEF FindReady
    <2>5. CASE Park(t)
      BY <2>5 DEF Park, Calls
    <2>6. CASE TimeOut(t)
      BY <2>6 DEF TimeOut, Leave, Return, Calls
    <2>7. CASE Expire(t)
      BY <2>7 DEF Expire, Calls
    <2>8. CASE WakeSpuriously(t)
      BY <2>8 DEF WakeSpuriously, Calls
    <2>9. CASE Resume(t)
      BY <2>9 DEF Resume, Calls
    <2>10. CASE LeaveInterrupted(t)
      BY <2>10 DEF LeaveInterrupted, Leave, Return, Calls
    <2>11. CASE TakeToken(t)
      BY <2>11 DEF TakeToken, Leave, Return, Calls, Decrement
    <2> QED
      BY <1>1, <2>1, <2>2, <2>3, <2>4, <2>5, <2>6, <2>7, <2>8, <2>9, <2>10, <2>11 DEF WaitStep
  <1>2. ASSUME NEW s \in Sweepers, SweepStep(s) PROVE TypeOK'
    <2>1. CASE BeginWakeAll(s)
      BY <2>1, SweepTypes DEF BeginWakeAll, StartSweep, waitVars
    <2>2. CASE BeginInterruptAll(s)
      BY <2>2, SweepTypes DEF BeginInterruptAll, StartSweep, waitVars
    <2>3. CASE \E t \in Threads : SendSignal(s, t)
      BY <2>3, SweepTypes DEF SendSignal, StartSweep, waitVars
    <2>4. CASE Snapshot(s)
      BY <2>4, SweepTypes DEF Snapshot, waitVars
    <2>5. CASE \E a \in Addresses : VisitQueue(s, a)
      <3> PICK a \in Addresses : VisitQueue(s, a)
        BY <2>5
      <3>1. Available(a) \in 0 .. SizeMax
        BY FiniteQueues DEF Available, Waiters, Minus
      <3>2. sweep' \in [Sweepers -> Sweeps]
        BY SweepTypes DEF VisitQueue
      <3>3. tokens' \in [Addresses -> 0 .. SizeMax]
        BY <3>1 DEF VisitQueue, Issue, Plus
      <3>4. asleep' \in [Addresses -> SUBSET Threads]
        BY DEF VisitQueue
      <3> QED
        BY <3>2, <3>3, <3>4 DEF VisitQueue
    <2> QED
      BY <1>2, <2>1, <2>2, <2>3, <2>4, <2>5 DEF SweepStep
  <1>3. ASSUME NEW a \in Addresses, NEW n \in 1 .. MaxWake, Wake(a, n) PROVE TypeOK'
    <2>1. Available(a) \in 0 .. SizeMax
      BY FiniteQueues DEF Available, Waiters, Minus
    <2>2. Smaller(n, Available(a)) \in 0 .. SizeMax
      BY <2>1 DEF Smaller
    <2>3. tokens' \in [Addresses -> 0 .. SizeMax]
      BY <1>3, <2>2 DEF Wake, Issue, Plus
    <2>4. asleep' \in [Addresses -> SUBSET Threads]
      BY <1>3 DEF Wake
    <2> QED
      BY <1>3, <2>3, <2>4 DEF Wake
  <1>4. ASSUME NEW t \in Threads, DeliverSignal(t) PROVE TypeOK'
    BY <1>4 DEF DeliverSignal, waitVars
  <1>5. ASSUME NEW a \in Addresses, NEW v \in Values, Store(a, v) PROVE TypeOK'
    BY <1>5 DEF Store, waitVars
  <1>6. CASE IgnoreSignal
    BY <1>6 DEF IgnoreSignal, waitVars
  <1>7. CASE UNCHANGED vars
    BY <1>7 DEF vars, waitVars
  <1> QED
    BY <1>1, <1>2, <1>3, <1>4, <1>5, <1>6, <1>7 DEF Next

-----------------------------------------------------------------------------
(* The bookkeeping parts of the invariant, one lemma each.                 *)

\* What a thread's step does to its own entry and leaves of the others.
LEMMA RegisteredStep ==
  ASSUME IInv, [Next]_vars
  PROVE  RegisteredMatchesPc'
  <1> USE DEF IInv, TypeOK, RegisteredMatchesPc, Free, Results, Waiting
  <1>1. ASSUME NEW t \in Threads, WaitStep(t) PROVE RegisteredMatchesPc'
    <2>1. CASE \E a \in Addresses, c \in Calls : CallWait(t, a, c)
      BY <2>1 DEF CallWait
    <2>2. CASE Refuse(t)
      BY <2>2 DEF Refuse, Return
    <2>3. CASE Register(t)
      BY <2>3 DEF Register, Calls
    <2>4. CASE FindReady(t)
      BY <2>4 DEF FindReady
    <2>5. CASE Park(t)
      BY <2>5 DEF Park
    <2>6. CASE TimeOut(t)
      BY <2>6 DEF TimeOut, Leave, Return
    <2>7. CASE Expire(t)
      BY <2>7 DEF Expire
    <2>8. CASE WakeSpuriously(t)
      BY <2>8 DEF WakeSpuriously
    <2>9. CASE Resume(t)
      BY <2>9 DEF Resume
    <2>10. CASE LeaveInterrupted(t)
      BY <2>10 DEF LeaveInterrupted, Leave, Return
    <2>11. CASE TakeToken(t)
      BY <2>11 DEF TakeToken, Leave, Return
    <2> QED
      BY <1>1, <2>1, <2>2, <2>3, <2>4, <2>5, <2>6, <2>7, <2>8, <2>9, <2>10, <2>11 DEF WaitStep
  <1>2. ASSUME UNCHANGED <<registered, pc, call>> PROVE RegisteredMatchesPc'
    BY <1>2
  <1> QED
    BY <1>1, <1>2 DEF Next, SweepStep, BeginWakeAll, BeginInterruptAll, SendSignal, StartSweep,
       Snapshot, VisitQueue, Wake, DeliverSignal, Store, IgnoreSignal, vars, waitVars

\* A queue's mutex passes only between those who are in its critical section.
LEMMA HolderStep ==
  ASSUME IInv, [Next]_vars
  PROVE  HolderMatchesPc'
  <1> USE FutexAssumption DEF FutexAssumption, IInv, TypeOK, HolderMatchesPc, Free, Results,
          Waiting, Locked
  <1>1. ASSUME NEW t \in Threads, WaitStep(t) PROVE HolderMatchesPc'
    <2>1. CASE \E a \in Addresses, c \in Calls : CallWait(t, a, c)
      BY <2>1 DEF CallWait
    <2>2. CASE Refuse(t)
      BY <2>2 DEF Refuse, Return
    <2>3. CASE Register(t)
      BY <2>3 DEF Register, Calls
    <2>4. CASE FindReady(t)
      BY <2>4 DEF FindReady
    <2>5. CASE Park(t)
      BY <2>5 DEF Park, Calls
    <2>6. CASE TimeOut(t)
      BY <2>6 DEF TimeOut, Leave, Return, Calls
    <2>7. CASE Expire(t)
      BY <2>7 DEF Expire
    <2>8. CASE WakeSpuriously(t)
      BY <2>8 DEF WakeSpuriously
    <2>9. CASE Resume(t)
      BY <2>9 DEF Resume, Calls
    <2>10. CASE LeaveInterrupted(t)
      BY <2>10 DEF LeaveInterrupted, Leave, Return, Calls
    <2>11. CASE TakeToken(t)
      BY <2>11 DEF TakeToken, Leave, Return, Calls
    <2> QED
      BY <1>1, <2>1, <2>2, <2>3, <2>4, <2>5, <2>6, <2>7, <2>8, <2>9, <2>10, <2>11 DEF WaitStep
  <1>2. ASSUME UNCHANGED <<holder, pc, call>> PROVE HolderMatchesPc'
    BY <1>2
  <1> QED
    BY <1>1, <1>2 DEF Next, SweepStep, BeginWakeAll, BeginInterruptAll, SendSignal, StartSweep,
       Snapshot, VisitQueue, Wake, DeliverSignal, Store, IgnoreSignal, vars, waitVars

\* Sleepers stay those who parked and were not notified.
LEMMA AsleepStep ==
  ASSUME IInv, [Next]_vars
  PROVE  AsleepAreParked'
  <1> USE DEF IInv, TypeOK, AsleepAreParked, Free, Results, Waiting
  <1>1. ASSUME NEW t \in Threads, WaitStep(t) PROVE AsleepAreParked'
    <2>1. CASE \E a \in Addresses, c \in Calls : CallWait(t, a, c)
      BY <2>1 DEF CallWait
    <2>2. CASE Refuse(t)
      BY <2>2 DEF Refuse, Return
    <2>3. CASE Register(t)
      BY <2>3 DEF Register
    <2>4. CASE FindReady(t)
      BY <2>4 DEF FindReady
    <2>5. CASE Park(t)
      BY <2>5 DEF Park, Calls
    <2>6. CASE TimeOut(t)
      BY <2>6 DEF TimeOut, Leave, Return
    <2>7. CASE Expire(t)
      BY <2>7 DEF Expire
    <2>8. CASE WakeSpuriously(t)
      BY <2>8 DEF WakeSpuriously
    <2>9. CASE Resume(t)
      BY <2>9 DEF Resume
    <2>10. CASE LeaveInterrupted(t)
      BY <2>10 DEF LeaveInterrupted, Leave, Return
    <2>11. CASE TakeToken(t)
      BY <2>11 DEF TakeToken, Leave, Return
    <2> QED
      BY <1>1, <2>1, <2>2, <2>3, <2>4, <2>5, <2>6, <2>7, <2>8, <2>9, <2>10, <2>11 DEF WaitStep
  <1>2. ASSUME UNCHANGED <<pc, call>>, \A a \in Addresses : asleep'[a] \subseteq asleep[a]
        PROVE AsleepAreParked'
    BY <1>2
  <1>3. ASSUME NEW s \in Sweepers, NEW a \in Addresses, VisitQueue(s, a)
        PROVE AsleepAreParked'
    BY <1>3, <1>2 DEF VisitQueue
  <1>4. ASSUME NEW a \in Addresses, NEW n \in 1 .. MaxWake, Wake(a, n)
        PROVE AsleepAreParked'
    BY <1>4, <1>2 DEF Wake
  <1> QED
    BY <1>1, <1>2, <1>3, <1>4 DEF Next, SweepStep, BeginWakeAll, BeginInterruptAll, SendSignal,
       StartSweep, Snapshot, DeliverSignal, Store, IgnoreSignal, vars, waitVars

\* Nothing makes a deciding waiter's predicate false again: its queue's mutex
\* keeps the tokens, and the interrupt flag and (without the race on sigaction)
\* the pending signal stay.
LEMMA DecidingStep ==
  ASSUME ~DiscardRace, IInv, [Next]_vars
  PROVE  DecidingWasReady'
  <1> USE FutexAssumption DEF FutexAssumption, IInv, TypeOK, HolderMatchesPc, DecidingWasReady,
          Ready, IsInterrupted, Free, Results, Waiting, Locked
  <1>1. ASSUME NEW t \in Threads, WaitStep(t) PROVE DecidingWasReady'
    <2>1. CASE \E a \in Addresses, c \in Calls : CallWait(t, a, c)
      BY <2>1 DEF CallWait
    <2>2. CASE Refuse(t)
      BY <2>2 DEF Refuse, Return
    <2>3. CASE Register(t)
      BY <2>3 DEF Register
    <2>4. CASE FindReady(t)
      BY <2>4 DEF FindReady
    <2>5. CASE Park(t)
      BY <2>5 DEF Park
    <2>6. CASE TimeOut(t)
      BY <2>6 DEF TimeOut, Leave, Return
    <2>7. CASE Expire(t)
      BY <2>7 DEF Expire
    <2>8. CASE WakeSpuriously(t)
      BY <2>8 DEF WakeSpuriously
    <2>9. CASE Resume(t)
      BY <2>9 DEF Resume
    <2>10. CASE LeaveInterrupted(t)
      BY <2>10 DEF LeaveInterrupted, Leave, Return
    <2>11. CASE TakeToken(t)
      <3> SUFFICES ASSUME NEW u \in Threads, pc'[u] = "deciding" PROVE Ready(u)'
        OBVIOUS
      <3>1. u # t /\ pc[u] = "deciding" /\ call'[u] = call[u] /\ call[u] \in Calls
        BY <2>11 DEF TakeToken, Leave, Return
      <3>2. holder[call[u].address] = u /\ holder[call[t].address] = t
        BY <2>11, <3>1 DEF TakeToken, Calls
      <3> QED
        BY <2>11, <3>1, <3>2 DEF TakeToken, Leave
    <2> QED
      BY <1>1, <2>1, <2>2, <2>3, <2>4, <2>5, <2>6, <2>7, <2>8, <2>9, <2>10, <2>11 DEF WaitStep
  <1>2. ASSUME UNCHANGED <<pc, call, tokens>>, interrupted => interrupted',
               \A t \in Threads : pc[t] = "deciding" /\ t \in pending => t \in pending'
        PROVE  DecidingWasReady'
    BY <1>2
  <1>3. ASSUME NEW s \in Sweepers, SweepStep(s) PROVE DecidingWasReady'
    <2>1. ASSUME NEW a \in Addresses, VisitQueue(s, a) PROVE DecidingWasReady'
      BY <2>1 DEF VisitQueue, Issue, Calls
    <2> QED
      BY <1>2, <1>3, <2>1 DEF SweepStep, BeginWakeAll, BeginInterruptAll, SendSignal, StartSweep,
         Snapshot, waitVars
  <1>4. ASSUME NEW a \in Addresses, NEW n \in 1 .. MaxWake, Wake(a, n) PROVE DecidingWasReady'
    BY <1>4 DEF Wake, Issue, Calls
  <1>5. ASSUME NEW t \in Threads, DeliverSignal(t) PROVE DecidingWasReady'
    BY <1>5, <1>2 DEF DeliverSignal, waitVars
  <1>6. CASE IgnoreSignal
    BY <1>6, <1>2 DEF IgnoreSignal, waitVars
  <1>7. ASSUME NEW a \in Addresses, NEW v \in Values, Store(a, v) PROVE DecidingWasReady'
    BY <1>7, <1>2 DEF Store, waitVars
  <1>8. CASE UNCHANGED vars
    BY <1>8, <1>2 DEF vars, waitVars
  <1> QED
    BY <1>1, <1>3, <1>4, <1>5, <1>6, <1>7, <1>8 DEF Next

-----------------------------------------------------------------------------
(* Tokens stay covered.                                                    *)

\* Issuing no more tokens than there are uncounted waiters, and notifying as
\* many sleepers as tokens were issued or all of them, keeps tokens covered.
LEMMA IssueCovered ==
  ASSUME IInv, ~interrupted, NEW a \in Addresses, NEW count \in Nat, count <= Available(a),
         Issue(a, count), UNCHANGED registered,
         NEW notified \in SUBSET asleep[a],
         Cardinality(notified) = Smaller(count, Cardinality(asleep[a])),
         asleep' = [asleep EXCEPT ![a] = @ \ notified], TypeOK'
  PROVE  \A b \in Addresses : tokens'[b] <= Cardinality(Awake(b)')
  <1>1. asleep[a] \subseteq registered[a] /\ asleep'[a] \subseteq registered'[a]
    BY AsleepRegistered DEF IInv, TypeOK
  <1>2. /\ Cardinality(Awake(a)) = Waiters(a) - Cardinality(asleep[a])
        /\ Cardinality(Awake(a)') = Waiters(a)' - Cardinality(asleep'[a])
    <2>1. Cardinality(Awake(a)) = Waiters(a) - Cardinality(asleep[a])
      BY <1>1, AwakeCount DEF IInv, Waiters
    <2>2. ASSUME NEW R, NEW S, IsFiniteSet(R), IsFiniteSet(S), S \subseteq R
          PROVE  Cardinality(R \ S) = Cardinality(R) - Cardinality(S)
      <3>1. Cardinality(R \cap S) = Cardinality(S)
        <4>1. R \cap S = S
          BY <2>2
        <4> QED
          BY <4>1
      <3>2. Cardinality(R \ S) = Cardinality(R) - Cardinality(R \cap S)
        BY <2>2, FS_Difference
      <3> QED
        BY <3>1, <3>2
    <2>3. IsFiniteSet(registered'[a]) /\ IsFiniteSet(asleep'[a])
      <3>1. IsFiniteSet(registered[a])
        BY FiniteQueues DEF IInv
      <3>2. registered'[a] = registered[a]
        OBVIOUS
      <3> QED
        BY <1>1, <3>1, <3>2, FS_Subset
    <2>4. Cardinality(registered'[a] \ asleep'[a])
            = Cardinality(registered'[a]) - Cardinality(asleep'[a])
      BY <1>1, <2>2, <2>3
    <2> QED
      BY <2>1, <2>4 DEF Waiters, Awake
  <1>3. Cardinality(asleep'[a]) = Cardinality(asleep[a]) - Cardinality(notified)
    <2>1. asleep'[a] = asleep[a] \ notified
      BY DEF IInv, TypeOK
    <2>2. notified = asleep[a] \cap notified
      OBVIOUS
    <2> QED
      BY <2>1, <2>2, FiniteQueues, FS_Difference DEF IInv
  <1>4. /\ tokens[a] \in Nat
        /\ tokens[a] <= Cardinality(Awake(a))
        /\ Cardinality(asleep[a]) \in Nat
        /\ Waiters(a) \in 0 .. SizeMax
        /\ SizeMax \in Nat
    BY FiniteQueues, FutexAssumption DEF IInv, TypeOK, TokensCovered, FutexAssumption, Waiters
  <1>5. Available(a) = Waiters(a) - tokens[a]
    BY <1>2, <1>4 DEF Available, Minus
  <1>6. tokens'[a] = tokens[a] + count
    BY <1>4, <1>5 DEF Issue, Plus, IInv, TypeOK
  <1>7. Waiters(a)' = Waiters(a)
    BY DEF Waiters
  <1>8. tokens'[a] <= Cardinality(Awake(a)')
    <2>1. CASE count <= Cardinality(asleep[a])
      BY <2>1, <1>2, <1>3, <1>4, <1>6, <1>7 DEF Smaller
    <2>2. CASE ~(count <= Cardinality(asleep[a]))
      BY <2>2, <1>2, <1>3, <1>4, <1>5, <1>6, <1>7 DEF Smaller
    <2> QED
      BY <2>1, <2>2
  <1>9. ASSUME NEW b \in Addresses, b # a PROVE tokens'[b] <= Cardinality(Awake(b)')
    <2>1. tokens'[b] = tokens[b] /\ Awake(b)' = Awake(b)
      BY <1>9 DEF Issue, Awake, IInv, TypeOK
    <2> QED
      BY <2>1 DEF IInv, TokensCovered
  <1> QED
    BY <1>8, <1>9

\* No step issues, takes or strands a token that the waiters do not cover.
LEMMA CoveredStep ==
  ASSUME ~DiscardRace, IInv, [Next]_vars, TypeOK'
  PROVE  TokensCovered'
  <1> SUFFICES ASSUME ~interrupted', NEW b \in Addresses
               PROVE  tokens'[b] <= Cardinality(Awake(b)')
    BY DEF TokensCovered
  <1>1. /\ ~interrupted
        /\ tokens[b] <= Cardinality(Awake(b))
        /\ tokens[b] \in Nat
        /\ tokens'[b] \in Nat
    <2>1. ~interrupted
      BY DEF Next, WaitStep, SweepStep, CallWait, Refuse, Register, FindReady, Park, TimeOut, Expire,
         WakeSpuriously, Resume, LeaveInterrupted, TakeToken, BeginWakeAll, BeginInterruptAll,
         SendSignal, Snapshot, VisitQueue, Wake, DeliverSignal, Store, IgnoreSignal, vars
    <2> QED
      BY <2>1 DEF IInv, TokensCovered, TypeOK
  <1>2. IsFiniteSet(Awake(b)')
    <2>1. registered'[b] \subseteq Threads
      BY DEF TypeOK
    <2> QED
      BY <2>1, FutexAssumption, FS_Subset DEF Awake, FutexAssumption
  \* The two ways a step leaves a queue covered without counting.
  <1>3. ASSUME tokens'[b] = tokens[b], Awake(b) \subseteq Awake(b)'
        PROVE  tokens'[b] <= Cardinality(Awake(b)')
    BY <1>1, <1>2, <1>3, MoreAwake
  <1>4. ASSUME tokens'[b] = 0
        PROVE  tokens'[b] <= Cardinality(Awake(b)')
    BY <1>2, <1>4, FS_CardinalityType
  <1> USE DEF IInv, TypeOK, Free, Results, Waiting
  <1>5. ASSUME NEW t \in Threads, WaitStep(t)
        PROVE  tokens'[b] <= Cardinality(Awake(b)')
    <2>1. CASE \E a \in Addresses, c \in Calls : CallWait(t, a, c)
      BY <2>1, <1>3 DEF CallWait, Awake
    <2>2. CASE Refuse(t)
      BY <2>2, <1>3 DEF Refuse, Awake
    <2>3. CASE Register(t)
      BY <2>3, <1>3 DEF Register, Awake
    <2>4. CASE FindReady(t)
      BY <2>4, <1>3 DEF FindReady, Awake
    <2>5. CASE Park(t)
      <3>1. tokens[call[t].address] = 0 /\ tokens' = tokens
        BY <2>5 DEF Park, Ready
      <3>2. CASE b = call[t].address
        BY <3>1, <3>2, <1>4
      <3>3. CASE b # call[t].address
        BY <3>1, <3>3, <2>5, <1>3 DEF Park, Awake
      <3> QED
        BY <3>2, <3>3
    <2>6. CASE TimeOut(t)
      <3>1. tokens[call[t].address] = 0 /\ tokens' = tokens
        BY <2>6 DEF TimeOut, Ready
      <3>2. CASE b = call[t].address
        BY <3>1, <3>2, <1>4
      <3>3. CASE b # call[t].address
        BY <3>1, <3>3, <2>6, <1>3 DEF TimeOut, Leave, Awake
      <3> QED
        BY <3>2, <3>3
    <2>7. CASE Expire(t)
      BY <2>7, <1>3 DEF Expire, Awake
    <2>8. CASE WakeSpuriously(t)
      BY <2>8, <1>3 DEF WakeSpuriously, Awake
    <2>9. CASE Resume(t)
      BY <2>9, <1>3 DEF Resume, Awake
    <2>10. CASE LeaveInterrupted(t)
      <3>1. tokens[call[t].address] = 0 /\ tokens' = tokens
        BY <2>10, <1>1 DEF LeaveInterrupted
      <3>2. CASE b = call[t].address
        BY <3>1, <3>2, <1>4
      <3>3. CASE b # call[t].address
        BY <3>1, <3>3, <2>10, <1>3 DEF LeaveInterrupted, Leave, Awake
      <3> QED
        BY <3>2, <3>3
    <2>11. CASE TakeToken(t)
      <3>1. CASE b # call[t].address
        BY <3>1, <2>11, <1>3 DEF TakeToken, Leave, Awake
      <3>2. CASE b = call[t].address
        <4>1. tokens[b] # 0
          BY <3>2, <2>11 DEF TakeToken, DecidingWasReady, Ready
        <4>2. tokens'[b] = tokens[b] - 1
          BY <3>2, <4>1, <2>11 DEF TakeToken, Decrement
        <4>3. t \in Awake(b)
          BY <3>2, <2>11 DEF TakeToken, Awake, RegisteredMatchesPc, AsleepAreParked
        <4>4. Awake(b)' = Awake(b) \ {t}
          BY <3>2, <2>11 DEF TakeToken, Leave, Awake
        <4>5. Cardinality(Awake(b)') = Cardinality(Awake(b)) - 1
          BY <4>3, <4>4, FiniteQueues, FS_RemoveElement
        <4> QED
          BY <4>2, <4>5, <1>1, FiniteQueues
      <3> QED
        BY <3>1, <3>2
    <2> QED
      BY <1>5, <2>1, <2>2, <2>3, <2>4, <2>5, <2>6, <2>7, <2>8, <2>9, <2>10, <2>11 DEF WaitStep
  <1>6. ASSUME NEW a \in Addresses, NEW n \in 1 .. MaxWake, Wake(a, n)
        PROVE  tokens'[b] <= Cardinality(Awake(b)')
    <2> DEFINE count == Smaller(n, Available(a))
    <2>1. Available(a) \in Nat
      BY FiniteQueues, FutexAssumption DEF Available, Waiters, Minus, FutexAssumption
    <2>2. count \in Nat /\ count <= Available(a)
      BY <2>1 DEF Smaller
    <2>3. PICK notified \in SUBSET asleep[a] :
            /\ Cardinality(notified) = Smaller(count, Cardinality(asleep[a]))
            /\ asleep' = [asleep EXCEPT ![a] = @ \ notified]
      BY <1>6 DEF Wake
    <2>4. Issue(a, count) /\ UNCHANGED registered
      BY <1>6 DEF Wake
    <2> HIDE DEF count
    <2> QED
      BY <1>1, <2>2, <2>3, <2>4, IssueCovered
  <1>7. ASSUME NEW s \in Sweepers, NEW a \in Addresses, VisitQueue(s, a)
        PROVE  tokens'[b] <= Cardinality(Awake(b)')
    <2>1. CASE sweep[s].kind = "wake_all"
      <3>1. Available(a) \in Nat
        BY FiniteQueues, FutexAssumption DEF Available, Waiters, Minus, FutexAssumption
      <3>2. Issue(a, Available(a)) /\ UNCHANGED registered
        BY <1>1, <1>7, <2>1 DEF VisitQueue
      <3>3. asleep' = [asleep EXCEPT ![a] = @ \ asleep[a]]
        BY <1>1, <1>7, <2>1 DEF VisitQueue
      <3>4. Cardinality(asleep[a]) = Smaller(Available(a), Cardinality(asleep[a]))
        <4>1. asleep[a] \subseteq registered[a]
          BY AsleepRegistered
        <4>2. /\ Cardinality(Awake(a)) = Waiters(a) - Cardinality(asleep[a])
              /\ tokens[a] <= Cardinality(Awake(a))
              /\ tokens[a] \in Nat
              /\ Cardinality(asleep[a]) \in Nat
              /\ Waiters(a) \in Nat
          BY <1>1, <4>1, AwakeCount, FiniteQueues DEF Waiters, TokensCovered
        <4>3. Available(a) = Waiters(a) - tokens[a]
          BY <4>2 DEF Available, Minus
        <4> QED
          BY <4>2, <4>3 DEF Smaller
      <3> DEFINE count == Available(a)
                 all == asleep[a]
      <3>5. /\ count \in Nat
            /\ count <= Available(a)
            /\ all \in SUBSET asleep[a]
            /\ Issue(a, count)
            /\ UNCHANGED registered
            /\ Cardinality(all) = Smaller(count, Cardinality(asleep[a]))
            /\ asleep' = [asleep EXCEPT ![a] = @ \ all]
        BY <3>1, <3>2, <3>3, <3>4
      <3> HIDE DEF count, all
      <3> QED
        BY <1>1, <3>5, IssueCovered
    <2>2. CASE sweep[s].kind # "wake_all"
      BY <2>2, <1>7, <1>3 DEF VisitQueue, Awake
    <2> QED
      BY <2>1, <2>2
  <1>8. ASSUME UNCHANGED <<tokens, registered, asleep>>
        PROVE  tokens'[b] <= Cardinality(Awake(b)')
    BY <1>8, <1>3 DEF Awake
  <1> QED
    BY <1>5, <1>6, <1>7, <1>8 DEF Next, SweepStep, BeginWakeAll, BeginInterruptAll, SendSignal,
       StartSweep, Snapshot, DeliverSignal, Store, IgnoreSignal, vars, waitVars

-----------------------------------------------------------------------------
(* The results.                                                            *)

\* The inductive invariant holds, provided no signal is discarded between the
\* two evaluations of a waiter's predicate.
THEOREM Invariance ==
  ASSUME ~DiscardRace
  PROVE  SafetySpec => []IInv
  <1>1. Init => IInv
    BY InitIInv
  <1>2. IInv /\ [Next]_vars => IInv'
    <2> SUFFICES ASSUME IInv, [Next]_vars PROVE IInv'
      OBVIOUS
    <2>1. TypeOK'
      BY TypeStep
    <2> QED
      BY <2>1, RegisteredStep, HolderStep, AsleepStep, DecidingStep, CoveredStep DEF IInv
  <1> QED
    BY <1>1, <1>2, PTL DEF SafetySpec

\* Every variable of the table keeps its type.
THEOREM TypeCorrect ==
  ASSUME ~DiscardRace
  PROVE  SafetySpec => []TypeOK
  <1>1. IInv => TypeOK
    BY DEF IInv
  <1> QED
    BY <1>1, Invariance, PTL

\* FutexTable never loses a wake: a token always has a registered thread that
\* will look at it, so `waiters - wake_tokens` never wraps.
THEOREM NoWakeIsLost ==
  ASSUME ~DiscardRace
  PROVE  SafetySpec => []TokensCovered
  <1>1. IInv => TokensCovered
    BY DEF IInv
  <1> QED
    BY <1>1, Invariance, PTL

-----------------------------------------------------------------------------
(* The table implements its abstract promise.                              *)

\* The promise counts as the table does.
LEMMA PromiseCardinality ==
  ASSUME NEW S
  PROVE  Promise!Cardinality(S) = Cardinality(S)
  BY DEF Promise!Cardinality, Cardinality, Promise!IsFiniteSet, IsFiniteSet

\* Issuing tokens is a Signal of the promise, or nothing when none is due.
LEMMA IssueSignals ==
  ASSUME IInv, ~interrupted, NEW a \in Addresses, NEW count \in Nat, count <= Available(a),
         Issue(a, count), UNCHANGED <<registered, interrupted>>
  PROVE  [Promise!Next]_(Promise!vars)
  <1>1. /\ Cardinality(Awake(a)) \in Nat
        /\ Waiters(a) \in 0 .. SizeMax
        /\ Cardinality(asleep[a]) \in Nat
        /\ tokens[a] \in Nat
        /\ SizeMax \in Nat
        /\ tokens[a] <= Cardinality(Awake(a))
        /\ Cardinality(Threads) \in Nat
        /\ Waiters(a) <= Cardinality(Threads)
    <2>1. Waiters(a) <= Cardinality(Threads) /\ Cardinality(Threads) \in Nat
      BY FutexAssumption, FS_Subset, FS_CardinalityType DEF IInv, TypeOK, FutexAssumption, Waiters
    <2> QED
      BY <2>1, FiniteQueues, FutexAssumption DEF IInv, TypeOK, TokensCovered, FutexAssumption, Waiters
  <1>2. Cardinality(Awake(a)) = Waiters(a) - Cardinality(asleep[a])
    BY AsleepRegistered, AwakeCount DEF IInv, Waiters
  <1>3. Available(a) = Waiters(a) - tokens[a]
    BY <1>1, <1>2 DEF Available, Minus
  <1>4. tokens' = [tokens EXCEPT ![a] = @ + count]
    <2>1. Plus(tokens[a], count) = tokens[a] + count
      <3>1. tokens[a] + count <= SizeMax
        BY <1>1, <1>3
      <3> QED
        BY <3>1 DEF Plus
    <2> QED
      BY <2>1 DEF Issue
  <1>5. CASE count = 0
    <2>1. tokens' = tokens
      BY <1>4, <1>5, <1>1 DEF IInv, TypeOK
    <2> QED
      BY <2>1 DEF Promise!vars
  <1>6. CASE count > 0
    <2>1. Promise!Signal(a, count)
      <3>1. tokens[a] + count <= Cardinality(registered[a])
        BY <1>1, <1>3 DEF Waiters
      <3> QED
        BY <1>4, <1>6, <3>1, PromiseCardinality DEF Promise!Signal
    <2>2. count \in 1 .. Cardinality(Threads)
      <3>1. count <= Waiters(a)
        BY <1>1, <1>3
      <3> QED
        BY <1>1, <1>6, <3>1
    <2> QED
      BY <2>1, <2>2, PromiseCardinality DEF Promise!Next
  <1> QED
    BY <1>5, <1>6

\* Every step is a step of the promise, or leaves what the promise sees alone.
LEMMA StepImplementsPromise ==
  ASSUME IInv, [Next]_vars
  PROVE  [Promise!Next]_(Promise!vars)
  <1> USE DEF IInv, TypeOK, Free, Results, Waiting
  <1>1. ASSUME UNCHANGED <<registered, tokens, interrupted>>
        PROVE  [Promise!Next]_(Promise!vars)
    BY <1>1 DEF Promise!vars
  <1>2. ASSUME NEW t \in Threads, WaitStep(t)
        PROVE  [Promise!Next]_(Promise!vars)
    <2> DEFINE a == call[t].address
    <2>1. CASE Register(t)
      <3>1. a \in Addresses
        BY <2>1 DEF Register, Calls
      <3>2. Promise!Join(t, a)
        BY <2>1 DEF Register, Promise!Join, IsInterrupted, RegisteredMatchesPc
      <3> QED
        BY <3>1, <3>2 DEF Promise!Next
    <2>2. ASSUME pc[t] \in Waiting, registered' = [registered EXCEPT ![a] = @ \ {t}],
                 UNCHANGED <<tokens, interrupted>>, interrupted \/ tokens[a] = 0
          PROVE  [Promise!Next]_(Promise!vars)
      <3>1. a \in Addresses /\ t \in registered[a]
        BY <2>2 DEF RegisteredMatchesPc, Calls
      <3>2. Promise!GiveUp(t, a)
        BY <2>2, <3>1 DEF Promise!GiveUp
      <3> QED
        BY <3>1, <3>2 DEF Promise!Next
    <2>3. CASE TimeOut(t)
      BY <2>2, <2>3 DEF TimeOut, Leave, Ready
    <2>4. CASE LeaveInterrupted(t)
      BY <2>2, <2>4 DEF LeaveInterrupted, Leave
    <2>5. CASE TakeToken(t)
      <3>1. a \in Addresses /\ t \in registered[a]
        BY <2>5 DEF TakeToken, RegisteredMatchesPc, Calls
      <3>2. tokens[a] # 0
        BY <2>5 DEF TakeToken, DecidingWasReady, Ready
      <3>3. Promise!Take(t, a)
        BY <2>5, <3>1, <3>2 DEF TakeToken, Leave, Decrement, Promise!Take
      <3> QED
        BY <3>1, <3>3 DEF Promise!Next
    <2> QED
      BY <1>1, <1>2, <2>1, <2>3, <2>4, <2>5 DEF WaitStep, CallWait, Refuse, FindReady, Park, Expire,
         WakeSpuriously, Resume
  <1>3. ASSUME NEW a \in Addresses, NEW n \in 1 .. MaxWake, Wake(a, n)
        PROVE  [Promise!Next]_(Promise!vars)
    <2> DEFINE count == Smaller(n, Available(a))
    <2>1. Available(a) \in Nat
      BY FiniteQueues, FutexAssumption DEF Available, Waiters, Minus, FutexAssumption
    <2>2. count \in Nat /\ count <= Available(a)
      BY <2>1 DEF Smaller
    <2>3. ~interrupted /\ Issue(a, count) /\ UNCHANGED <<registered, interrupted>>
      BY <1>3 DEF Wake
    <2> HIDE DEF count
    <2> QED
      BY <2>2, <2>3, IssueSignals
  <1>4. ASSUME NEW s \in Sweepers, NEW a \in Addresses, VisitQueue(s, a)
        PROVE  [Promise!Next]_(Promise!vars)
    <2>1. CASE sweep[s].kind = "wake_all" /\ ~interrupted
      <3> DEFINE count == Available(a)
      <3>1. count \in Nat /\ count <= Available(a)
        BY FiniteQueues, FutexAssumption DEF Available, Waiters, Minus, FutexAssumption
      <3>2. Issue(a, count) /\ UNCHANGED <<registered, interrupted>>
        BY <1>4, <2>1 DEF VisitQueue
      <3> HIDE DEF count
      <3> QED
        BY <2>1, <3>1, <3>2, IssueSignals
    <2>2. CASE ~(sweep[s].kind = "wake_all" /\ ~interrupted)
      BY <1>1, <1>4, <2>2 DEF VisitQueue
    <2> QED
      BY <2>1, <2>2
  <1>5. ASSUME NEW s \in Sweepers, BeginInterruptAll(s)
        PROVE  [Promise!Next]_(Promise!vars)
    <2>1. interrupted' = TRUE /\ UNCHANGED <<registered, tokens>>
      BY <1>5 DEF BeginInterruptAll, StartSweep, waitVars
    <2> QED
      BY <2>1 DEF Promise!Next, Promise!Close, Promise!vars
  <1> QED
    BY <1>1, <1>2, <1>3, <1>4, <1>5 DEF Next, SweepStep, BeginWakeAll, SendSignal, StartSweep,
       Snapshot, DeliverSignal, Store, IgnoreSignal, vars, waitVars

\* FutexTable implements AbstractFutex: each WAKE issues exactly the permits it
\* counted, each is taken by one waiter that then reports `awoken`, no waiter
\* times out or is interrupted out of the queue while a permit is outstanding,
\* and InterruptAll closes the table for good.
THEOREM Implements ==
  ASSUME ~DiscardRace
  PROVE  SafetySpec => Promise!SafetySpec
  <1>1. Init => Promise!Init
    BY DEF Init, Promise!Init
  <1>2. IInv /\ [Next]_vars => [Promise!Next]_(Promise!vars)
    BY StepImplementsPromise
  <1> QED
    BY <1>1, <1>2, Invariance, PTL DEF SafetySpec, Promise!SafetySpec
=============================================================================
