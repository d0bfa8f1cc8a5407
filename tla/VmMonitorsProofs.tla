--------------------------- MODULE VmMonitorsProofs ---------------------------
(***************************************************************************)
(* Proofs about VmMonitors for any threads, any objects and any depth of   *)
(* recursion.                                                              *)
(***************************************************************************)
EXTENDS VmMonitors, SequenceTheorems, WellFoundedInduction, TLAPS

\* The points at which a thread is after a monitor, or after a wait.
Retrying == {"entering", "enter_woken", "retrying"}

\* t is in a Wait on o, without the monitor: t \in Waiters(o).
Waits(t, o) == object[t] = o /\ outcome[t] # "none" /\ pc[t] # "wait_joining"

\* A thread has an outcome exactly while its Wait has not returned, and then it has
\* kept the recursion it will come back with; an entrant comes back with one.
Keeps(t) ==
  /\ pc[t] \in WaitPoints => outcome[t] # "none"
  /\ outcome[t] # "none" =>
       /\ pc[t] \in WaitPoints \cup Retrying
       /\ saved[t] <= held[t][object[t]]
  /\ pc[t] \in Retrying /\ outcome[t] = "none" => saved[t] = 1

\* Until shutdown a waiter comes back as often as it has entered, and one that has
\* begun to wait still owns the monitor.
KeepsAll(t) ==
  ~shuttingDown =>
    /\ pc[t] = "wait_joining" => Owns(t, object[t]) /\ saved[t] = recursion[object[t]]
    /\ Waits(t, object[t]) => saved[t] = held[t][object[t]] /\ saved[t] # 0

\* Nobody owns a monitor more often than it has entered it, not even one that
\* shutdown has given to several threads; until then it owns it just as often.
Matches(t, o) ==
  /\ Owns(t, o) => recursion[o] <= held[t][o]
  /\ ~shuttingDown => IF Owns(t, o) THEN held[t][o] = recursion[o] /\ ~Waits(t, o)
                                    ELSE held[t][o] = 0 \/ Waits(t, o)

Sound(t) == Keeps(t) /\ KeepsAll(t) /\ \A o \in Objects : Matches(t, o)
SoundInv == \A t \in Threads : Sound(t)

MInv == TypeOK /\ SoundInv /\ ParkedWaiterIsReachable

-----------------------------------------------------------------------------
(* Wait sets and queues.                                                   *)

LEMMA Smallest ==
  ASSUME NEW I, I \subseteq Nat, I # {}
  PROVE  Min(I) \in I
<1>1. PICK m \in I : \A k \in I : ~ (<<k, m>> \in OpToRel(<, Nat))
  BY NatLessThanWellFounded, WFMin
<1>2. OpToRel(<, Nat) = {ss \in Nat \X Nat : ss[1] < ss[2]}
  BY Zenon DEF OpToRel
<1>3. \A k \in I : ~ (<<k, m>> \in {ss \in Nat \X Nat : ss[1] < ss[2]})
  BY <1>1, <1>2, Zenon
<1>4. ASSUME NEW k \in I, k < m
      PROVE  FALSE
  <2>1. k \in Nat /\ m \in Nat
    OBVIOUS
  <2>2. <<k, m>> \in Nat \X Nat /\ <<k, m>>[1] < <<k, m>>[2]
    BY <1>4, <2>1
  <2>3. <<k, m>> \in {ss \in Nat \X Nat : ss[1] < ss[2]}
    BY <2>2
  <2> QED
    BY <1>3, <2>3
<1>5. \A k \in I : m <= k
  BY <1>4
<1> QED
  BY <1>5 DEF Min

\* RemoveFirst takes out one occurrence of the element, if there is one.
LEMMA RemoveFirstRemoves ==
  ASSUME NEW S, NEW s \in Seq(S), NEW e, Contains(s, e)
  PROVE  \E i \in 1 .. Len(s) : s[i] = e /\ RemoveFirst(s, e) = RemoveAt(s, i)
<1> DEFINE I == {i \in 1 .. Len(s) : s[i] = e}
<1>1. I \subseteq Nat /\ I # {}
  BY DEF Contains
<1>2. Min(I) \in I
  BY <1>1, Smallest
<1>3. SelectInSeq(s, LAMBDA v: v = e) = Min(I)
  BY <1>1, Zenon DEF SelectInSeq
<1> QED
  BY <1>2, <1>3, Zenon DEF RemoveFirst, Contains

LEMMA RemoveFirstProperties ==
  ASSUME NEW S, NEW s \in Seq(S), NEW e
  PROVE  /\ RemoveFirst(s, e) \in Seq(S)
         /\ \A x : x # e /\ Contains(s, x) => Contains(RemoveFirst(s, e), x)
<1>1. CASE ~Contains(s, e)
  BY <1>1, Zenon DEF RemoveFirst, Contains
<1>2. CASE Contains(s, e)
  <2>1. PICK i \in 1 .. Len(s) : s[i] = e /\ RemoveFirst(s, e) = RemoveAt(s, i)
    BY <1>2, RemoveFirstRemoves
  <2> DEFINE a == SubSeq(s, 1, i - 1)
             b == SubSeq(s, i + 1, Len(s))
             r == a \o b
  <2>2. /\ a \in Seq(S) /\ Len(a) = i - 1
        /\ \A k \in 1 .. i - 1 : a[k] = s[k]
    BY SubSeqProperties
  <2>3. /\ b \in Seq(S) /\ Len(b) = Len(s) - i
        /\ \A k \in 1 .. Len(s) - i : b[k] = s[i + k]
    BY SubSeqProperties
  <2>4. RemoveFirst(s, e) = r
    BY <2>1 DEF RemoveAt
  <2> HIDE DEF a, b
  <2>5. /\ r \in Seq(S) /\ Len(r) = Len(a) + Len(b)
        /\ \A k \in 1 .. Len(a) + Len(b) :
             r[k] = IF k <= Len(a) THEN a[k] ELSE b[k - Len(a)]
    BY <2>2, <2>3, ConcatProperties
  <2> HIDE DEF r
  <2>6. ASSUME NEW x, x # e, Contains(s, x)
        PROVE  Contains(r, x)
    <3>1. PICK k \in 1 .. Len(s) : s[k] = x
      BY <2>6 DEF Contains
    <3>2. CASE k < i
      <4>1. k \in 1 .. Len(a) + Len(b) /\ k <= Len(a) /\ k \in 1 .. i - 1
        BY <2>2, <2>3, <3>2
      <4>2. r[k] = x
        BY <2>2, <2>5, <3>1, <4>1
      <4> QED
        BY <2>5, <4>1, <4>2 DEF Contains
    <3>3. CASE k > i
      <4>1. /\ k - i \in 1 .. Len(s) - i
            /\ k - 1 \in 1 .. Len(a) + Len(b) /\ ~(k - 1 <= Len(a))
            /\ (k - 1) - Len(a) = k - i
        BY <2>2, <2>3, <3>3
      <4>2. r[k - 1] = b[k - i]
        BY <2>5, <4>1
      <4>3. b[k - i] = x
        BY <2>3, <3>1, <4>1
      <4> QED
        BY <2>5, <4>1, <4>2, <4>3 DEF Contains
    <3>4. k # i
      BY <2>1, <2>6, <3>1
    <3> QED
      BY <3>2, <3>3, <3>4
  <2> QED
    BY <2>4, <2>5, <2>6
<1> QED
  BY <1>1, <1>2

LEMMA AppendContains ==
  ASSUME NEW S, NEW s \in Seq(S), NEW e \in S
  PROVE  /\ Append(s, e) \in Seq(S)
         /\ Contains(Append(s, e), e)
         /\ \A x : Contains(s, x) => Contains(Append(s, e), x)
<1>1. /\ Append(s, e) \in Seq(S) /\ Len(Append(s, e)) = Len(s) + 1
      /\ \A i \in 1 .. Len(s) : Append(s, e)[i] = s[i]
      /\ Append(s, e)[Len(s) + 1] = e
  BY AppendProperties
<1> QED
  BY <1>1 DEF Contains

\* A notify takes the oldest waiter out, NotifyAll all of them.
LEMMA TailContains ==
  ASSUME NEW S, NEW s \in Seq(S), s # <<>>
  PROVE  /\ Head(s) \in S
         /\ Tail(s) \in Seq(S)
         /\ \A x : Contains(s, x) => x = Head(s) \/ Contains(Tail(s), x)
<1>1. /\ Head(s) \in S /\ Tail(s) \in Seq(S) /\ Len(Tail(s)) = Len(s) - 1
      /\ \A i \in 1 .. Len(Tail(s)) : Tail(s)[i] = s[i + 1]
  BY HeadTailProperties
<1>2. ASSUME NEW x, Contains(s, x)
      PROVE  x = Head(s) \/ Contains(Tail(s), x)
  <2>1. PICK i \in 1 .. Len(s) : s[i] = x
    BY <1>2 DEF Contains
  <2>2. CASE i = 1
    BY <2>1, <2>2
  <2>3. CASE i # 1
    <3>1. i - 1 \in 1 .. Len(Tail(s)) /\ Tail(s)[i - 1] = x
      BY <1>1, <2>1, <2>3
    <3> QED
      BY <3>1 DEF Contains
  <2> QED
    BY <2>2, <2>3
<1> QED
  BY <1>1, <1>2

LEMMA ToSetContains ==
  ASSUME NEW S, NEW s \in Seq(S)
  PROVE  ToSet(s) \subseteq S /\ \A x : Contains(s, x) => x \in ToSet(s)
BY DEF ToSet, Contains

-----------------------------------------------------------------------------
(* Types.                                                                  *)

\* The operations of the execution lock keep it well-formed.
LEMMA LockTypes ==
  ASSUME LockTypeOK(Threads, MaxDepth), NEW t \in Threads,
         \/ TakeTicket(t) \/ Release(t) \/ ReleaseForBlocking(t) \/ YieldToWaiter(t)
         \/ depth < MaxDepth /\ Nest(t)
         \/ \E n \in 1 .. MaxDepth : Admit(t, n)
  PROVE  LockTypeOK(Threads, MaxDepth)'
<1> USE VmMonitorsAssumption DEF VmMonitorsAssumption, LockTypeOK, Holds
<1>1. CASE TakeTicket(t)
  BY <1>1, AppendProperties DEF TakeTicket
<1>2. CASE Release(t)
  BY <1>2 DEF Release
<1>3. CASE ReleaseForBlocking(t)
  BY <1>3 DEF ReleaseForBlocking
<1>4. CASE YieldToWaiter(t)
  <2>1. Append(queue, t) \in Seq(Threads)
    BY AppendProperties
  <2> QED
    BY <1>4, <2>1 DEF YieldToWaiter
<1>5. CASE depth < MaxDepth /\ Nest(t)
  BY <1>5 DEF Nest
<1>6. ASSUME NEW n \in 1 .. MaxDepth, Admit(t, n)
      PROVE  LockTypeOK(Threads, MaxDepth)'
  <2>1. Tail(queue) \in Seq(Threads)
    BY <1>6, HeadTailProperties DEF Admit
  <2> QED
    BY <1>6, <2>1 DEF Admit
<1> QED
  BY <1>1, <1>2, <1>3, <1>4, <1>5, <1>6

LEMMA HolderDepth ==
  ASSUME LockTypeOK(Threads, MaxDepth), NEW t \in Threads, Holds(t)
  PROVE  depth \in 1 .. MaxDepth
BY VmMonitorsAssumption DEF VmMonitorsAssumption, LockTypeOK, Holds

LEMMA SameLock ==
  ASSUME LockTypeOK(Threads, MaxDepth), UNCHANGED lockVars
  PROVE  LockTypeOK(Threads, MaxDepth)'
BY DEF LockTypeOK, lockVars

LEMMA BytecodeType ==
  ASSUME TypeOK, SoundInv, NEW t \in Threads, BytecodeStep(t)
  PROVE  TypeOK'
<1> USE VmMonitorsAssumption DEF VmMonitorsAssumption, TypeOK, lockVars, monitorVars, callVars,
         Points, WaitPoints, Outcomes
<1>1. CASE CallNested(t)
  <2>1. LockTypeOK(Threads, MaxDepth)'
    BY <1>1, LockTypes DEF CallNested
  <2>2. UNCHANGED <<owner, recursion, waitSet, woken, interrupted, shuttingDown,
                     pc, object, saved, outcome, timed, resume, held>>
    BY <1>1 DEF CallNested, Nest, Running, Holds
  <2> QED
    BY <2>1, <2>2
<1>2. CASE ReturnNested(t)
  <2>1. LockTypeOK(Threads, MaxDepth)'
    BY <1>2, LockTypes DEF ReturnNested
  <2>2. UNCHANGED <<owner, recursion, waitSet, woken, interrupted, shuttingDown,
                     pc, object, saved, outcome, timed, resume, held>>
    BY <1>2 DEF ReturnNested, Release, Running, Holds
  <2> QED
    BY <2>1, <2>2
<1>3. CASE ClearInterrupt(t)
  <2>1. interrupted' \subseteq Threads
    BY <1>3 DEF ClearInterrupt, Running, Holds
  <2>2. UNCHANGED <<lockVars, owner, recursion, waitSet, woken,
                     shuttingDown, pc, object, saved, outcome, timed, resume, held>>
    BY <1>3 DEF ClearInterrupt, Running, Holds
  <2> QED
    BY <2>1, <2>2, SameLock
<1>4. CASE Finish(t)
  <2>1. LockTypeOK(Threads, MaxDepth)'
    BY <1>4, LockTypes DEF Finish
  <2>2. pc' \in [Threads -> Points]
    BY <1>4 DEF Finish, ReleaseForBlocking, Goto, Running, Holds
  <2>3. UNCHANGED <<owner, recursion, waitSet, woken, interrupted, shuttingDown,
                     object, saved, outcome, timed, resume, held>>
    BY <1>4 DEF Finish, ReleaseForBlocking, Goto, Running, Holds
  <2> QED
    BY <2>1, <2>2, <2>3
<1>5. ASSUME NEW o \in Objects, Enter(t, o)
      PROVE  TypeOK'
  <2>1. owner' \in [Objects -> Threads \cup {NoThread}]
    BY <1>5 DEF Enter, Take, Running, Holds
  <2>2. recursion' \in [Objects -> 0 .. MaxRecursion]
    <3>1. (IF Owns(t, o) THEN recursion[o] + 1 ELSE 1) \in 0 .. MaxRecursion
      BY <1>5 DEF Enter, SoundInv, Sound, Matches
    <3> QED
      BY <1>5, <3>1 DEF Enter, Take
  <2>3. held' \in [Threads -> [Objects -> 0 .. MaxRecursion]]
    <3>1. held[t] \in [Objects -> 0 .. MaxRecursion] /\ held[t][o] + 1 \in 0 .. MaxRecursion
      BY <1>5 DEF Enter
    <3>2. [held[t] EXCEPT ![o] = @ + 1] \in [Objects -> 0 .. MaxRecursion]
      BY <3>1
    <3> QED
      BY <1>5, <3>2 DEF Enter
  <2>4. UNCHANGED <<lockVars, waitSet, woken, interrupted,
                     shuttingDown, pc, object, saved, outcome, timed, resume>>
    BY <1>5 DEF Enter, Take, Running, Holds
  <2> QED
    BY <2>1, <2>2, <2>3, <2>4, SameLock
<1>6. ASSUME NEW o \in Objects, EnterBlocked(t, o)
      PROVE  TypeOK'
  <2>1. LockTypeOK(Threads, MaxDepth)'
    BY <1>6, LockTypes DEF EnterBlocked, Park
  <2>2. resume' \in [Threads -> 1 .. MaxDepth]
    BY <1>6, HolderDepth DEF EnterBlocked, Park, ReleaseForBlocking, Goto, Running, Holds
  <2>3. pc' \in [Threads -> Points]
    BY <1>6 DEF EnterBlocked, Park, ReleaseForBlocking, Goto, Running, Holds
  <2>4. object' \in [Threads -> Objects]
    BY <1>6 DEF EnterBlocked, Park, ReleaseForBlocking, Goto, Running, Holds
  <2>5. saved' \in [Threads -> 0 .. MaxRecursion]
    BY <1>6 DEF EnterBlocked, Park, ReleaseForBlocking, Goto, Running, Holds
  <2>6. UNCHANGED <<owner, recursion, waitSet, woken, interrupted, shuttingDown,
                     outcome, timed, held>>
    BY <1>6 DEF EnterBlocked, Park, ReleaseForBlocking, Goto, Running, Holds
  <2> QED
    BY <2>1, <2>2, <2>3, <2>4, <2>5, <2>6
<1>7. ASSUME NEW o \in Objects, Exit(t, o)
      PROVE  TypeOK'
  <2>1. owner' \in [Objects -> Threads \cup {NoThread}]
    BY <1>7 DEF Exit, Running, Holds
  <2>2. recursion' \in [Objects -> 0 .. MaxRecursion]
    <3>1. recursion[o] - 1 \in 0 .. MaxRecursion
      BY <1>7 DEF Exit, Owns
    <3> QED
      BY <1>7, <3>1 DEF Exit
  <2>3. held' \in [Threads -> [Objects -> 0 .. MaxRecursion]]
    <3>1. held[t] \in [Objects -> 0 .. MaxRecursion]
      OBVIOUS
    <3>2. [held[t] EXCEPT ![o] = IF @ = 0 THEN 0 ELSE @ - 1] \in [Objects -> 0 .. MaxRecursion]
      BY <3>1
    <3> QED
      BY <1>7, <3>2 DEF Exit
  <2>4. UNCHANGED <<lockVars, waitSet, woken, interrupted,
                     shuttingDown, pc, object, saved, outcome, timed, resume>>
    BY <1>7 DEF Exit, Running, Holds
  <2> QED
    BY <2>1, <2>2, <2>3, <2>4, SameLock
<1>8. ASSUME NEW o \in Objects, WaitRefused(t, o)
      PROVE  TypeOK'
  <2>1. interrupted' \subseteq Threads
    BY <1>8 DEF WaitRefused, Running, Holds
  <2>2. UNCHANGED <<lockVars, owner, recursion, waitSet, woken,
                     shuttingDown, pc, object, saved, outcome, timed, resume, held>>
    BY <1>8 DEF WaitRefused, Running, Holds
  <2> QED
    BY <2>1, <2>2, SameLock
<1>9. ASSUME NEW o \in Objects, NEW deadline \in BOOLEAN, Wait(t, o, deadline)
      PROVE  TypeOK'
  <2>1. saved' \in [Threads -> 0 .. MaxRecursion]
    BY <1>9 DEF Wait, Goto, Running, Holds
  <2>2. object' \in [Threads -> Objects]
    BY <1>9 DEF Wait, Goto, Running, Holds
  <2>3. timed' \in [Threads -> BOOLEAN]
    BY <1>9 DEF Wait, Goto, Running, Holds
  <2>4. outcome' \in [Threads -> Outcomes \cup {"none", "undecided"}]
    BY <1>9 DEF Wait, Goto, Running, Holds
  <2>5. pc' \in [Threads -> Points]
    BY <1>9 DEF Wait, Goto, Running, Holds
  <2>6. UNCHANGED <<lockVars, owner, recursion, waitSet, woken,
                     interrupted, shuttingDown, resume, held>>
    BY <1>9 DEF Wait, Goto, Running, Holds
  <2> QED
    BY <2>1, <2>2, <2>3, <2>4, <2>5, <2>6, SameLock
<1>10. ASSUME NEW o \in Objects, Notify(t, o)
       PROVE  TypeOK'
  <2>1. waitSet' \in [Objects -> Seq(Threads)]
    BY <1>10, TailContains DEF Notify
  <2>2. woken' \subseteq Threads
    BY ZenonT(40), <1>10, TailContains DEF Notify
  <2>3. UNCHANGED <<lockVars, owner, recursion, interrupted,
                     shuttingDown, pc, object, saved, outcome, timed, resume, held>>
    BY <1>10 DEF Notify, Running, Holds
  <2> QED
    BY <2>1, <2>2, <2>3, SameLock
<1>11. ASSUME NEW o \in Objects, NotifyAll(t, o)
       PROVE  TypeOK'
  <2>1. waitSet' \in [Objects -> Seq(Threads)]
    <3>1. <<>> \in Seq(Threads)
      OBVIOUS
    <3> QED
      BY <1>11, <3>1 DEF NotifyAll, WakeAll
  <2>2. woken' \subseteq Threads
    <3>1. ToSet(waitSet[o]) \subseteq Threads
      BY ToSetContains
    <3> QED
      BY <1>11, <3>1 DEF NotifyAll, WakeAll
  <2>3. UNCHANGED <<lockVars, owner, recursion, interrupted,
                     shuttingDown, pc, object, saved, outcome, timed, resume, held>>
    BY <1>11 DEF NotifyAll, WakeAll, Running, Holds
  <2> QED
    BY <2>1, <2>2, <2>3, SameLock
<1>12. ASSUME NEW o \in Objects, NotifyForGc(t, o)
       PROVE  TypeOK'
  <2>1. waitSet' \in [Objects -> Seq(Threads)]
    <3>1. <<>> \in Seq(Threads)
      OBVIOUS
    <3> QED
      BY <1>12, <3>1 DEF NotifyForGc, WakeAll
  <2>2. woken' \subseteq Threads
    <3>1. ToSet(waitSet[o]) \subseteq Threads
      BY ToSetContains
    <3> QED
      BY <1>12, <3>1 DEF NotifyForGc, WakeAll
  <2>3. UNCHANGED <<lockVars, owner, recursion, interrupted,
                     shuttingDown, pc, object, saved, outcome, timed, resume, held>>
    BY <1>12 DEF NotifyForGc, WakeAll, Running, Holds
  <2> QED
    BY <2>1, <2>2, <2>3, SameLock
<1>13. ASSUME NEW target \in Threads, Interrupt(t, target)
       PROVE  TypeOK'
  <2>1. interrupted' \subseteq Threads
    BY <1>13 DEF Interrupt, Running, Holds
  <2>2. UNCHANGED <<lockVars, owner, recursion, waitSet, woken,
                     shuttingDown, pc, object, saved, outcome, timed, resume, held>>
    BY <1>13 DEF Interrupt, Running, Holds
  <2> QED
    BY <2>1, <2>2, SameLock
<1> QED
  BY <1>1, <1>2, <1>3, <1>4, <1>5, <1>6, <1>7, <1>8, <1>9, <1>10, <1>11, <1>12, <1>13 DEF BytecodeStep

LEMMA HostType ==
  ASSUME TypeOK, SoundInv, NEW t \in Threads, HostStep(t) \/ EndByDeadline(t)
  PROVE  TypeOK'
<1> USE VmMonitorsAssumption DEF VmMonitorsAssumption, TypeOK, lockVars, monitorVars, callVars,
         Points, WaitPoints, Outcomes
<1>1. CASE Start(t)
  <2>1. LockTypeOK(Threads, MaxDepth)'
    BY <1>1, LockTypes DEF Start
  <2>2. pc' \in [Threads -> Points]
    BY <1>1 DEF Start, TakeTicket, Goto, Holds
  <2>3. UNCHANGED <<owner, recursion, waitSet, woken, interrupted, shuttingDown,
                     object, saved, outcome, timed, resume, held>>
    BY <1>1 DEF Start, TakeTicket, Goto, Holds
  <2> QED
    BY <2>1, <2>2, <2>3
<1>2. CASE AdmitThread(t)
  <2>1. LockTypeOK(Threads, MaxDepth)'
    <3>1. resume[t] \in 1 .. MaxDepth
      OBVIOUS
    <3> QED
      BY <1>2, <3>1, LockTypes DEF AdmitThread
  <2>2. resume' \in [Threads -> 1 .. MaxDepth]
    BY <1>2 DEF AdmitThread, Admit
  <2>3. UNCHANGED <<owner, recursion, waitSet, woken, interrupted, shuttingDown,
                     pc, object, saved, outcome, timed, held>>
    BY <1>2 DEF AdmitThread, Admit
  <2> QED
    BY <2>1, <2>2, <2>3
<1>3. CASE Yield(t)
  <2>1. LockTypeOK(Threads, MaxDepth)'
    BY <1>3, LockTypes DEF Yield
  <2>2. resume' \in [Threads -> 1 .. MaxDepth]
    BY <1>3, HolderDepth DEF Yield, YieldToWaiter, Running, Holds
  <2>3. UNCHANGED <<owner, recursion, waitSet, woken, interrupted, shuttingDown,
                     pc, object, saved, outcome, timed, held>>
    BY <1>3 DEF Yield, YieldToWaiter, Running, Holds
  <2> QED
    BY <2>1, <2>2, <2>3
<1>4. CASE EntrantWakes(t)
  <2>1. pc' \in [Threads -> Points]
    BY <1>4 DEF EntrantWakes, Goto
  <2>2. UNCHANGED <<lockVars, owner, recursion, waitSet, woken,
                     interrupted, shuttingDown, object, saved, outcome, timed, resume, held>>
    BY <1>4 DEF EntrantWakes, Goto
  <2> QED
    BY <2>1, <2>2, SameLock
<1>5. CASE QueueForLock(t)
  <2>1. LockTypeOK(Threads, MaxDepth)'
    BY <1>5, LockTypes DEF QueueForLock
  <2>2. pc' \in [Threads -> Points]
    BY <1>5 DEF QueueForLock, TakeTicket, Goto, Holds
  <2>3. UNCHANGED <<owner, recursion, waitSet, woken, interrupted, shuttingDown,
                     object, saved, outcome, timed, resume, held>>
    BY <1>5 DEF QueueForLock, TakeTicket, Goto, Holds
  <2> QED
    BY <2>1, <2>2, <2>3
<1>6. CASE RetryBlocked(t)
  <2>1. LockTypeOK(Threads, MaxDepth)'
    BY <1>6, LockTypes DEF RetryBlocked, Park
  <2>2. resume' \in [Threads -> 1 .. MaxDepth]
    BY <1>6, HolderDepth DEF RetryBlocked, Park, ReleaseForBlocking, Goto, Holds
  <2>3. pc' \in [Threads -> Points]
    BY <1>6 DEF RetryBlocked, Park, ReleaseForBlocking, Goto, Holds
  <2>4. UNCHANGED <<owner, recursion, waitSet, woken, interrupted, shuttingDown,
                     object, saved, outcome, timed, held>>
    BY <1>6 DEF RetryBlocked, Park, ReleaseForBlocking, Goto, Holds
  <2> QED
    BY <2>1, <2>2, <2>3, <2>4
<1>7. CASE Retry(t)
  <2>1. owner' \in [Objects -> Threads \cup {NoThread}]
    BY <1>7 DEF Retry, Take, Goto, Holds
  <2>2. recursion' \in [Objects -> 0 .. MaxRecursion]
    BY <1>7 DEF Retry, Take, Goto, Holds
  <2>3. held' \in [Threads -> [Objects -> 0 .. MaxRecursion]]
    <3>1. [held[t] EXCEPT ![object[t]] = 1] \in [Objects -> 0 .. MaxRecursion]
      OBVIOUS
    <3> QED
      BY <1>7, <3>1 DEF Retry
  <2>4. waitSet' \in [Objects -> Seq(Threads)]
    <3>1. RemoveFirst(waitSet[object[t]], t) \in Seq(Threads)
      BY RemoveFirstProperties
    <3> QED
      BY <1>7, <3>1 DEF Retry
  <2>5. interrupted' \subseteq Threads
    BY <1>7 DEF Retry, Take, Goto, Holds
  <2>6. outcome' \in [Threads -> Outcomes \cup {"none", "undecided"}]
    BY <1>7 DEF Retry, Take, Goto, Holds
  <2>7. saved' \in [Threads -> 0 .. MaxRecursion]
    BY <1>7 DEF Retry, Take, Goto, Holds
  <2>8. timed' \in [Threads -> BOOLEAN]
    BY <1>7 DEF Retry, Take, Goto, Holds
  <2>9. pc' \in [Threads -> Points]
    BY <1>7 DEF Retry, Take, Goto, Holds
  <2>10. UNCHANGED <<lockVars, woken, shuttingDown, object, resume>>
    BY <1>7 DEF Retry, Take, Goto, Holds
  <2> QED
    BY <2>1, <2>2, <2>3, <2>4, <2>5, <2>6, <2>7, <2>8, <2>9, <2>10, SameLock
<1>8. CASE JoinWaitSet(t)
  <2>1. waitSet' \in [Objects -> Seq(Threads)]
    <3>1. Append(waitSet[object[t]], t) \in Seq(Threads)
      BY AppendProperties
    <3> QED
      BY <1>8, <3>1 DEF JoinWaitSet
  <2>2. recursion' \in [Objects -> 0 .. MaxRecursion]
    BY <1>8 DEF JoinWaitSet, Park, ReleaseForBlocking, Goto, Holds
  <2>3. owner' \in [Objects -> Threads \cup {NoThread}]
    BY <1>8 DEF JoinWaitSet, Park, ReleaseForBlocking, Goto, Holds
  <2>4. woken' \subseteq Threads
    BY <1>8 DEF JoinWaitSet, Park, ReleaseForBlocking, Goto, Holds
  <2>5. LockTypeOK(Threads, MaxDepth)'
    BY <1>8, LockTypes DEF JoinWaitSet, Park
  <2>6. resume' \in [Threads -> 1 .. MaxDepth]
    BY <1>8, HolderDepth DEF JoinWaitSet, Park, ReleaseForBlocking, Goto, Holds
  <2>7. pc' \in [Threads -> Points]
    BY <1>8 DEF JoinWaitSet, Park, ReleaseForBlocking, Goto, Holds
  <2>8. UNCHANGED <<interrupted, shuttingDown, object, saved, outcome, timed, held>>
    BY <1>8 DEF JoinWaitSet, Park, ReleaseForBlocking, Goto, Holds
  <2> QED
    BY <2>1, <2>2, <2>3, <2>4, <2>5, <2>6, <2>7, <2>8
<1>9. CASE EndByShutdown(t)
  <2>1. outcome' \in [Threads -> Outcomes \cup {"none", "undecided"}]
    BY <1>9 DEF EndByShutdown, Decide, Goto
  <2>2. pc' \in [Threads -> Points]
    BY <1>9 DEF EndByShutdown, Decide, Goto
  <2>3. UNCHANGED <<lockVars, owner, recursion, waitSet, woken,
                     interrupted, shuttingDown, object, saved, timed, resume, held>>
    BY <1>9 DEF EndByShutdown, Decide, Goto
  <2> QED
    BY <2>1, <2>2, <2>3, SameLock
<1>10. CASE EndByInterrupt(t)
  <2>1. outcome' \in [Threads -> Outcomes \cup {"none", "undecided"}]
    BY <1>10 DEF EndByInterrupt, Decide, Goto
  <2>2. pc' \in [Threads -> Points]
    BY <1>10 DEF EndByInterrupt, Decide, Goto
  <2>3. UNCHANGED <<lockVars, owner, recursion, waitSet, woken,
                     interrupted, shuttingDown, object, saved, timed, resume, held>>
    BY <1>10 DEF EndByInterrupt, Decide, Goto
  <2> QED
    BY <2>1, <2>2, <2>3, SameLock
<1>11. CASE EndByNotify(t)
  <2>1. woken' \subseteq Threads
    BY <1>11 DEF EndByNotify, Decide, Goto
  <2>2. outcome' \in [Threads -> Outcomes \cup {"none", "undecided"}]
    BY <1>11 DEF EndByNotify, Decide, Goto
  <2>3. pc' \in [Threads -> Points]
    BY <1>11 DEF EndByNotify, Decide, Goto
  <2>4. UNCHANGED <<lockVars, owner, recursion, waitSet, interrupted,
                     shuttingDown, object, saved, timed, resume, held>>
    BY <1>11 DEF EndByNotify, Decide, Goto
  <2> QED
    BY <2>1, <2>2, <2>3, <2>4, SameLock
<1>12. CASE EndByDeadline(t)
  <2>1. outcome' \in [Threads -> Outcomes \cup {"none", "undecided"}]
    BY <1>12 DEF EndByDeadline, Decide, Goto
  <2>2. pc' \in [Threads -> Points]
    BY <1>12 DEF EndByDeadline, Decide, Goto
  <2>3. UNCHANGED <<lockVars, owner, recursion, waitSet, woken,
                     interrupted, shuttingDown, object, saved, timed, resume, held>>
    BY <1>12 DEF EndByDeadline, Decide, Goto
  <2> QED
    BY <2>1, <2>2, <2>3, SameLock
<1>13. CASE ReleaseAll(t)
  <2>1. owner' \in [Objects -> Threads \cup {NoThread}]
    BY <1>13 DEF ReleaseAll, Goto
  <2>2. recursion' \in [Objects -> 0 .. MaxRecursion]
    BY <1>13 DEF ReleaseAll, Goto
  <2>3. waitSet' \in [Objects -> Seq(Threads)]
    <3>1. \A o \in Objects : RemoveFirst(waitSet[o], t) \in Seq(Threads)
      BY RemoveFirstProperties
    <3> QED
      BY <1>13, <3>1 DEF ReleaseAll
  <2>4. woken' \subseteq Threads
    BY <1>13 DEF ReleaseAll, Goto
  <2>5. interrupted' \subseteq Threads
    BY <1>13 DEF ReleaseAll, Goto
  <2>6. held' \in [Threads -> [Objects -> 0 .. MaxRecursion]]
    <3>1. [o \in Objects |-> 0] \in [Objects -> 0 .. MaxRecursion]
      OBVIOUS
    <3> QED
      BY <1>13, <3>1 DEF ReleaseAll
  <2>7. pc' \in [Threads -> Points]
    BY <1>13 DEF ReleaseAll, Goto
  <2>8. UNCHANGED <<lockVars, shuttingDown, object, saved, outcome,
                     timed, resume>>
    BY <1>13 DEF ReleaseAll, Goto
  <2> QED
    BY <2>1, <2>2, <2>3, <2>4, <2>5, <2>6, <2>7, <2>8, SameLock
<1> QED
  BY <1>1, <1>2, <1>3, <1>4, <1>5, <1>6, <1>7, <1>8, <1>9, <1>10, <1>11, <1>12, <1>13 DEF HostStep, EndPark

LEMMA TypeStep ==
  ASSUME TypeOK, SoundInv, [Next]_vars
  PROVE  TypeOK'
<1>1. CASE UNCHANGED vars \/ Shutdown
  BY <1>1 DEF Shutdown, vars, lockVars, monitorVars, callVars, TypeOK, LockTypeOK
<1>2. CASE \E t \in Threads : BytecodeStep(t) \/ HostStep(t) \/ EndByDeadline(t)
  BY <1>2, BytecodeType, HostType
<1> QED
  BY <1>1, <1>2 DEF Next

-----------------------------------------------------------------------------
(* Enters, exits and waits.                                                *)

\* A step of another thread: what u has entered and waits for is as it was, and a
\* monitor that changes is not, and until shutdown was not, owned by u.
Undisturbed(u) ==
  /\ shuttingDown' = shuttingDown
  /\ pc'[u] = pc[u] /\ object'[u] = object[u] /\ saved'[u] = saved[u]
  /\ outcome'[u] = outcome[u] /\ held'[u] = held[u]
  /\ \A o \in Objects :
       \/ Owns(u, o)' = Owns(u, o) /\ recursion'[o] = recursion[o]
       \/ ~Owns(u, o)' /\ (~shuttingDown => ~Owns(u, o))

LEMMA UndisturbedKeeps ==
  ASSUME TypeOK, NEW u \in Threads, Undisturbed(u), Sound(u)
  PROVE  Sound(u)'
<1>1. object[u] \in Objects
  BY DEF TypeOK
<1>2. Keeps(u)'
  BY DEF Sound, Keeps, Undisturbed
<1>3. \A o \in Objects : Waits(u, o)' <=> Waits(u, o)
  BY DEF Waits, Undisturbed
<1>4. KeepsAll(u)'
  BY <1>1, <1>3 DEF Sound, KeepsAll, Undisturbed
<1>5. \A o \in Objects : Matches(u, o)'
  BY <1>3 DEF Sound, Matches, Undisturbed
<1> QED
  BY <1>2, <1>4, <1>5 DEF Sound

\* Each step leaves the other threads undisturbed.
LEMMA BytecodeOthers ==
  ASSUME TypeOK, SoundInv, NEW t \in Threads, NEW u \in Threads \ {t}, BytecodeStep(t)
  PROVE  Undisturbed(u)
<1> USE VmMonitorsAssumption DEF VmMonitorsAssumption, TypeOK, lockVars, monitorVars, callVars,
         Undisturbed, Owns
<1>1. CASE CallNested(t)
  BY <1>1 DEF CallNested, Nest, Running, Holds
<1>2. CASE ReturnNested(t)
  BY <1>2 DEF ReturnNested, Release, Running, Holds
<1>3. CASE ClearInterrupt(t)
  BY <1>3 DEF ClearInterrupt, Running, Holds
<1>4. CASE Finish(t)
  BY <1>4 DEF Finish, ReleaseForBlocking, Goto, Running, Holds
<1>5. ASSUME NEW o \in Objects, Enter(t, o)
      PROVE  Undisturbed(u)
  <2>1. /\ owner' = [owner EXCEPT ![o] = t]
        /\ recursion' = [recursion EXCEPT ![o] = IF Owns(t, o) THEN recursion[o] + 1 ELSE 1]
        /\ held' = [held EXCEPT ![t][o] = @ + 1]
        /\ UNCHANGED <<shuttingDown, pc, object, saved, outcome>>
    BY <1>5 DEF Enter, Take
  <2>2. held'[u] = held[u]
    BY <2>1
  <2>3. ~shuttingDown => ~Owns(u, o)
    BY <1>5 DEF Enter, Available, Free
  <2>4. owner'[o] = t /\ \A p \in Objects \ {o} : owner'[p] = owner[p] /\ recursion'[p] = recursion[p]
    BY <2>1
  <2> QED
    BY <2>1, <2>2, <2>3, <2>4
<1>6. ASSUME NEW o \in Objects, EnterBlocked(t, o)
      PROVE  Undisturbed(u)
  BY <1>6 DEF EnterBlocked, Park, ReleaseForBlocking, Goto, Running, Holds
<1>7. ASSUME NEW o \in Objects, Exit(t, o)
      PROVE  Undisturbed(u)
  BY <1>7 DEF Exit, Running, Holds
<1>8. ASSUME NEW o \in Objects, WaitRefused(t, o)
      PROVE  Undisturbed(u)
  BY <1>8 DEF WaitRefused, Running, Holds
<1>9. ASSUME NEW o \in Objects, NEW deadline \in BOOLEAN, Wait(t, o, deadline)
      PROVE  Undisturbed(u)
  BY <1>9 DEF Wait, Goto, Running, Holds
<1>10. ASSUME NEW o \in Objects, Notify(t, o)
       PROVE  Undisturbed(u)
  BY <1>10 DEF Notify, Running, Holds
<1>11. ASSUME NEW o \in Objects, NotifyAll(t, o)
       PROVE  Undisturbed(u)
  BY <1>11 DEF NotifyAll, WakeAll, Running, Holds
<1>12. ASSUME NEW o \in Objects, NotifyForGc(t, o)
       PROVE  Undisturbed(u)
  BY <1>12 DEF NotifyForGc, WakeAll, Running, Holds
<1>13. ASSUME NEW target \in Threads, Interrupt(t, target)
       PROVE  Undisturbed(u)
  BY <1>13 DEF Interrupt, Running, Holds
<1> HIDE DEF TypeOK, Undisturbed, Owns
<1> QED
  BY <1>1, <1>2, <1>3, <1>4, <1>5, <1>6, <1>7, <1>8, <1>9, <1>10, <1>11, <1>12, <1>13 DEF BytecodeStep

LEMMA HostOthers ==
  ASSUME TypeOK, SoundInv, NEW t \in Threads, NEW u \in Threads \ {t}, HostStep(t) \/ EndByDeadline(t)
  PROVE  Undisturbed(u)
<1> USE VmMonitorsAssumption DEF VmMonitorsAssumption, TypeOK, lockVars, monitorVars, callVars,
         Undisturbed, Owns
<1>1. CASE Start(t)
  BY <1>1 DEF Start, TakeTicket, Goto, Holds
<1>2. CASE AdmitThread(t)
  BY <1>2 DEF AdmitThread, Admit
<1>3. CASE Yield(t)
  BY <1>3 DEF Yield, YieldToWaiter, Running, Holds
<1>4. CASE EntrantWakes(t)
  BY <1>4 DEF EntrantWakes, Goto
<1>5. CASE QueueForLock(t)
  BY <1>5 DEF QueueForLock, TakeTicket, Goto, Holds
<1>6. CASE RetryBlocked(t)
  BY <1>6 DEF RetryBlocked, Park, ReleaseForBlocking, Goto, Holds
<1>7. CASE Retry(t)
  <2>1. /\ owner' = [owner EXCEPT ![object[t]] = t]
        /\ recursion' = [recursion EXCEPT ![object[t]] = saved[t]]
        /\ shuttingDown' = shuttingDown
        /\ pc'[u] = pc[u] /\ object'[u] = object[u] /\ saved'[u] = saved[u]
        /\ outcome'[u] = outcome[u]
    BY <1>7 DEF Retry, Take, Goto
  <2>2. held'[u] = held[u]
    BY <1>7 DEF Retry
  <2>3. ~shuttingDown => ~Owns(u, object[t])
    BY <1>7 DEF Retry, Available, Free
  <2>4. /\ owner'[object[t]] = t
        /\ \A p \in Objects \ {object[t]} : owner'[p] = owner[p] /\ recursion'[p] = recursion[p]
    BY <2>1
  <2> QED
    BY <2>1, <2>2, <2>3, <2>4
<1>8. CASE JoinWaitSet(t)
  <2>1. /\ owner' = [owner EXCEPT ![object[t]] = NoThread]
        /\ recursion' = [recursion EXCEPT ![object[t]] = 0]
        /\ UNCHANGED <<shuttingDown, object, saved, outcome, held>>
        /\ pc'[u] = pc[u]
    BY <1>8 DEF JoinWaitSet, Goto
  <2>2. ~shuttingDown => Owns(t, object[t])
    BY <1>8 DEF JoinWaitSet, SoundInv, Sound, KeepsAll
  <2>3. /\ recursion'[object[t]] = 0
        /\ \A p \in Objects \ {object[t]} : owner'[p] = owner[p] /\ recursion'[p] = recursion[p]
    BY <2>1
  <2> QED
    BY <2>1, <2>2, <2>3
<1>9. CASE EndByShutdown(t)
  BY <1>9 DEF EndByShutdown, Decide, Goto
<1>10. CASE EndByInterrupt(t)
  BY <1>10 DEF EndByInterrupt, Decide, Goto
<1>11. CASE EndByNotify(t)
  BY <1>11 DEF EndByNotify, Decide, Goto
<1>12. CASE EndByDeadline(t)
  BY <1>12 DEF EndByDeadline, Decide, Goto
<1>13. CASE ReleaseAll(t)
  BY <1>13 DEF ReleaseAll, Goto
<1> HIDE DEF TypeOK, Undisturbed, Owns
<1> QED
  BY <1>1, <1>2, <1>3, <1>4, <1>5, <1>6, <1>7, <1>8, <1>9, <1>10, <1>11, <1>12, <1>13 DEF HostStep, EndPark

\* Each step leaves the thread that makes it sound.
LEMMA BytecodeOwn ==
  ASSUME TypeOK, SoundInv, NEW t \in Threads, BytecodeStep(t)
  PROVE  Sound(t)'
<1> USE VmMonitorsAssumption DEF VmMonitorsAssumption, TypeOK, lockVars, monitorVars, callVars,
         SoundInv, Sound, Keeps, KeepsAll, Matches, Waits, Owns, WaitPoints, Retrying
<1>1. CASE CallNested(t)
  BY ZenonT(40), <1>1 DEF CallNested, Nest, Running, Holds
<1>2. CASE ReturnNested(t)
  BY ZenonT(40), <1>2 DEF ReturnNested, Release, Running, Holds
<1>3. CASE ClearInterrupt(t)
  BY ZenonT(40), <1>3 DEF ClearInterrupt, Running, Holds
<1>4. CASE Finish(t)
  BY ZenonT(40), <1>4 DEF Finish, ReleaseForBlocking, Goto, Running, Holds
<1>5. ASSUME NEW o \in Objects, Enter(t, o)
      PROVE  Sound(t)'
  <2>1. /\ owner' = [owner EXCEPT ![o] = t]
        /\ recursion' = [recursion EXCEPT ![o] = IF Owns(t, o) THEN recursion[o] + 1 ELSE 1]
        /\ held' = [held EXCEPT ![t][o] = @ + 1]
        /\ UNCHANGED <<shuttingDown, pc, object, saved, outcome>>
        /\ pc[t] = "java"
    BY <1>5 DEF Enter, Take, Running
  <2>5. outcome[t] = "none"
    BY <2>1
  <2>6. /\ owner'[o] = t /\ held'[t][o] = held[t][o] + 1
        /\ recursion'[o] = IF Owns(t, o) THEN recursion[o] + 1 ELSE 1
    BY <2>1
  <2>7. \A p \in Objects \ {o} :
          owner'[p] = owner[p] /\ recursion'[p] = recursion[p] /\ held'[t][p] = held[t][p]
    BY <2>1
  <2>2. Keeps(t)'
    BY <2>1, <2>5
  <2>3. KeepsAll(t)'
    BY <2>1, <2>5
  <2>4. \A p \in Objects : Matches(t, p)'
    BY SMTT(20), <2>1, <2>5, <2>6, <2>7
  <2> QED
    BY <2>2, <2>3, <2>4
<1>6. ASSUME NEW o \in Objects, EnterBlocked(t, o)
      PROVE  Sound(t)'
  BY ZenonT(40), <1>6 DEF EnterBlocked, Park, ReleaseForBlocking, Goto, Running, Holds
<1>7. ASSUME NEW o \in Objects, Exit(t, o)
      PROVE  Sound(t)'
  <2>1. /\ Owns(t, o)
        /\ owner' = [owner EXCEPT ![o] = IF recursion[o] = 1 THEN NoThread ELSE @]
        /\ recursion' = [recursion EXCEPT ![o] = @ - 1]
        /\ held' = [held EXCEPT ![t][o] = IF @ = 0 THEN 0 ELSE @ - 1]
        /\ UNCHANGED <<shuttingDown, pc, object, saved, outcome>>
        /\ pc[t] = "java"
    BY <1>7 DEF Exit, Running
  <2>5. outcome[t] = "none"
    BY <2>1
  <2>6. /\ owner'[o] = IF recursion[o] = 1 THEN NoThread ELSE t
        /\ held'[t][o] = IF held[t][o] = 0 THEN 0 ELSE held[t][o] - 1
        /\ recursion'[o] = recursion[o] - 1
    BY <2>1
  <2>7. \A p \in Objects \ {o} :
          owner'[p] = owner[p] /\ recursion'[p] = recursion[p] /\ held'[t][p] = held[t][p]
    BY <2>1
  <2>2. Keeps(t)'
    BY <2>1, <2>5
  <2>3. KeepsAll(t)'
    BY <2>1, <2>5
  <2>4. \A p \in Objects : Matches(t, p)'
    <3>1. recursion[o] <= held[t][o] /\ recursion[o] # 0 /\ held[t][o] \in Nat /\ recursion[o] \in Nat
      BY <2>1
    <3>2. held'[t][o] = held[t][o] - 1 /\ recursion'[o] \in Nat
      BY <2>6, <3>1
    <3>3. ~shuttingDown => held[t][o] = recursion[o]
      BY <2>1
    <3>4. recursion[o] # 1 => Owns(t, o)'
      BY <2>6, <3>1
    <3>5. recursion[o] = 1 => ~Owns(t, o)'
      BY <2>6, <3>1
    <3>6. \A p \in Objects : ~Waits(t, p)'
      BY <2>1, <2>5
    <3>7. Matches(t, o)'
      BY <2>1, <2>6, <3>1, <3>2, <3>3, <3>4, <3>5, <3>6
    <3>8. \A p \in Objects \ {o} : Matches(t, p)'
      BY SMTT(20), <2>1, <2>5, <2>7
    <3> QED
      BY <3>7, <3>8
  <2> QED
    BY <2>2, <2>3, <2>4
<1>8. ASSUME NEW o \in Objects, WaitRefused(t, o)
      PROVE  Sound(t)'
  <2>1. /\ UNCHANGED <<owner, recursion, held, shuttingDown, object, saved, outcome>>
        /\ pc' = pc
    BY <1>8 DEF WaitRefused
  <2>2. Keeps(t)'
    BY <2>1
  <2>3. KeepsAll(t)'
    BY <2>1
  <2>4. \A p \in Objects : Matches(t, p)'
    BY <2>1
  <2> QED
    BY <2>2, <2>3, <2>4
<1>9. ASSUME NEW o \in Objects, NEW deadline \in BOOLEAN, Wait(t, o, deadline)
      PROVE  Sound(t)'
  <2>1. /\ Owns(t, o)
        /\ UNCHANGED <<owner, recursion, held, shuttingDown>>
        /\ pc[t] = "java" /\ pc'[t] = "wait_joining"
        /\ object'[t] = o /\ saved'[t] = recursion[o] /\ outcome'[t] = "undecided"
    BY <1>9 DEF Wait, Running, Goto
  <2>2. Keeps(t)'
    BY <2>1
  <2>3. KeepsAll(t)'
    BY <2>1
  <2>4. \A p \in Objects : Matches(t, p)'
    <3>1. \A p \in Objects : ~Waits(t, p) /\ ~Waits(t, p)'
      BY <2>1
    <3>2. \A p \in Objects : Owns(t, p)' <=> Owns(t, p)
      BY <2>1
    <3> QED
      BY <2>1, <3>1, <3>2
  <2> QED
    BY <2>2, <2>3, <2>4
<1>10. ASSUME NEW o \in Objects, Notify(t, o)
       PROVE  Sound(t)'
  <2>1. /\ UNCHANGED <<owner, recursion, held, shuttingDown, object, saved, outcome>>
        /\ pc' = pc
    BY <1>10 DEF Notify
  <2>2. Keeps(t)'
    BY <2>1
  <2>3. KeepsAll(t)'
    BY <2>1
  <2>4. \A p \in Objects : Matches(t, p)'
    BY <2>1
  <2> QED
    BY <2>2, <2>3, <2>4
<1>11. ASSUME NEW o \in Objects, NotifyAll(t, o)
       PROVE  Sound(t)'
  <2>1. /\ UNCHANGED <<owner, recursion, held, shuttingDown, object, saved, outcome>>
        /\ pc' = pc
    BY <1>11 DEF NotifyAll, WakeAll
  <2>2. Keeps(t)'
    BY <2>1
  <2>3. KeepsAll(t)'
    BY <2>1
  <2>4. \A p \in Objects : Matches(t, p)'
    BY <2>1
  <2> QED
    BY <2>2, <2>3, <2>4
<1>12. ASSUME NEW o \in Objects, NotifyForGc(t, o)
       PROVE  Sound(t)'
  <2>1. /\ UNCHANGED <<owner, recursion, held, shuttingDown, object, saved, outcome>>
        /\ pc' = pc
    BY <1>12 DEF NotifyForGc, WakeAll
  <2>2. Keeps(t)'
    BY <2>1
  <2>3. KeepsAll(t)'
    BY <2>1
  <2>4. \A p \in Objects : Matches(t, p)'
    BY <2>1
  <2> QED
    BY <2>2, <2>3, <2>4
<1>13. ASSUME NEW target \in Threads, Interrupt(t, target)
       PROVE  Sound(t)'
  BY ZenonT(40), <1>13 DEF Interrupt, Running, Holds
<1> QED
  BY <1>1, <1>2, <1>3, <1>4, <1>5, <1>6, <1>7, <1>8, <1>9, <1>10, <1>11, <1>12, <1>13 DEF BytecodeStep

LEMMA HostOwn ==
  ASSUME TypeOK, SoundInv, NEW t \in Threads, HostStep(t) \/ EndByDeadline(t)
  PROVE  Sound(t)'
<1> USE VmMonitorsAssumption DEF VmMonitorsAssumption, TypeOK, lockVars, monitorVars, callVars,
         SoundInv, Sound, Keeps, KeepsAll, Matches, Waits, Owns, WaitPoints, Retrying
<1>1. CASE Start(t)
  <2>1. /\ UNCHANGED <<owner, recursion, held, shuttingDown, object, saved, outcome>>
        /\ pc[t] = "new" /\ pc'[t] = "java"
    BY <1>1 DEF Start, TakeTicket, Goto
  <2>2. Keeps(t)'
    BY <2>1
  <2>3. KeepsAll(t)'
    BY <2>1
  <2>4. \A p \in Objects : Matches(t, p)'
    BY <2>1
  <2> QED
    BY <2>2, <2>3, <2>4
<1>2. CASE AdmitThread(t)
  BY <1>2 DEF AdmitThread, Admit
<1>3. CASE Yield(t)
  BY ZenonT(40), <1>3 DEF Yield, YieldToWaiter, Running, Holds
<1>4. CASE EntrantWakes(t)
  <2>1. /\ UNCHANGED <<owner, recursion, held, shuttingDown, object, saved, outcome>>
        /\ pc[t] = "entering" /\ pc'[t] = "enter_woken"
    BY <1>4 DEF EntrantWakes, Goto
  <2>2. Keeps(t)'
    BY <2>1
  <2>3. KeepsAll(t)'
    BY <2>1
  <2>4. \A p \in Objects : Matches(t, p)'
    BY <2>1
  <2> QED
    BY <2>2, <2>3, <2>4
<1>5. CASE QueueForLock(t)
  BY <1>5 DEF QueueForLock, TakeTicket, Goto, Holds
<1>6. CASE RetryBlocked(t)
  BY <1>6 DEF RetryBlocked, Park, ReleaseForBlocking, Goto, Holds
<1>7. CASE Retry(t)
  BY <1>7 DEF Retry, Take, Goto, Holds
<1>8. CASE JoinWaitSet(t)
  BY <1>8 DEF JoinWaitSet, Park, ReleaseForBlocking, Goto, Holds
<1>9. CASE EndByShutdown(t)
  BY <1>9 DEF EndByShutdown, Decide, Goto
<1>10. CASE EndByInterrupt(t)
  BY <1>10 DEF EndByInterrupt, Decide, Goto
<1>11. CASE EndByNotify(t)
  BY <1>11 DEF EndByNotify, Decide, Goto
<1>12. CASE EndByDeadline(t)
  BY <1>12 DEF EndByDeadline, Decide, Goto
<1>13. CASE ReleaseAll(t)
  <2>1. /\ owner' = [o \in Objects |-> IF Owns(t, o) THEN NoThread ELSE owner[o]]
        /\ recursion' = [o \in Objects |-> IF Owns(t, o) THEN 0 ELSE recursion[o]]
        /\ held'[t] = [o \in Objects |-> 0]
        /\ UNCHANGED <<shuttingDown, object, saved, outcome>>
        /\ pc[t] = "dying" /\ pc'[t] = "dead"
    BY <1>13 DEF ReleaseAll, Goto
  <2>5. \A p \in Objects : ~Owns(t, p)' /\ held'[t][p] = 0
    BY <2>1
  <2>2. Keeps(t)'
    BY <2>1
  <2>3. KeepsAll(t)'
    BY <2>1
  <2>4. \A p \in Objects : Matches(t, p)'
    BY <2>1, <2>5
  <2> QED
    BY <2>2, <2>3, <2>4
<1> QED
  BY <1>1, <1>2, <1>3, <1>4, <1>5, <1>6, <1>7, <1>8, <1>9, <1>10, <1>11, <1>12, <1>13 DEF HostStep, EndPark

LEMMA SoundStep ==
  ASSUME TypeOK, SoundInv, [Next]_vars
  PROVE  SoundInv'
<1> SUFFICES ASSUME NEW u \in Threads
             PROVE  Sound(u)'
  BY DEF SoundInv
<1>1. CASE UNCHANGED vars
  BY <1>1 DEF SoundInv, Sound, Keeps, KeepsAll, Matches, Waits, Owns, vars, lockVars,
              monitorVars, callVars
<1>2. CASE Shutdown
  BY <1>2 DEF SoundInv, Sound, Keeps, KeepsAll, Matches, Waits, Owns, Shutdown, lockVars,
              monitorVars, callVars
<1>3. ASSUME NEW t \in Threads, BytecodeStep(t) \/ HostStep(t) \/ EndByDeadline(t)
      PROVE  Sound(u)'
  <2>1. CASE u = t
    BY <1>3, <2>1, BytecodeOwn, HostOwn
  <2>2. CASE u # t
    <3>1. Undisturbed(u)
      BY <1>3, <2>2, BytecodeOthers, HostOthers
    <3> QED
      BY <3>1, UndisturbedKeeps DEF SoundInv
  <2> QED
    BY <2>1, <2>2
<1> QED
  BY <1>1, <1>2, <1>3 DEF Next

-----------------------------------------------------------------------------
(* Waiters and notifies.                                                   *)

Reachable(u) == pc[u] = "waiting" => Contains(waitSet[object[u]], u) \/ u \in woken

\* Each step leaves every parked waiter within reach.
LEMMA BytecodeReach ==
  ASSUME TypeOK, NEW u \in Threads, Reachable(u), NEW t \in Threads, BytecodeStep(t)
  PROVE  Reachable(u)'
<1> USE VmMonitorsAssumption DEF VmMonitorsAssumption, TypeOK, lockVars, monitorVars, callVars,
         Reachable
<1>1. CASE CallNested(t)
  BY <1>1 DEF CallNested, Nest, Running, Holds
<1>2. CASE ReturnNested(t)
  BY <1>2 DEF ReturnNested, Release, Running, Holds
<1>3. CASE ClearInterrupt(t)
  BY <1>3 DEF ClearInterrupt, Running, Holds
<1>4. CASE Finish(t)
  BY <1>4 DEF Finish, ReleaseForBlocking, Goto, Running, Holds
<1>5. ASSUME NEW o \in Objects, Enter(t, o)
      PROVE  Reachable(u)'
  BY <1>5 DEF Enter, Take, Running, Holds
<1>6. ASSUME NEW o \in Objects, EnterBlocked(t, o)
      PROVE  Reachable(u)'
  BY <1>6 DEF EnterBlocked, Park, ReleaseForBlocking, Goto, Running, Holds
<1>7. ASSUME NEW o \in Objects, Exit(t, o)
      PROVE  Reachable(u)'
  BY <1>7 DEF Exit, Running, Holds
<1>8. ASSUME NEW o \in Objects, WaitRefused(t, o)
      PROVE  Reachable(u)'
  BY <1>8 DEF WaitRefused, Running, Holds
<1>9. ASSUME NEW o \in Objects, NEW deadline \in BOOLEAN, Wait(t, o, deadline)
      PROVE  Reachable(u)'
  BY <1>9 DEF Wait, Goto, Running, Holds
<1>10. ASSUME NEW o \in Objects, Notify(t, o)
       PROVE  Reachable(u)'
  <2>1. /\ waitSet[o] # <<>>
        /\ waitSet' = [waitSet EXCEPT ![o] = Tail(@)]
        /\ woken' = woken \cup {Head(waitSet[o])}
        /\ pc' = pc /\ object' = object
    BY <1>10 DEF Notify
  <2>2. CASE object[u] = o
    <3>1. Contains(waitSet[o], u) => u \in woken' \/ Contains(Tail(waitSet[o]), u)
      BY <2>1, TailContains
    <3> QED
      BY <2>1, <2>2, <3>1
  <2>3. CASE object[u] # o
    BY <2>1, <2>3
  <2> QED
    BY <2>2, <2>3
<1>11. ASSUME NEW o \in Objects, NotifyAll(t, o)
       PROVE  Reachable(u)'
  <2>1. /\ waitSet' = [waitSet EXCEPT ![o] = <<>>]
        /\ woken' = woken \cup ToSet(waitSet[o])
        /\ pc' = pc /\ object' = object
    BY <1>11 DEF NotifyAll, WakeAll
  <2>2. CASE object[u] = o
    <3>1. Contains(waitSet[o], u) => u \in woken'
      BY <2>1, ToSetContains
    <3> QED
      BY <2>1, <2>2, <3>1
  <2>3. CASE object[u] # o
    BY <2>1, <2>3
  <2> QED
    BY <2>2, <2>3
<1>12. ASSUME NEW o \in Objects, NotifyForGc(t, o)
       PROVE  Reachable(u)'
  <2>1. /\ waitSet' = [waitSet EXCEPT ![o] = <<>>]
        /\ woken' = woken \cup ToSet(waitSet[o])
        /\ pc' = pc /\ object' = object
    BY <1>12 DEF NotifyForGc, WakeAll
  <2>2. CASE object[u] = o
    <3>1. Contains(waitSet[o], u) => u \in woken'
      BY <2>1, ToSetContains
    <3> QED
      BY <2>1, <2>2, <3>1
  <2>3. CASE object[u] # o
    BY <2>1, <2>3
  <2> QED
    BY <2>2, <2>3
<1>13. ASSUME NEW target \in Threads, Interrupt(t, target)
       PROVE  Reachable(u)'
  BY <1>13 DEF Interrupt, Running, Holds
<1> HIDE DEF TypeOK, Reachable
<1> QED
  BY <1>1, <1>2, <1>3, <1>4, <1>5, <1>6, <1>7, <1>8, <1>9, <1>10, <1>11, <1>12, <1>13 DEF BytecodeStep

LEMMA HostReach ==
  ASSUME TypeOK, NEW u \in Threads, Reachable(u), NEW t \in Threads, HostStep(t) \/ EndByDeadline(t)
  PROVE  Reachable(u)'
<1> USE VmMonitorsAssumption DEF VmMonitorsAssumption, TypeOK, lockVars, monitorVars, callVars,
         Reachable
<1>1. CASE Start(t)
  BY <1>1 DEF Start, TakeTicket, Goto, Holds
<1>2. CASE AdmitThread(t)
  BY <1>2 DEF AdmitThread, Admit
<1>3. CASE Yield(t)
  BY <1>3 DEF Yield, YieldToWaiter, Running, Holds
<1>4. CASE EntrantWakes(t)
  BY <1>4 DEF EntrantWakes, Goto
<1>5. CASE QueueForLock(t)
  BY <1>5 DEF QueueForLock, TakeTicket, Goto, Holds
<1>6. CASE RetryBlocked(t)
  BY <1>6 DEF RetryBlocked, Park, ReleaseForBlocking, Goto, Holds
<1>7. CASE Retry(t)
  <2>1. /\ pc'[t] = "java"
        /\ \A v \in Threads \ {t} : pc'[v] = pc[v]
        /\ object' = object /\ woken' = woken
    BY <1>7 DEF Retry, Goto
  <2>2. waitSet' = waitSet \/ waitSet' = [waitSet EXCEPT ![object[t]] = RemoveFirst(@, t)]
    BY <1>7 DEF Retry
  <2>3. \A p \in Objects : u # t /\ Contains(waitSet[p], u) => Contains(RemoveFirst(waitSet[p], t), u)
    BY RemoveFirstProperties
  <2>4. CASE u = t
    BY <2>1, <2>4
  <2>5. CASE u # t /\ waitSet' = waitSet
    BY <2>1, <2>5
  <2>6. CASE u # t /\ waitSet' = [waitSet EXCEPT ![object[t]] = RemoveFirst(@, t)]
    <3>1. object[u] \in Objects /\ object[t] \in Objects
      OBVIOUS
    <3>2. Contains(waitSet[object[u]], u) => Contains(waitSet'[object[u]], u)
      BY <2>3, <2>6, <3>1
    <3> QED
      BY <2>1, <2>6, <3>2
  <2> QED
    BY <2>2, <2>4, <2>5, <2>6
<1>8. CASE JoinWaitSet(t)
  <2>1. /\ \A v \in Threads \ {t} : pc'[v] = pc[v]
        /\ object' = object /\ woken' = woken \ {t}
        /\ waitSet' = [waitSet EXCEPT ![object[t]] = Append(@, t)]
    BY <1>8 DEF JoinWaitSet, Goto
  <2>2. \A p \in Objects :
          /\ Contains(Append(waitSet[p], t), t)
          /\ Contains(waitSet[p], u) => Contains(Append(waitSet[p], t), u)
    BY AppendContains
  <2> QED
    BY <2>1, <2>2
<1>9. CASE EndByShutdown(t)
  BY <1>9 DEF EndByShutdown, Decide, Goto
<1>10. CASE EndByInterrupt(t)
  BY <1>10 DEF EndByInterrupt, Decide, Goto
<1>11. CASE EndByNotify(t)
  BY <1>11 DEF EndByNotify, Decide, Goto
<1>12. CASE EndByDeadline(t)
  BY <1>12 DEF EndByDeadline, Decide, Goto
<1>13. CASE ReleaseAll(t)
  <2>1. /\ pc'[t] = "dead"
        /\ \A v \in Threads \ {t} : pc'[v] = pc[v]
        /\ object' = object /\ woken' = woken \ {t}
        /\ waitSet' = [o \in Objects |-> RemoveFirst(waitSet[o], t)]
    BY <1>13 DEF ReleaseAll, Goto
  <2>2. \A p \in Objects : u # t /\ Contains(waitSet[p], u) => Contains(RemoveFirst(waitSet[p], t), u)
    BY RemoveFirstProperties
  <2> QED
    BY <2>1, <2>2
<1> HIDE DEF TypeOK, Reachable
<1> QED
  BY <1>1, <1>2, <1>3, <1>4, <1>5, <1>6, <1>7, <1>8, <1>9, <1>10, <1>11, <1>12, <1>13 DEF HostStep, EndPark

LEMMA ReachStep ==
  ASSUME TypeOK, ParkedWaiterIsReachable, [Next]_vars
  PROVE  ParkedWaiterIsReachable'
<1> SUFFICES ASSUME NEW u \in Threads
             PROVE  Reachable(u)'
  BY DEF ParkedWaiterIsReachable, Reachable
<1>1. Reachable(u)
  BY DEF ParkedWaiterIsReachable, Reachable
<1>2. CASE UNCHANGED vars \/ Shutdown
  BY <1>1, <1>2 DEF Reachable, Shutdown, vars, lockVars, monitorVars, callVars
<1>3. ASSUME NEW t \in Threads, BytecodeStep(t) \/ HostStep(t) \/ EndByDeadline(t)
      PROVE  Reachable(u)'
  BY <1>1, <1>3, BytecodeReach, HostReach
<1> QED
  BY <1>2, <1>3 DEF Next

-----------------------------------------------------------------------------
(* The theorems.                                                           *)

LEMMA MInvInit == Init => MInv
<1> SUFFICES ASSUME Init
             PROVE  MInv
  OBVIOUS
<1>1. TypeOK
  <2>1. (CHOOSE o \in Objects : TRUE) \in Objects
    BY VmMonitorsAssumption DEF VmMonitorsAssumption
  <2>2. LockTypeOK(Threads, MaxDepth)
    BY VmMonitorsAssumption DEF VmMonitorsAssumption, Init, LockInit, LockTypeOK
  <2>3. 0 \in 0 .. MaxRecursion /\ 1 \in 1 .. MaxDepth
    BY VmMonitorsAssumption DEF VmMonitorsAssumption
  <2>4. [o \in Objects |-> 0] \in [Objects -> 0 .. MaxRecursion]
    BY <2>3
  <2>5. held \in [Threads -> [Objects -> 0 .. MaxRecursion]]
    BY <2>4 DEF Init
  <2>6. object \in [Threads -> Objects]
    BY <2>1 DEF Init
  <2>7. /\ owner \in [Objects -> Threads \cup {NoThread}]
        /\ recursion \in [Objects -> 0 .. MaxRecursion]
        /\ waitSet \in [Objects -> Seq(Threads)]
    BY <2>3 DEF Init
  <2>8. /\ woken \subseteq Threads /\ interrupted \subseteq Threads
        /\ shuttingDown \in BOOLEAN
        /\ pc \in [Threads -> Points]
    BY DEF Init, Points
  <2>9. /\ saved \in [Threads -> 0 .. MaxRecursion]
        /\ outcome \in [Threads -> Outcomes \cup {"none", "undecided"}]
        /\ timed \in [Threads -> BOOLEAN]
        /\ resume \in [Threads -> 1 .. MaxDepth]
    BY <2>3 DEF Init
  <2> QED
    BY <2>2, <2>5, <2>6, <2>7, <2>8, <2>9 DEF TypeOK
<1>2. SoundInv
  BY DEF Init, SoundInv, Sound, Keeps, KeepsAll, Matches, Waits, Owns, WaitPoints, Retrying
<1>3. ParkedWaiterIsReachable
  BY DEF Init, ParkedWaiterIsReachable
<1> QED
  BY <1>1, <1>2, <1>3 DEF MInv

LEMMA MInvStep == MInv /\ [Next]_vars => MInv'
BY TypeStep, SoundStep, ReachStep DEF MInv

LEMMA MInvHolds == Spec => []MInv
BY MInvInit, MInvStep, PTL DEF Spec, SafetySpec

\* Every variable has its type: no recursion is below zero or beyond its bound, the
\* lock has an owner exactly while it is held, the wait sets name threads.
THEOREM TypeCorrect == Spec => []TypeOK
<1>1. MInv => TypeOK
  BY DEF MInv
<1> QED
  BY <1>1, MInvHolds, PTL

\* Monitors are exclusive, and owned as often as they were entered and not left.
THEOREM MonitorsMatchEnters == Spec => []MonitorMatchesEnters
<1>1. MInv => MonitorMatchesEnters
  <2>1. ASSUME NEW o \in Objects, NEW t \in Threads
        PROVE  t \in Waiters(o) <=> Waits(t, o)
    BY DEF Waiters, Waits
  <2> QED
    BY <2>1 DEF MInv, SoundInv, Sound, Matches, MonitorMatchesEnters
<1> QED
  BY <1>1, MInvHolds, PTL

\* No parked waiter is out of reach of the next notify.
THEOREM WaitersAreReachable == Spec => []ParkedWaiterIsReachable
<1>1. MInv => ParkedWaiterIsReachable
  BY DEF MInv
<1> QED
  BY <1>1, MInvHolds, PTL

=============================================================================
