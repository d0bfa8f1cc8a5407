--------------------------- MODULE VmThreadsProofs ---------------------------
(***************************************************************************)
(* Proofs about VmThreads for any number of Java threads, any of which may *)
(* be interrupted at any time.                                             *)
(***************************************************************************)
EXTENDS VmThreads, TLAPS

\* An interruption ends a park and nothing else, and whoever interrupts knows
\* whom.
CallInv ==
  \A t \in All :
    /\ reason[t] = "interrupted" => pc[t] \in {"woken", "returning"}
    /\ pc[t] = "interrupting" => target[t] # NoThread

\* The end of the VM is final: whoever stops a thread, takes the monitors down or
\* is about to notify everybody has set shuttingDown first, and once it is set the
\* monitors are down or about to be.
EndInv ==
  /\ shuttingDown => monitorsDown \/ NotifyPending
  /\ monitorsDown \/ NotifyPending \/ stopRequested # {} => shuttingDown
  /\ \A t \in All : reason[t] = "stopped" => shuttingDown

\* What a thread found under the mutex is still so when it begins to wait.
PolledInv == \A t \in All : pc[t] = "polled" => ~ParkOver(t)

\* From Shutdown on no thread is started, and it joins all that were; behind the
\* joins they are all dead.
ReapInv ==
  /\ pc[Root] \in ShutdownPoints \cup {"down"} =>
       /\ shuttingDown
       /\ \A t \in Java : pc[t] = "new" \/ t \in joined
  /\ pc[Root] \in {"reaped", "discarding", "down"} => \A t \in joined : pc[t] = "dead"

TInv == TypeOK /\ CallInv
VInv == TInv /\ EndInv /\ PolledInv /\ NoSleepThroughProgress /\ ReapInv

-----------------------------------------------------------------------------
(* Types.                                                                  *)

\* A notification moves the threads that wait on the condition variable, and
\* nobody else but the thread that notifies.
LEMMA NotifyAllMoves ==
  ASSUME NEW t \in All, NEW point, NotifyAll(t, point)
  PROVE  /\ pc'[t] = point
         /\ \A u \in All \ {t} :
              /\ pc[u] = "parked" => pc'[u] = "checking"
              /\ pc[u] = "yield_parked" => pc'[u] = "yield_checking"
              /\ pc[u] \notin {"parked", "yield_parked"} => pc'[u] = pc[u]
BY DEF NotifyAll

LEMMA NotifyAllPoints ==
  ASSUME TypeOK, NEW t \in All, NEW point \in Points, NotifyAll(t, point)
  PROVE  /\ pc' \in [All -> Points]
         /\ \A u \in All \ {t} : pc'[u] = "new" <=> pc[u] = "new"
         /\ pc'[t] = point
BY DEF NotifyAll, TypeOK, Points, ParkPoints, WaitPoints

LEMMA SetWaitStateType ==
  ASSUME TypeOK, NEW t \in All, NEW parks, SetWaitState(t, parks)
  PROVE  waiting' \subseteq All /\ progressed' \in BOOLEAN
<1>1. waiting' = waiting \cup {t} \/ waiting' = waiting \ {t}
  BY DEF SetWaitState
<1>2. progressed' = (pc[Root] \in WaitPoints) \/ progressed' = progressed
  BY DEF SetWaitState, Progress
<1>3. progressed' \in BOOLEAN
  <2>1. CASE progressed' = progressed
    BY <2>1 DEF TypeOK
  <2>2. CASE progressed' = (pc[Root] \in WaitPoints)
    BY <2>2
  <2> QED
    BY <1>2, <2>1, <2>2
<1> QED
  BY <1>1, <1>3 DEF TypeOK

LEMMA BytecodeType ==
  ASSUME TInv, NEW t \in All, BytecodeStep(t)
  PROVE  TypeOK'
<1> USE VmThreadsAssumption DEF VmThreadsAssumption, TInv, TypeOK, CallInv, All, Live, Ended, Points, ParkPoints,
         WaitPoints, ShutdownPoints, flagVars, recordVars, callVars
<1>1. ASSUME NEW why \in {"none", "failed"}, Leave(t, why)
      PROVE  TypeOK'
  BY <1>1 DEF Leave, Running, Release, Holds, Unwind, Forget, Goto
<1>2. ASSUME NEW u \in Java, Start(t, u)
      PROVE  TypeOK'
  BY <1>2 DEF Start, Running, Holds, Goto
<1>3. ASSUME NEW u \in All \cup {NoThread}, NEW deadline \in BOOLEAN, Park(t, u, deadline)
      PROVE  TypeOK'
  <2>1. pc' \in [All -> Points] /\ \A v \in Java : pc'[v] = "new" <=> pc[v] = "new"
    <3>1. NotifyAll(t, "checking") /\ pc[t] # "new"
      BY <1>3 DEF Park, Running
    <3> QED
      BY <3>1, NotifyAllPoints
  <2>2. waiting' \subseteq All /\ progressed' \in BOOLEAN
    BY <1>3, SetWaitStateType DEF Park
  <2> QED
    BY <1>3, <2>1, <2>2 DEF Park, Release
<1>4. CASE ClearInterrupt(t)
  BY <1>4 DEF ClearInterrupt, Running, Holds
<1>5. CASE Yield(t)
  BY <1>5, NotifyAllPoints DEF Yield, Running, Release, Holds, Progress
<1>6. CASE ParkOnMonitor(t)
  <2>1. pc' \in [All -> Points] /\ \A u \in Java : pc'[u] = "new" <=> pc[u] = "new"
    <3>1. NotifyAll(t, "monitor") /\ pc[t] # "new"
      BY <1>6 DEF ParkOnMonitor, Running
    <3> QED
      BY <3>1, NotifyAllPoints
  <2>2. waiting' \subseteq All /\ progressed' \in BOOLEAN
    BY <1>6, SetWaitStateType DEF ParkOnMonitor
  <2> QED
    BY <1>6, <2>1, <2>2 DEF ParkOnMonitor, Release
<1>7. CASE Exit(t)
  BY <1>7 DEF Exit, Running, Holds, Goto, Started
<1>8. ASSUME NEW u \in Interruptible, ChooseInterrupted(t, u)
      PROVE  TypeOK'
  BY <1>8 DEF ChooseInterrupted, Running, Holds, Goto
<1> QED
  BY <1>1, <1>2, <1>3, <1>4, <1>5, <1>6, <1>7, <1>8 DEF BytecodeStep

LEMMA RuntimeType ==
  ASSUME TInv, NEW t \in All, RuntimeStep(t)
  PROVE  TypeOK'
<1> USE VmThreadsAssumption DEF VmThreadsAssumption, TInv, TypeOK, CallInv, All, Live, Ended, Points, ParkPoints,
         WaitPoints, ShutdownPoints, flagVars, recordVars, callVars
<1>1. CASE TakeLock(t)
  BY <1>1 DEF TakeLock, Acquire
<1>2. CASE AttachBody(t)
  BY <1>2 DEF AttachBody, Acquire, Goto
<1>3. CASE BeginRun(t)
  <2>1. pc' \in [All -> Points] /\ \A u \in Java : pc'[u] = "new" <=> pc[u] = "new"
    <3>1. NotifyAll(t, "java") /\ pc[t] = "begin"
      BY <1>3 DEF BeginRun
    <3> QED
      BY <3>1, NotifyAllPoints
  <2>2. status' = [status EXCEPT ![t] = "running"]
    BY <1>3 DEF BeginRun
  <2>3. status' \in [Java -> Live \cup Ended \cup {"none"}]
    BY <2>2
  <2>4. \A u \in Java : status'[u] = "none" <=> pc'[u] = "new"
    BY <1>3, <2>1, <2>2 DEF BeginRun
  <2> QED
    BY <1>3, <2>1, <2>3, <2>4 DEF BeginRun, Progress
<1>4. CASE Retire(t)
  <2>1. pc' \in [All -> Points] /\ \A u \in Java : pc'[u] = "new" <=> pc[u] = "new"
    <3>1. pc[t] = "dying" /\ (Goto(t, "failing") \/ NotifyAll(t, "dead"))
      BY <1>4 DEF Retire
    <3> QED
      BY <3>1, NotifyAllPoints DEF Goto
  <2>2. FinalStatus(t) \in Ended
    BY <1>4 DEF Retire, FinalStatus
  <2>3. status' = [status EXCEPT ![t] = FinalStatus(t)]
    BY <1>4 DEF Retire
  <2>4. status' \in [Java -> Live \cup Ended \cup {"none"}]
    BY <2>2, <2>3
  <2>5. \A u \in Java : status'[u] = "none" <=> pc'[u] = "new"
    BY <1>4, <2>1, <2>2, <2>3 DEF Retire
  <2> QED
    BY <1>4, <2>1, <2>4, <2>5 DEF Retire, Progress
<1>5. CASE AnnounceFailure(t)
  BY <1>5, NotifyAllPoints DEF AnnounceFailure
<1>6. CASE CheckPark(t)
  BY <1>6 DEF CheckPark, Goto
<1>7. CASE WaitForChange(t)
  BY <1>7 DEF WaitForChange, Goto
<1>8. CASE PollPark(t)
  BY <1>8 DEF PollPark, Goto
<1>9. CASE Reacquire(t)
  BY <1>9 DEF Reacquire, Acquire, Goto
<1>10. CASE ReturnFromPark(t)
  <2>1. pc' \in [All -> Points] /\ \A u \in Java : pc'[u] = "new" <=> pc[u] = "new"
    <3>1. NotifyAll(t, "java") /\ pc[t] # "new"
      BY <1>10 DEF ReturnFromPark, Running
    <3> QED
      BY <3>1, NotifyAllPoints
  <2>2. waiting' \subseteq All /\ progressed' \in BOOLEAN
    BY <1>10, SetWaitStateType DEF ReturnFromPark
  <2> QED
    BY <1>10, <2>1, <2>2 DEF ReturnFromPark, Release, Forget
<1>11. CASE ReturnStopped(t)
  <2>1. waiting' \subseteq All /\ progressed' \in BOOLEAN
    BY <1>11, SetWaitStateType DEF ReturnStopped
  <2> QED
    BY <1>11, <2>1 DEF ReturnStopped, Unwind, Release, Holds, Forget, Goto
<1>12. CASE MonitorShutdownWakes(t)
  BY <1>12 DEF MonitorShutdownWakes, EndMonitorPark, Goto
<1>13. CASE RaiseInterrupt(t)
  BY <1>13, NotifyAllPoints DEF RaiseInterrupt
<1>14. CASE ExitNotifies(t)
  BY <1>14, NotifyAllPoints DEF ExitNotifies
<1> QED
  BY <1>1, <1>2, <1>3, <1>4, <1>5, <1>6, <1>7, <1>8, <1>9, <1>10, <1>11, <1>12, <1>13, <1>14 DEF RuntimeStep

LEMMA OtherType ==
  ASSUME TInv, NEW t \in All,
         \/ SafePoint(t) \/ StopAtSafePoint(t) \/ CallIn(t)
         \/ DeadlinePasses(t) \/ MonitorGranted(t) \/ WaitInterrupted(t)
  PROVE  TypeOK'
<1> USE VmThreadsAssumption DEF VmThreadsAssumption, TInv, TypeOK, CallInv, All, Live, Ended, Points, ParkPoints,
         WaitPoints, ShutdownPoints, flagVars, recordVars, callVars
<1>1. CASE SafePoint(t)
  BY <1>1 DEF SafePoint, Running, Holds, Release
<1>2. CASE StopAtSafePoint(t)
  BY <1>2 DEF StopAtSafePoint, Running, Release, Holds, Unwind, Forget, Goto
<1>3. CASE CallIn(t)
  BY <1>3 DEF CallIn, Goto
<1>4. CASE DeadlinePasses(t)
  BY <1>4 DEF DeadlinePasses, Goto
<1>5. CASE MonitorGranted(t)
  BY <1>5 DEF MonitorGranted, EndMonitorPark, Goto
<1>6. CASE WaitInterrupted(t)
  BY <1>6 DEF WaitInterrupted, EndMonitorPark, Goto
<1> QED
  BY <1>1, <1>2, <1>3, <1>4, <1>5, <1>6

LEMMA HostType ==
  ASSUME TInv, HostStep \/ FinishRootThread \/ HostYield \/ Shutdown
  PROVE  TypeOK'
<1> USE VmThreadsAssumption DEF VmThreadsAssumption, TInv, TypeOK, CallInv, All, Live, Ended, Points, ParkPoints,
         WaitPoints, ShutdownPoints, flagVars, recordVars, callVars
<1>1. CASE HostYieldLooks
  BY <1>1 DEF HostYieldLooks, Goto, Release, Holds
<1>2. CASE HostYieldChecks
  BY <1>2 DEF HostYieldChecks, Goto
<1>3. CASE HostYieldReturns
  BY <1>3 DEF HostYieldReturns, Goto
<1>4. CASE ShutdownNotifies
  BY <1>4, NotifyAllPoints DEF ShutdownNotifies, Release, Holds
<1>5. CASE JoinHosts
  BY <1>5 DEF JoinHosts, Acquire, Goto
<1>6. CASE TakeMutexToDiscard
  BY <1>6 DEF TakeMutexToDiscard, Goto
<1>7. CASE Discard
  BY <1>7 DEF Discard, Goto
<1>8. CASE FinishRootThread
  BY <1>8, NotifyAllPoints DEF FinishRootThread
<1>9. CASE HostYield
  BY <1>9 DEF HostYield, Acquire, Goto
<1>10. CASE Shutdown
  BY <1>10 DEF Shutdown, Running, Holds, Goto, Started
<1> QED
  BY <1>1, <1>2, <1>3, <1>4, <1>5, <1>6, <1>7, <1>8, <1>9, <1>10 DEF HostStep

-----------------------------------------------------------------------------
(* The arguments of a call.                                                *)

\* Every step keeps CallInv: a park ends before its reason is forgotten.
LEMMA BytecodeCall ==
  ASSUME TInv, NEW t \in All, BytecodeStep(t)
  PROVE  CallInv'
<1> USE VmThreadsAssumption DEF VmThreadsAssumption, All, flagVars, recordVars, callVars, TInv, TypeOK,
         CallInv
<1>1. ASSUME NEW why \in {"none", "failed"}, Leave(t, why)
      PROVE  CallInv'
  BY <1>1 DEF Leave, Running, Release, Holds, Unwind, Forget, Goto
<1>2. ASSUME NEW u \in Java, Start(t, u)
      PROVE  CallInv'
  BY <1>2 DEF Start, Running, Holds, Goto
<1>3. ASSUME NEW u \in All \cup {NoThread}, NEW deadline \in BOOLEAN, Park(t, u, deadline)
      PROVE  CallInv'
  BY <1>3, NotifyAllMoves DEF Park, Running, Release, Holds, SetWaitState, Progress
<1>4. CASE ClearInterrupt(t)
  BY <1>4 DEF ClearInterrupt, Running, Holds
<1>5. CASE Yield(t)
  BY <1>5, NotifyAllMoves DEF Yield, Running, Release, Holds, Progress
<1>6. CASE ParkOnMonitor(t)
  BY <1>6, NotifyAllMoves DEF ParkOnMonitor, Running, Release, Holds, SetWaitState, Progress
<1>7. CASE Exit(t)
  BY <1>7 DEF Exit, Running, Holds, Goto, Started
<1>8. ASSUME NEW u \in Interruptible, ChooseInterrupted(t, u)
      PROVE  CallInv'
  BY <1>8 DEF ChooseInterrupted, Running, Holds, Goto
<1> QED
  BY <1>1, <1>2, <1>3, <1>4, <1>5, <1>6, <1>7, <1>8 DEF BytecodeStep

LEMMA RuntimeCall ==
  ASSUME TInv, NEW t \in All, RuntimeStep(t)
  PROVE  CallInv'
<1> USE VmThreadsAssumption DEF VmThreadsAssumption, All, flagVars, recordVars, callVars, TInv, TypeOK,
         CallInv
<1>1. CASE TakeLock(t)
  BY <1>1 DEF TakeLock, Acquire
<1>2. CASE AttachBody(t)
  BY <1>2 DEF AttachBody, Acquire, Goto
<1>3. CASE BeginRun(t)
  BY <1>3, NotifyAllMoves DEF BeginRun, Progress
<1>4. CASE Retire(t)
  BY <1>4, NotifyAllMoves DEF Retire, Progress, FinalStatus, Goto
<1>5. CASE AnnounceFailure(t)
  BY <1>5, NotifyAllMoves DEF AnnounceFailure
<1>6. CASE CheckPark(t)
  BY <1>6 DEF CheckPark, Goto
<1>7. CASE WaitForChange(t)
  BY <1>7 DEF WaitForChange, Goto
<1>8. CASE PollPark(t)
  BY <1>8 DEF PollPark, Goto
<1>9. CASE Reacquire(t)
  BY <1>9 DEF Reacquire, Acquire, Goto
<1>10. CASE ReturnFromPark(t)
  BY <1>10, NotifyAllMoves DEF ReturnFromPark, SetWaitState, Progress, Forget
<1>11. CASE ReturnStopped(t)
  BY <1>11 DEF ReturnStopped, SetWaitState, Progress, Unwind, Release, Holds, Forget, Goto
<1>12. CASE MonitorShutdownWakes(t)
  BY <1>12 DEF MonitorShutdownWakes, EndMonitorPark, Goto
<1>13. CASE RaiseInterrupt(t)
  BY <1>13, NotifyAllMoves DEF RaiseInterrupt
<1>14. CASE ExitNotifies(t)
  BY <1>14, NotifyAllMoves DEF ExitNotifies
<1> QED
  BY <1>1, <1>2, <1>3, <1>4, <1>5, <1>6, <1>7, <1>8, <1>9, <1>10, <1>11, <1>12, <1>13, <1>14 DEF RuntimeStep

LEMMA OtherCall ==
  ASSUME TInv, NEW t \in All,
         \/ SafePoint(t) \/ StopAtSafePoint(t) \/ CallIn(t)
         \/ DeadlinePasses(t) \/ MonitorGranted(t) \/ WaitInterrupted(t)
  PROVE  CallInv'
<1> USE VmThreadsAssumption DEF VmThreadsAssumption, All, flagVars, recordVars, callVars, TInv, TypeOK,
         CallInv
<1>1. CASE SafePoint(t)
  BY <1>1 DEF SafePoint, Running, Holds, Release
<1>2. CASE StopAtSafePoint(t)
  BY <1>2 DEF StopAtSafePoint, Running, Release, Holds, Unwind, Forget, Goto
<1>3. CASE CallIn(t)
  BY <1>3 DEF CallIn, Goto
<1>4. CASE DeadlinePasses(t)
  BY <1>4 DEF DeadlinePasses, Goto
<1>5. CASE MonitorGranted(t)
  BY <1>5 DEF MonitorGranted, EndMonitorPark, Goto
<1>6. CASE WaitInterrupted(t)
  BY <1>6 DEF WaitInterrupted, EndMonitorPark, Goto
<1> QED
  BY <1>1, <1>2, <1>3, <1>4, <1>5, <1>6

LEMMA HostCall ==
  ASSUME TInv, HostStep \/ FinishRootThread \/ HostYield \/ Shutdown
  PROVE  CallInv'
<1> USE VmThreadsAssumption DEF VmThreadsAssumption, All, flagVars, recordVars, callVars, TInv, TypeOK,
         CallInv
<1>1. CASE HostYieldLooks
  BY <1>1 DEF HostYieldLooks, Goto, Release, Holds
<1>2. CASE HostYieldChecks
  BY <1>2 DEF HostYieldChecks, Goto
<1>3. CASE HostYieldReturns
  BY <1>3 DEF HostYieldReturns, Goto
<1>4. CASE ShutdownNotifies
  BY <1>4, NotifyAllMoves DEF ShutdownNotifies, Release, Holds
<1>5. CASE JoinHosts
  BY <1>5 DEF JoinHosts, Acquire, Goto
<1>6. CASE TakeMutexToDiscard
  BY <1>6 DEF TakeMutexToDiscard, Goto
<1>7. CASE Discard
  BY <1>7 DEF Discard, Goto
<1>8. CASE FinishRootThread
  BY <1>8, NotifyAllMoves DEF FinishRootThread
<1>9. CASE HostYield
  BY <1>9 DEF HostYield, Acquire, Goto
<1>10. CASE Shutdown
  BY <1>10 DEF Shutdown, Running, Holds, Goto, Started
<1> QED
  BY <1>1, <1>2, <1>3, <1>4, <1>5, <1>6, <1>7, <1>8, <1>9, <1>10 DEF HostStep

LEMMA CallStep ==
  ASSUME TInv, [Next]_vars
  PROVE  CallInv'
<1>1. CASE UNCHANGED vars
  BY <1>1 DEF TInv, CallInv, vars, flagVars, recordVars, callVars
<1>2. CASE Next
  BY <1>2, BytecodeCall, RuntimeCall, OtherCall, HostCall DEF Next
<1> QED
  BY <1>1, <1>2

-----------------------------------------------------------------------------
(* The end of the VM.                                                      *)

\* Every step keeps EndInv: it is announced by whoever decided it.
LEMMA BytecodeEnd ==
  ASSUME TInv, EndInv, NEW t \in All, BytecodeStep(t)
  PROVE  EndInv'
<1> USE VmThreadsAssumption DEF VmThreadsAssumption, All, flagVars, recordVars, callVars, TInv, TypeOK,
         EndInv, NotifyPending
<1>1. ASSUME NEW why \in {"none", "failed"}, Leave(t, why)
      PROVE  EndInv'
  BY <1>1 DEF Leave, Running, Release, Holds, Unwind, Forget, Goto
<1>2. ASSUME NEW u \in Java, Start(t, u)
      PROVE  EndInv'
  BY <1>2 DEF Start, Running, Holds, Goto
<1>3. ASSUME NEW u \in All \cup {NoThread}, NEW deadline \in BOOLEAN, Park(t, u, deadline)
      PROVE  EndInv'
  BY <1>3, NotifyAllMoves DEF Park, Running, Release, Holds, SetWaitState, Progress
<1>4. CASE ClearInterrupt(t)
  BY <1>4 DEF ClearInterrupt, Running, Holds
<1>5. CASE Yield(t)
  BY <1>5, NotifyAllMoves DEF Yield, Running, Release, Holds, Progress
<1>6. CASE ParkOnMonitor(t)
  BY <1>6, NotifyAllMoves DEF ParkOnMonitor, Running, Release, Holds, SetWaitState, Progress
<1>7. CASE Exit(t)
  BY <1>7 DEF Exit, Running, Holds, Goto, Started
<1>8. ASSUME NEW u \in Interruptible, ChooseInterrupted(t, u)
      PROVE  EndInv'
  BY <1>8 DEF ChooseInterrupted, Running, Holds, Goto
<1> QED
  BY <1>1, <1>2, <1>3, <1>4, <1>5, <1>6, <1>7, <1>8 DEF BytecodeStep

LEMMA RuntimeEnd ==
  ASSUME TInv, EndInv, NEW t \in All, RuntimeStep(t)
  PROVE  EndInv'
<1> USE VmThreadsAssumption DEF VmThreadsAssumption, All, flagVars, recordVars, callVars, TInv, TypeOK,
         EndInv, NotifyPending
<1>1. CASE TakeLock(t)
  BY <1>1 DEF TakeLock, Acquire
<1>2. CASE AttachBody(t)
  BY <1>2 DEF AttachBody, Acquire, Goto
<1>3. CASE BeginRun(t)
  BY <1>3, NotifyAllMoves DEF BeginRun, Progress
<1>4. CASE Retire(t)
  <2>1. CASE FinalStatus(t) = "failed"
    <3>1. pc'[t] = "failing" /\ shuttingDown'
      BY <1>4, <2>1 DEF Retire, Goto
    <3>2. NotifyPending' /\ reason' = reason
      BY <1>4, <3>1 DEF Retire
    <3> QED
      BY <3>1, <3>2
  <2>2. CASE FinalStatus(t) # "failed"
    <3>1. NotifyAll(t, "dead") /\ pc[t] = "dying"
      BY <1>4, <2>2 DEF Retire
    <3>2. NotifyPending' <=> NotifyPending
      BY <3>1, NotifyAllMoves
    <3>3. UNCHANGED <<shuttingDown, monitorsDown, stopRequested, reason>>
      BY <1>4, <2>2 DEF Retire
    <3> QED
      BY <3>2, <3>3
  <2> QED
    BY <2>1, <2>2
<1>5. CASE AnnounceFailure(t)
  BY <1>5, NotifyAllMoves DEF AnnounceFailure
<1>6. CASE CheckPark(t)
  <2>1. NotifyPending' <=> NotifyPending
    BY <1>6 DEF CheckPark, Goto
  <2>2. UNCHANGED <<shuttingDown, monitorsDown, stopRequested>>
    BY <1>6 DEF CheckPark
  <2>3. \A u \in All : reason'[u] = "stopped" => reason[u] = "stopped" \/ shuttingDown
    BY <1>6 DEF CheckPark, ParkOver
  <2> QED
    BY <2>1, <2>2, <2>3
<1>7. CASE WaitForChange(t)
  BY <1>7 DEF WaitForChange, Goto
<1>8. CASE PollPark(t)
  BY <1>8 DEF PollPark, Goto
<1>9. CASE Reacquire(t)
  BY <1>9 DEF Reacquire, Acquire, Goto
<1>10. CASE ReturnFromPark(t)
  BY <1>10, NotifyAllMoves DEF ReturnFromPark, SetWaitState, Progress, Forget
<1>11. CASE ReturnStopped(t)
  BY <1>11 DEF ReturnStopped, SetWaitState, Progress, Unwind, Release, Holds, Forget, Goto
<1>12. CASE MonitorShutdownWakes(t)
  BY <1>12 DEF MonitorShutdownWakes, EndMonitorPark, Goto
<1>13. CASE RaiseInterrupt(t)
  BY <1>13, NotifyAllMoves DEF RaiseInterrupt
<1>14. CASE ExitNotifies(t)
  BY <1>14, NotifyAllMoves DEF ExitNotifies
<1> QED
  BY <1>1, <1>2, <1>3, <1>4, <1>5, <1>6, <1>7, <1>8, <1>9, <1>10, <1>11, <1>12, <1>13, <1>14 DEF RuntimeStep

LEMMA OtherEnd ==
  ASSUME TInv, EndInv, NEW t \in All,
         \/ SafePoint(t) \/ StopAtSafePoint(t) \/ CallIn(t)
         \/ DeadlinePasses(t) \/ MonitorGranted(t) \/ WaitInterrupted(t)
  PROVE  EndInv'
<1> USE VmThreadsAssumption DEF VmThreadsAssumption, All, flagVars, recordVars, callVars, TInv, TypeOK,
         EndInv, NotifyPending
<1>1. CASE SafePoint(t)
  BY <1>1 DEF SafePoint, Running, Holds, Release
<1>2. CASE StopAtSafePoint(t)
  BY <1>2 DEF StopAtSafePoint, Running, Release, Holds, Unwind, Forget, Goto
<1>3. CASE CallIn(t)
  BY <1>3 DEF CallIn, Goto
<1>4. CASE DeadlinePasses(t)
  BY <1>4 DEF DeadlinePasses, Goto
<1>5. CASE MonitorGranted(t)
  BY <1>5 DEF MonitorGranted, EndMonitorPark, Goto
<1>6. CASE WaitInterrupted(t)
  BY <1>6 DEF WaitInterrupted, EndMonitorPark, Goto
<1> QED
  BY <1>1, <1>2, <1>3, <1>4, <1>5, <1>6

LEMMA HostEnd ==
  ASSUME TInv, EndInv, HostStep \/ FinishRootThread \/ HostYield \/ Shutdown
  PROVE  EndInv'
<1> USE VmThreadsAssumption DEF VmThreadsAssumption, All, flagVars, recordVars, callVars, TInv, TypeOK,
         EndInv, NotifyPending
<1>1. CASE HostYieldLooks
  BY <1>1 DEF HostYieldLooks, Goto, Release, Holds
<1>2. CASE HostYieldChecks
  BY <1>2 DEF HostYieldChecks, Goto
<1>3. CASE HostYieldReturns
  BY <1>3 DEF HostYieldReturns, Goto
<1>4. CASE ShutdownNotifies
  BY <1>4, NotifyAllMoves DEF ShutdownNotifies, Release, Holds
<1>5. CASE JoinHosts
  BY <1>5 DEF JoinHosts, Acquire, Goto
<1>6. CASE TakeMutexToDiscard
  BY <1>6 DEF TakeMutexToDiscard, Goto
<1>7. CASE Discard
  BY <1>7 DEF Discard, Goto
<1>8. CASE FinishRootThread
  BY <1>8, NotifyAllMoves DEF FinishRootThread
<1>9. CASE HostYield
  BY <1>9 DEF HostYield, Acquire, Goto
<1>10. CASE Shutdown
  BY <1>10 DEF Shutdown, Running, Holds, Goto, Started
<1> QED
  BY <1>1, <1>2, <1>3, <1>4, <1>5, <1>6, <1>7, <1>8, <1>9, <1>10 DEF HostStep

LEMMA EndStep ==
  ASSUME TInv, EndInv, [Next]_vars
  PROVE  EndInv'
<1>1. CASE UNCHANGED vars
  BY <1>1 DEF EndInv, NotifyPending, vars, flagVars, recordVars, callVars
<1>2. CASE Next
  BY <1>2, BytecodeEnd, RuntimeEnd, OtherEnd, HostEnd DEF Next
<1> QED
  BY <1>1, <1>2

-----------------------------------------------------------------------------
(* Between a look and a wait.                                              *)

\* Every step keeps PolledInv: what a park waits for changes under the mutex,
\* which the thread that has looked still holds.
LEMMA BytecodePolled ==
  ASSUME TInv, PolledInv, NEW t \in All, BytecodeStep(t)
  PROVE  PolledInv'
<1> USE VmThreadsAssumption DEF VmThreadsAssumption, All, flagVars, recordVars, callVars, TInv, TypeOK,
         PolledInv, ParkOver, Ready, MutexFree
<1>1. ASSUME NEW why \in {"none", "failed"}, Leave(t, why)
      PROVE  PolledInv'
  BY <1>1 DEF Leave, Running, Release, Holds, Unwind, Forget, Goto
<1>2. ASSUME NEW u \in Java, Start(t, u)
      PROVE  PolledInv'
  BY <1>2 DEF Start, Running, Holds, Goto
<1>3. ASSUME NEW u \in All \cup {NoThread}, NEW deadline \in BOOLEAN, Park(t, u, deadline)
      PROVE  PolledInv'
  BY <1>3, NotifyAllMoves DEF Park, Running, Release, Holds, SetWaitState, Progress
<1>4. CASE ClearInterrupt(t)
  BY <1>4 DEF ClearInterrupt, Running, Holds
<1>5. CASE Yield(t)
  BY <1>5, NotifyAllMoves DEF Yield, Running, Release, Holds, Progress
<1>6. CASE ParkOnMonitor(t)
  BY <1>6, NotifyAllMoves DEF ParkOnMonitor, Running, Release, Holds, SetWaitState, Progress
<1>7. CASE Exit(t)
  BY <1>7 DEF Exit, Running, Holds, Goto, Started
<1>8. ASSUME NEW u \in Interruptible, ChooseInterrupted(t, u)
      PROVE  PolledInv'
  BY <1>8 DEF ChooseInterrupted, Running, Holds, Goto
<1> QED
  BY <1>1, <1>2, <1>3, <1>4, <1>5, <1>6, <1>7, <1>8 DEF BytecodeStep

LEMMA RuntimePolled ==
  ASSUME TInv, PolledInv, NEW t \in All, RuntimeStep(t)
  PROVE  PolledInv'
<1> USE VmThreadsAssumption DEF VmThreadsAssumption, All, flagVars, recordVars, callVars, TInv, TypeOK,
         PolledInv, ParkOver, Ready, MutexFree
<1>1. CASE TakeLock(t)
  BY <1>1 DEF TakeLock, Acquire
<1>2. CASE AttachBody(t)
  BY <1>2 DEF AttachBody, Acquire, Goto
<1>3. CASE BeginRun(t)
  BY <1>3, NotifyAllMoves DEF BeginRun, Progress
<1>4. CASE Retire(t)
  BY <1>4, NotifyAllMoves DEF Retire, Progress, FinalStatus, Goto
<1>5. CASE AnnounceFailure(t)
  BY <1>5, NotifyAllMoves DEF AnnounceFailure
<1>6. CASE CheckPark(t)
  BY <1>6 DEF CheckPark, Goto
<1>7. CASE WaitForChange(t)
  BY <1>7 DEF WaitForChange, Goto
<1>8. CASE PollPark(t)
  BY <1>8 DEF PollPark, Goto
<1>9. CASE Reacquire(t)
  BY <1>9 DEF Reacquire, Acquire, Goto
<1>10. CASE ReturnFromPark(t)
  BY <1>10, NotifyAllMoves DEF ReturnFromPark, SetWaitState, Progress, Forget
<1>11. CASE ReturnStopped(t)
  BY <1>11 DEF ReturnStopped, SetWaitState, Progress, Unwind, Release, Holds, Forget, Goto
<1>12. CASE MonitorShutdownWakes(t)
  BY <1>12 DEF MonitorShutdownWakes, EndMonitorPark, Goto
<1>13. CASE RaiseInterrupt(t)
  BY <1>13, NotifyAllMoves DEF RaiseInterrupt
<1>14. CASE ExitNotifies(t)
  BY <1>14, NotifyAllMoves DEF ExitNotifies
<1> QED
  BY <1>1, <1>2, <1>3, <1>4, <1>5, <1>6, <1>7, <1>8, <1>9, <1>10, <1>11, <1>12, <1>13, <1>14 DEF RuntimeStep

LEMMA OtherPolled ==
  ASSUME TInv, PolledInv, NEW t \in All,
         \/ SafePoint(t) \/ StopAtSafePoint(t) \/ CallIn(t)
         \/ DeadlinePasses(t) \/ MonitorGranted(t) \/ WaitInterrupted(t)
  PROVE  PolledInv'
<1> USE VmThreadsAssumption DEF VmThreadsAssumption, All, flagVars, recordVars, callVars, TInv, TypeOK,
         PolledInv, ParkOver, Ready, MutexFree
<1>1. CASE SafePoint(t)
  BY <1>1 DEF SafePoint, Running, Holds, Release
<1>2. CASE StopAtSafePoint(t)
  BY <1>2 DEF StopAtSafePoint, Running, Release, Holds, Unwind, Forget, Goto
<1>3. CASE CallIn(t)
  BY <1>3 DEF CallIn, Goto
<1>4. CASE DeadlinePasses(t)
  BY <1>4 DEF DeadlinePasses, Goto
<1>5. CASE MonitorGranted(t)
  BY <1>5 DEF MonitorGranted, EndMonitorPark, Goto
<1>6. CASE WaitInterrupted(t)
  BY <1>6 DEF WaitInterrupted, EndMonitorPark, Goto
<1> QED
  BY <1>1, <1>2, <1>3, <1>4, <1>5, <1>6

LEMMA HostPolled ==
  ASSUME TInv, PolledInv, HostStep \/ FinishRootThread \/ HostYield \/ Shutdown
  PROVE  PolledInv'
<1> USE VmThreadsAssumption DEF VmThreadsAssumption, All, flagVars, recordVars, callVars, TInv, TypeOK,
         PolledInv, ParkOver, Ready, MutexFree
<1>1. CASE HostYieldLooks
  BY <1>1 DEF HostYieldLooks, Goto, Release, Holds
<1>2. CASE HostYieldChecks
  BY <1>2 DEF HostYieldChecks, Goto
<1>3. CASE HostYieldReturns
  BY <1>3 DEF HostYieldReturns, Goto
<1>4. CASE ShutdownNotifies
  BY <1>4, NotifyAllMoves DEF ShutdownNotifies, Release, Holds
<1>5. CASE JoinHosts
  BY <1>5 DEF JoinHosts, Acquire, Goto
<1>6. CASE TakeMutexToDiscard
  BY <1>6 DEF TakeMutexToDiscard, Goto
<1>7. CASE Discard
  BY <1>7 DEF Discard, Goto
<1>8. CASE FinishRootThread
  BY <1>8, NotifyAllMoves DEF FinishRootThread
<1>9. CASE HostYield
  BY <1>9 DEF HostYield, Acquire, Goto
<1>10. CASE Shutdown
  BY <1>10 DEF Shutdown, Running, Holds, Goto, Started
<1> QED
  BY <1>1, <1>2, <1>3, <1>4, <1>5, <1>6, <1>7, <1>8, <1>9, <1>10 DEF HostStep

LEMMA PolledStep ==
  ASSUME TInv, PolledInv, [Next]_vars
  PROVE  PolledInv'
<1>1. CASE UNCHANGED vars
  BY <1>1 DEF PolledInv, ParkOver, Ready, vars, flagVars, recordVars, callVars
<1>2. CASE Next
  BY <1>2, BytecodePolled, RuntimePolled, OtherPolled, HostPolled DEF Next
<1> QED
  BY <1>1, <1>2

-----------------------------------------------------------------------------
(* Notifications.                                                          *)

\* Every step keeps NoSleepThroughProgress: a change is made by a thread that
\* notifies in the same step, or that is about to.
LEMMA BytecodeSleep ==
  ASSUME VInv, NEW t \in All, BytecodeStep(t)
  PROVE  NoSleepThroughProgress'
<1> USE VmThreadsAssumption DEF VmThreadsAssumption, All, flagVars, recordVars, callVars, TInv, TypeOK,
         VInv, EndInv, PolledInv, NoSleepThroughProgress, ParkOver, Ready, HandedOff, Runnable, NotifyPending
<1>1. ASSUME NEW why \in {"none", "failed"}, Leave(t, why)
      PROVE  NoSleepThroughProgress'
  BY <1>1 DEF Leave, Running, Release, Holds, Unwind, Forget, Goto
<1>2. ASSUME NEW u \in Java, Start(t, u)
      PROVE  NoSleepThroughProgress'
  <2>1. \A v \in All : pc'[v] \in {"parked", "yield_parked"} => pc'[v] = pc[v]
    BY <1>2 DEF Start, Goto
  <2>2. NotifyPending => NotifyPending'
    BY <1>2 DEF Start, Goto
  <2>3. UNCHANGED <<shuttingDown, rootFinished, progressed, waiting, target>>
    BY <1>2 DEF Start
  <2>4. status' = [status EXCEPT ![u] = "created"]
    BY <1>2 DEF Start
  <2>5. \A v \in Java : status'[v] \in Live \/ status'[v] = status[v]
    BY <2>4 DEF Live
  <2>6. \A v \in All : ParkOver(v)' => ParkOver(v)
    BY <2>3, <2>5
  <2>7. Runnable => Runnable'
    BY <2>3, <2>4
  <2> QED
    BY <2>1, <2>2, <2>3, <2>6, <2>7
<1>3. ASSUME NEW u \in All \cup {NoThread}, NEW deadline \in BOOLEAN, Park(t, u, deadline)
      PROVE  NoSleepThroughProgress'
  BY <1>3, NotifyAllMoves DEF Park, Running, Release, Holds, SetWaitState, Progress
<1>4. CASE ClearInterrupt(t)
  BY <1>4 DEF ClearInterrupt, Running, Holds
<1>5. CASE Yield(t)
  BY <1>5, NotifyAllMoves DEF Yield, Running, Release, Holds, Progress
<1>6. CASE ParkOnMonitor(t)
  BY <1>6, NotifyAllMoves DEF ParkOnMonitor, Running, Release, Holds, SetWaitState, Progress
<1>7. CASE Exit(t)
  BY <1>7 DEF Exit, Running, Holds, Goto, Started
<1>8. ASSUME NEW u \in Interruptible, ChooseInterrupted(t, u)
      PROVE  NoSleepThroughProgress'
  BY <1>8 DEF ChooseInterrupted, Running, Holds, Goto
<1> QED
  BY <1>1, <1>2, <1>3, <1>4, <1>5, <1>6, <1>7, <1>8 DEF BytecodeStep

LEMMA RuntimeSleep ==
  ASSUME VInv, NEW t \in All, RuntimeStep(t)
  PROVE  NoSleepThroughProgress'
<1> USE VmThreadsAssumption DEF VmThreadsAssumption, All, flagVars, recordVars, callVars, TInv, TypeOK,
         VInv, EndInv, PolledInv, NoSleepThroughProgress, ParkOver, Ready, HandedOff, Runnable, NotifyPending
<1>1. CASE TakeLock(t)
  BY <1>1 DEF TakeLock, Acquire
<1>2. CASE AttachBody(t)
  BY <1>2 DEF AttachBody, Acquire, Goto
<1>3. CASE BeginRun(t)
  BY <1>3, NotifyAllMoves DEF BeginRun, Progress
<1>4. CASE Retire(t)
  BY <1>4, NotifyAllMoves DEF Retire, Progress, FinalStatus, Goto
<1>5. CASE AnnounceFailure(t)
  BY <1>5, NotifyAllMoves DEF AnnounceFailure
<1>6. CASE CheckPark(t)
  BY <1>6 DEF CheckPark, Goto
<1>7. CASE WaitForChange(t)
  BY <1>7 DEF WaitForChange, Goto
<1>8. CASE PollPark(t)
  BY <1>8 DEF PollPark, Goto
<1>9. CASE Reacquire(t)
  BY <1>9 DEF Reacquire, Acquire, Goto
<1>10. CASE ReturnFromPark(t)
  BY <1>10, NotifyAllMoves DEF ReturnFromPark, SetWaitState, Progress, Forget
<1>11. CASE ReturnStopped(t)
  BY <1>11 DEF ReturnStopped, SetWaitState, Progress, Unwind, Release, Holds, Forget, Goto
<1>12. CASE MonitorShutdownWakes(t)
  BY <1>12 DEF MonitorShutdownWakes, EndMonitorPark, Goto
<1>13. CASE RaiseInterrupt(t)
  BY <1>13, NotifyAllMoves DEF RaiseInterrupt
<1>14. CASE ExitNotifies(t)
  BY <1>14, NotifyAllMoves DEF ExitNotifies
<1> QED
  BY <1>1, <1>2, <1>3, <1>4, <1>5, <1>6, <1>7, <1>8, <1>9, <1>10, <1>11, <1>12, <1>13, <1>14 DEF RuntimeStep

LEMMA OtherSleep ==
  ASSUME VInv, NEW t \in All,
         \/ SafePoint(t) \/ StopAtSafePoint(t) \/ CallIn(t)
         \/ DeadlinePasses(t) \/ MonitorGranted(t) \/ WaitInterrupted(t)
  PROVE  NoSleepThroughProgress'
<1> USE VmThreadsAssumption DEF VmThreadsAssumption, All, flagVars, recordVars, callVars, TInv, TypeOK,
         VInv, EndInv, PolledInv, NoSleepThroughProgress, ParkOver, Ready, HandedOff, Runnable, NotifyPending
<1>1. CASE SafePoint(t)
  BY <1>1 DEF SafePoint, Running, Holds, Release
<1>2. CASE StopAtSafePoint(t)
  BY <1>2 DEF StopAtSafePoint, Running, Release, Holds, Unwind, Forget, Goto
<1>3. CASE CallIn(t)
  BY <1>3 DEF CallIn, Goto
<1>4. CASE DeadlinePasses(t)
  BY <1>4 DEF DeadlinePasses, Goto
<1>5. CASE MonitorGranted(t)
  BY <1>5 DEF MonitorGranted, EndMonitorPark, Goto
<1>6. CASE WaitInterrupted(t)
  BY <1>6 DEF WaitInterrupted, EndMonitorPark, Goto
<1> QED
  BY <1>1, <1>2, <1>3, <1>4, <1>5, <1>6

LEMMA HostSleep ==
  ASSUME VInv, HostStep \/ FinishRootThread \/ HostYield \/ Shutdown
  PROVE  NoSleepThroughProgress'
<1> USE VmThreadsAssumption DEF VmThreadsAssumption, All, flagVars, recordVars, callVars, TInv, TypeOK,
         VInv, EndInv, PolledInv, NoSleepThroughProgress, ParkOver, Ready, HandedOff, Runnable, NotifyPending
<1>1. CASE HostYieldLooks
  BY <1>1 DEF HostYieldLooks, Goto, Release, Holds
<1>2. CASE HostYieldChecks
  BY <1>2 DEF HostYieldChecks, Goto
<1>3. CASE HostYieldReturns
  BY <1>3 DEF HostYieldReturns, Goto
<1>4. CASE ShutdownNotifies
  BY <1>4, NotifyAllMoves DEF ShutdownNotifies, Release, Holds
<1>5. CASE JoinHosts
  BY <1>5 DEF JoinHosts, Acquire, Goto
<1>6. CASE TakeMutexToDiscard
  BY <1>6 DEF TakeMutexToDiscard, Goto
<1>7. CASE Discard
  BY <1>7 DEF Discard, Goto
<1>8. CASE FinishRootThread
  BY <1>8, NotifyAllMoves DEF FinishRootThread
<1>9. CASE HostYield
  BY <1>9 DEF HostYield, Acquire, Goto
<1>10. CASE Shutdown
  BY <1>10 DEF Shutdown, Running, Holds, Goto, Started
<1> QED
  BY <1>1, <1>2, <1>3, <1>4, <1>5, <1>6, <1>7, <1>8, <1>9, <1>10 DEF HostStep

LEMMA SleepStep ==
  ASSUME VInv, [Next]_vars
  PROVE  NoSleepThroughProgress'
<1>1. CASE UNCHANGED vars
  BY <1>1 DEF VInv, NoSleepThroughProgress, ParkOver, Ready, HandedOff, Runnable, NotifyPending, vars, flagVars, recordVars, callVars
<1>2. CASE Next
  BY <1>2, BytecodeSleep, RuntimeSleep, OtherSleep, HostSleep DEF Next
<1> QED
  BY <1>1, <1>2

-----------------------------------------------------------------------------
(* Shutdown and the threads it joins.                                      *)

\* Every step keeps ReapInv: from Shutdown on Start refuses, and the dead stay so.
LEMMA BytecodeReap ==
  ASSUME TInv, ReapInv, NEW t \in All, BytecodeStep(t)
  PROVE  ReapInv'
<1> USE VmThreadsAssumption DEF VmThreadsAssumption, All, flagVars, recordVars, callVars, TInv, TypeOK,
         ReapInv, ShutdownPoints
<1>1. ASSUME NEW why \in {"none", "failed"}, Leave(t, why)
      PROVE  ReapInv'
  BY <1>1 DEF Leave, Running, Release, Holds, Unwind, Forget, Goto
<1>2. ASSUME NEW u \in Java, Start(t, u)
      PROVE  ReapInv'
  BY <1>2 DEF Start, Running, Holds, Goto
<1>3. ASSUME NEW u \in All \cup {NoThread}, NEW deadline \in BOOLEAN, Park(t, u, deadline)
      PROVE  ReapInv'
  BY <1>3, NotifyAllMoves DEF Park, Running, Release, Holds, SetWaitState, Progress
<1>4. CASE ClearInterrupt(t)
  BY <1>4 DEF ClearInterrupt, Running, Holds
<1>5. CASE Yield(t)
  BY <1>5, NotifyAllMoves DEF Yield, Running, Release, Holds, Progress
<1>6. CASE ParkOnMonitor(t)
  BY <1>6, NotifyAllMoves DEF ParkOnMonitor, Running, Release, Holds, SetWaitState, Progress
<1>7. CASE Exit(t)
  BY <1>7 DEF Exit, Running, Holds, Goto, Started
<1>8. ASSUME NEW u \in Interruptible, ChooseInterrupted(t, u)
      PROVE  ReapInv'
  BY <1>8 DEF ChooseInterrupted, Running, Holds, Goto
<1> QED
  BY <1>1, <1>2, <1>3, <1>4, <1>5, <1>6, <1>7, <1>8 DEF BytecodeStep

LEMMA RuntimeReap ==
  ASSUME TInv, ReapInv, NEW t \in All, RuntimeStep(t)
  PROVE  ReapInv'
<1> USE VmThreadsAssumption DEF VmThreadsAssumption, All, flagVars, recordVars, callVars, TInv, TypeOK,
         ReapInv, ShutdownPoints
<1>1. CASE TakeLock(t)
  BY <1>1 DEF TakeLock, Acquire
<1>2. CASE AttachBody(t)
  BY <1>2 DEF AttachBody, Acquire, Goto
<1>3. CASE BeginRun(t)
  BY <1>3, NotifyAllMoves DEF BeginRun, Progress
<1>4. CASE Retire(t)
  BY <1>4, NotifyAllMoves DEF Retire, Progress, FinalStatus, Goto
<1>5. CASE AnnounceFailure(t)
  BY <1>5, NotifyAllMoves DEF AnnounceFailure
<1>6. CASE CheckPark(t)
  BY <1>6 DEF CheckPark, Goto
<1>7. CASE WaitForChange(t)
  BY <1>7 DEF WaitForChange, Goto
<1>8. CASE PollPark(t)
  BY <1>8 DEF PollPark, Goto
<1>9. CASE Reacquire(t)
  BY <1>9 DEF Reacquire, Acquire, Goto
<1>10. CASE ReturnFromPark(t)
  BY <1>10, NotifyAllMoves DEF ReturnFromPark, SetWaitState, Progress, Forget
<1>11. CASE ReturnStopped(t)
  BY <1>11 DEF ReturnStopped, SetWaitState, Progress, Unwind, Release, Holds, Forget, Goto
<1>12. CASE MonitorShutdownWakes(t)
  BY <1>12 DEF MonitorShutdownWakes, EndMonitorPark, Goto
<1>13. CASE RaiseInterrupt(t)
  BY <1>13, NotifyAllMoves DEF RaiseInterrupt
<1>14. CASE ExitNotifies(t)
  BY <1>14, NotifyAllMoves DEF ExitNotifies
<1> QED
  BY <1>1, <1>2, <1>3, <1>4, <1>5, <1>6, <1>7, <1>8, <1>9, <1>10, <1>11, <1>12, <1>13, <1>14 DEF RuntimeStep

LEMMA OtherReap ==
  ASSUME TInv, ReapInv, NEW t \in All,
         \/ SafePoint(t) \/ StopAtSafePoint(t) \/ CallIn(t)
         \/ DeadlinePasses(t) \/ MonitorGranted(t) \/ WaitInterrupted(t)
  PROVE  ReapInv'
<1> USE VmThreadsAssumption DEF VmThreadsAssumption, All, flagVars, recordVars, callVars, TInv, TypeOK,
         ReapInv, ShutdownPoints
<1>1. CASE SafePoint(t)
  BY <1>1 DEF SafePoint, Running, Holds, Release
<1>2. CASE StopAtSafePoint(t)
  BY <1>2 DEF StopAtSafePoint, Running, Release, Holds, Unwind, Forget, Goto
<1>3. CASE CallIn(t)
  BY <1>3 DEF CallIn, Goto
<1>4. CASE DeadlinePasses(t)
  BY <1>4 DEF DeadlinePasses, Goto
<1>5. CASE MonitorGranted(t)
  BY <1>5 DEF MonitorGranted, EndMonitorPark, Goto
<1>6. CASE WaitInterrupted(t)
  BY <1>6 DEF WaitInterrupted, EndMonitorPark, Goto
<1> QED
  BY <1>1, <1>2, <1>3, <1>4, <1>5, <1>6

LEMMA HostReap ==
  ASSUME TInv, ReapInv, HostStep \/ FinishRootThread \/ HostYield \/ Shutdown
  PROVE  ReapInv'
<1> USE VmThreadsAssumption DEF VmThreadsAssumption, All, flagVars, recordVars, callVars, TInv, TypeOK,
         ReapInv, ShutdownPoints
<1>1. CASE HostYieldLooks
  BY <1>1 DEF HostYieldLooks, Goto, Release, Holds
<1>2. CASE HostYieldChecks
  BY <1>2 DEF HostYieldChecks, Goto
<1>3. CASE HostYieldReturns
  BY <1>3 DEF HostYieldReturns, Goto
<1>4. CASE ShutdownNotifies
  BY <1>4, NotifyAllMoves DEF ShutdownNotifies, Release, Holds
<1>5. CASE JoinHosts
  BY <1>5 DEF JoinHosts, Acquire, Goto
<1>6. CASE TakeMutexToDiscard
  BY <1>6 DEF TakeMutexToDiscard, Goto
<1>7. CASE Discard
  BY <1>7 DEF Discard, Goto
<1>8. CASE FinishRootThread
  BY <1>8, NotifyAllMoves DEF FinishRootThread
<1>9. CASE HostYield
  BY <1>9 DEF HostYield, Acquire, Goto
<1>10. CASE Shutdown
  BY <1>10 DEF Shutdown, Running, Holds, Goto, Started
<1> QED
  BY <1>1, <1>2, <1>3, <1>4, <1>5, <1>6, <1>7, <1>8, <1>9, <1>10 DEF HostStep

LEMMA ReapStep ==
  ASSUME TInv, ReapInv, [Next]_vars
  PROVE  ReapInv'
<1>1. CASE UNCHANGED vars
  BY <1>1 DEF ReapInv, vars, flagVars, recordVars, callVars
<1>2. CASE Next
  BY <1>2, BytecodeReap, RuntimeReap, OtherReap, HostReap DEF Next
<1> QED
  BY <1>1, <1>2

-----------------------------------------------------------------------------
(* The theorems.                                                           *)

LEMMA VInvInit == Init => VInv
<1> SUFFICES ASSUME Init
             PROVE  VInv
  OBVIOUS
<1> USE VmThreadsAssumption DEF VmThreadsAssumption, Init, All
<1>1. TypeOK
  BY DEF TypeOK, Live, Ended, Points, ParkPoints, WaitPoints, ShutdownPoints
<1>2. CallInv /\ PolledInv
  BY DEF CallInv, PolledInv
<1>3. EndInv
  BY DEF EndInv, NotifyPending
<1>4. NoSleepThroughProgress
  BY DEF NoSleepThroughProgress
<1>5. ReapInv
  BY DEF ReapInv, ShutdownPoints
<1> QED
  BY <1>1, <1>2, <1>3, <1>4, <1>5 DEF VInv, TInv

LEMMA TypeStep == TInv /\ [Next]_vars => TypeOK'
<1>1. ASSUME TInv, UNCHANGED vars
      PROVE  TypeOK'
  BY <1>1 DEF TInv, TypeOK, vars, flagVars, recordVars, callVars
<1>2. ASSUME TInv, Next
      PROVE  TypeOK'
  BY <1>2, BytecodeType, RuntimeType, OtherType, HostType DEF Next
<1> QED
  BY <1>1, <1>2

LEMMA VInvStep == VInv /\ [Next]_vars => VInv'
<1> SUFFICES ASSUME VInv, [Next]_vars
             PROVE  VInv'
  OBVIOUS
<1>1. TInv'
  BY TypeStep, CallStep DEF VInv, TInv
<1>2. EndInv' /\ PolledInv' /\ NoSleepThroughProgress' /\ ReapInv'
  BY EndStep, PolledStep, SleepStep, ReapStep DEF VInv
<1> QED
  BY <1>1, <1>2 DEF VInv

LEMMA VInvHolds == Spec => []VInv
BY VInvInit, VInvStep, PTL DEF Spec, SafetySpec

\* Every variable has its type, and a thread has a record exactly from Start on.
THEOREM TypeCorrect == Spec => []TypeOK
<1>1. VInv => TypeOK
  BY DEF VInv, TInv
<1> QED
  BY <1>1, VInvHolds, PTL

\* Nobody sleeps through what it waits for.
THEOREM NobodySleepsThroughProgress == Spec => []NoSleepThroughProgress
<1>1. VInv => NoSleepThroughProgress
  BY DEF VInv
<1> QED
  BY <1>1, VInvHolds, PTL

\* The end of the VM reaches the threads parked on a monitor.
THEOREM TheEndReachesMonitors == Spec => []EndReachesMonitors
<1>1. VInv => EndReachesMonitors
  BY DEF VInv, EndInv, EndReachesMonitors
<1> QED
  BY <1>1, VInvHolds, PTL

\* Once Shutdown has returned every Java thread is dead or was never started.
THEOREM ShutdownLeavesNoneRunning == Spec => []NoneLeftRunning
<1>1. VInv => NoneLeftRunning
  BY DEF VInv, ReapInv, NoneLeftRunning, ShutdownPoints
<1> QED
  BY <1>1, VInvHolds, PTL

=============================================================================
