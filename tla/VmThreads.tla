----------------------------- MODULE VmThreads -----------------------------
(***************************************************************************)
(* VmThreadRuntime (src/src/runtime/dexvm/vm_threads.cpp): Java threads on *)
(* host threads.  Thread.start, join, sleep, yield and interrupt; the host *)
(* that waits for the threads to get on; the end of the VM by an uncaught  *)
(* exception, by nativeExit or by Shutdown.                                *)
(*                                                                         *)
(* The runtime has one mutex and one condition variable.  A step is one    *)
(* critical section of the mutex with the notification behind it; only the *)
(* places where the code does something between the two, or holds the      *)
(* mutex across two looks at other state, are steps of their own.          *)
(* Bytecode runs under the execution lock, of which this module keeps only *)
(* what VmMonitors shows of ExecutionLock: one owner, and nobody starves.  *)
(* Object.wait and monitors are VmMonitors; here they are a park that ends *)
(* at any time, and in any case once the table is shut down.  Native       *)
(* threads that attach, deadlines of lifecycle scopes and the reuse of     *)
(* swept Thread handles are left out.                                      *)
(***************************************************************************)
CONSTANTS NoThread,
          Root,      (* the lifecycle thread, context token 1              *)
          Java,      (* Thread objects, each started at most once          *)
          Interruptible  (* bound: the threads that somebody interrupts    *)

ASSUME VmThreadsAssumption ==
  /\ Root \notin Java
  /\ NoThread \notin {Root} \cup Java
  /\ Interruptible \subseteq {Root} \cup Java

All == {Root} \cup Java

VARIABLES
  holder,         (* who owns the execution lock                           *)
  status,         (* VmThreadRecord::status; "none" without a record       *)
  waiting,        (* the threads whose wait_state is not none              *)
  shuttingDown,   (* shutting_down                                         *)
  rootFinished,   (* root_finished                                         *)
  progressed,     (* progress_generation is not the one Yield remembers    *)
  stopRequested,  (* contexts with RequestStop                             *)
  interrupted,    (* the monitor table's interrupt flags                   *)
  monitorsDown,   (* Monitors().Shutdown() was called                      *)
  pc,             (* where each thread is                                  *)
  target,         (* whom it joins or interrupts; NoThread: it sleeps      *)
  timed,          (* its park has a deadline; Shutdown: it held the lock   *)
  reason,         (* why its park or its run ends                          *)
  joined          (* the host threads that Shutdown joins                  *)

flagVars == <<shuttingDown, rootFinished, stopRequested, monitorsDown>>
recordVars == <<status, waiting, progressed>>
callVars == <<target, timed, reason>>
vars == <<holder, flagVars, recordVars, interrupted, pc, callVars, joined>>

Live == {"created", "running"}
Ended == {"finished", "failed", "stopped"}
ParkPoints == {"checking", "polled", "parked", "monitor"}
WaitPoints == {"yield_checking", "yield_parked"}
ShutdownPoints == {"stopping", "reaping", "reaped", "discarding"}
LockPoints == {"java", "woken", "starting", "yield_done", "discarding"}
Points == ParkPoints \cup WaitPoints \cup ShutdownPoints \cup
  {"new", "starting", "begin", "java", "woken", "returning", "interrupting", "exiting",
   "dying", "failing", "dead", "outside", "yield_entering", "yield_done",
   "down"}

\* Every variable has its type; a record exists from Start on and has one of the
\* statuses of VmThreadStatus.
TypeOK ==
  /\ holder \in All \cup {NoThread}
  /\ status \in [Java -> Live \cup Ended \cup {"none"}]
  /\ \A t \in Java : status[t] = "none" <=> pc[t] = "new"
  /\ waiting \subseteq All
  /\ shuttingDown \in BOOLEAN /\ rootFinished \in BOOLEAN
  /\ progressed \in BOOLEAN /\ monitorsDown \in BOOLEAN
  /\ stopRequested \subseteq All
  /\ interrupted \subseteq All
  /\ pc \in [All -> Points]
  /\ target \in [All -> All \cup {NoThread}]
  /\ timed \in [All -> BOOLEAN]
  /\ reason \in [All -> {"none", "interrupted", "stopped", "failed"}]
  /\ joined \subseteq Java

Init ==
  /\ holder = NoThread
  /\ status = [t \in Java |-> "none"]
  /\ waiting = {} /\ stopRequested = {} /\ interrupted = {}
  /\ shuttingDown = FALSE /\ rootFinished = FALSE
  /\ progressed = FALSE /\ monitorsDown = FALSE
  /\ pc = [t \in All |-> IF t = Root THEN "outside"
                         ELSE "new"]
  /\ target = [t \in All |-> NoThread]
  /\ timed = [t \in All |-> FALSE]
  /\ reason = [t \in All |-> "none"]
  /\ joined = {}

-----------------------------------------------------------------------------
(* The mutex, the condition variable and the observable state.             *)

Holds(t) == holder = t
Acquire(t) == holder = NoThread /\ holder' = t
Release(t) == Holds(t) /\ holder' = NoThread

Running(t) == pc[t] = "java" /\ Holds(t)

\* The points at which a thread holds the mutex between two steps.
MutexFree == \A t \in All : pc[t] \notin {"polled", "discarding"}

Goto(t, point) == pc' = [pc EXCEPT ![t] = point]

\* changed.notify_all(), by a thread that goes on at `point`.
NotifyAll(t, point) ==
  pc' = [u \in All |->
           CASE u = t -> point
             [] u # t /\ pc[u] = "parked" -> "checking"
             [] u # t /\ pc[u] = "yield_parked" -> "yield_checking"
             [] OTHER -> pc[u]]

\* ++progress_generation, which only a host inside Yield compares with anything.
Progress == progressed' = (pc[Root] \in WaitPoints)

\* SetWaitState, which counts as progress when it changes something.
SetWaitState(t, parks) ==
  LET after == IF parks THEN waiting \cup {t} ELSE waiting \ {t} IN
  /\ waiting' = after
  /\ IF after # waiting THEN Progress ELSE UNCHANGED progressed

Runnable ==
  \E t \in Java : status[t] = "created" \/ (status[t] = "running" /\ t \notin waiting)

\* What ends the wait of the host.
HandedOff == shuttingDown \/ progressed \/ ~Runnable

\* What a join waits for.
Ready(u) == IF u = Root THEN rootFinished ELSE status[u] \notin Live

-----------------------------------------------------------------------------
(* Into the VM, out of it, and the safe points.                            *)

\* The lifecycle calls bytecode.
CallIn(t) ==
  /\ pc[t] = "outside"
  /\ Goto(t, "java")
  /\ UNCHANGED <<holder, flagVars, recordVars, interrupted, callVars, joined>>

TakeLock(t) ==
  /\ pc[t] = "java"
  /\ Acquire(t)
  /\ UNCHANGED <<flagVars, recordVars, interrupted, pc, callVars, joined>>

\* A safe point of the interpreter: the lock goes to whoever waits for it.
SafePoint(t) ==
  /\ Running(t)
  /\ t \notin stopRequested
  /\ \E u \in All \ {t} : pc[u] \in LockPoints
  /\ Release(t)
  /\ UNCHANGED <<flagVars, recordVars, interrupted, pc, callVars, joined>>

\* The arguments of a park that is over.
Forget(t) ==
  /\ target' = [target EXCEPT ![t] = NoThread]
  /\ timed' = [timed EXCEPT ![t] = FALSE]

\* Bytecode ends: a Java thread dies, the others are back where they called.
Unwind(t, why) ==
  /\ Release(t)
  /\ reason' = [reason EXCEPT ![t] = IF t \in Java THEN why ELSE "none"]
  /\ Goto(t, IF t \in Java THEN "dying" ELSE "outside")
  /\ Forget(t)

\* A safe point of a stopped context: thread_stopped.
StopAtSafePoint(t) ==
  /\ Running(t)
  /\ t \in stopRequested
  /\ Unwind(t, "stopped")
  /\ UNCHANGED <<flagVars, recordVars, interrupted, joined>>

-----------------------------------------------------------------------------
(* Thread.start and the body of a Java thread.                             *)

\* Mutant: start does not ask whether the VM is going down.
StartLate(t, u) ==
  /\ Running(t) /\ MutexFree
  /\ pc[u] = "new"
  /\ status' = [status EXCEPT ![u] = "created"]
  /\ Goto(u, "starting")
  /\ UNCHANGED <<holder, flagVars, waiting, progressed, interrupted, callVars, joined>>

\* The record and the host thread appear under the mutex; it throws otherwise.
Start(t, u) ==
  /\ Running(t) /\ MutexFree
  /\ ~shuttingDown
  /\ pc[u] = "new"
  /\ status' = [status EXCEPT ![u] = "created"]
  /\ Goto(u, "starting")
  /\ UNCHANGED <<holder, flagVars, waiting, progressed, interrupted, callVars, joined>>

AttachBody(t) ==
  /\ pc[t] = "starting"
  /\ Acquire(t)
  /\ Goto(t, "begin")
  /\ UNCHANGED <<flagVars, recordVars, interrupted, callVars, joined>>

BeginRun(t) ==
  /\ pc[t] = "begin" /\ MutexFree
  /\ status' = [status EXCEPT ![t] = "running"]
  /\ Progress
  /\ NotifyAll(t, "java")
  /\ UNCHANGED <<holder, flagVars, waiting, interrupted, callVars, joined>>

\* The call returns; run() may also end with an exception nobody handles.
Leave(t, why) ==
  /\ Running(t)
  /\ Unwind(t, why)
  /\ UNCHANGED <<flagVars, recordVars, interrupted, joined>>

FinalStatus(t) == IF reason[t] = "none" THEN "finished" ELSE reason[t]

\* Mutant: an ending that the host does not see as progress.
RetireQuietly(t) ==
  /\ pc[t] = "dying" /\ MutexFree
  /\ status' = [status EXCEPT ![t] = FinalStatus(t)]
  /\ waiting' = waiting \ {t}
  /\ interrupted' = interrupted \ {t}
  /\ Goto(t, IF FinalStatus(t) = "failed" THEN "failing" ELSE "dead")
  /\ shuttingDown' = (shuttingDown \/ FinalStatus(t) = "failed")
  /\ UNCHANGED <<holder, rootFinished, stopRequested, monitorsDown, progressed, callVars, joined>>

\* The monitors are released and the status published; a failure takes the VM
\* down, and is announced only after the monitor table has been.
Retire(t) ==
  LET fails == FinalStatus(t) = "failed" IN
  /\ pc[t] = "dying" /\ MutexFree
  /\ status' = [status EXCEPT ![t] = FinalStatus(t)]
  /\ waiting' = waiting \ {t}
  /\ interrupted' = interrupted \ {t}
  /\ Progress
  /\ \/ fails /\ Goto(t, "failing")
     \/ ~fails /\ NotifyAll(t, "dead")
  /\ shuttingDown' = (shuttingDown \/ fails)
  /\ UNCHANGED <<holder, rootFinished, stopRequested, monitorsDown, callVars, joined>>

\* Mutant: the parked threads of the monitor table are forgotten.
AnnounceFailureHalf(t) ==
  /\ pc[t] = "failing"
  /\ NotifyAll(t, "dead")
  /\ UNCHANGED <<holder, flagVars, recordVars, interrupted, callVars, joined>>

AnnounceFailure(t) ==
  /\ pc[t] = "failing"
  /\ monitorsDown' = TRUE
  /\ NotifyAll(t, "dead")
  /\ UNCHANGED <<holder, shuttingDown, rootFinished, stopRequested,
                 recordVars, interrupted, callVars, joined>>

-----------------------------------------------------------------------------
(* join and sleep: ParkUntil, and the loop of Sleep.                       *)

\* Neither returns at once: the wait state is set and the lock given up.
\* Whatever happens between the first look and the loop, the loop looks again.
Park(t, u, deadline) ==
  /\ Running(t) /\ MutexFree
  /\ t \notin interrupted
  /\ u = NoThread => deadline
  /\ u # NoThread => ~shuttingDown /\ ~Ready(u)
  /\ SetWaitState(t, TRUE)
  /\ target' = [target EXCEPT ![t] = u]
  /\ timed' = [timed EXCEPT ![t] = deadline]
  /\ Release(t)
  /\ NotifyAll(t, "checking")
  /\ UNCHANGED <<flagVars, status, interrupted, reason, joined>>

\* An interrupted thread that joins or sleeps throws, and so does the loop once
\* the thread is back; Thread.interrupted() clears the flag too.
ClearInterrupt(t) ==
  /\ Running(t)
  /\ t \in interrupted
  /\ interrupted' = interrupted \ {t}
  /\ UNCHANGED <<holder, flagVars, recordVars, pc, callVars, joined>>

\* One turn of the loop, up to the wait.  The interrupt flag is behind another
\* mutex: it can change before the thread waits.
ParkOver(t) == shuttingDown \/ (target[t] # NoThread /\ Ready(target[t]))

CheckPark(t) ==
  /\ pc[t] = "checking" /\ MutexFree
  /\ \/ /\ ParkOver(t)
        /\ reason' = [reason EXCEPT ![t] = IF target[t] = NoThread THEN "stopped" ELSE "none"]
        /\ Goto(t, "woken")
     \/ /\ ~ParkOver(t) /\ t \in interrupted
        /\ reason' = [reason EXCEPT ![t] = "interrupted"]
        /\ Goto(t, "woken")
     \/ /\ ~ParkOver(t) /\ t \notin interrupted
        /\ Goto(t, "polled")
        /\ UNCHANGED reason
  /\ UNCHANGED <<holder, flagVars, recordVars, interrupted, target, timed, joined>>

WaitForChange(t) ==
  /\ pc[t] = "polled"
  /\ Goto(t, "parked")
  /\ UNCHANGED <<holder, flagVars, recordVars, interrupted, callVars, joined>>

\* A timed wait lasts 2 ms; the clock may pass the deadline at any time.
PollPark(t) ==
  /\ pc[t] = "parked" /\ timed[t]
  /\ Goto(t, "checking")
  /\ UNCHANGED <<holder, flagVars, recordVars, interrupted, callVars, joined>>

DeadlinePasses(t) ==
  /\ pc[t] = "checking" /\ timed[t] /\ MutexFree
  /\ ~ParkOver(t) /\ t \notin interrupted
  /\ Goto(t, "woken")
  /\ UNCHANGED <<holder, flagVars, recordVars, interrupted, callVars, joined>>

Reacquire(t) ==
  /\ pc[t] = "woken"
  /\ Acquire(t)
  /\ Goto(t, "returning")
  /\ UNCHANGED <<flagVars, recordVars, interrupted, callVars, joined>>

\* Back in bytecode, with InterruptedException if the interrupt ended the park.
ReturnFromPark(t) ==
  /\ pc[t] = "returning" /\ MutexFree
  /\ reason[t] # "stopped"
  /\ SetWaitState(t, FALSE)
  /\ interrupted' = IF reason[t] = "interrupted" THEN interrupted \ {t} ELSE interrupted
  /\ reason' = [reason EXCEPT ![t] = "none"]
  /\ Forget(t)
  /\ NotifyAll(t, "java")
  /\ UNCHANGED <<holder, flagVars, status, joined>>

\* A sleep or a wait that the end of the VM cut short ends the thread.
ReturnStopped(t) ==
  /\ pc[t] = "returning" /\ MutexFree
  /\ reason[t] = "stopped"
  /\ SetWaitState(t, FALSE)
  /\ Unwind(t, "stopped")
  /\ UNCHANGED <<flagVars, status, interrupted, joined>>

\* Thread.yield() of a Java thread: the lock passes through the queue.
Yield(t) ==
  /\ Running(t) /\ MutexFree
  /\ Progress
  /\ Release(t)
  /\ NotifyAll(t, "woken")
  /\ UNCHANGED <<flagVars, status, waiting, interrupted, callVars, joined>>

-----------------------------------------------------------------------------
(* Object.wait and contended monitors, as the runtime sees them.           *)

ParkOnMonitor(t) ==
  /\ Running(t) /\ MutexFree
  /\ ~monitorsDown
  /\ SetWaitState(t, TRUE)
  /\ Release(t)
  /\ NotifyAll(t, "monitor")
  /\ UNCHANGED <<flagVars, status, interrupted, callVars, joined>>

EndMonitorPark(t, why) ==
  /\ pc[t] = "monitor"
  /\ reason' = [reason EXCEPT ![t] = why]
  /\ Goto(t, "woken")
  /\ UNCHANGED <<holder, flagVars, recordVars, interrupted, target, timed, joined>>

MonitorGranted(t) == EndMonitorPark(t, "none")
WaitInterrupted(t) == t \in interrupted /\ EndMonitorPark(t, "interrupted")
MonitorShutdownWakes(t) ==
  monitorsDown /\ \E why \in {"none", "stopped"} : EndMonitorPark(t, why)

-----------------------------------------------------------------------------
(* Interrupt: the token is chosen under the mutex, the flag is not set     *)
(* under it.                                                               *)

ChooseInterrupted(t, u) ==
  /\ Running(t) /\ MutexFree
  /\ u \in Java => status[u] \in Live
  /\ target' = [target EXCEPT ![t] = u]
  /\ Goto(t, "interrupting")
  /\ UNCHANGED <<holder, flagVars, recordVars, interrupted, timed, reason, joined>>

RaiseInterrupt(t) ==
  /\ pc[t] = "interrupting"
  /\ interrupted' = interrupted \cup {target[t]}
  /\ target' = [target EXCEPT ![t] = NoThread]
  /\ NotifyAll(t, "java")
  /\ UNCHANGED <<holder, flagVars, recordVars, timed, reason, joined>>

-----------------------------------------------------------------------------
(* The host, outside the VM.                                               *)

FinishRootThread ==
  /\ pc[Root] = "outside" /\ MutexFree
  /\ ~rootFinished
  /\ rootFinished' = TRUE
  /\ NotifyAll(Root, "outside")
  /\ UNCHANGED <<holder, shuttingDown, stopRequested, monitorsDown,
                 recordVars, interrupted, callVars, joined>>

\* Yield of a host that does not own the lock.
HostYield ==
  /\ pc[Root] = "outside"
  /\ Acquire(Root)
  /\ Goto(Root, "yield_entering")
  /\ UNCHANGED <<flagVars, recordVars, interrupted, callVars, joined>>

HostYieldLooks ==
  /\ pc[Root] = "yield_entering" /\ MutexFree
  /\ \/ /\ ~Runnable
        /\ Goto(Root, "outside")
        /\ UNCHANGED progressed
     \/ /\ Runnable
        /\ progressed' = FALSE
        /\ Goto(Root, "yield_checking")
  /\ Release(Root)
  /\ UNCHANGED <<flagVars, status, waiting, interrupted, callVars, joined>>

HostYieldChecks ==
  /\ pc[Root] = "yield_checking" /\ MutexFree
  /\ \/ HandedOff /\ progressed' = FALSE /\ Goto(Root, "yield_done")
     \/ ~HandedOff /\ UNCHANGED progressed /\ Goto(Root, "yield_parked")
  /\ UNCHANGED <<holder, flagVars, status, waiting, interrupted, callVars, joined>>

\* The lock is reacquired and released.
HostYieldReturns ==
  /\ pc[Root] = "yield_done"
  /\ holder = NoThread
  /\ Goto(Root, "outside")
  /\ UNCHANGED <<holder, flagVars, recordVars, interrupted, callVars, joined>>

-----------------------------------------------------------------------------
(* The end of the VM.                                                      *)

Started == {t \in Java : status[t] # "none"}

\* Runtime.nativeExit: every context is stopped, then RequestShutdown.
Exit(t) ==
  /\ Running(t) /\ MutexFree
  /\ stopRequested' = stopRequested \cup {Root} \cup Started
  /\ shuttingDown' = TRUE
  /\ Goto(t, "exiting")
  /\ UNCHANGED <<holder, rootFinished, monitorsDown, recordVars, interrupted,
                 callVars, joined>>

ExitNotifies(t) ==
  /\ pc[t] = "exiting"
  /\ monitorsDown' = TRUE
  /\ NotifyAll(t, "java")
  /\ UNCHANGED <<holder, shuttingDown, rootFinished, stopRequested,
                 recordVars, interrupted, callVars, joined>>

\* Shutdown, from outside or from bytecode of the root thread.
Shutdown ==
  /\ pc[Root] = "outside" \/ Running(Root)
  /\ MutexFree
  /\ shuttingDown' = TRUE
  /\ joined' = Started
  /\ Goto(Root, "stopping")
  /\ UNCHANGED <<holder, rootFinished, stopRequested, monitorsDown,
                 recordVars, interrupted, callVars>>

\* Mutant: the caller keeps the lock while it joins.
ShutdownNotifiesHolding ==
  /\ pc[Root] = "stopping"
  /\ stopRequested' = stopRequested \cup joined
  /\ monitorsDown' = TRUE
  /\ timed' = [timed EXCEPT ![Root] = Holds(Root)]
  /\ NotifyAll(Root, "reaping")
  /\ UNCHANGED <<holder, shuttingDown, rootFinished, recordVars, interrupted,
                 target, reason, joined>>

\* Everybody is stopped and woken, and the lock given up if it is held.
ShutdownNotifies ==
  /\ pc[Root] = "stopping"
  /\ stopRequested' = stopRequested \cup joined
  /\ monitorsDown' = TRUE
  /\ timed' = [timed EXCEPT ![Root] = Holds(Root)]
  /\ \/ Release(Root)
     \/ ~Holds(Root) /\ UNCHANGED holder
  /\ NotifyAll(Root, "reaping")
  /\ UNCHANGED <<shuttingDown, rootFinished, recordVars, interrupted,
                 target, reason, joined>>

\* All host threads are joined; the lock comes back if it was held.
JoinHosts ==
  /\ pc[Root] = "reaping"
  /\ \A t \in joined : pc[t] = "dead"
  /\ IF timed[Root] THEN Acquire(Root) ELSE UNCHANGED holder
  /\ Goto(Root, "reaped")
  /\ UNCHANGED <<flagVars, recordVars, interrupted, callVars, joined>>

\* The contexts are discarded: the lock is taken inside the mutex.
TakeMutexToDiscard ==
  /\ pc[Root] = "reaped" /\ MutexFree
  /\ Goto(Root, IF joined # {} /\ ~timed[Root] THEN "discarding" ELSE "down")
  /\ UNCHANGED <<holder, flagVars, recordVars, interrupted, callVars, joined>>

Discard ==
  /\ pc[Root] = "discarding"
  /\ holder = NoThread
  /\ Goto(Root, "down")
  /\ UNCHANGED <<holder, flagVars, recordVars, interrupted, callVars, joined>>

-----------------------------------------------------------------------------
\* A stopped context is stopped at its next instruction.  The operation it is
\* inside when the flag is set comes before that.
BytecodeStep(t) ==
  /\ t \notin stopRequested
  /\ \/ Leave(t, "none") \/ (t \in Java /\ Leave(t, "failed"))
     \/ \E u \in Java : Start(t, u)
     \/ \E u \in All \cup {NoThread}, deadline \in BOOLEAN : Park(t, u, deadline)
     \/ ClearInterrupt(t) \/ Yield(t) \/ ParkOnMonitor(t) \/ Exit(t)
     \/ \E u \in Interruptible : ChooseInterrupted(t, u)

\* What a host thread does once it is inside an operation of the runtime.
RuntimeStep(t) ==
  \/ TakeLock(t) \/ AttachBody(t) \/ BeginRun(t) \/ Retire(t) \/ AnnounceFailure(t)
  \/ CheckPark(t) \/ WaitForChange(t) \/ PollPark(t)
  \/ Reacquire(t) \/ ReturnFromPark(t) \/ ReturnStopped(t)
  \/ MonitorShutdownWakes(t) \/ RaiseInterrupt(t) \/ ExitNotifies(t)

HostStep ==
  \/ HostYieldLooks \/ HostYieldChecks \/ HostYieldReturns
  \/ ShutdownNotifies \/ JoinHosts \/ TakeMutexToDiscard \/ Discard

Next ==
  \/ \E t \in All :
       \/ BytecodeStep(t) \/ SafePoint(t) \/ StopAtSafePoint(t) \/ RuntimeStep(t)
       \/ CallIn(t) \/ DeadlinePasses(t) \/ MonitorGranted(t) \/ WaitInterrupted(t)
  \/ HostStep \/ FinishRootThread \/ HostYield \/ Shutdown

\* Host threads run, and bytecode comes to its safe points.  Nothing makes it
\* return, a monitor free or the clock advance.
Fairness ==
  /\ \A t \in All : WF_vars(RuntimeStep(t) \/ SafePoint(t) \/ StopAtSafePoint(t))
  /\ WF_vars(HostStep)

SafetySpec == Init /\ [][Next]_vars
Spec == SafetySpec /\ Fairness

-----------------------------------------------------------------------------
\* A thread that has changed what others wait for and not yet notified them.
NotifyPending == \E t \in All : pc[t] \in {"failing", "exiting", "stopping"}

\* Nobody sleeps through what it waits for: a joiner in the untimed wait whose
\* target has ended, and a host in Yield whose workers have progressed or are
\* all parked, is about to be notified.  This relates every status and wait
\* state change of the runtime to the notification behind it.
NoSleepThroughProgress ==
  /\ \A t \in All : pc[t] = "parked" /\ ParkOver(t) => NotifyPending
  /\ pc[Root] = "yield_parked" /\ HandedOff => NotifyPending

\* Once Shutdown has returned no Java thread runs bytecode, waits for the lock
\* or can still be started: the refusal of Start and the set that Shutdown
\* joins are decided under the same mutex.
NoneLeftRunning ==
  pc[Root] = "down" => \A t \in Java : pc[t] \in {"new", "dead"}

\* The end of the VM reaches the threads that do not wait on this runtime's
\* condition variable: a thread on a monitor when an uncaught exception or
\* nativeExit brings the VM down is let go, or about to be
\* (src/src/runtime/dexvm/vm_threads.cpp:222).
EndReachesMonitors ==
  \A t \in All : pc[t] = "monitor" /\ shuttingDown => monitorsDown \/ NotifyPending

\* Shutdown returns, whatever the Java threads are doing when it is called.
ShutdownReturns == pc[Root] = "stopping" ~> pc[Root] = "down"

\* src/src/runtime/dexvm/vm_threads.cpp:2: "interrupt raises a flag and wakes a
\* parked thread".  The flag is raised and the condition variable notified
\* without the mutex of the wait: a joiner that has looked at the flag and not
\* yet begun to wait is not woken.
InterruptWakesJoiner ==
  \A t \in All : (pc[t] = "polled" /\ t \in interrupted) ~> pc[t] \notin {"polled", "parked"}
=============================================================================
