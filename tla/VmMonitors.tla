----------------------------- MODULE VmMonitors -----------------------------
(***************************************************************************)
(* VmMonitorTable (src/src/runtime/dexvm/vm_monitors.cpp): Java object     *)
(* monitors, Object.wait and notify, thread interruption and the shutdown  *)
(* of all waits, for threads that run bytecode only while they hold the    *)
(* ExecutionLock and give it up whenever they park.                        *)
(*                                                                         *)
(* The table has one mutex and one condition variable for all objects; a   *)
(* step is one critical section of that mutex or of the lock's.  Bounded   *)
(* lifecycle scopes (RunWithExecutionDeadline), in which a park ends with  *)
(* an internal error, are left out.                                        *)
(***************************************************************************)
EXTENDS ExecutionLock, FiniteSets

CONSTANTS Threads, Objects,
          MaxRecursion,   (* bound: how often a thread enters one monitor  *)
          MaxDepth        (* bound: nested acquisitions of the lock        *)

ASSUME VmMonitorsAssumption ==
  /\ NoThread \notin Threads
  /\ Objects # {}
  /\ MaxRecursion \in Nat \ {0}
  /\ MaxDepth \in Nat \ {0}

VARIABLES
  owner, recursion,   (* Monitor::owner, Monitor::recursion                *)
  waitSet,            (* Monitor::wait_set, oldest first                   *)
  woken,              (* woken: chosen by a notify and not yet returned    *)
  interrupted,        (* interrupted                                       *)
  shuttingDown,       (* shutting_down                                     *)
  pc,                 (* where each thread is                              *)
  object,             (* the object it enters or waits on                  *)
  saved,              (* the recursion it will have once it owns it        *)
  outcome,            (* what its Wait will return; "none" outside Wait    *)
  timed,              (* its Wait has a deadline                           *)
  resume,             (* the depth of the lock it gave up                  *)
  held                (* auxiliary: Enters minus Exits, per thread, object *)

monitorVars == <<owner, recursion, waitSet, woken, interrupted>>
callVars == <<pc, object, saved, outcome, timed>>
vars == <<lockVars, monitorVars, shuttingDown, callVars, resume, held>>

Outcomes == {"notified", "timed_out", "interrupted", "shut_down"}
WaitPoints == {"wait_joining", "waiting", "wait_woken"}
Parked == {"entering", "waiting"}
Points == WaitPoints \cup {"new", "java", "entering", "enter_woken", "retrying",
                           "dying", "dead"}

\* Every variable has its type: recursion depths within the bound, and the wait
\* sets and `woken` of VmMonitorTable name threads.
TypeOK ==
  /\ LockTypeOK(Threads, MaxDepth)
  /\ owner \in [Objects -> Threads \cup {NoThread}]
  /\ recursion \in [Objects -> 0 .. MaxRecursion]
  /\ waitSet \in [Objects -> Seq(Threads)]
  /\ woken \subseteq Threads
  /\ interrupted \subseteq Threads
  /\ shuttingDown \in BOOLEAN
  /\ pc \in [Threads -> Points]
  /\ object \in [Threads -> Objects]
  /\ saved \in [Threads -> 0 .. MaxRecursion]
  /\ outcome \in [Threads -> Outcomes \cup {"none", "undecided"}]
  /\ timed \in [Threads -> BOOLEAN]
  /\ resume \in [Threads -> 1 .. MaxDepth]
  /\ held \in [Threads -> [Objects -> 0 .. MaxRecursion]]

Init ==
  /\ LockInit
  /\ owner = [o \in Objects |-> NoThread]
  /\ recursion = [o \in Objects |-> 0]
  /\ waitSet = [o \in Objects |-> <<>>]
  /\ woken = {}
  /\ interrupted = {}
  /\ shuttingDown = FALSE
  /\ pc = [t \in Threads |-> "new"]
  /\ object \in [Threads -> {CHOOSE o \in Objects : TRUE}]
  /\ saved = [t \in Threads |-> 0]
  /\ outcome = [t \in Threads |-> "none"]
  /\ timed = [t \in Threads |-> FALSE]
  /\ resume = [t \in Threads |-> 1]
  /\ held = [t \in Threads |-> [o \in Objects |-> 0]]

-----------------------------------------------------------------------------
(* The execution lock, as the threads use it.                              *)

Running(t) == pc[t] = "java" /\ Holds(t)

\* Parks: the lock is given up whole and its depth remembered.
Park(t) == ReleaseForBlocking(t) /\ resume' = [resume EXCEPT ![t] = depth]

Goto(t, point) == pc' = [pc EXCEPT ![t] = point]

Start(t) ==
  /\ pc[t] = "new"
  /\ TakeTicket(t)
  /\ Goto(t, "java")
  /\ UNCHANGED <<monitorVars, shuttingDown, object, saved, outcome, timed, resume, held>>

AdmitThread(t) ==
  /\ Admit(t, resume[t])
  /\ resume' = [resume EXCEPT ![t] = 1]
  /\ UNCHANGED <<monitorVars, shuttingDown, callVars, held>>

\* A safe point of the interpreter, every 1024 ticks.
Yield(t) ==
  /\ Running(t)
  /\ YieldToWaiter(t)
  /\ resume' = [resume EXCEPT ![t] = depth]
  /\ UNCHANGED <<monitorVars, shuttingDown, callVars, held>>

CallNested(t) ==
  /\ Running(t)
  /\ depth < MaxDepth
  /\ Nest(t)
  /\ UNCHANGED <<monitorVars, shuttingDown, callVars, resume, held>>

ReturnNested(t) ==
  /\ Running(t)
  /\ depth > 1
  /\ Release(t)
  /\ UNCHANGED <<monitorVars, shuttingDown, callVars, resume, held>>

-----------------------------------------------------------------------------
(* Enter, Exit and AcquireLocked.                                          *)

Free(o) == recursion[o] = 0
Owns(t, o) == recursion[o] # 0 /\ owner[o] = t

\* Mutant: shutdown does not let AcquireLocked through.
AvailableWhenFree(t, o) == Free(o) \/ Owns(t, o)

\* AcquireLocked takes a monitor that is not free when the VM shuts down.
Available(t, o) == Free(o) \/ Owns(t, o) \/ shuttingDown

Take(t, o, n) ==
  /\ owner' = [owner EXCEPT ![o] = t]
  /\ recursion' = [recursion EXCEPT ![o] = n]

Enter(t, o) ==
  /\ Running(t)
  /\ Available(t, o)
  /\ held[t][o] < MaxRecursion
  /\ Take(t, o, IF Owns(t, o) THEN recursion[o] + 1 ELSE 1)
  /\ held' = [held EXCEPT ![t][o] = @ + 1]
  /\ UNCHANGED <<lockVars, waitSet, woken, interrupted, shuttingDown, callVars, resume>>

EnterBlocked(t, o) ==
  /\ Running(t)
  /\ ~Available(t, o)
  /\ Park(t)
  /\ Goto(t, "entering")
  /\ object' = [object EXCEPT ![t] = o]
  /\ saved' = [saved EXCEPT ![t] = 1]
  /\ UNCHANGED <<monitorVars, shuttingDown, outcome, timed, held>>

\* The predicate of the park holds; the thread will now ask for the lock.
EntrantWakes(t) ==
  /\ pc[t] = "entering"
  /\ Available(t, object[t])
  /\ Goto(t, "enter_woken")
  /\ UNCHANGED <<lockVars, monitorVars, shuttingDown, object, saved, outcome, timed,
                 resume, held>>

QueueForLock(t) ==
  /\ pc[t] \in {"enter_woken", "wait_woken"}
  /\ TakeTicket(t)
  /\ Goto(t, "retrying")
  /\ UNCHANGED <<monitorVars, shuttingDown, object, saved, outcome, timed, resume, held>>

Exit(t, o) ==
  /\ Running(t)
  /\ Owns(t, o)
  /\ recursion' = [recursion EXCEPT ![o] = @ - 1]
  /\ owner' = [owner EXCEPT ![o] = IF recursion[o] = 1 THEN NoThread ELSE @]
  /\ held' = [held EXCEPT ![t][o] = IF @ = 0 THEN 0 ELSE @ - 1]
  /\ UNCHANGED <<lockVars, waitSet, woken, interrupted, shuttingDown, callVars, resume>>

\* The lock is back, the monitor is not: park again.
RetryBlocked(t) ==
  /\ pc[t] = "retrying" /\ Holds(t)
  /\ ~Available(t, object[t])
  /\ Park(t)
  /\ Goto(t, "entering")
  /\ UNCHANGED <<monitorVars, shuttingDown, object, saved, outcome, timed, held>>

\* Enter returns, or Wait does: only now does a waiter leave the wait set, and
\* only now is its interrupt flag cleared.
Retry(t) ==
  LET o == object[t] IN
  /\ pc[t] = "retrying" /\ Holds(t)
  /\ Available(t, o)
  /\ Take(t, o, saved[t])
  /\ \/ /\ outcome[t] = "none"
        /\ held' = [held EXCEPT ![t][o] = 1]
        /\ UNCHANGED <<waitSet, interrupted>>
     \/ /\ outcome[t] # "none"
        /\ waitSet' = [waitSet EXCEPT ![o] = RemoveFirst(@, t)]
        /\ interrupted' = IF outcome[t] = "interrupted"
                            THEN interrupted \ {t} ELSE interrupted
        /\ UNCHANGED held
  /\ outcome' = [outcome EXCEPT ![t] = "none"]
  /\ saved' = [saved EXCEPT ![t] = 0]
  /\ timed' = [timed EXCEPT ![t] = FALSE]
  /\ Goto(t, "java")
  /\ UNCHANGED <<lockVars, woken, shuttingDown, object, resume>>

-----------------------------------------------------------------------------
(* Wait.                                                                   *)

\* Interrupted or shut down before it parks: Wait returns with the monitor.
WaitRefused(t, o) ==
  /\ Running(t)
  /\ Owns(t, o)
  /\ t \in interrupted \/ shuttingDown
  /\ interrupted' = interrupted \ {t}
  /\ UNCHANGED <<lockVars, owner, recursion, waitSet, woken, shuttingDown, callVars,
                 resume, held>>

\* Mutant: Wait does not keep the recursion it gives up.
WaitOnce(t, o, deadline) ==
  /\ Running(t)
  /\ Owns(t, o)
  /\ t \notin interrupted /\ ~shuttingDown
  /\ saved' = [saved EXCEPT ![t] = 1]
  /\ object' = [object EXCEPT ![t] = o]
  /\ timed' = [timed EXCEPT ![t] = deadline]
  /\ outcome' = [outcome EXCEPT ![t] = "undecided"]
  /\ Goto(t, "wait_joining")
  /\ UNCHANGED <<lockVars, monitorVars, shuttingDown, resume, held>>

Wait(t, o, deadline) ==
  /\ Running(t)
  /\ Owns(t, o)
  /\ t \notin interrupted /\ ~shuttingDown
  /\ saved' = [saved EXCEPT ![t] = recursion[o]]
  /\ object' = [object EXCEPT ![t] = o]
  /\ timed' = [timed EXCEPT ![t] = deadline]
  /\ outcome' = [outcome EXCEPT ![t] = "undecided"]
  /\ Goto(t, "wait_joining")
  /\ UNCHANGED <<lockVars, monitorVars, shuttingDown, resume, held>>

\* The second critical section: into the wait set, then out of the monitor.
JoinWaitSet(t) ==
  LET o == object[t] IN
  /\ pc[t] = "wait_joining"
  /\ waitSet' = [waitSet EXCEPT ![o] = Append(@, t)]
  /\ recursion' = [recursion EXCEPT ![o] = 0]
  /\ owner' = [owner EXCEPT ![o] = NoThread]
  /\ woken' = woken \ {t}
  /\ Park(t)
  /\ Goto(t, "waiting")
  /\ UNCHANGED <<interrupted, shuttingDown, object, saved, outcome, timed, held>>

\* The park ends for the first reason that holds, in this order.
Decide(t, result) ==
  /\ pc[t] = "waiting"
  /\ outcome' = [outcome EXCEPT ![t] = result]
  /\ Goto(t, "wait_woken")
  /\ UNCHANGED <<lockVars, owner, recursion, waitSet, interrupted, shuttingDown, object,
                 saved, timed, resume, held>>

EndByShutdown(t) == shuttingDown /\ Decide(t, "shut_down") /\ UNCHANGED woken

EndByInterrupt(t) ==
  /\ ~shuttingDown /\ t \in interrupted
  /\ Decide(t, "interrupted") /\ UNCHANGED woken

EndByNotify(t) ==
  /\ ~shuttingDown /\ t \notin interrupted
  /\ t \in woken
  /\ woken' = woken \ {t}
  /\ Decide(t, "notified")

\* The session clock may pass the deadline at any moment.
EndByDeadline(t) ==
  /\ ~shuttingDown /\ t \notin interrupted /\ t \notin woken
  /\ timed[t]
  /\ Decide(t, "timed_out") /\ UNCHANGED woken

-----------------------------------------------------------------------------
(* Notify, NotifyAll, interruption and the end of a thread.                *)

\* Mutant: the notifier marks itself instead of the waiter it took out.
NotifySelf(t, o) ==
  /\ Running(t)
  /\ Owns(t, o)
  /\ waitSet[o] # <<>>
  /\ waitSet' = [waitSet EXCEPT ![o] = Tail(@)]
  /\ woken' = woken \cup {t}
  /\ UNCHANGED <<lockVars, owner, recursion, interrupted, shuttingDown, callVars,
                 resume, held>>

Notify(t, o) ==
  /\ Running(t)
  /\ Owns(t, o)
  /\ waitSet[o] # <<>>
  /\ waitSet' = [waitSet EXCEPT ![o] = Tail(@)]
  /\ woken' = woken \cup {Head(waitSet[o])}
  /\ UNCHANGED <<lockVars, owner, recursion, interrupted, shuttingDown, callVars,
                 resume, held>>

WakeAll(o) ==
  /\ waitSet' = [waitSet EXCEPT ![o] = <<>>]
  /\ woken' = woken \cup ToSet(waitSet[o])
  /\ UNCHANGED <<lockVars, owner, recursion, interrupted, shuttingDown, callVars,
                 resume, held>>

NotifyAll(t, o) == Running(t) /\ Owns(t, o) /\ WakeAll(o)

\* The collector wakes the queue it has filled, without owning its monitor.
NotifyForGc(t, o) == Running(t) /\ WakeAll(o)

Interrupt(t, target) ==
  /\ Running(t)
  /\ pc[target] # "dead"
  /\ interrupted' = interrupted \cup {target}
  /\ UNCHANGED <<lockVars, owner, recursion, waitSet, woken, shuttingDown, callVars,
                 resume, held>>

ClearInterrupt(t) ==
  /\ Running(t)
  /\ interrupted' = interrupted \ {t}
  /\ UNCHANGED <<lockVars, owner, recursion, waitSet, woken, shuttingDown, callVars,
                 resume, held>>

\* run() returns or throws; the lock goes before the monitors do.
Finish(t) ==
  /\ Running(t)
  /\ ReleaseForBlocking(t)
  /\ Goto(t, "dying")
  /\ UNCHANGED <<monitorVars, shuttingDown, object, saved, outcome, timed, resume, held>>

ReleaseAll(t) ==
  /\ pc[t] = "dying"
  /\ owner' = [o \in Objects |-> IF Owns(t, o) THEN NoThread ELSE owner[o]]
  /\ recursion' = [o \in Objects |-> IF Owns(t, o) THEN 0 ELSE recursion[o]]
  /\ waitSet' = [o \in Objects |-> RemoveFirst(waitSet[o], t)]
  /\ woken' = woken \ {t}
  /\ interrupted' = interrupted \ {t}
  /\ held' = [held EXCEPT ![t] = [o \in Objects |-> 0]]
  /\ Goto(t, "dead")
  /\ UNCHANGED <<lockVars, shuttingDown, object, saved, outcome, timed, resume>>

Shutdown ==
  /\ ~shuttingDown
  /\ shuttingDown' = TRUE
  /\ UNCHANGED <<lockVars, monitorVars, callVars, resume, held>>

-----------------------------------------------------------------------------
BytecodeStep(t) ==
  \/ CallNested(t) \/ ReturnNested(t) \/ ClearInterrupt(t) \/ Finish(t)
  \/ \E o \in Objects :
       \/ Enter(t, o) \/ EnterBlocked(t, o) \/ Exit(t, o)
       \/ WaitRefused(t, o) \/ \E deadline \in BOOLEAN : Wait(t, o, deadline)
       \/ Notify(t, o) \/ NotifyAll(t, o) \/ NotifyForGc(t, o)
  \/ \E target \in Threads : Interrupt(t, target)

\* What a host thread does once it is inside an operation.
EndPark(t) == EndByShutdown(t) \/ EndByInterrupt(t) \/ EndByNotify(t)

HostStep(t) ==
  \/ Start(t) \/ AdmitThread(t) \/ Yield(t)
  \/ EntrantWakes(t) \/ QueueForLock(t) \/ RetryBlocked(t) \/ Retry(t)
  \/ JoinWaitSet(t) \/ EndPark(t) \/ ReleaseAll(t)

Next ==
  \/ \E t \in Threads : BytecodeStep(t) \/ HostStep(t) \/ EndByDeadline(t)
  \/ Shutdown

\* Host threads run, and the interpreter reaches its safe points.  Nothing
\* makes bytecode leave a monitor, the clock advance or the VM shut down.
Fairness == \A t \in Threads : WF_vars(HostStep(t))

SafetySpec == Init /\ [][Next]_vars
Spec == SafetySpec /\ Fairness

-----------------------------------------------------------------------------
\* The threads whose Wait on `o` has given up the monitor and not yet got it
\* back.
Waiters(o) ==
  {t \in Threads : object[t] = o /\ outcome[t] # "none" /\ pc[t] # "wait_joining"}

\* Monitors are exclusive, and nobody's recursion changes behind its back: a
\* monitor is owned as often as its owner has entered and not left it, through
\* contended entries, waits, notifies, interrupts and other threads' deaths.
\* Shutdown gives monitors away (AcquireLocked), so it ends there.
MonitorMatchesEnters ==
  ~shuttingDown =>
    \A o \in Objects, t \in Threads :
      IF Owns(t, o) THEN held[t][o] = recursion[o] /\ t \notin Waiters(o)
                    ELSE held[t][o] = 0 \/ t \in Waiters(o)

\* A parked waiter is within reach: the next notify on its object can choose
\* it, or it has been chosen and will see that (Wait clears the old choice
\* after it joins the wait set).
ParkedWaiterIsReachable ==
  \A t \in Threads :
    pc[t] = "waiting" => Contains(waitSet[object[t]], t) \/ t \in woken

\* Whoever waits for the execution lock gets it: tickets are served in order,
\* every park gives the lock up and so does a safe point.
LockIsGranted == \A t \in Threads : Queued(t) ~> Holds(t)

\* Shutdown lets every parked thread go on, whoever owns the monitor it enters
\* or waits on (Shutdown, AcquireLocked).
ShutdownReleasesParked ==
  \A t \in Threads : (shuttingDown /\ pc[t] \in Parked) ~> pc[t] = "java"

=============================================================================
