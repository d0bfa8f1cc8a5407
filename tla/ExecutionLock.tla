--------------------------- MODULE ExecutionLock ---------------------------
(***************************************************************************)
(* VmExecutionLock (src/src/runtime/dexvm/interpreter_context.cpp): the    *)
(* one lock that serialises bytecode.  It is recursive, admits threads in  *)
(* the order of their tickets, can be given up whole while its owner       *)
(* blocks, and is handed on at a safe point when somebody waits.           *)
(*                                                                         *)
(* Every operation is one critical section of the lock's mutex.  VmMonitors*)
(* uses it; what a blocked owner must remember, its depth, is an argument. *)
(***************************************************************************)
EXTENDS Naturals, SequencesExt

CONSTANT NoThread

VARIABLES holder,   (* owner                                               *)
          depth,    (* depth                                               *)
          queue     (* waiters: the threads behind the tickets, in order   *)

lockVars == <<holder, depth, queue>>

LockTypeOK(Threads, MaxDepth) ==
  /\ holder \in Threads \cup {NoThread}
  /\ depth \in 0 .. MaxDepth
  /\ queue \in Seq(Threads)
  /\ depth = 0 <=> holder = NoThread

LockInit ==
  /\ holder = NoThread
  /\ depth = 0
  /\ queue = <<>>

Holds(t) == holder = t
Queued(t) == Contains(queue, t)

\* Acquire of a thread that does not own the lock: the ticket, then the lock
\* when it is free and the ticket is the first.
TakeTicket(t) ==
  /\ ~Holds(t) /\ ~Queued(t)
  /\ queue' = Append(queue, t)
  /\ UNCHANGED <<holder, depth>>

\* Mutant: whoever sees the lock free takes it.
AdmitAnyone(t, held) ==
  /\ depth = 0
  /\ Queued(t)
  /\ queue' = RemoveFirst(queue, t)
  /\ holder' = t
  /\ depth' = held

Admit(t, held) ==
  /\ depth = 0
  /\ queue # <<>> /\ Head(queue) = t
  /\ queue' = Tail(queue)
  /\ holder' = t
  /\ depth' = held

Nest(t) == Holds(t) /\ depth' = depth + 1 /\ UNCHANGED <<holder, queue>>

\* Release, which frees the lock only at the outermost level.
Release(t) ==
  /\ Holds(t)
  /\ depth' = depth - 1
  /\ holder' = IF depth = 1 THEN NoThread ELSE holder
  /\ UNCHANGED queue

ReleaseForBlocking(t) ==
  /\ Holds(t)
  /\ depth' = 0
  /\ holder' = NoThread
  /\ UNCHANGED queue

\* The owner goes to the end of the queue, and only if there is one.
YieldToWaiter(t) ==
  /\ Holds(t)
  /\ queue # <<>>
  /\ queue' = Append(queue, t)
  /\ depth' = 0
  /\ holder' = NoThread
=============================================================================
