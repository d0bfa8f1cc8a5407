---------------------------- MODULE GuestSignals ----------------------------
(***************************************************************************)
(* GuestSignalRuntime: the ARM signals of one guest process.  The          *)
(* dispositions belong to the process; masks, pending signals, handler     *)
(* frames, the mask a sigsuspend replaced and the futex wait a handler may *)
(* restart belong to a thread.  One mutex guards them all, so a step is    *)
(* one critical section.                                                   *)
(*                                                                         *)
(* A thread runs guest code in slices.  Between two slices its host thread *)
(* is at a boundary, where Deliver may enter a handler; a syscall is made  *)
(* inside a slice and ends at the boundary.  Registers, stacks and the     *)
(* layout of a frame are left out; of the saved context only the mask is   *)
(* kept.  A nanosleep changes nothing here and is left out.                *)
(***************************************************************************)
EXTENDS Naturals, FiniteSets, Sequences, FiniteSetsExt

CONSTANTS Threads,    (* guest threads; Root is there from the start       *)
          Root,
          Signals,    (* standard signals, by their Linux numbers          *)
          Handlers,   (* the ways sigaction may install a handler          *)
          MaxFrames,  (* handlers a thread may nest (32 in the code)       *)
          MaxCalls    (* bound: syscalls the program makes                 *)

SIGKILL == 9
IgnoredByDefault == {17, 23, 28}
Unblockable == {9, 19}

ASSUME GuestSignalsAssumption ==
  /\ Root \in Threads
  /\ Signals \subseteq (1 .. 17) \cup (23 .. 31)
  /\ \A h \in Handlers : h.mask \subseteq Signals
  /\ MaxFrames \in Nat \ {0}
  /\ MaxCalls \in Nat

Masks == SUBSET (Signals \ Unblockable)
None == {0}     (* no mask: no signal has the number 0 *)
Default == [kind |-> "default"]
Ignore == [kind |-> "ignore"]
Actions == {Default, Ignore} \cup Handlers

VARIABLES
  status,     (* GuestThreadRuntimeState::status                           *)
  actions,    (* actions: the disposition of each signal                   *)
  masks,      (* masks                                                     *)
  pending,    (* pending                                                   *)
  frames,     (* frames: of each saved context, its mask                   *)
  suspended,  (* suspend_masks: the mask before sigsuspend, or None        *)
  restart,    (* restart holds a futex wait of the thread                  *)
  old,        (* Suspend's local: the mask it replaced                     *)
  call,       (* the signal a thread is sending                            *)
  nudged,     (* a futex wait will look at its predicate again             *)
  timed,      (* the futex wait has a timeout                              *)
  pc,         (* where the host thread is                                  *)
  calls,      (* syscalls made so far                                      *)
  wanted,     (* auxiliary: the mask the guest program asked for           *)
  deserted,   (* auxiliary: an ignored signal ended a sigsuspend, and the  *)
              (* guest's mask is not yet back everywhere                   *)
  kept        (* auxiliary: an ignored signal left restart as it was       *)

delivery == <<frames, suspended, restart>>
waits == <<old, call, nudged, timed>>
aux == <<wanted, deserted, kept>>
vars == <<status, actions, masks, pending, delivery, waits, pc, calls, aux>>

NoCall == [target |-> Root, signal |-> 0]
Points == {"none", "born", "slice", "boundary", "suspending", "waiting",
           "interrupted", "sending", "notifying", "cloning", "retiring", "gone"}

\* Every variable has its type; no mask holds a signal that cannot be blocked.
TypeOK ==
  /\ status \in [Threads -> {"none", "running", "exit_requested", "exited"}]
  /\ actions \in [Signals -> Actions]
  /\ masks \in [Threads -> Masks]
  /\ pending \in [Threads -> SUBSET Signals]
  /\ frames \in [Threads -> Seq([mask : Masks, wanted : Masks])]
  /\ suspended \in [Threads -> Masks \cup {None}]
  /\ restart \in [Threads -> BOOLEAN]
  /\ old \in [Threads -> Masks]
  /\ call \in [Threads -> [target : Threads, signal : Signals \cup {0}]]
  /\ nudged \in [Threads -> BOOLEAN]
  /\ timed \in [Threads -> BOOLEAN]
  /\ pc \in [Threads -> Points]
  /\ calls \in 0 .. MaxCalls
  /\ wanted \in [Threads -> Masks]
  /\ deserted \in [Threads -> BOOLEAN]
  /\ kept \in [Threads -> BOOLEAN]

Init ==
  /\ status = [t \in Threads |-> IF t = Root THEN "running" ELSE "none"]
  /\ actions = [s \in Signals |-> Default]
  /\ masks = [t \in Threads |-> {}]
  /\ pending = [t \in Threads |-> {}]
  /\ frames = [t \in Threads |-> <<>>]
  /\ suspended = [t \in Threads |-> None]
  /\ restart = [t \in Threads |-> FALSE]
  /\ old = [t \in Threads |-> {}]
  /\ call = [t \in Threads |-> NoCall]
  /\ nudged = [t \in Threads |-> FALSE]
  /\ timed = [t \in Threads |-> FALSE]
  /\ pc = [t \in Threads |-> IF t = Root THEN "boundary" ELSE "none"]
  /\ calls = 0
  /\ wanted = [t \in Threads |-> {}]
  /\ deserted = [t \in Threads |-> FALSE]
  /\ kept = [t \in Threads |-> FALSE]

Running(t) == status[t] = "running"
Ready(t) == pending[t] \ masks[t] # {}
Next_(t, point) == pc' = [pc EXCEPT ![t] = point]

\* The predicate of a futex wait: a deliverable signal, or an exit request.
Pending(t) == ~Running(t) \/ Ready(t)

Ignored(s) == actions[s] = Ignore \/ (actions[s] = Default /\ s \in IgnoredByDefault)

\* Every thread that has not exited is told to.
GroupExit ==
  [t \in Threads |->
     IF status[t] \in {"running", "exit_requested"} THEN "exit_requested" ELSE status[t]]

-----------------------------------------------------------------------------
(* A slice of guest code, and the syscalls made in it.                     *)

\* The slice uses up its ticks.
SliceEnds(t) ==
  /\ pc[t] = "slice"
  /\ Next_(t, "boundary")
  /\ UNCHANGED <<status, actions, masks, pending, delivery, waits, aux>>

UpdatedMask(how, previous, requested) ==
  (CASE how = "block" -> previous \cup requested
     [] how = "unblock" -> previous \ requested
     [] how = "set" -> requested) \ Unblockable

\* sigprocmask and rt_sigprocmask.
ProcMask(t) ==
  /\ pc[t] = "slice"
  /\ \E how \in {"block", "unblock", "set"}, requested \in SUBSET Signals :
       /\ masks' = [masks EXCEPT ![t] = UpdatedMask(how, @, requested)]
       /\ wanted' = [wanted EXCEPT ![t] = UpdatedMask(how, @, requested)]
  /\ Next_(t, "boundary")
  /\ UNCHANGED <<status, actions, pending, delivery, waits, deserted, kept>>

\* sigaction: a signal that is now ignored is pending for nobody.
Action(t) ==
  /\ pc[t] = "slice"
  /\ \E s \in Signals \ Unblockable, a \in Actions :
       /\ actions' = [actions EXCEPT ![s] = a]
       /\ pending' = IF a = Ignore THEN [u \in Threads |-> pending[u] \ {s}] ELSE pending
  /\ Next_(t, "boundary")
  /\ UNCHANGED <<status, masks, delivery, waits, aux>>

\* tkill and tgkill first ask whether the target runs, ...
BeginSend(t) ==
  /\ pc[t] = "slice"
  /\ \E u \in Threads, s \in Signals :
       /\ Running(u)
       /\ call' = [call EXCEPT ![t] = [target |-> u, signal |-> s]]
  /\ Next_(t, "sending")
  /\ UNCHANGED <<status, actions, masks, pending, delivery, old, nudged, timed, aux>>

\* ... then, in the critical section, the signal is dropped, kills the process,
\* or becomes pending.
Send(t) ==
  LET u == call[t].target
      s == call[t].signal
      fatal == actions[s] = Default /\ ~Ignored(s) /\ (s = SIGKILL \/ s \notin masks[u])
  IN /\ pc[t] = "sending"
     /\ status' = IF fatal THEN GroupExit ELSE status
     /\ pending' = IF Ignored(s) \/ fatal THEN pending
                   ELSE [pending EXCEPT ![u] = @ \cup {s}]
     /\ call' = [call EXCEPT ![t] = NoCall]
     /\ Next_(t, "notifying")
     /\ UNCHANGED <<actions, masks, delivery, old, nudged, timed, aux>>

WakeWaits == nudged' = [t \in Threads |-> pc[t] = "waiting"]

\* Mutant: the sender notifies only the signal's own condition variable.
NotifyNobody(t) ==
  /\ pc[t] = "notifying"
  /\ Next_(t, "boundary")
  /\ UNCHANGED <<status, actions, masks, pending, delivery, waits, aux>>

\* After releasing the signal mutex the sender makes every futex wait look again.
NotifyWaiters(t) ==
  /\ pc[t] = "notifying"
  /\ WakeWaits
  /\ Next_(t, "boundary")
  /\ UNCHANGED <<status, actions, masks, pending, delivery, old, call, timed, aux>>

\* sigsuspend and rt_sigsuspend replace the mask ...
BeginSuspend(t) ==
  /\ pc[t] = "slice"
  /\ \E requested \in SUBSET Signals :
       masks' = [masks EXCEPT ![t] = requested \ Unblockable]
  /\ old' = [old EXCEPT ![t] = masks[t]]
  /\ Next_(t, "suspending")
  /\ UNCHANGED <<status, actions, pending, delivery, call, nudged, timed, aux>>

\* ... and leave once a signal can be delivered, which the boundary does; ...
EndSuspend(t) ==
  /\ pc[t] = "suspending"
  /\ Ready(t)
  /\ suspended' = [suspended EXCEPT ![t] = old[t]]
  /\ old' = [old EXCEPT ![t] = {}]
  /\ Next_(t, "boundary")
  /\ UNCHANGED <<status, actions, masks, pending, frames, restart, call, nudged, timed, aux>>

\* Mutant: the wait looks at the exit request only after a signal.
CancelWhenReady(t) ==
  /\ pc[t] = "suspending"
  /\ Ready(t)
  /\ ~Running(t)
  /\ masks' = [masks EXCEPT ![t] = old[t]]
  /\ old' = [old EXCEPT ![t] = {}]
  /\ Next_(t, "boundary")
  /\ UNCHANGED <<status, actions, pending, delivery, call, nudged, timed, aux>>

\* ... or when the thread shall exit, which the wait polls for.
CancelSuspend(t) ==
  /\ pc[t] = "suspending"
  /\ ~Ready(t)
  /\ ~Running(t)
  /\ masks' = [masks EXCEPT ![t] = old[t]]
  /\ old' = [old EXCEPT ![t] = {}]
  /\ Next_(t, "boundary")
  /\ UNCHANGED <<status, actions, pending, delivery, call, nudged, timed, aux>>

\* futex WAIT parks the thread; an interruption that is there already counts.
BeginWait(t) ==
  /\ pc[t] = "slice"
  /\ \E limit \in BOOLEAN : timed' = [timed EXCEPT ![t] = limit]
  /\ nudged' = [nudged EXCEPT ![t] = FALSE]
  /\ Next_(t, IF Pending(t) THEN "interrupted" ELSE "waiting")
  /\ UNCHANGED <<status, actions, masks, pending, delivery, old, call, aux>>

\* A notified wait looks at its predicate.
Recheck(t) ==
  /\ pc[t] = "waiting"
  /\ nudged[t]
  /\ nudged' = [nudged EXCEPT ![t] = FALSE]
  /\ Next_(t, IF Pending(t) THEN "interrupted" ELSE "waiting")
  /\ UNCHANGED <<status, actions, masks, pending, delivery, old, call, timed, aux>>

\* A WAKE, or the timeout, ends the wait.
EndWait(t) ==
  /\ pc[t] = "waiting"
  /\ nudged' = [nudged EXCEPT ![t] = FALSE]
  /\ timed' = [timed EXCEPT ![t] = FALSE]
  /\ Next_(t, "boundary")
  /\ UNCHANGED <<status, actions, masks, pending, delivery, old, call, aux>>

\* EINTR: an untimed wait is remembered for a handler that restarts it.
InterruptedWait(t) ==
  /\ pc[t] = "interrupted"
  /\ restart' = [restart EXCEPT ![t] = @ \/ (Ready(t) /\ ~timed[t])]
  /\ timed' = [timed EXCEPT ![t] = FALSE]
  /\ Next_(t, "boundary")
  /\ UNCHANGED <<status, actions, masks, pending, frames, suspended, old, call, nudged, aux>>

\* sigreturn: the mask comes from the guest's context.
Return(t) ==
  /\ pc[t] = "slice"
  /\ frames[t] # <<>>
  /\ masks' = [masks EXCEPT ![t] = Head(frames[t]).mask \ Unblockable]
  /\ wanted' = [wanted EXCEPT ![t] = Head(frames[t]).wanted]
  /\ frames' = [frames EXCEPT ![t] = Tail(@)]
  /\ Next_(t, "boundary")
  /\ UNCHANGED <<status, actions, pending, suspended, restart, waits, deserted, kept>>

-----------------------------------------------------------------------------
(* Deliver, before each slice.                                             *)

Resume(t) == Next_(t, IF Running(t) THEN "slice" ELSE "retiring")

\* What DeliverNothing, or the frame of a handler, takes for the mask of the
\* guest program.
Effective(t) == IF suspended[t] = None THEN masks[t] ELSE suspended[t]

\* Every frame would bring back the mask the guest program had.
Honest(f) == \A i \in DOMAIN f : f[i].mask = f[i].wanted

\* The auxiliary variables, when a delivery uses what sigsuspend and the futex
\* wait left behind: no wait is kept, and a deserted thread is in order again
\* once all its masks are those of the guest program.
Settle(t) ==
  /\ deserted' = [deserted EXCEPT ![t] =
                    @ /\ ~(Effective(t) = wanted[t] /\ Honest(frames[t]))]
  /\ kept' = [kept EXCEPT ![t] = FALSE]

\* Mutant: the remembered wait is kept for the next signal.
KeepRestart(t) ==
  /\ pc[t] = "boundary"
  /\ ~Ready(t)
  /\ masks' = [masks EXCEPT ![t] = IF suspended[t] = None THEN @ ELSE suspended[t]]
  /\ suspended' = [suspended EXCEPT ![t] = None]
  /\ Resume(t)
  /\ UNCHANGED <<status, actions, pending, frames, restart, waits, aux>>

\* Nothing to deliver: a replaced mask comes back, a remembered wait is dropped.
DeliverNothing(t) ==
  /\ pc[t] = "boundary"
  /\ ~Ready(t)
  /\ restart' = [restart EXCEPT ![t] = FALSE]
  /\ masks' = [masks EXCEPT ![t] = IF suspended[t] = None THEN @ ELSE suspended[t]]
  /\ suspended' = [suspended EXCEPT ![t] = None]
  /\ Settle(t)
  /\ Resume(t)
  /\ UNCHANGED <<status, actions, pending, frames, waits, wanted>>

\* A thread that shall exit takes no signal.
DeliverToLeaver(t) ==
  /\ pc[t] = "boundary"
  /\ Ready(t)
  /\ ~Running(t)
  /\ Resume(t)
  /\ UNCHANGED <<status, actions, masks, pending, delivery, waits, aux>>

\* The lowest deliverable signal, its disposition now being a.
Delivering(t, s) ==
  /\ pc[t] = "boundary"
  /\ Running(t)
  /\ Ready(t)
  /\ s = Min(pending[t] \ masks[t])

Take(t, s) == pending' = [pending EXCEPT ![t] = @ \ {s}]

\* The disposition went back to the default after the signal was sent, and the
\* default is to ignore it.
DeliverIgnored(t, s) ==
  /\ Delivering(t, s)
  /\ Ignored(s)
  /\ Take(t, s)
  /\ deserted' = [deserted EXCEPT ![t] = @ \/ suspended[t] # None]
  /\ kept' = [kept EXCEPT ![t] = restart[t]]
  /\ Resume(t)
  /\ UNCHANGED <<status, actions, masks, delivery, waits, wanted>>

\* The default is to end the process.
DeliverFatal(t, s) ==
  /\ Delivering(t, s)
  /\ actions[s] = Default
  /\ s \notin IgnoredByDefault
  /\ Take(t, s)
  /\ status' = GroupExit
  /\ Next_(t, "retiring")
  /\ UNCHANGED <<actions, masks, delivery, waits, aux>>

\* Mutant: the frame saves the mask sigsuspend put in place.
SaveCurrentMask(t, s) ==
  LET a == actions[s]
      inside == (masks[t] \cup a.mask \cup (IF a.nodefer THEN {} ELSE {s})) \ Unblockable
  IN /\ Delivering(t, s)
     /\ a \in Handlers
     /\ Len(frames[t]) < MaxFrames
     /\ frames' = [frames EXCEPT ![t] = <<[mask |-> masks[t], wanted |-> wanted[t]]>> \o @]
     /\ Take(t, s)
     /\ masks' = [masks EXCEPT ![t] = inside]
     /\ wanted' = [wanted EXCEPT ![t] = inside]
     /\ suspended' = [suspended EXCEPT ![t] = None]
     /\ restart' = [restart EXCEPT ![t] = FALSE]
     /\ actions' = IF a.once THEN [actions EXCEPT ![s] = Default] ELSE actions
     /\ Settle(t)
     /\ Next_(t, "slice")
     /\ UNCHANGED <<status, waits>>

\* The frame saves the mask from before a sigsuspend if there was one.
EnterHandler(t, s) ==
  LET a == actions[s]
      saved == IF suspended[t] = None THEN masks[t] ELSE suspended[t]
      inside == (masks[t] \cup a.mask \cup (IF a.nodefer THEN {} ELSE {s})) \ Unblockable
  IN /\ Delivering(t, s)
     /\ a \in Handlers
     /\ Len(frames[t]) < MaxFrames
     /\ frames' = [frames EXCEPT ![t] = <<[mask |-> saved, wanted |-> wanted[t]]>> \o @]
     /\ Take(t, s)
     /\ masks' = [masks EXCEPT ![t] = inside]
     /\ wanted' = [wanted EXCEPT ![t] = inside]
     /\ suspended' = [suspended EXCEPT ![t] = None]
     /\ restart' = [restart EXCEPT ![t] = FALSE]
     /\ actions' = IF a.once THEN [actions EXCEPT ![s] = Default] ELSE actions
     /\ Settle(t)
     /\ Next_(t, "slice")
     /\ UNCHANGED <<status, waits>>

\* One handler too many: the exception ends the thread and, with it, the group.
NestTooDeep(t, s) ==
  /\ Delivering(t, s)
  /\ actions[s] \in Handlers
  /\ Len(frames[t]) = MaxFrames
  /\ status' = GroupExit
  /\ WakeWaits
  /\ Next_(t, "retiring")
  /\ UNCHANGED <<actions, masks, pending, delivery, old, call, timed, aux>>

-----------------------------------------------------------------------------
(* Threads come and go.                                                    *)

\* The clone syscall registers the child as running, ...
Clone(t, c) ==
  /\ pc[t] = "slice"
  /\ Running(t)
  /\ status[c] = "none"
  /\ status' = [status EXCEPT ![c] = "running"]
  /\ pc' = [pc EXCEPT ![t] = "cloning", ![c] = "born"]
  /\ UNCHANGED <<actions, masks, pending, delivery, waits, aux>>

\* ... hands the mask down and starts its host thread.
Inherit(t, c) ==
  /\ pc[t] = "cloning"
  /\ pc[c] = "born"
  /\ masks' = [masks EXCEPT ![c] = masks[t]]
  /\ wanted' = [wanted EXCEPT ![c] = wanted[t]]
  /\ deserted' = [deserted EXCEPT ![c] = deserted[t]]
  /\ UNCHANGED kept
  /\ pc' = [pc EXCEPT ![t] = "boundary", ![c] = "boundary"]
  /\ UNCHANGED <<status, actions, pending, delivery, waits>>

\* exit, of this thread or of all.
Exit(t) ==
  /\ pc[t] = "slice"
  /\ status' \in {[status EXCEPT ![t] = "exit_requested"], GroupExit}
  /\ Next_(t, "boundary")
  /\ UNCHANGED <<actions, masks, pending, delivery, waits, aux>>

\* The runner sees the exit request, completes the exit and retires the thread.
Retire(t) ==
  /\ pc[t] = "retiring"
  /\ status' = [status EXCEPT ![t] = "exited"]
  /\ masks' = [masks EXCEPT ![t] = {}]
  /\ pending' = [pending EXCEPT ![t] = {}]
  /\ frames' = [frames EXCEPT ![t] = <<>>]
  /\ suspended' = [suspended EXCEPT ![t] = None]
  /\ restart' = [restart EXCEPT ![t] = FALSE]
  /\ wanted' = [wanted EXCEPT ![t] = {}]
  /\ deserted' = [deserted EXCEPT ![t] = FALSE]
  /\ kept' = [kept EXCEPT ![t] = FALSE]
  /\ Next_(t, "gone")
  /\ UNCHANGED <<actions, waits>>

Deliver(t) ==
  \/ DeliverNothing(t)
  \/ DeliverToLeaver(t)
  \/ \E s \in Signals :
       \/ DeliverIgnored(t, s)
       \/ DeliverFatal(t, s)
       \/ EnterHandler(t, s)
       \/ NestTooDeep(t, s)

\* What the guest program chooses to do.
Guest(t) ==
  /\ calls < MaxCalls
  /\ calls' = calls + 1
  /\ \/ ProcMask(t)
     \/ Action(t)
     \/ BeginSend(t)
     \/ BeginSuspend(t)
     \/ BeginWait(t)
     \/ Return(t)
     \/ Exit(t)
     \/ \E c \in Threads : Clone(t, c)

\* What the host does for a thread by itself.
Host(t) ==
  \/ SliceEnds(t)
  \/ Send(t)
  \/ NotifyWaiters(t)
  \/ EndSuspend(t)
  \/ CancelSuspend(t)
  \/ Recheck(t)
  \/ InterruptedWait(t)
  \/ Deliver(t)
  \/ \E c \in Threads : Inherit(t, c)
  \/ Retire(t)

Next == \E t \in Threads :
  \/ Guest(t)
  \/ (EndWait(t) \/ Host(t)) /\ UNCHANGED calls

\* Host threads are scheduled; a slice is bounded by kPollTicks.
Fairness == \A t \in Threads : WF_vars(Host(t) /\ UNCHANGED calls)
Spec == Init /\ [][Next]_vars /\ Fairness

-----------------------------------------------------------------------------
(* Properties.                                                             *)

\* Guest code runs under the mask it asked for: a sigsuspend and a handler, in
\* any nesting and whatever ends them, leave no other mask behind.  Excepted is
\* the thread whose sigsuspend was ended by a signal that nobody handled in the
\* end: DeliverIgnored returns without putting the mask back, the guest runs on
\* under the wrong one, and a later delivery puts the old mask back over what the
\* guest has asked for meanwhile.  The exception ends with the delivery at which
\* the mask, and that of every frame, is the guest's again; a child inherits it.
CallersMask ==
  \A t \in Threads : pc[t] = "slice" /\ ~deserted[t] => masks[t] = wanted[t]

\* A handler restarts only the futex wait it interrupted: no wait is remembered
\* while guest code runs, so the registers it would bring back are the current
\* ones.  Excepted is, until the next delivery, the thread for which DeliverIgnored
\* returned without forgetting the wait.
RestartIsFresh ==
  \A t \in Threads : pc[t] = "slice" /\ ~kept[t] => ~restart[t]

\* A signal that a running thread does not block is delivered, also to a thread
\* that sits in a futex wait or a sigsuspend when it is sent.
SignalIsTaken ==
  \A t \in Threads, s \in Signals :
    (Running(t) /\ s \in pending[t] \ masks[t])
      ~> (~Running(t) \/ s \notin pending[t] \ masks[t])

\* A thread that is told to exit is retired, wherever the request finds it; only
\* one parked in a futex may stay there.
ExitEndsThread ==
  \A t \in Threads :
    status[t] = "exit_requested" ~> (pc[t] = "gone" \/ pc[t] = "waiting")
=============================================================================
