------------------------- MODULE GuestSignalsProofs -------------------------
(***************************************************************************)
(* Proofs about GuestSignals for any threads, any standard signals, any    *)
(* handlers and any depth of nesting.                                      *)
(***************************************************************************)
EXTENDS GuestSignals, SequenceTheorems, TLAPS

\* A thread is registered before its host thread is anywhere, and until it runs it
\* has neither frames nor a wait to come back to.
Unborn(t) ==
  /\ status[t] = "none" => pc[t] = "none"
  /\ pc[t] \in {"none", "born"} => /\ frames[t] = <<>>
                                   /\ suspended[t] = None
                                   /\ ~restart[t]

UnbornInv == \A t \in Threads : Unborn(t)

\* Between the two halves of a kill the sender knows which signal it sends.
SenderInv == \A t \in Threads : pc[t] = "sending" => call[t].signal # 0

\* The points between two boundaries at which the mask is the guest's.
UnderOwnMask == {"slice", "waiting", "interrupted", "sending", "notifying", "cloning"}

\* What a handler's context remembers.
Frame == [mask : Masks, wanted : Masks]

\* Wherever a thread is, the mask its guest program asked for is to be found:
\* current, in Suspend's local, or in what the next delivery will put back.
MaskFound(t) ==
  ~deserted[t] =>
    /\ Honest(frames[t])
    /\ pc[t] \in UnderOwnMask =>
         suspended[t] = None /\ masks[t] = wanted[t]
    /\ pc[t] = "suspending" =>
         suspended[t] = None /\ old[t] = wanted[t]
    /\ pc[t] = "boundary" => Effective(t) = wanted[t]

MaskInv == \A t \in Threads : MaskFound(t)

\* Between two boundaries no wait is remembered, unless an ignored signal kept it.
WaitForgotten(t) ==
  pc[t] \in UnderOwnMask \cup {"suspending"} /\ ~kept[t] => ~restart[t]

WaitInv == \A t \in Threads : WaitForgotten(t)

TInv == TypeOK /\ SenderInv
SInv == TInv /\ UnbornInv /\ MaskInv /\ WaitInv

-----------------------------------------------------------------------------
(* Types.                                                                  *)

\* No mask is the mask that stands for none, and no signal is 0.
LEMMA MaskTypes ==
  /\ None \notin Masks
  /\ 0 \notin Signals
  /\ {} \in Masks
  /\ \A m \in Masks : m \ Unblockable = m /\ m \subseteq Signals
  /\ \A m \in SUBSET Signals : m \ Unblockable \in Masks
<1>1. 0 \notin Signals
  BY GuestSignalsAssumption DEF GuestSignalsAssumption
<1> QED
  BY <1>1 DEF None, Masks

LEMMA UpdatedMaskType ==
  ASSUME NEW how \in {"block", "unblock", "set"}, NEW m \in Masks, NEW r \in SUBSET Signals
  PROVE  UpdatedMask(how, m, r) \in Masks
BY MaskTypes DEF UpdatedMask

LEMMA InitTypeOK == Init => TypeOK
<1> SUFFICES ASSUME Init
             PROVE  TypeOK
  OBVIOUS
<1>1. NoCall \in [target : Threads, signal : Signals \cup {0}]
  BY GuestSignalsAssumption DEF GuestSignalsAssumption, NoCall
<1>2. calls \in 0 .. MaxCalls
  BY GuestSignalsAssumption DEF GuestSignalsAssumption, Init
<1>3. <<>> \in Seq([mask : Masks, wanted : Masks])
  OBVIOUS
<1> QED
  BY <1>1, <1>2, <1>3, MaskTypes DEF Init, TypeOK, Actions, Points

\* Whoever makes the step, the bound on syscalls is kept.
LEMMA CallsType ==
  ASSUME TypeOK, Next
  PROVE  calls' \in 0 .. MaxCalls
BY GuestSignalsAssumption DEF GuestSignalsAssumption, TypeOK, Next, Guest

\* A telling of the whole group to exit.
LEMMA GroupExitType ==
  ASSUME TypeOK
  PROVE  GroupExit \in [Threads -> {"none", "running", "exit_requested", "exited"}]
BY DEF GroupExit, TypeOK

LEMMA GuestType ==
  ASSUME TypeOK, calls' \in 0 .. MaxCalls, NEW t \in Threads, Guest(t)
  PROVE  TypeOK'
<1> USE DEF TypeOK, delivery, waits, aux, Next_, Points
<1>1. CASE ProcMask(t)
  <2>1. masks' \in [Threads -> Masks]
    BY <1>1, UpdatedMaskType DEF ProcMask
  <2>2. wanted' \in [Threads -> Masks]
    BY <1>1, UpdatedMaskType DEF ProcMask
  <2>3. pc' \in [Threads -> Points]
    BY <1>1 DEF ProcMask
  <2>4. UNCHANGED <<status, actions, pending, frames, suspended, restart, old, call,
                    nudged, timed, deserted, kept>>
    BY <1>1 DEF ProcMask
  <2> QED
    BY <2>1, <2>2, <2>3, <2>4
<1>2. CASE Action(t)
  <2>1. actions' \in [Signals -> Actions]
    BY <1>2 DEF Action
  <2>2. pending' \in [Threads -> SUBSET Signals]
    BY <1>2 DEF Action
  <2>3. pc' \in [Threads -> Points]
    BY <1>2 DEF Action
  <2>4. UNCHANGED <<status, masks, frames, suspended, restart, old, call, nudged,
                    timed, wanted, deserted, kept>>
    BY <1>2 DEF Action
  <2> QED
    BY <2>1, <2>2, <2>3, <2>4
<1>3. CASE BeginSend(t)
  <2>1. call' \in [Threads -> [target : Threads, signal : Signals \cup {0}]]
    BY <1>3 DEF BeginSend
  <2>2. pc' \in [Threads -> Points]
    BY <1>3 DEF BeginSend
  <2>3. UNCHANGED <<status, actions, masks, pending, frames, suspended, restart, old,
                    nudged, timed, wanted, deserted, kept>>
    BY <1>3 DEF BeginSend
  <2> QED
    BY <2>1, <2>2, <2>3
<1>4. CASE BeginSuspend(t)
  <2>1. PICK requested \in SUBSET Signals :
          masks' = [masks EXCEPT ![t] = requested \ Unblockable]
    BY <1>4 DEF BeginSuspend
  <2>5. requested \ Unblockable \in Masks
    BY MaskTypes
  <2>6. masks' \in [Threads -> Masks]
    BY <2>1, <2>5
  <2>2. old' \in [Threads -> Masks]
    BY <1>4 DEF BeginSuspend
  <2>3. pc' \in [Threads -> Points]
    BY <1>4 DEF BeginSuspend
  <2>4. UNCHANGED <<status, actions, pending, frames, suspended, restart, call,
                    nudged, timed, wanted, deserted, kept>>
    BY <1>4 DEF BeginSuspend
  <2> QED
    BY <2>2, <2>3, <2>4, <2>6
<1>5. CASE BeginWait(t)
  <2>1. timed' \in [Threads -> BOOLEAN]
    BY <1>5 DEF BeginWait
  <2>2. pc' \in [Threads -> Points]
    <3>1. \E point \in Points : pc' = [pc EXCEPT ![t] = point]
      BY <1>5 DEF BeginWait
    <3> QED
      BY <3>1
  <2>3. nudged' \in [Threads -> BOOLEAN]
    BY <1>5 DEF BeginWait
  <2>4. UNCHANGED <<status, actions, masks, pending, frames, suspended, restart, old,
                    call, wanted, deserted, kept>>
    BY <1>5 DEF BeginWait
  <2> QED
    BY <2>1, <2>2, <2>3, <2>4
<1>6. CASE Return(t)
  <2>1. Head(frames[t]) \in [mask : Masks, wanted : Masks]
    BY <1>6, HeadTailProperties DEF Return
  <2>2. Tail(frames[t]) \in Seq([mask : Masks, wanted : Masks])
    BY <1>6, HeadTailProperties DEF Return
  <2>3. masks' \in [Threads -> Masks]
    BY <1>6, <2>1, MaskTypes DEF Return
  <2>4. wanted' \in [Threads -> Masks]
    BY <1>6, <2>1 DEF Return
  <2>5. frames' \in [Threads -> Seq([mask : Masks, wanted : Masks])]
    BY <1>6, <2>2 DEF Return
  <2>6. pc' \in [Threads -> Points]
    BY <1>6 DEF Return
  <2>7. UNCHANGED <<status, actions, pending, suspended, restart, old, call, nudged,
                    timed, deserted, kept>>
    BY <1>6 DEF Return
  <2> QED
    BY <2>1, <2>2, <2>3, <2>4, <2>5, <2>6, <2>7
<1>7. CASE Exit(t)
  <2>1. status' \in [Threads -> {"none", "running", "exit_requested", "exited"}]
    BY <1>7, GroupExitType DEF Exit
  <2>2. pc' \in [Threads -> Points]
    BY <1>7 DEF Exit
  <2>3. UNCHANGED <<actions, masks, pending, frames, suspended, restart, old, call,
                    nudged, timed, wanted, deserted, kept>>
    BY <1>7 DEF Exit
  <2> QED
    BY <2>1, <2>2, <2>3
<1>8. CASE \E c \in Threads : Clone(t, c)
  <2>0. PICK c \in Threads : Clone(t, c)
    BY <1>8
  <2>1. status' \in [Threads -> {"none", "running", "exit_requested", "exited"}]
    BY <2>0 DEF Clone
  <2>2. pc' \in [Threads -> Points]
    <3>1. pc' = [pc EXCEPT ![t] = "cloning", ![c] = "born"]
      BY <2>0 DEF Clone
    <3> QED
      BY <3>1
  <2>3. UNCHANGED <<actions, masks, pending, frames, suspended, restart, old, call,
                    nudged, timed, wanted, deserted, kept>>
    BY <1>8 DEF Clone
  <2> QED
    BY <2>1, <2>2, <2>3
<1> QED
  BY <1>1, <1>2, <1>3, <1>4, <1>5, <1>6, <1>7, <1>8 DEF Guest

LEMMA SettleType ==
  ASSUME TypeOK, NEW t \in Threads, Settle(t)
  PROVE  deserted' \in [Threads -> BOOLEAN] /\ kept' \in [Threads -> BOOLEAN]
<1> DEFINE still == ~(Effective(t) = wanted[t] /\ Honest(frames[t]))
<1>1. /\ deserted' = [deserted EXCEPT ![t] = @ /\ still]
      /\ kept' = [kept EXCEPT ![t] = FALSE]
  BY DEF Settle
<1> HIDE DEF still
<1> QED
  BY <1>1 DEF TypeOK

LEMMA DeliverType ==
  ASSUME TypeOK, calls' \in 0 .. MaxCalls, NEW t \in Threads, Deliver(t)
  PROVE  TypeOK'
<1> USE DEF TypeOK, delivery, waits, aux, Next_, Points, Resume, Take
<1>1. CASE DeliverNothing(t)
  <2>1. deserted' \in [Threads -> BOOLEAN] /\ kept' \in [Threads -> BOOLEAN]
    BY <1>1, SettleType DEF DeliverNothing
  <2> QED
    BY <1>1, <2>1 DEF DeliverNothing
<1>2. CASE DeliverToLeaver(t)
  BY <1>2 DEF DeliverToLeaver
<1>3. ASSUME NEW s \in Signals, DeliverIgnored(t, s)
      PROVE  TypeOK'
  BY <1>3 DEF DeliverIgnored
<1>4. ASSUME NEW s \in Signals, DeliverFatal(t, s)
      PROVE  TypeOK'
  BY <1>4, GroupExitType DEF DeliverFatal
<1>5. ASSUME NEW s \in Signals, EnterHandler(t, s)
      PROVE  TypeOK'
  <2> DEFINE a == actions[s]
             saved == IF suspended[t] = None THEN masks[t] ELSE suspended[t]
             inside == (masks[t] \cup a.mask \cup (IF a.nodefer THEN {} ELSE {s})) \ Unblockable
             top == [mask |-> saved, wanted |-> wanted[t]]
  <2>1. a.mask \subseteq Signals
    BY <1>5, GuestSignalsAssumption DEF GuestSignalsAssumption, EnterHandler
  <2>2. inside \in Masks
    <3>1. masks[t] \subseteq Signals
      BY DEF Masks
    <3>2. (masks[t] \cup a.mask \cup (IF a.nodefer THEN {} ELSE {s})) \in SUBSET Signals
      BY <2>1, <3>1
    <3> QED
      BY <3>2, MaskTypes
  <2>3. top \in [mask : Masks, wanted : Masks]
    OBVIOUS
  <2>4. <<top>> \o frames[t] \in Seq([mask : Masks, wanted : Masks])
    <3> DEFINE Frames == [mask : Masks, wanted : Masks]
    <3>1. top \in Frames /\ frames[t] \in Seq(Frames)
      BY <2>3
    <3> HIDE DEF top, Frames
    <3>2. <<top>> \in Seq(Frames)
      BY <3>1
    <3>3. <<top>> \o frames[t] \in Seq(Frames)
      BY <3>1, <3>2, ConcatProperties
    <3> QED
      BY <3>3 DEF Frames
  <2>5. /\ frames' = [frames EXCEPT ![t] = <<top>> \o @]
        /\ masks' = [masks EXCEPT ![t] = inside]
        /\ wanted' = [wanted EXCEPT ![t] = inside]
    BY <1>5 DEF EnterHandler
  <2>6. actions' \in [Signals -> Actions]
    BY <1>5 DEF EnterHandler, Actions
  <2> HIDE DEF inside, top
  <2>7. frames' \in [Threads -> Seq([mask : Masks, wanted : Masks])]
    BY <1>5, <2>4, <2>5
  <2>8. masks' \in [Threads -> Masks]
    BY <1>5, <2>2, <2>5
  <2>9. wanted' \in [Threads -> Masks]
    BY <1>5, <2>2, <2>5
  <2>10. pending' \in [Threads -> SUBSET Signals]
    BY <1>5 DEF EnterHandler
  <2>11. suspended' \in [Threads -> Masks \cup {None}]
    BY <1>5 DEF EnterHandler
  <2>12. restart' \in [Threads -> BOOLEAN]
    BY <1>5 DEF EnterHandler
  <2>13. pc' \in [Threads -> Points]
    BY <1>5 DEF EnterHandler
  <2>14. UNCHANGED <<status, old, call, nudged, timed>>
    BY <1>5 DEF EnterHandler
  <2>15. deserted' \in [Threads -> BOOLEAN] /\ kept' \in [Threads -> BOOLEAN]
    BY <1>5, SettleType DEF EnterHandler
  <2> QED
    BY <2>1, <2>2, <2>3, <2>4, <2>5, <2>6, <2>7, <2>8, <2>9, <2>10, <2>11, <2>12, <2>13,
       <2>14, <2>15
<1>6. ASSUME NEW s \in Signals, NestTooDeep(t, s)
      PROVE  TypeOK'
  BY <1>6, GroupExitType DEF NestTooDeep, WakeWaits
<1> QED
  BY <1>1, <1>2, <1>3, <1>4, <1>5, <1>6 DEF Deliver

LEMMA HostType ==
  ASSUME TInv, calls' \in 0 .. MaxCalls, NEW t \in Threads, Host(t) \/ EndWait(t)
  PROVE  TypeOK'
<1> USE DEF TInv, TypeOK, delivery, waits, aux, Next_, Points
<1>1. CASE SliceEnds(t)
  BY <1>1 DEF SliceEnds
<1>2. CASE Send(t)
  <2>1. status' \in [Threads -> {"none", "running", "exit_requested", "exited"}]
    BY <1>2, GroupExitType DEF Send
  <2>2. pending' \in [Threads -> SUBSET Signals]
    <3> DEFINE u == call[t].target
               s == call[t].signal
    <3>1. u \in Threads /\ s \in Signals
      BY <1>2 DEF Send, SenderInv
    <3>2. pending' = pending \/ pending' = [pending EXCEPT ![u] = @ \cup {s}]
      BY <1>2 DEF Send
    <3> HIDE DEF u, s
    <3>3. pending \in [Threads -> SUBSET Signals]
      OBVIOUS
    <3>4. pending[u] \cup {s} \in SUBSET Signals
      BY <3>1, <3>3
    <3>5. [pending EXCEPT ![u] = @ \cup {s}] \in [Threads -> SUBSET Signals]
      BY <3>3, <3>4, ZenonT(20)
    <3> QED
      BY <3>2, <3>3, <3>5
  <2>3. call' \in [Threads -> [target : Threads, signal : Signals \cup {0}]]
    BY <1>2, GuestSignalsAssumption DEF Send, NoCall, GuestSignalsAssumption
  <2>4. pc' \in [Threads -> Points]
    BY <1>2 DEF Send
  <2>5. UNCHANGED <<actions, masks, frames, suspended, restart, old, nudged, timed,
                    wanted, deserted, kept>>
    BY <1>2 DEF Send
  <2> QED
    BY <2>1, <2>2, <2>3, <2>4, <2>5
<1>3. CASE NotifyWaiters(t)
  BY <1>3 DEF NotifyWaiters, WakeWaits
<1>4. CASE EndSuspend(t)
  <2>1. suspended' \in [Threads -> Masks \cup {None}]
    BY <1>4 DEF EndSuspend
  <2>2. old' \in [Threads -> Masks]
    BY <1>4, MaskTypes DEF EndSuspend
  <2>3. pc' \in [Threads -> Points]
    BY <1>4 DEF EndSuspend
  <2>4. UNCHANGED <<status, actions, masks, pending, frames, restart, call, nudged,
                    timed, wanted, deserted, kept>>
    BY <1>4 DEF EndSuspend
  <2> QED
    BY <2>1, <2>2, <2>3, <2>4
<1>10. CASE CancelSuspend(t)
  <2>1. masks' \in [Threads -> Masks]
    BY <1>10 DEF CancelSuspend
  <2>2. old' \in [Threads -> Masks]
    BY <1>10, MaskTypes DEF CancelSuspend
  <2>3. pc' \in [Threads -> Points]
    BY <1>10 DEF CancelSuspend
  <2>4. UNCHANGED <<status, actions, pending, frames, suspended, restart, call,
                    nudged, timed, wanted, deserted, kept>>
    BY <1>10 DEF CancelSuspend
  <2> QED
    BY <2>1, <2>2, <2>3, <2>4
<1>5. CASE Recheck(t) \/ EndWait(t)
  <2>1. nudged' \in [Threads -> BOOLEAN]
    BY <1>5 DEF Recheck, EndWait
  <2>2. timed' \in [Threads -> BOOLEAN]
    BY <1>5 DEF Recheck, EndWait
  <2>3. pc' \in [Threads -> Points]
    <3>1. \E point \in Points : pc' = [pc EXCEPT ![t] = point]
      BY <1>5 DEF Recheck, EndWait
    <3> QED
      BY <3>1
  <2>4. UNCHANGED <<status, actions, masks, pending, frames, suspended, restart, old,
                    call, wanted, deserted, kept>>
    BY <1>5 DEF Recheck, EndWait
  <2> QED
    BY <2>1, <2>2, <2>3, <2>4
<1>6. CASE InterruptedWait(t)
  BY <1>6 DEF InterruptedWait, Ready
<1>7. CASE Deliver(t)
  BY <1>7, DeliverType
<1>8. CASE \E c \in Threads : Inherit(t, c)
  <2>0. PICK c \in Threads : Inherit(t, c)
    BY <1>8
  <2>1. masks' \in [Threads -> Masks]
    BY <2>0 DEF Inherit
  <2>2. wanted' \in [Threads -> Masks]
    BY <2>0 DEF Inherit
  <2>3. deserted' \in [Threads -> BOOLEAN]
    BY <2>0 DEF Inherit
  <2>4. pc' \in [Threads -> Points]
    <3>1. pc' = [pc EXCEPT ![t] = "boundary", ![c] = "boundary"]
      BY <2>0 DEF Inherit
    <3> QED
      BY <3>1
  <2>5. UNCHANGED <<status, actions, pending, frames, suspended, restart, old, call,
                    nudged, timed, kept>>
    BY <1>8 DEF Inherit
  <2> QED
    BY <2>1, <2>2, <2>3, <2>4, <2>5
<1>9. CASE Retire(t)
  <2>1. status' \in [Threads -> {"none", "running", "exit_requested", "exited"}]
    BY <1>9 DEF Retire
  <2>2. masks' \in [Threads -> Masks]
    BY <1>9, MaskTypes DEF Retire
  <2>3. pending' \in [Threads -> SUBSET Signals]
    BY <1>9 DEF Retire
  <2>4. frames' \in [Threads -> Seq([mask : Masks, wanted : Masks])]
    <3>1. <<>> \in Seq([mask : Masks, wanted : Masks])
      OBVIOUS
    <3> QED
      BY <1>9, <3>1 DEF Retire
  <2>5. suspended' \in [Threads -> Masks \cup {None}]
    BY <1>9 DEF Retire
  <2>6. restart' \in [Threads -> BOOLEAN]
    BY <1>9 DEF Retire
  <2>7. wanted' \in [Threads -> Masks]
    BY <1>9, MaskTypes DEF Retire
  <2>8. deserted' \in [Threads -> BOOLEAN] /\ kept' \in [Threads -> BOOLEAN]
    BY <1>9 DEF Retire
  <2>9. pc' \in [Threads -> Points]
    BY <1>9 DEF Retire
  <2>10. UNCHANGED <<actions, old, call, nudged, timed>>
    BY <1>9 DEF Retire
  <2> QED
    BY <2>1, <2>2, <2>3, <2>4, <2>5, <2>6, <2>7, <2>8, <2>9, <2>10
<1> QED
  BY <1>1, <1>2, <1>3, <1>4, <1>5, <1>6, <1>7, <1>8, <1>9, <1>10 DEF Host

\* A thread sends what it has looked up just before.
LEMMA SenderStep ==
  ASSUME TInv, Next
  PROVE  SenderInv'
<1> SUFFICES ASSUME NEW u \in Threads, pc'[u] = "sending"
             PROVE  call'[u].signal # 0
  BY DEF SenderInv
<1> USE DEF TInv, TypeOK, SenderInv, delivery, waits, aux, Next_
<1>1. PICK t \in Threads : Guest(t) \/ EndWait(t) \/ Host(t)
  BY DEF Next
<1>2. CASE BeginSend(t)
  BY <1>2, MaskTypes DEF BeginSend
<1>3. CASE Guest(t) /\ ~BeginSend(t)
  BY ZenonT(40), <1>3 DEF Guest, ProcMask, Action, BeginSuspend, BeginWait, Return, Exit, Clone
<1>4. CASE Deliver(t)
  BY <1>4 DEF Deliver, DeliverNothing, DeliverToLeaver, DeliverIgnored, DeliverFatal,
              EnterHandler, NestTooDeep, Resume
<1>5. CASE EndWait(t) \/ (Host(t) /\ ~Deliver(t))
  BY <1>5 DEF Host, EndWait, SliceEnds, Send, NotifyWaiters, EndSuspend, CancelSuspend,
              Recheck, InterruptedWait, Inherit, Retire
<1> QED
  BY <1>1, <1>2, <1>3, <1>4, <1>5

LEMMA TypeStep == TInv /\ [Next]_vars => TInv'
<1>1. ASSUME TInv, Next
      PROVE  TInv'
  BY <1>1, CallsType, GuestType, HostType, SenderStep DEF Next, TInv
<1>2. ASSUME TInv, UNCHANGED vars
      PROVE  TInv'
  BY <1>2 DEF TInv, TypeOK, SenderInv, vars, delivery, waits, aux
<1> QED
  BY <1>1, <1>2

LEMMA InitTInv == Init => TInv
BY InitTypeOK DEF Init, TInv, SenderInv

\* Every variable has its type; no mask holds a signal that cannot be blocked.
THEOREM TypeCorrect == Spec => []TypeOK
<1>1. TInv /\ [Next]_vars => TInv'
  BY TypeStep
<1>2. TInv => TypeOK
  BY DEF TInv
<1> QED
  BY <1>1, <1>2, InitTInv, PTL DEF Spec

-----------------------------------------------------------------------------
(* Where the mask of the guest program is.                                 *)

\* What belongs to thread u is as it was.
Untouched(u) ==
  /\ status'[u] = "none" <=> status[u] = "none"
  /\ pc'[u] = pc[u]
  /\ frames'[u] = frames[u]
  /\ suspended'[u] = suspended[u]
  /\ restart'[u] = restart[u]
  /\ masks'[u] = masks[u]
  /\ wanted'[u] = wanted[u]
  /\ deserted'[u] = deserted[u]
  /\ kept'[u] = kept[u]
  /\ old'[u] = old[u]

LEMMA UntouchedKeeps ==
  ASSUME NEW u \in Threads, Untouched(u), Unborn(u), MaskFound(u), WaitForgotten(u)
  PROVE  Unborn(u)' /\ MaskFound(u)' /\ WaitForgotten(u)'
BY DEF Untouched, Unborn, MaskFound, Effective, WaitForgotten

\* Nobody becomes unborn by a telling of the group to exit.
LEMMA GroupExitNone ==
  ASSUME NEW u \in Threads
  PROVE  GroupExit[u] = "none" <=> status[u] = "none"
BY DEF GroupExit

\* A step of t is about t alone, and about the child t clones.
LEMMA OthersUntouched ==
  ASSUME SInv, NEW t \in Threads, NEW u \in Threads \ {t},
         Guest(t) \/ EndWait(t) \/ Host(t),
         ~Clone(t, u), ~Inherit(t, u)
  PROVE  Untouched(u)
<1> USE DEF SInv, TInv, TypeOK, delivery, waits, aux, Next_, Untouched
<1>1. CASE ProcMask(t) \/ Action(t) \/ BeginSend(t)
  BY <1>1 DEF ProcMask, Action, BeginSend
<1>2. CASE BeginSuspend(t)
  BY <1>2 DEF BeginSuspend
<1>3. CASE BeginWait(t)
  BY <1>3 DEF BeginWait
<1>4. CASE Return(t)
  BY <1>4 DEF Return
<1>5. CASE Exit(t)
  BY <1>5, GroupExitNone DEF Exit
<1>6. ASSUME NEW c \in Threads, Clone(t, c)
      PROVE  Untouched(u)
  <2>1. c # u
    BY <1>6
  <2>2. /\ status' = [status EXCEPT ![c] = "running"]
        /\ pc' = [pc EXCEPT ![t] = "cloning", ![c] = "born"]
        /\ UNCHANGED <<frames, suspended, restart, masks, wanted, deserted, kept, old>>
    BY <1>6 DEF Clone
  <2>3. status'[u] = status[u] /\ pc'[u] = pc[u]
    BY <2>1, <2>2
  <2> QED
    BY <2>2, <2>3
<1>7. CASE EndWait(t) \/ SliceEnds(t) \/ NotifyWaiters(t)
  BY <1>7 DEF EndWait, SliceEnds, NotifyWaiters
<1>8. CASE Send(t)
  BY <1>8, GroupExitNone DEF Send
<1>9. CASE EndSuspend(t) \/ CancelSuspend(t)
  BY <1>9 DEF EndSuspend, CancelSuspend
<1>10. CASE Recheck(t) \/ InterruptedWait(t)
  BY <1>10 DEF Recheck, InterruptedWait
<1>11. CASE DeliverNothing(t) \/ DeliverToLeaver(t)
  BY <1>11 DEF DeliverNothing, DeliverToLeaver, Resume, Settle
<1>12. ASSUME NEW s \in Signals, DeliverIgnored(t, s) \/ EnterHandler(t, s)
       PROVE  Untouched(u)
  BY <1>12 DEF DeliverIgnored, EnterHandler, Resume, Settle
<1>13. ASSUME NEW s \in Signals, DeliverFatal(t, s) \/ NestTooDeep(t, s)
       PROVE  Untouched(u)
  BY <1>13, GroupExitNone DEF DeliverFatal, NestTooDeep
<1>14. ASSUME NEW c \in Threads, Inherit(t, c)
       PROVE  Untouched(u)
  <2>1. c # u
    BY <1>14
  <2> QED
    BY <1>14, <2>1 DEF Inherit
<1>15. CASE Retire(t)
  BY <1>15 DEF Retire
<1> QED
  BY <1>1, <1>2, <1>3, <1>4, <1>5, <1>6, <1>7, <1>8, <1>9, <1>10, <1>11, <1>12, <1>13,
     <1>14, <1>15 DEF Guest, Host, Deliver

\* A thread registered by a clone, and then given the mask of its parent.
LEMMA ChildKeeps ==
  ASSUME SInv, NEW t \in Threads, NEW c \in Threads, Clone(t, c) \/ Inherit(t, c)
  PROVE  Unborn(c)' /\ MaskFound(c)' /\ WaitForgotten(c)'
<1> USE DEF SInv, TInv, TypeOK, UnbornInv, MaskInv, WaitInv, Unborn, MaskFound,
            WaitForgotten, Effective, delivery, waits, aux
<1>1. CASE Clone(t, c)
  <2>1. c # t
    BY <1>1 DEF Clone
  <2>2. pc'[c] = "born" /\ status'[c] = "running" /\ pc[c] = "none"
    BY <1>1, <2>1 DEF Clone
  <2> QED
    BY <1>1, <2>1, <2>2 DEF Clone, UnderOwnMask
<1>2. CASE Inherit(t, c)
  <2>1. c # t
    BY <1>2 DEF Inherit
  <2>2. /\ pc'[c] = "boundary" /\ pc[c] = "born"
        /\ masks'[c] = masks[t] /\ wanted'[c] = wanted[t] /\ deserted'[c] = deserted[t]
        /\ frames'[c] = <<>> /\ suspended'[c] = None /\ status' = status
    BY <1>2, <2>1 DEF Inherit
  <2>3. ~deserted[t] => masks[t] = wanted[t]
    BY <1>2 DEF Inherit, UnderOwnMask
  <2>4. Honest(<<>>)
    BY DEF Honest
  <2> QED
    BY <2>2, <2>3, <2>4 DEF UnderOwnMask
<1> QED
  BY <1>1, <1>2

\* Leaving a handler and entering one.
LEMMA HonestTail ==
  ASSUME NEW f \in Seq(Frame), f # <<>>, Honest(f)
  PROVE  Honest(Tail(f)) /\ f[1] \in Frame /\ f[1].mask = f[1].wanted /\ Head(f) = f[1]
<1> DEFINE S == Frame
<1>1. f \in Seq(S)
  OBVIOUS
<1> HIDE DEF S
<1>2. \A i \in DOMAIN Tail(f) : i + 1 \in DOMAIN f /\ Tail(f)[i] = f[i + 1]
  BY <1>1
<1>3. 1 \in DOMAIN f /\ f[1] \in S /\ Head(f) = f[1]
  BY <1>1
<1> QED
  BY <1>2, <1>3 DEF Honest, S

LEMMA HonestPush ==
  ASSUME NEW f \in Seq(Frame), NEW top \in Frame, top.mask = top.wanted, Honest(f)
  PROVE  Honest(<<top>> \o f)
<1> DEFINE S == Frame
           g == <<top>> \o f
<1>1. f \in Seq(S) /\ top \in S
  OBVIOUS
<1> HIDE DEF S
<1>2. \A i \in DOMAIN g : g[i] = top \/ (i - 1 \in DOMAIN f /\ g[i] = f[i - 1])
  BY <1>1
<1> HIDE DEF g
<1>3. Honest(g)
  BY <1>2 DEF Honest
<1> QED
  BY <1>3 DEF g

\* The system call of a guest program.
LEMMA GuestKeeps ==
  ASSUME SInv, NEW t \in Threads, Guest(t)
  PROVE  Unborn(t)' /\ MaskFound(t)' /\ WaitForgotten(t)'
<1> USE DEF SInv, TInv, TypeOK, UnbornInv, MaskInv, WaitInv, Unborn, MaskFound,
            WaitForgotten, Effective, delivery, waits, aux, Next_, UnderOwnMask
<1>1. CASE ProcMask(t)
  BY <1>1 DEF ProcMask
<1>2. CASE Action(t) \/ BeginSend(t)
  BY <1>2 DEF Action, BeginSend
<1>3. CASE BeginSuspend(t)
  BY <1>3 DEF BeginSuspend
<1>4. CASE BeginWait(t)
  BY <1>4 DEF BeginWait
<1>5. CASE Return(t)
  <2>1. frames[t] \in Seq(Frame) /\ frames[t] # <<>>
    BY <1>5 DEF Return, Frame
  <2>2. /\ pc'[t] = "boundary" /\ pc[t] = "slice"
        /\ masks'[t] = Head(frames[t]).mask \ Unblockable
        /\ wanted'[t] = Head(frames[t]).wanted
        /\ frames'[t] = Tail(frames[t])
        /\ suspended' = suspended /\ deserted' = deserted /\ status' = status
        /\ restart' = restart /\ kept' = kept
    BY <1>5 DEF Return
  <2>3. CASE deserted[t]
    BY <2>2, <2>3
  <2>4. CASE ~deserted[t]
    <3>1. /\ Honest(Tail(frames[t]))
          /\ Head(frames[t]) \in Frame
          /\ Head(frames[t]).mask = Head(frames[t]).wanted
      BY <2>1, <2>4, HonestTail
    <3>2. Head(frames[t]).mask \ Unblockable = Head(frames[t]).mask
      BY <3>1, MaskTypes DEF Frame
    <3> QED
      BY <2>2, <2>4, <3>1, <3>2
  <2> QED
    BY <2>3, <2>4
<1>6. CASE Exit(t)
  BY <1>6, GroupExitNone DEF Exit
<1>7. ASSUME NEW c \in Threads, Clone(t, c)
      PROVE  Unborn(t)' /\ MaskFound(t)' /\ WaitForgotten(t)'
  BY <1>7 DEF Clone
<1> QED
  BY <1>1, <1>2, <1>3, <1>4, <1>5, <1>6, <1>7 DEF Guest

\* Who is in order after a delivery has used what was left behind was so before.
LEMMA Settled ==
  ASSUME SInv, NEW t \in Threads, pc[t] = "boundary", Settle(t), ~deserted'[t]
  PROVE  Effective(t) = wanted[t] /\ Honest(frames[t])
<1> DEFINE still == ~(Effective(t) = wanted[t] /\ Honest(frames[t]))
<1>1. deserted' = [deserted EXCEPT ![t] = @ /\ still]
  BY DEF Settle
<1>2. ~deserted[t] => ~still
  BY DEF SInv, MaskInv, MaskFound
<1> HIDE DEF still
<1>3. ~still
  BY <1>1, <1>2 DEF SInv, TInv, TypeOK
<1> QED
  BY <1>3 DEF still

\* What is delivered at a boundary.
LEMMA DeliverKeeps ==
  ASSUME SInv, NEW t \in Threads, Deliver(t)
  PROVE  Unborn(t)' /\ MaskFound(t)' /\ WaitForgotten(t)'
<1> USE DEF SInv, TInv, TypeOK, UnbornInv, MaskInv, WaitInv, Unborn, MaskFound,
            WaitForgotten, Effective, delivery, waits, aux, Next_, UnderOwnMask, Resume
<1>1. CASE DeliverNothing(t)
  <2>1. /\ pc[t] = "boundary" /\ pc'[t] \in {"slice", "retiring"}
        /\ masks'[t] = Effective(t) /\ suspended'[t] = None /\ ~restart'[t]
        /\ frames' = frames /\ wanted' = wanted /\ status' = status
    BY <1>1 DEF DeliverNothing
  <2>2. ~deserted'[t] => Effective(t) = wanted[t] /\ Honest(frames[t])
    BY <1>1, <2>1, Settled DEF DeliverNothing
  <2> QED
    BY <2>1, <2>2
<1>2. CASE DeliverToLeaver(t)
  BY <1>2 DEF DeliverToLeaver
<1>3. ASSUME NEW s \in Signals, DeliverIgnored(t, s)
      PROVE  Unborn(t)' /\ MaskFound(t)' /\ WaitForgotten(t)'
  BY <1>3 DEF DeliverIgnored, Delivering
<1>4. ASSUME NEW s \in Signals, DeliverFatal(t, s) \/ NestTooDeep(t, s)
      PROVE  Unborn(t)' /\ MaskFound(t)' /\ WaitForgotten(t)'
  BY <1>4, GroupExitNone DEF DeliverFatal, NestTooDeep, Delivering
<1>5. ASSUME NEW s \in Signals, EnterHandler(t, s)
      PROVE  Unborn(t)' /\ MaskFound(t)' /\ WaitForgotten(t)'
  <2> DEFINE a == actions[s]
             inside == (masks[t] \cup a.mask \cup (IF a.nodefer THEN {} ELSE {s})) \ Unblockable
             top == [mask |-> Effective(t), wanted |-> wanted[t]]
  <2>1. /\ pc[t] = "boundary" /\ pc'[t] = "slice"
        /\ masks'[t] = inside /\ wanted'[t] = inside
        /\ suspended'[t] = None /\ ~restart'[t]
        /\ status' = status
    BY <1>5 DEF EnterHandler, Delivering
  <2>2. frames'[t] = <<top>> \o frames[t]
    BY <1>5 DEF EnterHandler
  <2>3. frames[t] \in Seq(Frame) /\ top \in Frame
    BY DEF Frame
  <2>4. top.mask = Effective(t) /\ top.wanted = wanted[t]
    OBVIOUS
  <2> HIDE DEF inside, top
  <2>5. CASE deserted'[t]
    BY <2>1, <2>5
  <2>6. CASE ~deserted'[t]
    <3>1. Effective(t) = wanted[t] /\ Honest(frames[t])
      BY <1>5, <2>1, <2>6, Settled DEF EnterHandler
    <3>2. Honest(<<top>> \o frames[t])
      BY <2>3, <2>4, <3>1, HonestPush
    <3> QED
      BY <2>1, <2>2, <3>2
  <2> QED
    BY <2>5, <2>6
<1> QED
  BY <1>1, <1>2, <1>3, <1>4, <1>5 DEF Deliver

\* What the host does for a thread.
LEMMA HostKeeps ==
  ASSUME SInv, NEW t \in Threads, EndWait(t) \/ Host(t)
  PROVE  Unborn(t)' /\ MaskFound(t)' /\ WaitForgotten(t)'
<1> USE DEF SInv, TInv, TypeOK, UnbornInv, MaskInv, WaitInv, Unborn, MaskFound,
            WaitForgotten, Effective, delivery, waits, aux, Next_, UnderOwnMask
<1>1. CASE EndWait(t) \/ SliceEnds(t) \/ NotifyWaiters(t)
  BY <1>1 DEF EndWait, SliceEnds, NotifyWaiters
<1>2. CASE Send(t)
  BY <1>2, GroupExitNone DEF Send
<1>3. CASE EndSuspend(t)
  <2>1. old[t] # None
    BY MaskTypes
  <2> QED
    BY <1>3, <2>1 DEF EndSuspend
<1>4. CASE CancelSuspend(t)
  BY <1>4 DEF CancelSuspend
<1>5. CASE Recheck(t)
  <2>1. pc'[t] \in {"interrupted", "waiting"}
    BY <1>5 DEF Recheck
  <2> QED
    BY <1>5, <2>1 DEF Recheck
<1>6. CASE InterruptedWait(t)
  BY <1>6 DEF InterruptedWait
<1>7. CASE Deliver(t)
  BY <1>7, DeliverKeeps
<1>8. ASSUME NEW c \in Threads, Inherit(t, c)
      PROVE  Unborn(t)' /\ MaskFound(t)' /\ WaitForgotten(t)'
  <2>1. c # t
    BY <1>8 DEF Inherit
  <2> QED
    BY <1>8, <2>1 DEF Inherit
<1>9. CASE Retire(t)
  <2>1. frames'[t] = <<>> /\ pc'[t] = "gone" /\ status'[t] = "exited"
    BY <1>9 DEF Retire
  <2>2. Honest(<<>>)
    BY DEF Honest
  <2> QED
    BY <2>1, <2>2
<1> QED
  BY <1>1, <1>2, <1>3, <1>4, <1>5, <1>6, <1>7, <1>8, <1>9 DEF Host

LEMMA SInvInit == Init => SInv
<1> SUFFICES ASSUME Init
             PROVE  UnbornInv /\ MaskInv /\ WaitInv
  BY InitTInv DEF SInv
<1>1. Honest(<<>>)
  BY DEF Honest
<1> QED
  BY <1>1 DEF Init, UnbornInv, Unborn, MaskInv, MaskFound, WaitInv, WaitForgotten,
             UnderOwnMask, Effective

LEMMA SInvStep == SInv /\ [Next]_vars => SInv'
<1>1. ASSUME SInv, Next
      PROVE  UnbornInv' /\ MaskInv' /\ WaitInv'
  <2>1. PICK t \in Threads : Guest(t) \/ EndWait(t) \/ Host(t)
    BY <1>1 DEF Next
  <2>2. ASSUME NEW u \in Threads
        PROVE  Unborn(u)' /\ MaskFound(u)' /\ WaitForgotten(u)'
    <3>1. CASE u = t
      BY <1>1, <2>1, <3>1, GuestKeeps, HostKeeps
    <3>2. CASE Clone(t, u) \/ Inherit(t, u)
      BY <1>1, <3>2, ChildKeeps
    <3>3. CASE u # t /\ ~Clone(t, u) /\ ~Inherit(t, u)
      <4>1. Untouched(u)
        BY <1>1, <2>1, <3>3, OthersUntouched
      <4> QED
        BY <1>1, <4>1, UntouchedKeeps DEF SInv, UnbornInv, MaskInv, WaitInv
    <3> QED
      BY <3>1, <3>2, <3>3
  <2> QED
    BY <2>2 DEF UnbornInv, MaskInv, WaitInv
<1>2. ASSUME SInv, UNCHANGED vars
      PROVE  UnbornInv' /\ MaskInv' /\ WaitInv'
  BY <1>2 DEF SInv, UnbornInv, Unborn, MaskInv, MaskFound, WaitInv, WaitForgotten,
              Effective, vars, delivery, waits, aux
<1> QED
  BY <1>1, <1>2, TypeStep DEF SInv

-----------------------------------------------------------------------------

\* Guest code runs under the mask it asked for, whatever sigsuspends and handlers
\* it went through.
THEOREM CallersMaskKept == Spec => []CallersMask
<1>1. SInv => CallersMask
  BY DEF SInv, MaskInv, MaskFound, UnderOwnMask, CallersMask
<1> QED
  BY <1>1, SInvInit, SInvStep, PTL DEF Spec

\* No futex wait is remembered while guest code runs, unless an ignored signal was
\* the last to be delivered.
THEOREM RestartsAreFresh == Spec => []RestartIsFresh
<1>1. SInv => RestartIsFresh
  BY DEF SInv, WaitInv, WaitForgotten, UnderOwnMask, RestartIsFresh
<1> QED
  BY <1>1, SInvInit, SInvStep, PTL DEF Spec

=============================================================================
