------------------------- MODULE FrameReadbackProofs -------------------------
(***************************************************************************)
(* Proofs about FrameReadback for any number of pipelines, frames and      *)
(* resets.                                                                 *)
(***************************************************************************)
EXTENDS FrameReadback, SequenceTheorems, TLAPS

\* The GL thread is between the two locks of the producer's mutex.
Inside == {"reserve", "reading", "push"}
Writing(p) == pc["gl"] \in {"reading", "push"} /\ pipe["gl"] = p

\* The collector has a slot whose frame it has not delivered.
Holding == {"polling", "mapping", "copied"}

\* Where a thread is and what it has in hand: who retires a pipeline has one, and
\* where it goes on is kept no longer than that.
PointInv ==
  /\ pc["host"] \in {"idle", "draw", "stop", "join"}
  /\ next["host"] \in {"idle", "draw"} /\ next["gl"] \in {"idle", "capture"}
  /\ \A a \in Actors :
       /\ next[a] # "idle" => pc[a] \in {"stop", "join"}
       /\ pc[a] \in {"stop", "join"} => pipe[a] \in Pipes
  /\ pc["gl"] \in {"creating", "enqueue"} \cup Inside => pipe["gl"] \in Pipes
  /\ pc["gl"] \in {"reading", "push"} => slot \in Slots

\* A collector has a slot from Take to FreeSlot, and none before.
HandInv ==
  \A p \in Pipes :
    /\ state[p] \in {"unused", "starting", "idle"} => taken[p] = None
    /\ state[p] \in Holding \cup {"freeing"} => taken[p] \in Slots

\* Nothing is queued before its collector runs, which leaves only a pipeline that is
\* over, and everybody who has a pipeline has one whose collector runs.
LifeInv ==
  \A p \in Pipes :
    /\ state[p] \in {"unused", "starting"} => pending[p] = <<>>
    /\ state[p] \in {"leaving", "ended"} => Over(p)
    /\ p = current => state[p] \notin {"unused", "starting"}
    /\ pipe["gl"] = p => /\ pc["gl"] = "creating" => state[p] # "unused"
                         /\ pc["gl"] \in {"enqueue"} \cup Inside =>
                              state[p] \notin {"unused", "starting"}

\* The mutex of the producer is held wherever the GL thread uses the buffers.
ProducerInv ==
  /\ pc["gl"] \in Inside => pipe["gl"] \in producing
  /\ NoUseAfterDelete

\* The first frame is read only while no pipeline is installed.
CurrentInv ==
  /\ pc["gl"] \in {"capture", "read", "create", "creating"} => current = None
  /\ next["gl"] = "capture" => current = None

\* No slot is queued twice.
Distinct(q) == \A i, j \in 1 .. Len(q) : q[i] = q[j] => i = j
QueueInv == \A p \in Pipes : Distinct(pending[p])

\* SlotHasOneOwner, place by place.
OneOwner(p, s) ==
  /\ s \in free[p] => ~Contains(pending[p], s) /\ taken[p] # s /\ ~(Writing(p) /\ slot = s)
  /\ Contains(pending[p], s) => taken[p] # s /\ ~(Writing(p) /\ slot = s)
  /\ taken[p] = s => ~(Writing(p) /\ slot = s)
  /\ Over(p) \/ s \in free[p] \/ Contains(pending[p], s) \/ taken[p] = s
     \/ (Writing(p) /\ slot = s)

OwnerInv == \A p \in Pipes, s \in Slots : OneOwner(p, s)

\* Nothing comes from the future.
BoundInv ==
  /\ seen <= epoch
  /\ latest.n <= frames
  /\ \A a \in Actors : frame[a] <= frames
  /\ \A p \in Pipes : born[p] <= epoch /\ \A s \in Slots : content[p][s] <= frames

\* What will yet be published under the present epoch is in the pipeline that is
\* installed.
FlightInv ==
  \A p \in Pipes :
    born[p] = epoch /\ ( \/ pending[p] # <<>> \/ taken[p] # None
                         \/ pipe["gl"] = p /\ pc["gl"] \in {"enqueue"} \cup Inside )
      => current = p

\* A slot whose frame the collector has still to deliver, and one whose frame will
\* yet be published if its pipeline lives on.
Waiting(p, s) == Contains(pending[p], s) \/ (state[p] \in Holding /\ taken[p] = s)
Due(p, s) == Waiting(p, s) \/ (pc["gl"] = "push" /\ pipe["gl"] = p /\ slot = s)

Sorted(q, c) == \A i, j \in 1 .. Len(q) : i <= j => c[q[i]] <= c[q[j]]

\* A pipeline holds its frames in the order of their numbers: the collector's is
\* the oldest, the one behind the fence that GL has just set is the newest.
Ordered(p) ==
  /\ state[p] = "copied" => pixels[p] = content[p][taken[p]]
  /\ Sorted(pending[p], content[p])
  /\ state[p] \in Holding =>
       \A s \in Slots : Contains(pending[p], s) => content[p][taken[p]] <= content[p][s]
  /\ pc["gl"] = "push" /\ pipe["gl"] = p =>
       \A s \in Slots : Waiting(p, s) => content[p][s] <= content[p][slot]

OrderInv == \A p \in Pipes : Ordered(p)

\* Nothing that will yet be published under the present epoch is older than n.
Floor(n) ==
  /\ pc["gl"] = "read" /\ seen = epoch => n <= frame["gl"]
  /\ \A p \in Pipes, s \in Slots : born[p] = epoch /\ Due(p, s) => n <= content[p][s]

FloorInv == \A n \in {latest.n, frame["host"]} : Floor(n)

TInv == TypeOK /\ PointInv /\ HandInv
PInv == TInv /\ LifeInv /\ ProducerInv /\ CurrentInv
OInv == PInv /\ QueueInv /\ OwnerInv
RInv == OInv /\ BoundInv /\ FlightInv /\ OrderInv /\ FloorInv

-----------------------------------------------------------------------------
-----------------------------------------------------------------------------
(* Types.                                                                  *)

\* What ResetReadback does: the epoch, and the thread that has the pipeline, if
\* there was one, to stop it.
ResetDone(a, after) ==
  /\ epoch' \in 0 .. MaxEpoch /\ epoch' = epoch + 1 /\ current' = None
  /\ pc' \in [Actors -> ActorPoints] /\ next' \in [Actors -> ActorPoints]
  /\ pipe' \in [Actors -> Pipes \cup {None}]
  /\ \A b \in Actors \ {a} : pc'[b] = pc[b] /\ pipe'[b] = pipe[b] /\ next'[b] = next[b]
  /\ pipe'[a] = current
  /\ \/ current = None /\ pc'[a] = after /\ next'[a] = next[a]
     \/ current \in Pipes /\ pc'[a] = "stop" /\ next'[a] = after
  /\ UNCHANGED <<latest, slotVars, collectorVars, stopping, failed, born, producing, glVars>>

LEMMA ResetEffect ==
  ASSUME TInv, NEW a \in Actors, NEW after \in ActorPoints, Reset(a, after)
  PROVE  ResetDone(a, after)
<1> USE FrameReadbackAssumption DEF FrameReadbackAssumption, Reset, Goto
<1>1. /\ epoch' \in 0 .. MaxEpoch /\ epoch' = epoch + 1 /\ current' = None
      /\ pipe' \in [Actors -> Pipes \cup {None}] /\ pipe'[a] = current
      /\ \A b \in Actors \ {a} : pipe'[b] = pipe[b]
  BY DEF TInv, TypeOK
<1>2. CASE current = None /\ Goto(a, after) /\ UNCHANGED next
  <2>1. /\ pc' \in [Actors -> ActorPoints] /\ next' \in [Actors -> ActorPoints]
        /\ pc'[a] = after /\ next'[a] = next[a]
        /\ \A b \in Actors \ {a} : pc'[b] = pc[b] /\ next'[b] = next[b]
    BY <1>2 DEF TInv, TypeOK
  <2> QED
    BY <1>1, <1>2, <2>1 DEF ResetDone
<1>3. CASE current # None /\ Goto(a, "stop") /\ next' = [next EXCEPT ![a] = after]
  <2>1. "stop" \in ActorPoints
    BY DEF ActorPoints
  <2>2. /\ pc' \in [Actors -> ActorPoints] /\ next' \in [Actors -> ActorPoints]
        /\ pc'[a] = "stop" /\ next'[a] = after
        /\ \A b \in Actors \ {a} : pc'[b] = pc[b] /\ next'[b] = next[b]
    BY <1>3, <2>1 DEF TInv, TypeOK
  <2>3. current \in Pipes
    BY <1>3 DEF TInv, TypeOK
  <2> QED
    BY <1>1, <2>2, <2>3 DEF ResetDone
<1> QED
  BY <1>2, <1>3

\* The collector's slot is one.
LEMMA HandTaken ==
  ASSUME TInv, NEW p \in Pipes, state[p] \in Holding \cup {"freeing"}
  PROVE  taken[p] \in Slots /\ content[p][taken[p]] \in 0 .. MaxFrames
<1>1. taken[p] \in Slots
  BY DEF TInv, HandInv
<1>2. content[p] \in [Slots -> 0 .. MaxFrames]
  BY DEF TInv, TypeOK
<1> QED
  BY <1>1, <1>2

\* Each step keeps the types, and what each thread has in hand is where it belongs.
LEMMA CollectorType ==
  ASSUME TInv, NEW p \in Pipes, CollectorStep(p)
  PROVE  TInv'
<1> USE FrameReadbackAssumption DEF FrameReadbackAssumption, TInv, TypeOK, PointInv, HandInv,
         Slots, Actors, ActorPoints, CollectorPoints, Holding, Inside, serviceVars, slotVars,
         collectorVars, actorVars, glVars
<1>1. CASE CollectorStarts(p)
  <2>1. TypeOK'
    BY <1>1 DEF CollectorStarts, Collector, CollectorOnly
  <2>2. PointInv'
    BY <1>1 DEF CollectorStarts, Collector, CollectorOnly
  <2>3. HandInv'
    BY ZenonT(40), <1>1 DEF CollectorStarts, Collector, CollectorOnly
  <2> QED
    BY <2>1, <2>2, <2>3
<1>2. CASE Take(p)
  <2>1. pending[p] \in Seq(Slots) /\ pending[p] # <<>>
    BY <1>2 DEF Take, Collector, CollectorOnly
  <2>2. Head(pending[p]) \in Slots /\ Tail(pending[p]) \in Seq(Slots)
    BY <2>1, HeadTailProperties
  <2>3. pending' \in [Pipes -> Seq(Slots)] /\ taken' \in [Pipes -> Slots \cup {None}]
    BY <1>2, <2>2 DEF Take, Collector, CollectorOnly
  <2>4. TypeOK'
    BY <1>2, <2>1, <2>2, <2>3 DEF Take, Collector, CollectorOnly
  <2>5. PointInv'
    BY <1>2, <2>1, <2>2, <2>3 DEF Take, Collector, CollectorOnly
  <2>6. HandInv'
    BY <1>2, <2>1, <2>2, <2>3 DEF Take, Collector, CollectorOnly
  <2> QED
    BY <2>4, <2>5, <2>6
<1>3. CASE FencePassed(p)
  BY ZenonT(40), <1>3 DEF FencePassed, Collector, CollectorOnly
<1>4. CASE NoticeEnd(p)
  BY ZenonT(40), <1>4 DEF NoticeEnd, Collector, CollectorOnly, Over
<1>5. CASE Copy(p)
  <2> USE DEF Collector, CollectorOnly
  <2>1. taken[p] \in Slots /\ content[p][taken[p]] \in 0 .. MaxFrames
    BY <1>5, HandTaken DEF Copy
  <2>2. CASE pixels' = [pixels EXCEPT ![p] = content[p][taken[p]]] /\ Collector(p, "copied")
             /\ UNCHANGED failed
    BY ZenonT(40), <1>5, <2>1, <2>2 DEF Copy
  <2>3. CASE failed' = failed \cup {p} /\ Collector(p, "leaving") /\ UNCHANGED pixels
    <3>1. failed' \subseteq Pipes /\ state' \in [Pipes -> CollectorPoints]
      BY <2>3
    <3>2. TypeOK'
      BY <1>5, <2>3, <3>1 DEF Copy
    <3>3. PointInv'
      BY <1>5 DEF Copy
    <3>4. HandInv'
      BY <1>5, <2>3 DEF Copy
    <3> QED
      BY <3>2, <3>3, <3>4
  <2> QED
    BY <1>5, <2>2, <2>3 DEF Copy
<1>6. CASE Deliver(p)
  BY <1>6 DEF Deliver, Collector, CollectorOnly, PublishReadback
<1>7. CASE FreeSlot(p)
  BY ZenonT(40), <1>7 DEF FreeSlot, Collector, CollectorOnly
<1>8. CASE DeleteBuffers(p)
  BY ZenonT(40), <1>8 DEF DeleteBuffers, Collector, CollectorOnly
<1> QED
  BY <1>1, <1>2, <1>3, <1>4, <1>5, <1>6, <1>7, <1>8 DEF CollectorStep

LEMMA FirstType ==
  ASSUME TInv, Present \/ GiveUp \/ CaptureEpoch \/ PublishFirst \/ Create \/ Install
  PROVE  TInv'
<1> USE FrameReadbackAssumption DEF FrameReadbackAssumption, TInv, TypeOK, PointInv, HandInv,
         Slots, Actors, ActorPoints, CollectorPoints, Holding, Inside, serviceVars, slotVars,
         collectorVars, actorVars, glVars
<1>1. CASE Present
  <2>1. pc' \in [Actors -> ActorPoints] /\ pipe' \in [Actors -> Pipes \cup {None}]
    BY SMTT(20), <1>1 DEF Present, Goto
  <2>2. /\ pipe'["gl"] = current /\ pipe'["host"] = pipe["host"] /\ pc'["host"] = pc["host"]
        /\ \/ current = None /\ pc'["gl"] = "capture"
           \/ current # None /\ pc'["gl"] \in {"enqueue", "mismatch"}
    BY <1>1 DEF Present, Goto
  <2>3. TypeOK'
    BY <1>1, <2>1, <2>2 DEF Present, Goto
  <2>4. PointInv'
    BY <1>1, <2>1, <2>2 DEF Present, Goto
  <2>5. HandInv'
    BY <1>1, <2>1, <2>2 DEF Present, Goto
  <2> QED
    BY <2>3, <2>4, <2>5
<1>2. CASE GiveUp
  BY <1>2 DEF GiveUp, Goto
<1>3. CASE CaptureEpoch
  <2>1. frames + 1 \in 0 .. MaxFrames
    BY <1>3 DEF CaptureEpoch, Goto, Number
  <2>2. frame' \in [Actors -> 0 .. MaxFrames] /\ pc' \in [Actors -> ActorPoints]
    BY <1>3, <2>1 DEF CaptureEpoch, Goto, Number
  <2>3. TypeOK'
    BY <1>3, <2>1, <2>2 DEF CaptureEpoch, Goto, Number
  <2>4. PointInv'
    BY <1>3, <2>1, <2>2 DEF CaptureEpoch, Goto, Number
  <2>5. HandInv'
    BY <1>3, <2>1, <2>2 DEF CaptureEpoch, Goto, Number
  <2> QED
    BY <2>3, <2>4, <2>5
<1>4. CASE PublishFirst
  BY <1>4 DEF PublishFirst, Goto, PublishReadback
<1>5. CASE Create
  <2> USE DEF Goto, Collector
  <2>1. CASE Goto("gl", "idle") /\ UNCHANGED <<state, born, pipe>>
    <3>1. TypeOK'
      BY <1>5, <2>1 DEF Create
    <3>2. PointInv'
      BY <1>5, <2>1 DEF Create
    <3>3. HandInv'
      BY <1>5, <2>1 DEF Create
    <3> QED
      BY <3>1, <3>2, <3>3
  <2>2. ASSUME NEW q \in Pipes, state[q] = "unused", Collector(q, "starting"),
               born' = [born EXCEPT ![q] = seen], pipe' = [pipe EXCEPT !["gl"] = q],
               Goto("gl", "creating")
        PROVE  TInv'
    <3>1. TypeOK'
      BY <1>5, <2>2 DEF Create
    <3>2. PointInv'
      BY <1>5, <2>2 DEF Create
    <3>3. HandInv'
      BY <1>5, <2>2 DEF Create
    <3> QED
      BY <3>1, <3>2, <3>3
  <2> QED
    BY <1>5, <2>1, <2>2 DEF Create
<1>6. CASE Install
  <2> USE DEF Goto
  <2>1. CASE current' = pipe["gl"] /\ pipe' = [pipe EXCEPT !["gl"] = None] /\ Goto("gl", "idle")
    <3>1. TypeOK'
      BY <1>6, <2>1 DEF Install
    <3>2. PointInv'
      BY <1>6, <2>1 DEF Install
    <3>3. HandInv'
      BY <1>6, <2>1 DEF Install
    <3> QED
      BY <3>1, <3>2, <3>3
  <2>2. CASE Goto("gl", "stop") /\ UNCHANGED <<current, pipe>>
    <3>1. TypeOK'
      BY <1>6, <2>2 DEF Install
    <3>2. PointInv'
      BY <1>6, <2>2 DEF Install
    <3>3. HandInv'
      BY <1>6, <2>2 DEF Install
    <3> QED
      BY <3>1, <3>2, <3>3
  <2> QED
    BY <1>6, <2>1, <2>2 DEF Install
<1> QED
  BY <1>1, <1>2, <1>3, <1>4, <1>5, <1>6

LEMMA EnqueueType ==
  ASSUME TInv, LockProducer \/ Reserve \/ Submit \/ SubmitFails \/ Push
  PROVE  TInv'
<1> USE FrameReadbackAssumption DEF FrameReadbackAssumption, TInv, TypeOK, PointInv, HandInv,
         Slots, Actors, ActorPoints, CollectorPoints, Holding, Inside, serviceVars, slotVars,
         collectorVars, actorVars, glVars
<1>1. CASE LockProducer
  BY <1>1 DEF LockProducer, Goto
<1>2. CASE Reserve
  <2> USE DEF Goto, LeaveEnqueue
  <2>1. CASE LeaveEnqueue /\ UNCHANGED free
    <3>1. TypeOK'
      BY <1>2, <2>1 DEF Reserve
    <3>2. PointInv'
      BY <1>2, <2>1 DEF Reserve
    <3>3. HandInv'
      BY <1>2, <2>1 DEF Reserve
    <3> QED
      BY <3>1, <3>2, <3>3
  <2>2. CASE slot' \in Slots /\ free' = [free EXCEPT ![pipe["gl"]] = @ \ {slot'}]
             /\ Goto("gl", "reading") /\ UNCHANGED <<producing, pipe>>
    <3>1. TypeOK'
      BY <1>2, <2>2 DEF Reserve
    <3>2. PointInv'
      BY <1>2, <2>2 DEF Reserve
    <3>3. HandInv'
      BY <1>2, <2>2 DEF Reserve
    <3> QED
      BY <3>1, <3>2, <3>3
  <2> QED
    BY <1>2, <2>1, <2>2 DEF Reserve
<1>3. CASE Submit
  <2>1. frames + 1 \in 0 .. MaxFrames /\ pipe["gl"] \in Pipes /\ slot \in Slots
    BY <1>3 DEF Submit, Goto, Number
  <2>2. [content[pipe["gl"]] EXCEPT ![slot] = frames + 1] \in [Slots -> 0 .. MaxFrames]
    BY <1>3, <2>1 DEF Submit, Goto, Number
  <2>3. content' \in [Pipes -> [Slots -> 0 .. MaxFrames]] /\ frame' \in [Actors -> 0 .. MaxFrames]
    BY <1>3, <2>1, <2>2 DEF Submit, Goto, Number
  <2>4. TypeOK'
    BY <1>3, <2>1, <2>2, <2>3 DEF Submit, Goto, Number
  <2>5. PointInv'
    BY <1>3, <2>1, <2>2, <2>3 DEF Submit, Goto, Number
  <2>6. HandInv'
    BY <1>3, <2>1, <2>2, <2>3 DEF Submit, Goto, Number
  <2> QED
    BY <2>4, <2>5, <2>6
<1>4. CASE SubmitFails
  BY <1>4 DEF SubmitFails, Goto, LeaveEnqueue
<1>5. CASE Push
  <2>1. pipe["gl"] \in Pipes /\ slot \in Slots
    BY <1>5 DEF Push, Goto, LeaveEnqueue
  <2>2. Append(pending[pipe["gl"]], slot) \in Seq(Slots)
    BY <2>1, AppendProperties
  <2>3. pending' \in [Pipes -> Seq(Slots)] /\ pending'[pipe["gl"]] \in Seq(Slots)
    BY <1>5, <2>1, <2>2 DEF Push, Goto, LeaveEnqueue
  <2>4. \A q \in Pipes \ {pipe["gl"]} : pending'[q] = pending[q]
    BY <1>5, <2>1 DEF Push, Goto, LeaveEnqueue
  <2>5. TypeOK'
    BY <1>5, <2>1, <2>2, <2>3, <2>4 DEF Push, Goto, LeaveEnqueue
  <2>6. PointInv'
    BY <1>5, <2>1, <2>2, <2>3, <2>4 DEF Push, Goto, LeaveEnqueue
  <2>7. HandInv'
    BY <1>5, <2>1, <2>2, <2>3, <2>4 DEF Push, Goto, LeaveEnqueue
  <2> QED
    BY <2>5, <2>6, <2>7
<1> QED
  BY <1>1, <1>2, <1>3, <1>4, <1>5

LEMMA ResetType ==
  ASSUME TInv, NEW a \in Actors,
         \/ PresentCovered \/ ResetMismatch \/ DrawSoftware \/ CloseSurface
         \/ PublishSoftware \/ Stop(a) \/ Join(a)
  PROVE  TInv'
<1> USE FrameReadbackAssumption DEF FrameReadbackAssumption, TInv, TypeOK, PointInv, HandInv,
         Slots, Actors, ActorPoints, CollectorPoints, Holding, Inside, serviceVars, slotVars,
         collectorVars, actorVars, glVars
<1>1. CASE PresentCovered
  <2>1. Reset("gl", "idle")
    BY <1>1 DEF PresentCovered
  <2>2. ResetDone("gl", "idle")
    BY <2>1, ResetEffect
  <2>3. TypeOK'
    BY <1>1, <2>2 DEF PresentCovered, ResetDone
  <2>4. PointInv'
    <3>1. pc'["host"] = pc["host"] /\ pipe'["host"] = pipe["host"] /\ next'["host"] = next["host"]
      BY <2>2 DEF ResetDone
    <3>2. next["gl"] = "idle" /\ slot' = slot
      BY <1>1, <2>2 DEF PresentCovered, ResetDone
    <3>3. \/ pc'["gl"] = "idle" /\ next'["gl"] = "idle"
          \/ pc'["gl"] = "stop" /\ next'["gl"] = "idle" /\ pipe'["gl"] \in Pipes
      BY <2>2, <3>2 DEF ResetDone
    <3> QED
      BY <3>1, <3>2, <3>3
  <2>5. HandInv'
    BY <2>2 DEF ResetDone
  <2> QED
    BY <2>3, <2>4, <2>5
<1>2. CASE ResetMismatch
  <2>1. Reset("gl", "capture")
    BY <1>2 DEF ResetMismatch
  <2>2. ResetDone("gl", "capture")
    BY <2>1, ResetEffect
  <2>3. TypeOK'
    BY <1>2, <2>2 DEF ResetMismatch, ResetDone
  <2>4. PointInv'
    <3>1. pc'["host"] = pc["host"] /\ pipe'["host"] = pipe["host"] /\ next'["host"] = next["host"]
      BY <2>2 DEF ResetDone
    <3>2. next["gl"] = "idle" /\ slot' = slot
      BY <1>2, <2>2 DEF ResetMismatch, ResetDone
    <3>3. \/ pc'["gl"] = "capture" /\ next'["gl"] = "idle"
          \/ pc'["gl"] = "stop" /\ next'["gl"] = "capture" /\ pipe'["gl"] \in Pipes
      BY <2>2, <3>2 DEF ResetDone
    <3> QED
      BY <3>1, <3>2, <3>3
  <2>5. HandInv'
    BY <2>2 DEF ResetDone
  <2> QED
    BY <2>3, <2>4, <2>5
<1>3. CASE DrawSoftware
  <2>1. Reset("host", "draw")
    BY <1>3 DEF DrawSoftware
  <2>2. ResetDone("host", "draw")
    BY <2>1, ResetEffect
  <2>3. TypeOK'
    <3>1. frames' \in 0 .. MaxFrames /\ frame' \in [Actors -> 0 .. MaxFrames]
      BY <1>3 DEF DrawSoftware, Number
    <3> QED
      BY <2>2, <3>1 DEF ResetDone
  <2>4. PointInv'
    <3>1. pc'["gl"] = pc["gl"] /\ pipe'["gl"] = pipe["gl"] /\ next'["gl"] = next["gl"]
      BY <2>2 DEF ResetDone
    <3>2. next["host"] = "idle" /\ slot' = slot
      BY <1>3, <2>2 DEF DrawSoftware, ResetDone
    <3>3. \/ pc'["host"] = "draw" /\ next'["host"] = "idle"
          \/ pc'["host"] = "stop" /\ next'["host"] = "draw" /\ pipe'["host"] \in Pipes
      BY <2>2, <3>2 DEF ResetDone
    <3> QED
      BY <3>1, <3>2, <3>3
  <2>5. HandInv'
    BY <2>2 DEF ResetDone
  <2> QED
    BY <2>3, <2>4, <2>5
<1>4. CASE CloseSurface
  <2>1. Reset("host", "idle")
    BY <1>4 DEF CloseSurface
  <2>2. ResetDone("host", "idle")
    BY <2>1, ResetEffect
  <2>3. TypeOK'
    BY <1>4, <2>2 DEF CloseSurface, ResetDone
  <2>4. PointInv'
    <3>1. pc'["gl"] = pc["gl"] /\ pipe'["gl"] = pipe["gl"] /\ next'["gl"] = next["gl"]
      BY <2>2 DEF ResetDone
    <3>2. next["host"] = "idle" /\ slot' = slot
      BY <1>4, <2>2 DEF CloseSurface, ResetDone
    <3>3. \/ pc'["host"] = "idle" /\ next'["host"] = "idle"
          \/ pc'["host"] = "stop" /\ next'["host"] = "idle" /\ pipe'["host"] \in Pipes
      BY <2>2, <3>2 DEF ResetDone
    <3> QED
      BY <3>1, <3>2, <3>3
  <2>5. HandInv'
    BY <2>2 DEF ResetDone
  <2> QED
    BY <2>3, <2>4, <2>5
<1>5. CASE PublishSoftware
  BY <1>5 DEF PublishSoftware, Goto
<1>6. CASE Stop(a)
  <2>1. pipe[a] \in Pipes
    BY <1>6 DEF Stop, Goto
  <2>2. stopping' \subseteq Pipes
    BY <1>6, <2>1 DEF Stop, Goto
  <2>3. pc' \in [Actors -> ActorPoints]
    BY <1>6 DEF Stop, Goto
  <2>4. pc'[a] = "join" /\ \A b \in Actors \ {a} : pc'[b] = pc[b]
    BY <1>6 DEF Stop, Goto
  <2>5. TypeOK'
    BY <1>6, <2>1, <2>2, <2>3, <2>4 DEF Stop, Goto
  <2>6. PointInv'
    BY <1>6, <2>1, <2>2, <2>3, <2>4 DEF Stop, Goto
  <2>7. HandInv'
    BY <1>6, <2>1, <2>2, <2>3, <2>4 DEF Stop, Goto
  <2> QED
    BY <2>5, <2>6, <2>7
<1>7. CASE Join(a)
  BY ZenonT(40), <1>7 DEF Join, Goto
<1> QED
  BY <1>1, <1>2, <1>3, <1>4, <1>5, <1>6, <1>7

-----------------------------------------------------------------------------
(* Pipelines and the lock of the producer.                                *)

\* A collector runs as long as somebody has its pipeline.
LEMMA CollectorLife ==
  ASSUME PInv, NEW p \in Pipes, CollectorStep(p)
  PROVE  LifeInv'
<1> USE FrameReadbackAssumption DEF FrameReadbackAssumption, PInv, TInv, TypeOK, PointInv, HandInv,
         LifeInv, ProducerInv, NoUseAfterDelete, CurrentInv, Slots, Actors, Holding, Inside, Over,
         serviceVars, slotVars, collectorVars, actorVars, glVars
<1>1. CASE CollectorStarts(p)
  BY ZenonT(40), <1>1 DEF CollectorStarts, Collector, CollectorOnly
<1>2. CASE Take(p)
  BY <1>2 DEF Take, Collector, CollectorOnly
<1>3. CASE FencePassed(p)
  BY <1>3 DEF FencePassed, Collector, CollectorOnly
<1>4. CASE NoticeEnd(p)
  BY <1>4 DEF NoticeEnd, Collector, CollectorOnly, Over
<1>5. CASE Copy(p)
  <2> USE DEF Collector, CollectorOnly
  <2>1. CASE Collector(p, "copied") /\ UNCHANGED failed
    BY <1>5, <2>1 DEF Copy
  <2>2. CASE failed' = failed \cup {p} /\ Collector(p, "leaving")
    BY <1>5, <2>2 DEF Copy
  <2> QED
    BY <1>5, <2>1, <2>2 DEF Copy
<1>6. CASE Deliver(p)
  BY <1>6 DEF Deliver, Collector, CollectorOnly, PublishReadback
<1>7. CASE FreeSlot(p)
  BY <1>7 DEF FreeSlot, Collector, CollectorOnly
<1>8. CASE DeleteBuffers(p)
  BY <1>8 DEF DeleteBuffers, Collector, CollectorOnly
<1> QED
  BY <1>1, <1>2, <1>3, <1>4, <1>5, <1>6, <1>7, <1>8 DEF CollectorStep

LEMMA FirstLife ==
  ASSUME PInv, Present \/ GiveUp \/ CaptureEpoch \/ PublishFirst \/ Create \/ Install
  PROVE  LifeInv'
<1> USE FrameReadbackAssumption DEF FrameReadbackAssumption, PInv, TInv, TypeOK, PointInv, HandInv,
         LifeInv, ProducerInv, NoUseAfterDelete, CurrentInv, Slots, Actors, Holding, Inside, Over,
         serviceVars, slotVars, collectorVars, actorVars, glVars
<1>1. CASE Present
  BY <1>1 DEF Present, Goto
<1>2. CASE GiveUp
  BY <1>2 DEF GiveUp, Goto
<1>3. CASE CaptureEpoch
  BY <1>3 DEF CaptureEpoch, Goto, Number
<1>4. CASE PublishFirst
  BY <1>4 DEF PublishFirst, Goto, PublishReadback
<1>5. CASE Create
  <2> USE DEF Goto, Collector
  <2>1. CASE Goto("gl", "idle") /\ UNCHANGED <<state, born, pipe>>
    BY <1>5, <2>1 DEF Create
  <2>2. ASSUME NEW q \in Pipes, state[q] = "unused", Collector(q, "starting"),
               born' = [born EXCEPT ![q] = seen], pipe' = [pipe EXCEPT !["gl"] = q],
               Goto("gl", "creating")
        PROVE  LifeInv'
    BY SMTT(20), <1>5, <2>2 DEF Create
  <2> QED
    BY <1>5, <2>1, <2>2 DEF Create
<1>6. CASE Install
  BY <1>6 DEF Install, Goto
<1> QED
  BY <1>1, <1>2, <1>3, <1>4, <1>5, <1>6

LEMMA EnqueueLife ==
  ASSUME PInv, LockProducer \/ Reserve \/ Submit \/ SubmitFails \/ Push
  PROVE  LifeInv'
<1> USE FrameReadbackAssumption DEF FrameReadbackAssumption, PInv, TInv, TypeOK, PointInv, HandInv,
         LifeInv, ProducerInv, NoUseAfterDelete, CurrentInv, Slots, Actors, Holding, Inside, Over,
         serviceVars, slotVars, collectorVars, actorVars, glVars
<1>1. CASE LockProducer
  BY <1>1 DEF LockProducer, Goto
<1>2. CASE Reserve
  BY <1>2 DEF Reserve, Goto, LeaveEnqueue
<1>3. CASE Submit
  BY <1>3 DEF Submit, Goto, Number
<1>4. CASE SubmitFails
  BY <1>4 DEF SubmitFails, Goto, LeaveEnqueue
<1>5. CASE Push
  BY <1>5 DEF Push, Goto, LeaveEnqueue
<1> QED
  BY <1>1, <1>2, <1>3, <1>4, <1>5

LEMMA ResetLife ==
  ASSUME PInv, NEW a \in Actors,
         \/ PresentCovered \/ ResetMismatch \/ DrawSoftware \/ CloseSurface
         \/ PublishSoftware \/ Stop(a) \/ Join(a)
  PROVE  LifeInv'
<1> USE FrameReadbackAssumption DEF FrameReadbackAssumption, PInv, TInv, TypeOK, PointInv, HandInv,
         LifeInv, ProducerInv, NoUseAfterDelete, CurrentInv, Slots, Actors, Holding, Inside, Over,
         serviceVars, slotVars, collectorVars, actorVars, glVars
<1>1. CASE PresentCovered
  <2>1. ResetDone("gl", "idle")
    BY <1>1, ResetEffect DEF PresentCovered, ActorPoints
  <2> QED
    BY <1>1, <2>1 DEF PresentCovered, ResetDone
<1>2. CASE ResetMismatch
  <2>1. ResetDone("gl", "capture")
    BY <1>2, ResetEffect DEF ResetMismatch, ActorPoints
  <2> QED
    BY <1>2, <2>1 DEF ResetMismatch, ResetDone
<1>3. CASE DrawSoftware
  <2>1. ResetDone("host", "draw")
    BY <1>3, ResetEffect DEF DrawSoftware, ActorPoints
  <2> QED
    BY <1>3, <2>1 DEF DrawSoftware, ResetDone
<1>4. CASE CloseSurface
  <2>1. ResetDone("host", "idle")
    BY <1>4, ResetEffect DEF CloseSurface, ActorPoints
  <2> QED
    BY <1>4, <2>1 DEF CloseSurface, ResetDone
<1>5. CASE PublishSoftware
  BY <1>5 DEF PublishSoftware, Goto
<1>6. CASE Stop(a)
  BY <1>6 DEF Stop, Goto
<1>7. CASE Join(a)
  BY <1>7 DEF Join, Goto
<1> QED
  BY <1>1, <1>2, <1>3, <1>4, <1>5, <1>6, <1>7

\* Whoever reads pixels holds the producer's mutex.
LEMMA CollectorProducer ==
  ASSUME PInv, NEW p \in Pipes, CollectorStep(p)
  PROVE  ProducerInv'
<1> USE FrameReadbackAssumption DEF FrameReadbackAssumption, PInv, TInv, TypeOK, PointInv, HandInv,
         LifeInv, ProducerInv, NoUseAfterDelete, CurrentInv, Slots, Actors, Holding, Inside, Over,
         serviceVars, slotVars, collectorVars, actorVars, glVars
<1>1. CASE CollectorStarts(p)
  BY <1>1 DEF CollectorStarts, Collector, CollectorOnly
<1>2. CASE Take(p)
  BY <1>2 DEF Take, Collector, CollectorOnly
<1>3. CASE FencePassed(p)
  BY <1>3 DEF FencePassed, Collector, CollectorOnly
<1>4. CASE NoticeEnd(p)
  BY <1>4 DEF NoticeEnd, Collector, CollectorOnly, Over
<1>5. CASE Copy(p)
  BY <1>5 DEF Copy, Collector, CollectorOnly
<1>6. CASE Deliver(p)
  BY <1>6 DEF Deliver, Collector, CollectorOnly, PublishReadback
<1>7. CASE FreeSlot(p)
  BY <1>7 DEF FreeSlot, Collector, CollectorOnly
<1>8. CASE DeleteBuffers(p)
  BY <1>8 DEF DeleteBuffers, Collector, CollectorOnly
<1> QED
  BY <1>1, <1>2, <1>3, <1>4, <1>5, <1>6, <1>7, <1>8 DEF CollectorStep

LEMMA FirstProducer ==
  ASSUME PInv, Present \/ GiveUp \/ CaptureEpoch \/ PublishFirst \/ Create \/ Install
  PROVE  ProducerInv'
<1> USE FrameReadbackAssumption DEF FrameReadbackAssumption, PInv, TInv, TypeOK, PointInv, HandInv,
         LifeInv, ProducerInv, NoUseAfterDelete, CurrentInv, Slots, Actors, Holding, Inside, Over,
         serviceVars, slotVars, collectorVars, actorVars, glVars
<1>1. CASE Present
  BY <1>1 DEF Present, Goto
<1>2. CASE GiveUp
  BY <1>2 DEF GiveUp, Goto
<1>3. CASE CaptureEpoch
  BY <1>3 DEF CaptureEpoch, Goto, Number
<1>4. CASE PublishFirst
  BY <1>4 DEF PublishFirst, Goto, PublishReadback
<1>5. CASE Create
  BY <1>5 DEF Create, Goto, Collector
<1>6. CASE Install
  BY <1>6 DEF Install, Goto
<1> QED
  BY <1>1, <1>2, <1>3, <1>4, <1>5, <1>6

LEMMA EnqueueProducer ==
  ASSUME PInv, LockProducer \/ Reserve \/ Submit \/ SubmitFails \/ Push
  PROVE  ProducerInv'
<1> USE FrameReadbackAssumption DEF FrameReadbackAssumption, PInv, TInv, TypeOK, PointInv, HandInv,
         LifeInv, ProducerInv, NoUseAfterDelete, CurrentInv, Slots, Actors, Holding, Inside, Over,
         serviceVars, slotVars, collectorVars, actorVars, glVars
<1>1. CASE LockProducer
  BY <1>1 DEF LockProducer, Goto
<1>2. CASE Reserve
  BY <1>2 DEF Reserve, Goto, LeaveEnqueue
<1>3. CASE Submit
  BY <1>3 DEF Submit, Goto, Number
<1>4. CASE SubmitFails
  BY <1>4 DEF SubmitFails, Goto, LeaveEnqueue
<1>5. CASE Push
  BY <1>5 DEF Push, Goto, LeaveEnqueue
<1> QED
  BY <1>1, <1>2, <1>3, <1>4, <1>5

LEMMA ResetProducer ==
  ASSUME PInv, NEW a \in Actors,
         \/ PresentCovered \/ ResetMismatch \/ DrawSoftware \/ CloseSurface
         \/ PublishSoftware \/ Stop(a) \/ Join(a)
  PROVE  ProducerInv'
<1> USE FrameReadbackAssumption DEF FrameReadbackAssumption, PInv, TInv, TypeOK, PointInv, HandInv,
         LifeInv, ProducerInv, NoUseAfterDelete, CurrentInv, Slots, Actors, Holding, Inside, Over,
         serviceVars, slotVars, collectorVars, actorVars, glVars
<1>1. CASE PresentCovered
  <2>1. ResetDone("gl", "idle")
    BY <1>1, ResetEffect DEF PresentCovered, ActorPoints
  <2> QED
    BY <1>1, <2>1 DEF PresentCovered, ResetDone
<1>2. CASE ResetMismatch
  <2>1. ResetDone("gl", "capture")
    BY <1>2, ResetEffect DEF ResetMismatch, ActorPoints
  <2> QED
    BY <1>2, <2>1 DEF ResetMismatch, ResetDone
<1>3. CASE DrawSoftware
  <2>1. ResetDone("host", "draw")
    BY <1>3, ResetEffect DEF DrawSoftware, ActorPoints
  <2> QED
    BY <1>3, <2>1 DEF DrawSoftware, ResetDone
<1>4. CASE CloseSurface
  <2>1. ResetDone("host", "idle")
    BY <1>4, ResetEffect DEF CloseSurface, ActorPoints
  <2> QED
    BY <1>4, <2>1 DEF CloseSurface, ResetDone
<1>5. CASE PublishSoftware
  BY <1>5 DEF PublishSoftware, Goto
<1>6. CASE Stop(a)
  BY <1>6 DEF Stop, Goto
<1>7. CASE Join(a)
  BY <1>7 DEF Join, Goto
<1> QED
  BY <1>1, <1>2, <1>3, <1>4, <1>5, <1>6, <1>7

\* Only the GL thread installs a pipeline, and only where there is none.
LEMMA CollectorCurrent ==
  ASSUME PInv, NEW p \in Pipes, CollectorStep(p)
  PROVE  CurrentInv'
<1> USE FrameReadbackAssumption DEF FrameReadbackAssumption, PInv, TInv, TypeOK, PointInv, HandInv,
         LifeInv, ProducerInv, NoUseAfterDelete, CurrentInv, Slots, Actors, Holding, Inside, Over,
         serviceVars, slotVars, collectorVars, actorVars, glVars
<1>1. CASE CollectorStarts(p)
  BY <1>1 DEF CollectorStarts, Collector, CollectorOnly
<1>2. CASE Take(p)
  BY <1>2 DEF Take, Collector, CollectorOnly
<1>3. CASE FencePassed(p)
  BY <1>3 DEF FencePassed, Collector, CollectorOnly
<1>4. CASE NoticeEnd(p)
  BY <1>4 DEF NoticeEnd, Collector, CollectorOnly, Over
<1>5. CASE Copy(p)
  BY <1>5 DEF Copy, Collector, CollectorOnly
<1>6. CASE Deliver(p)
  BY <1>6 DEF Deliver, Collector, CollectorOnly, PublishReadback
<1>7. CASE FreeSlot(p)
  BY <1>7 DEF FreeSlot, Collector, CollectorOnly
<1>8. CASE DeleteBuffers(p)
  BY <1>8 DEF DeleteBuffers, Collector, CollectorOnly
<1> QED
  BY <1>1, <1>2, <1>3, <1>4, <1>5, <1>6, <1>7, <1>8 DEF CollectorStep

LEMMA FirstCurrent ==
  ASSUME PInv, Present \/ GiveUp \/ CaptureEpoch \/ PublishFirst \/ Create \/ Install
  PROVE  CurrentInv'
<1> USE FrameReadbackAssumption DEF FrameReadbackAssumption, PInv, TInv, TypeOK, PointInv, HandInv,
         LifeInv, ProducerInv, NoUseAfterDelete, CurrentInv, Slots, Actors, Holding, Inside, Over,
         serviceVars, slotVars, collectorVars, actorVars, glVars
<1>1. CASE Present
  BY <1>1 DEF Present, Goto
<1>2. CASE GiveUp
  BY <1>2 DEF GiveUp, Goto
<1>3. CASE CaptureEpoch
  BY <1>3 DEF CaptureEpoch, Goto, Number
<1>4. CASE PublishFirst
  BY <1>4 DEF PublishFirst, Goto, PublishReadback
<1>5. CASE Create
  BY <1>5 DEF Create, Goto, Collector
<1>6. CASE Install
  BY <1>6 DEF Install, Goto
<1> QED
  BY <1>1, <1>2, <1>3, <1>4, <1>5, <1>6

LEMMA EnqueueCurrent ==
  ASSUME PInv, LockProducer \/ Reserve \/ Submit \/ SubmitFails \/ Push
  PROVE  CurrentInv'
<1> USE FrameReadbackAssumption DEF FrameReadbackAssumption, PInv, TInv, TypeOK, PointInv, HandInv,
         LifeInv, ProducerInv, NoUseAfterDelete, CurrentInv, Slots, Actors, Holding, Inside, Over,
         serviceVars, slotVars, collectorVars, actorVars, glVars
<1>1. CASE LockProducer
  BY <1>1 DEF LockProducer, Goto
<1>2. CASE Reserve
  BY <1>2 DEF Reserve, Goto, LeaveEnqueue
<1>3. CASE Submit
  BY <1>3 DEF Submit, Goto, Number
<1>4. CASE SubmitFails
  BY <1>4 DEF SubmitFails, Goto, LeaveEnqueue
<1>5. CASE Push
  BY <1>5 DEF Push, Goto, LeaveEnqueue
<1> QED
  BY <1>1, <1>2, <1>3, <1>4, <1>5

LEMMA ResetCurrent ==
  ASSUME PInv, NEW a \in Actors,
         \/ PresentCovered \/ ResetMismatch \/ DrawSoftware \/ CloseSurface
         \/ PublishSoftware \/ Stop(a) \/ Join(a)
  PROVE  CurrentInv'
<1> USE FrameReadbackAssumption DEF FrameReadbackAssumption, PInv, TInv, TypeOK, PointInv, HandInv,
         LifeInv, ProducerInv, NoUseAfterDelete, CurrentInv, Slots, Actors, Holding, Inside, Over,
         serviceVars, slotVars, collectorVars, actorVars, glVars
<1>1. CASE PresentCovered
  <2>1. ResetDone("gl", "idle")
    BY <1>1, ResetEffect DEF PresentCovered, ActorPoints
  <2> QED
    BY <1>1, <2>1 DEF PresentCovered, ResetDone
<1>2. CASE ResetMismatch
  <2>1. ResetDone("gl", "capture")
    BY <1>2, ResetEffect DEF ResetMismatch, ActorPoints
  <2> QED
    BY <1>2, <2>1 DEF ResetMismatch, ResetDone
<1>3. CASE DrawSoftware
  <2>1. ResetDone("host", "draw")
    BY <1>3, ResetEffect DEF DrawSoftware, ActorPoints
  <2> QED
    BY <1>3, <2>1 DEF DrawSoftware, ResetDone
<1>4. CASE CloseSurface
  <2>1. ResetDone("host", "idle")
    BY <1>4, ResetEffect DEF CloseSurface, ActorPoints
  <2> QED
    BY <1>4, <2>1 DEF CloseSurface, ResetDone
<1>5. CASE PublishSoftware
  BY <1>5 DEF PublishSoftware, Goto
<1>6. CASE Stop(a)
  BY <1>6 DEF Stop, Goto
<1>7. CASE Join(a)
  BY <1>7 DEF Join, Goto
<1> QED
  BY <1>1, <1>2, <1>3, <1>4, <1>5, <1>6, <1>7

-----------------------------------------------------------------------------
(* Queues.                                                                 *)

\* What the queue holds without its first element, and with one more.
LEMMA TailElements ==
  ASSUME NEW S, NEW s \in Seq(S), s # <<>>
  PROVE  /\ Head(s) \in S /\ Tail(s) \in Seq(S)
         /\ Len(s) \in Nat /\ 1 \in 1 .. Len(s) /\ Head(s) = s[1] /\ Len(Tail(s)) = Len(s) - 1
         /\ \A i \in 1 .. Len(Tail(s)) : Tail(s)[i] = s[i + 1] /\ i + 1 \in 1 .. Len(s)
         /\ \A x : Contains(s, x) <=> x = Head(s) \/ Contains(Tail(s), x)
<1>1. /\ Head(s) \in S /\ Tail(s) \in Seq(S) /\ Len(Tail(s)) = Len(s) - 1
      /\ \A i \in 1 .. Len(Tail(s)) : Tail(s)[i] = s[i + 1]
  BY HeadTailProperties
<1>2. Len(s) \in Nat /\ 1 \in 1 .. Len(s) /\ Head(s) = s[1]
  BY EmptySeq
<1>3. \A i \in 1 .. Len(Tail(s)) : i + 1 \in 1 .. Len(s)
  BY <1>1, <1>2
<1>4. ASSUME NEW x
      PROVE  Contains(s, x) <=> x = Head(s) \/ Contains(Tail(s), x)
  <2>1. ASSUME Contains(s, x)
        PROVE  x = Head(s) \/ Contains(Tail(s), x)
    <3>1. PICK i \in 1 .. Len(s) : s[i] = x
      BY <2>1 DEF Contains
    <3>2. i # 1 => i - 1 \in 1 .. Len(Tail(s)) /\ Tail(s)[i - 1] = x
      BY <1>1, <1>2, <3>1
    <3> QED
      BY <1>2, <3>1, <3>2 DEF Contains
  <2>2. x = Head(s) => Contains(s, x)
    BY <1>2 DEF Contains
  <2>3. Contains(Tail(s), x) => Contains(s, x)
    BY <1>1, <1>3 DEF Contains
  <2> QED
    BY <2>1, <2>2, <2>3
<1> QED
  BY <1>1, <1>2, <1>3, <1>4

LEMMA AppendElements ==
  ASSUME NEW S, NEW s \in Seq(S), NEW e \in S
  PROVE  /\ Append(s, e) \in Seq(S)
         /\ Len(s) \in Nat /\ Len(Append(s, e)) = Len(s) + 1
         /\ \A i \in 1 .. Len(s) : Append(s, e)[i] = s[i]
         /\ Append(s, e)[Len(s) + 1] = e
         /\ \A x : Contains(Append(s, e), x) <=> x = e \/ Contains(s, x)
<1>1. /\ Append(s, e) \in Seq(S) /\ Len(s) \in Nat /\ Len(Append(s, e)) = Len(s) + 1
      /\ \A i \in 1 .. Len(s) : Append(s, e)[i] = s[i]
      /\ Append(s, e)[Len(s) + 1] = e
  BY AppendProperties, LenProperties
<1>2. \A x : Contains(Append(s, e), x) <=> x = e \/ Contains(s, x)
  BY <1>1 DEF Contains
<1> QED
  BY <1>1, <1>2

\* Nothing is queued twice.
LEMMA DistinctTail ==
  ASSUME NEW S, NEW s \in Seq(S), s # <<>>, Distinct(s)
  PROVE  Distinct(Tail(s)) /\ ~Contains(Tail(s), Head(s))
<1>1. Distinct(Tail(s))
  BY TailElements DEF Distinct
<1>2. ASSUME NEW i \in 1 .. Len(Tail(s)), Tail(s)[i] = Head(s)
      PROVE  FALSE
  <2>1. s[i + 1] = s[1] /\ i + 1 \in 1 .. Len(s) /\ 1 \in 1 .. Len(s)
    BY <1>2, TailElements
  <2>2. i + 1 = 1
    BY <2>1 DEF Distinct
  <2> QED
    BY <2>2
<1> QED
  BY <1>1, <1>2 DEF Contains

LEMMA DistinctAppend ==
  ASSUME NEW S, NEW s \in Seq(S), NEW e \in S, Distinct(s), ~Contains(s, e)
  PROVE  Distinct(Append(s, e))
BY AppendElements DEF Distinct, Contains

\* The queue is in the order of what its slots hold.
LEMMA SortedTail ==
  ASSUME NEW S, NEW s \in Seq(S), s # <<>>, NEW c, Sorted(s, c)
  PROVE  Sorted(Tail(s), c) /\ \A x : Contains(Tail(s), x) => c[Head(s)] <= c[x]
<1>1. Sorted(Tail(s), c)
  BY TailElements DEF Sorted
<1>2. ASSUME NEW i \in 1 .. Len(Tail(s))
      PROVE  c[Head(s)] <= c[Tail(s)[i]]
  <2>1. 1 \in 1 .. Len(s) /\ i + 1 \in 1 .. Len(s) /\ 1 <= i + 1
    BY TailElements
  <2>2. Head(s) = s[1] /\ Tail(s)[i] = s[i + 1]
    BY TailElements
  <2> QED
    BY <2>1, <2>2 DEF Sorted
<1> QED
  BY <1>1, <1>2 DEF Contains

LEMMA SortedAppend ==
  ASSUME NEW S, NEW s \in Seq(S), NEW e \in S, NEW c, Sorted(s, c), c[e] \in Nat,
         \A x \in S : Contains(s, x) => c[x] <= c[e]
  PROVE  Sorted(Append(s, e), c)
<1> DEFINE r == Append(s, e)
<1>1. /\ Len(s) \in Nat /\ Len(r) = Len(s) + 1 /\ r[Len(s) + 1] = e
      /\ \A i \in 1 .. Len(s) : r[i] = s[i] /\ s[i] \in S
  BY AppendElements, ElementOfSeq
<1> HIDE DEF r
<1>2. \A i \in 1 .. Len(s) : c[s[i]] <= c[e]
  BY <1>1 DEF Contains
<1>3. ASSUME NEW i \in 1 .. Len(r), NEW j \in 1 .. Len(r), i <= j
      PROVE  c[r[i]] <= c[r[j]]
  <2>1. CASE j \in 1 .. Len(s)
    <3>1. i \in 1 .. Len(s)
      BY <1>3, <2>1
    <3> QED
      BY <1>1, <1>3, <2>1, <3>1 DEF Sorted
  <2>2. CASE j = Len(s) + 1 /\ i \in 1 .. Len(s)
    BY <1>1, <1>2, <2>2
  <2>3. CASE j = Len(s) + 1 /\ i = Len(s) + 1
    BY <1>1, <2>3
  <2> QED
    BY <1>1, <1>3, <2>1, <2>2, <2>3
<1> QED
  BY <1>3 DEF Sorted, r

LEMMA SortedAgree ==
  ASSUME NEW s, NEW c, NEW d, Sorted(s, c), \A x : Contains(s, x) => d[x] = c[x]
  PROVE  Sorted(s, d)
BY DEF Sorted, Contains

-----------------------------------------------------------------------------
(* Slots.                                                                  *)

\* A slot is in one of the four places, and the record of them says in which.
LEMMA OneOwnerEach == SlotHasOneOwner <=> OwnerInv
<1>1. ASSUME NEW p \in Pipes, NEW s \in Slots
      PROVE  (/\ \A a, b \in {o \in DOMAIN Owners(p, s) : Owners(p, s)[o]} : a = b
              /\ Over(p) \/ {o \in DOMAIN Owners(p, s) : Owners(p, s)[o]} # {})
             <=> OneOwner(p, s)
  <2> DEFINE f == s \in free[p]
             q == Contains(pending[p], s)
             t == taken[p] = s
             w == pipe["gl"] = p /\ slot = s /\ pc["gl"] \in {"reading", "push"}
             r == Owners(p, s)
             owners == {o \in DOMAIN r : r[o]}
  <2>1. f \in BOOLEAN /\ q \in BOOLEAN /\ t \in BOOLEAN /\ w \in BOOLEAN
    BY DEF Contains
  <2>2. r = [free |-> f, queued |-> q, taken |-> t, written |-> w]
    BY DEF Owners
  <2>3. OneOwner(p, s) <=> /\ f => ~q /\ ~t /\ ~w
                           /\ q => ~t /\ ~w
                           /\ t => ~w
                           /\ Over(p) \/ f \/ q \/ t \/ w
    BY DEF OneOwner, Writing
  <2> HIDE DEF f, q, t, w, r
  <2>4. DOMAIN r = {"free", "queued", "taken", "written"}
    BY <2>2
  <2>5. /\ "free" \in owners <=> f
        /\ "queued" \in owners <=> q
        /\ "taken" \in owners <=> t
        /\ "written" \in owners <=> w
    BY <2>1, <2>2, <2>4
  <2>6. \A o \in owners : o \in {"free", "queued", "taken", "written"}
    BY <2>4
  <2> HIDE DEF owners
  <2>7. (\A a, b \in owners : a = b) <=> /\ f => ~q /\ ~t /\ ~w
                                         /\ q => ~t /\ ~w
                                         /\ t => ~w
    BY <2>5, <2>6
  <2>8. owners # {} <=> f \/ q \/ t \/ w
    BY <2>5, <2>6
  <2> QED
    BY <2>3, <2>7, <2>8 DEF owners, r
<1> QED
  BY <1>1, Zenon DEF SlotHasOneOwner, OwnerInv

\* A slot whose places do not change stays where it is.
Still(p) ==
  /\ free'[p] = free[p] /\ pending'[p] = pending[p] /\ taken'[p] = taken[p]
  /\ Over(p) => Over(p)'
  /\ Writing(p)' <=> Writing(p)
  /\ Writing(p) => slot' = slot

LEMMA StillOwned ==
  ASSUME OwnerInv, NEW p \in Pipes, Still(p)
  PROVE  \A s \in Slots : OneOwner(p, s)'
<1> SUFFICES ASSUME NEW s \in Slots PROVE OneOwner(p, s)'
  OBVIOUS
<1>1. OneOwner(p, s)
  BY DEF OwnerInv
<1> HIDE DEF OwnerInv
<1>2. Contains(pending'[p], s) <=> Contains(pending[p], s)
  BY DEF Still
<1> QED
  BY <1>1, <1>2 DEF OneOwner, Still

\* What happens to the slots of the pipeline in hand.
LEMMA TakeMoves ==
  ASSUME OInv, NEW p \in Pipes, Take(p), NEW s \in Slots
  PROVE  OneOwner(p, s)'
<1> DEFINE q == pending[p]
<1>1. /\ q \in Seq(Slots) /\ q # <<>> /\ Distinct(q) /\ taken[p] = None /\ OneOwner(p, s)
  BY DEF OInv, PInv, TInv, TypeOK, HandInv, QueueInv, OwnerInv, Take
<1>2. /\ free'[p] = free[p] /\ pending'[p] = Tail(q) /\ taken'[p] = Head(q)
      /\ Over(p)' <=> Over(p)
      /\ Writing(p)' <=> Writing(p)
      /\ slot' = slot
  BY DEF OInv, PInv, TInv, TypeOK, Take, CollectorOnly, actorVars, glVars, Over, Writing
<1>3. /\ Contains(q, s) <=> s = Head(q) \/ Contains(Tail(q), s)
      /\ ~Contains(Tail(q), Head(q))
  BY <1>1, TailElements, DistinctTail
<1> HIDE DEF q
<1>4. OneOwner(p, s) <=>
        /\ s \in free[p] => ~Contains(q, s) /\ taken[p] # s /\ ~(Writing(p) /\ slot = s)
        /\ Contains(q, s) => taken[p] # s /\ ~(Writing(p) /\ slot = s)
        /\ taken[p] = s => ~(Writing(p) /\ slot = s)
        /\ Over(p) \/ s \in free[p] \/ Contains(q, s) \/ taken[p] = s
           \/ (Writing(p) /\ slot = s)
  BY DEF OneOwner, q
<1> QED
  BY <1>1, <1>2, <1>3, <1>4, FrameReadbackAssumption DEF OneOwner, FrameReadbackAssumption

LEMMA FreeSlotMoves ==
  ASSUME OInv, NEW p \in Pipes, FreeSlot(p), NEW s \in Slots
  PROVE  OneOwner(p, s)'
<1>1. taken[p] \in Slots /\ OneOwner(p, s)
  BY DEF OInv, PInv, TInv, HandInv, OwnerInv, FreeSlot
<1>2. /\ free'[p] = free[p] \cup {taken[p]} /\ pending'[p] = pending[p] /\ taken'[p] = None
      /\ Over(p)' <=> Over(p)
      /\ Writing(p)' <=> Writing(p)
      /\ slot' = slot
  BY DEF OInv, PInv, TInv, TypeOK, FreeSlot, CollectorOnly, actorVars, glVars, Over, Writing
<1>3. Contains(pending'[p], s) <=> Contains(pending[p], s)
  BY <1>2
<1> QED
  BY <1>1, <1>2, <1>3, FrameReadbackAssumption DEF OneOwner, FrameReadbackAssumption

LEMMA ReserveMoves ==
  ASSUME OInv, Reserve, NEW p \in Pipes, p = pipe["gl"], NEW s \in Slots
  PROVE  OneOwner(p, s)'
<1>1. /\ p \in Pipes /\ free[p] \subseteq Slots /\ OneOwner(p, s)
      /\ ~Writing(p) /\ pc["gl"] = "reserve"
  BY DEF OInv, PInv, TInv, TypeOK, PointInv, Inside, OwnerInv, Reserve, Writing
<1>2. /\ pending'[p] = pending[p] /\ taken'[p] = taken[p]
      /\ Over(p)' <=> Over(p)
  BY DEF Reserve, Over, collectorVars
<1>3. Contains(pending'[p], s) <=> Contains(pending[p], s)
  BY <1>2
<1>4. CASE LeaveEnqueue /\ UNCHANGED free
  <2>1. ~Writing(p)'
    BY <1>4 DEF LeaveEnqueue, Goto, Writing, OInv, PInv, TInv, TypeOK, Actors
  <2> QED
    BY <1>1, <1>2, <1>3, <1>4, <2>1 DEF OneOwner
<1>5. CASE /\ slot' = IF 0 \in free[p] THEN 0 ELSE 1
           /\ free[p] # {}
           /\ free' = [free EXCEPT ![p] = @ \ {slot'}]
           /\ Goto("gl", "reading") /\ UNCHANGED <<producing, pipe>>
  <2>1. slot' \in free[p] /\ free'[p] = free[p] \ {slot'}
    BY <1>1, <1>5 DEF Slots, OInv, PInv, TInv, TypeOK
  <2>2. Writing(p)'
    BY <1>5 DEF Goto, Writing, OInv, PInv, TInv, TypeOK, Actors
  <2>3. OneOwner(p, slot')
    BY <1>1, <2>1 DEF OInv, OwnerInv
  <2> QED
    BY <1>1, <1>2, <1>3, <2>1, <2>2, <2>3 DEF OneOwner
<1> QED
  BY <1>4, <1>5 DEF Reserve

LEMMA SubmitFailsMoves ==
  ASSUME OInv, SubmitFails, NEW p \in Pipes, p = pipe["gl"], NEW s \in Slots
  PROVE  OneOwner(p, s)'
<1>1. p \in Pipes /\ OneOwner(p, s)
  BY DEF OInv, PInv, TInv, PointInv, OwnerInv, SubmitFails, Inside
<1>2. /\ free'[p] = free[p] /\ pending'[p] = pending[p] /\ taken'[p] = taken[p] /\ Over(p)'
  BY DEF SubmitFails, Over, collectorVars, slotVars
<1>3. Contains(pending'[p], s) <=> Contains(pending[p], s)
  BY <1>2
<1>4. ~Writing(p)'
  BY DEF SubmitFails, LeaveEnqueue, Goto, Writing, OInv, PInv, TInv, TypeOK, Actors
<1> QED
  BY <1>1, <1>2, <1>3, <1>4 DEF OneOwner

LEMMA PushMoves ==
  ASSUME OInv, Push, NEW p \in Pipes, p = pipe["gl"], NEW s \in Slots
  PROVE  OneOwner(p, s)'
<1> DEFINE q == pending[p]
<1>1. /\ p \in Pipes /\ q \in Seq(Slots) /\ slot \in Slots /\ Writing(p) /\ OneOwner(p, s)
  BY DEF OInv, PInv, TInv, TypeOK, PointInv, OwnerInv, Push, Inside, Writing
<1>2. /\ free'[p] = free[p] /\ taken'[p] = taken[p]
      /\ Over(p)' <=> Over(p)
      /\ p \in stopping => Over(p)
      /\ pending'[p] = IF p \in stopping THEN q ELSE Append(q, slot)
  BY <1>1 DEF Push, Over, collectorVars, OInv, PInv, TInv, TypeOK
<1>3. ~Writing(p)'
  BY DEF Push, LeaveEnqueue, Goto, Writing, OInv, PInv, TInv, TypeOK, Actors
<1>4. Contains(Append(q, slot), s) <=> s = slot \/ Contains(q, s)
  BY <1>1, AppendElements
<1>5. OneOwner(p, s) <=>
        /\ s \in free[p] => ~Contains(q, s) /\ taken[p] # s /\ ~(Writing(p) /\ slot = s)
        /\ Contains(q, s) => taken[p] # s /\ ~(Writing(p) /\ slot = s)
        /\ taken[p] = s => ~(Writing(p) /\ slot = s)
        /\ Over(p) \/ s \in free[p] \/ Contains(q, s) \/ taken[p] = s
           \/ (Writing(p) /\ slot = s)
  BY DEF OneOwner
<1> HIDE DEF q
<1>6. CASE p \in stopping
  <2>1. Contains(pending'[p], s) <=> Contains(q, s)
    BY <1>2, <1>6
  <2> QED
    BY <1>1, <1>2, <1>3, <1>5, <1>6, <2>1 DEF OneOwner
<1>7. CASE p \notin stopping
  <2>1. Contains(pending'[p], s) <=> s = slot \/ Contains(q, s)
    BY <1>2, <1>4, <1>7
  <2> QED
    BY <1>1, <1>2, <1>3, <1>5, <2>1 DEF OneOwner
<1> QED
  BY <1>6, <1>7

\* A slot is queued once.
LEMMA CollectorQueue ==
  ASSUME OInv, NEW p \in Pipes, CollectorStep(p)
  PROVE  QueueInv'
<1> USE FrameReadbackAssumption DEF FrameReadbackAssumption, OInv, PInv, TInv, TypeOK, PointInv,
         HandInv, LifeInv, Slots, Actors, Holding, Over, serviceVars, slotVars, collectorVars,
         actorVars, glVars, QueueInv
<1>1. CASE CollectorStarts(p)
  BY <1>1 DEF CollectorStarts, Collector, CollectorOnly
<1>2. CASE Take(p)
  <2>1. Distinct(Tail(pending[p]))
    BY <1>2, DistinctTail DEF Take
  <2>2. ASSUME NEW q \in Pipes
        PROVE  Distinct(pending'[q])
    <3>1. pending'[q] = pending[q] \/ pending'[q] = Tail(pending[p])
      BY <1>2 DEF Take
    <3> QED
      BY <2>1, <3>1, Zenon
  <2> QED
    BY <2>2
<1>3. CASE FencePassed(p)
  BY <1>3 DEF FencePassed, Collector, CollectorOnly
<1>4. CASE NoticeEnd(p)
  BY <1>4 DEF NoticeEnd, Collector, CollectorOnly, Over
<1>5. CASE Copy(p)
  BY <1>5 DEF Copy, Collector, CollectorOnly
<1>6. CASE Deliver(p)
  BY <1>6 DEF Deliver, Collector, CollectorOnly, PublishReadback
<1>7. CASE FreeSlot(p)
  BY <1>7 DEF FreeSlot, Collector, CollectorOnly
<1>8. CASE DeleteBuffers(p)
  BY <1>8 DEF DeleteBuffers, Collector, CollectorOnly
<1> QED
  BY <1>1, <1>2, <1>3, <1>4, <1>5, <1>6, <1>7, <1>8 DEF CollectorStep

LEMMA FirstQueue ==
  ASSUME OInv, Present \/ GiveUp \/ CaptureEpoch \/ PublishFirst \/ Create \/ Install
  PROVE  QueueInv'
<1> USE FrameReadbackAssumption DEF FrameReadbackAssumption, OInv, PInv, TInv, TypeOK, PointInv,
         HandInv, LifeInv, Slots, Actors, Holding, Over, serviceVars, slotVars, collectorVars,
         actorVars, glVars, QueueInv
<1>1. CASE Present
  BY <1>1 DEF Present, Goto
<1>2. CASE GiveUp
  BY <1>2 DEF GiveUp, Goto
<1>3. CASE CaptureEpoch
  BY <1>3 DEF CaptureEpoch, Goto, Number
<1>4. CASE PublishFirst
  BY <1>4 DEF PublishFirst, Goto, PublishReadback
<1>5. CASE Create
  BY <1>5 DEF Create, Goto, Collector
<1>6. CASE Install
  BY <1>6 DEF Install, Goto
<1> QED
  BY <1>1, <1>2, <1>3, <1>4, <1>5, <1>6

LEMMA EnqueueQueue ==
  ASSUME OInv, LockProducer \/ Reserve \/ Submit \/ SubmitFails \/ Push
  PROVE  QueueInv'
<1> USE FrameReadbackAssumption DEF FrameReadbackAssumption, OInv, PInv, TInv, TypeOK, PointInv,
         HandInv, LifeInv, Slots, Actors, Holding, Over, serviceVars, slotVars, collectorVars,
         actorVars, glVars, QueueInv
<1>1. CASE LockProducer
  BY <1>1 DEF LockProducer, Goto
<1>2. CASE Reserve
  BY <1>2 DEF Reserve, Goto, LeaveEnqueue
<1>3. CASE Submit
  BY <1>3 DEF Submit, Goto, Number
<1>4. CASE SubmitFails
  BY <1>4 DEF SubmitFails, Goto, LeaveEnqueue
<1>5. CASE Push
  <2> DEFINE q == pipe["gl"]
  <2>1. q \in Pipes /\ slot \in Slots /\ pending[q] \in Seq(Slots) /\ Distinct(pending[q])
    BY <1>5 DEF Push, Inside
  <2>2. ~Contains(pending[q], slot)
    BY <1>5, <2>1 DEF Push, OwnerInv, OneOwner, Writing
  <2>3. Distinct(Append(pending[q], slot))
    BY <2>1, <2>2, DistinctAppend
  <2>4. ASSUME NEW u \in Pipes
        PROVE  Distinct(pending'[u])
    <3>1. \/ pending' = [pending EXCEPT ![q] = @]
          \/ pending' = [pending EXCEPT ![q] = Append(pending[q], slot)]
      BY <1>5 DEF Push
    <3>2. Distinct(pending[u])
      BY DEF QueueInv
    <3>3. pending'[u] = pending[u] \/ pending'[u] = Append(pending[q], slot)
      <4>1. CASE u = q
        BY <2>1, <3>1, <4>1
      <4>2. CASE u # q
        BY <2>1, <3>1, <4>2
      <4> QED
        BY <4>1, <4>2
    <3> QED
      BY <2>3, <3>2, <3>3, Zenon
  <2> QED
    BY <2>4
<1> QED
  BY <1>1, <1>2, <1>3, <1>4, <1>5

LEMMA ResetQueue ==
  ASSUME OInv, NEW a \in Actors,
         \/ PresentCovered \/ ResetMismatch \/ DrawSoftware \/ CloseSurface
         \/ PublishSoftware \/ Stop(a) \/ Join(a)
  PROVE  QueueInv'
<1> USE FrameReadbackAssumption DEF FrameReadbackAssumption, OInv, PInv, TInv, TypeOK, PointInv,
         HandInv, LifeInv, Slots, Actors, Holding, Over, serviceVars, slotVars, collectorVars,
         actorVars, glVars, QueueInv
<1>1. CASE PresentCovered
  <2>1. ResetDone("gl", "idle")
    BY <1>1, ResetEffect DEF PresentCovered, ActorPoints
  <2> QED
    BY <2>1 DEF ResetDone
<1>2. CASE ResetMismatch
  <2>1. ResetDone("gl", "capture")
    BY <1>2, ResetEffect DEF ResetMismatch, ActorPoints
  <2> QED
    BY <2>1 DEF ResetDone
<1>3. CASE DrawSoftware
  <2>1. ResetDone("host", "draw")
    BY <1>3, ResetEffect DEF DrawSoftware, ActorPoints
  <2> QED
    BY <2>1 DEF ResetDone
<1>4. CASE CloseSurface
  <2>1. ResetDone("host", "idle")
    BY <1>4, ResetEffect DEF CloseSurface, ActorPoints
  <2> QED
    BY <2>1 DEF ResetDone
<1>5. CASE PublishSoftware
  BY <1>5 DEF PublishSoftware, Goto
<1>6. CASE Stop(a)
  BY <1>6 DEF Stop, Goto
<1>7. CASE Join(a)
  BY <1>7 DEF Join, Goto
<1> QED
  BY <1>1, <1>2, <1>3, <1>4, <1>5, <1>6, <1>7

\* A slot is in one place.
LEMMA CollectorOwner ==
  ASSUME OInv, NEW p \in Pipes, CollectorStep(p)
  PROVE  OwnerInv'
<1> USE FrameReadbackAssumption DEF FrameReadbackAssumption, OInv, PInv, TInv, TypeOK, PointInv,
         HandInv, LifeInv, Slots, Actors, Holding, Over, serviceVars, slotVars, collectorVars,
         actorVars, glVars, Still, Writing
<1>1. CASE CollectorStarts(p)
  <2>1. ASSUME NEW q \in Pipes
        PROVE  Still(q)
    BY <1>1 DEF CollectorStarts, Collector, CollectorOnly
  <2> QED
    BY <2>1, StillOwned DEF OwnerInv
<1>2. CASE Take(p)
  <2>1. ASSUME NEW q \in Pipes, q # p
        PROVE  Still(q)
    BY <1>2, <2>1 DEF Take, Collector, CollectorOnly
  <2>2. ASSUME NEW q \in Pipes, q = p, NEW s \in Slots
        PROVE  OneOwner(q, s)'
    BY <1>2, <2>2, TakeMoves
  <2> QED
    BY <2>1, <2>2, StillOwned DEF OwnerInv
<1>3. CASE FencePassed(p)
  <2>1. ASSUME NEW q \in Pipes
        PROVE  Still(q)
    BY <1>3 DEF FencePassed, Collector, CollectorOnly
  <2> QED
    BY <2>1, StillOwned DEF OwnerInv
<1>4. CASE NoticeEnd(p)
  <2>1. ASSUME NEW q \in Pipes
        PROVE  Still(q)
    BY <1>4 DEF NoticeEnd, Collector, CollectorOnly, Over
  <2> QED
    BY <2>1, StillOwned DEF OwnerInv
<1>5. CASE Copy(p)
  <2>1. ASSUME NEW q \in Pipes
        PROVE  Still(q)
    BY <1>5 DEF Copy, Collector, CollectorOnly
  <2> QED
    BY <2>1, StillOwned DEF OwnerInv
<1>6. CASE Deliver(p)
  <2>1. ASSUME NEW q \in Pipes
        PROVE  Still(q)
    BY <1>6 DEF Deliver, Collector, CollectorOnly, PublishReadback
  <2> QED
    BY <2>1, StillOwned DEF OwnerInv
<1>7. CASE FreeSlot(p)
  <2>1. ASSUME NEW q \in Pipes, q # p
        PROVE  Still(q)
    BY <1>7, <2>1 DEF FreeSlot, Collector, CollectorOnly
  <2>2. ASSUME NEW q \in Pipes, q = p, NEW s \in Slots
        PROVE  OneOwner(q, s)'
    BY <1>7, <2>2, FreeSlotMoves
  <2> QED
    BY <2>1, <2>2, StillOwned DEF OwnerInv
<1>8. CASE DeleteBuffers(p)
  <2>1. ASSUME NEW q \in Pipes
        PROVE  Still(q)
    BY <1>8 DEF DeleteBuffers, Collector, CollectorOnly
  <2> QED
    BY <2>1, StillOwned DEF OwnerInv
<1> QED
  BY <1>1, <1>2, <1>3, <1>4, <1>5, <1>6, <1>7, <1>8 DEF CollectorStep

LEMMA FirstOwner ==
  ASSUME OInv, Present \/ GiveUp \/ CaptureEpoch \/ PublishFirst \/ Create \/ Install
  PROVE  OwnerInv'
<1> USE FrameReadbackAssumption DEF FrameReadbackAssumption, OInv, PInv, TInv, TypeOK, PointInv,
         HandInv, LifeInv, Slots, Actors, Holding, Over, serviceVars, slotVars, collectorVars,
         actorVars, glVars, Still, Writing
<1>1. CASE Present
  <2>1. ASSUME NEW q \in Pipes
        PROVE  Still(q)
    BY <1>1 DEF Present, Goto
  <2> QED
    BY <2>1, StillOwned DEF OwnerInv
<1>2. CASE GiveUp
  <2>1. ASSUME NEW q \in Pipes
        PROVE  Still(q)
    BY <1>2 DEF GiveUp, Goto
  <2> QED
    BY <2>1, StillOwned DEF OwnerInv
<1>3. CASE CaptureEpoch
  <2>1. ASSUME NEW q \in Pipes
        PROVE  Still(q)
    BY <1>3 DEF CaptureEpoch, Goto, Number
  <2> QED
    BY <2>1, StillOwned DEF OwnerInv
<1>4. CASE PublishFirst
  <2>1. ASSUME NEW q \in Pipes
        PROVE  Still(q)
    BY <1>4 DEF PublishFirst, Goto, PublishReadback
  <2> QED
    BY <2>1, StillOwned DEF OwnerInv
<1>5. CASE Create
  <2>1. ASSUME NEW q \in Pipes
        PROVE  Still(q)
    BY <1>5 DEF Create, Goto, Collector
  <2> QED
    BY <2>1, StillOwned DEF OwnerInv
<1>6. CASE Install
  <2>1. ASSUME NEW q \in Pipes
        PROVE  Still(q)
    BY <1>6 DEF Install, Goto
  <2> QED
    BY <2>1, StillOwned DEF OwnerInv
<1> QED
  BY <1>1, <1>2, <1>3, <1>4, <1>5, <1>6

LEMMA EnqueueOwner ==
  ASSUME OInv, LockProducer \/ Reserve \/ Submit \/ SubmitFails \/ Push
  PROVE  OwnerInv'
<1> USE FrameReadbackAssumption DEF FrameReadbackAssumption, OInv, PInv, TInv, TypeOK, PointInv,
         HandInv, LifeInv, Slots, Actors, Holding, Over, serviceVars, slotVars, collectorVars,
         actorVars, glVars, Still, Writing
<1>1. CASE LockProducer
  <2>1. ASSUME NEW q \in Pipes
        PROVE  Still(q)
    BY <1>1 DEF LockProducer, Goto
  <2> QED
    BY <2>1, StillOwned DEF OwnerInv
<1>2. CASE Reserve
  <2>1. ASSUME NEW q \in Pipes, q # pipe["gl"]
        PROVE  Still(q)
    BY <1>2, <2>1 DEF Reserve, Goto, LeaveEnqueue
  <2>2. ASSUME NEW q \in Pipes, q = pipe["gl"], NEW s \in Slots
        PROVE  OneOwner(q, s)'
    BY SMTT(20), <1>2, <2>2, ReserveMoves
  <2> QED
    BY <2>1, <2>2, StillOwned DEF OwnerInv
<1>3. CASE Submit
  <2>1. ASSUME NEW q \in Pipes
        PROVE  Still(q)
    BY <1>3 DEF Submit, Goto, Number
  <2> QED
    BY <2>1, StillOwned DEF OwnerInv
<1>4. CASE SubmitFails
  <2>1. ASSUME NEW q \in Pipes, q # pipe["gl"]
        PROVE  Still(q)
    BY <1>4, <2>1 DEF SubmitFails, Goto, LeaveEnqueue
  <2>2. ASSUME NEW q \in Pipes, q = pipe["gl"], NEW s \in Slots
        PROVE  OneOwner(q, s)'
    BY SMTT(20), <1>4, <2>2, SubmitFailsMoves
  <2> QED
    BY <2>1, <2>2, StillOwned DEF OwnerInv
<1>5. CASE Push
  <2>1. ASSUME NEW q \in Pipes, q # pipe["gl"]
        PROVE  Still(q)
    BY <1>5, <2>1 DEF Push, Goto, LeaveEnqueue
  <2>2. ASSUME NEW q \in Pipes, q = pipe["gl"], NEW s \in Slots
        PROVE  OneOwner(q, s)'
    BY SMTT(20), <1>5, <2>2, PushMoves
  <2> QED
    BY <2>1, <2>2, StillOwned DEF OwnerInv
<1> QED
  BY <1>1, <1>2, <1>3, <1>4, <1>5

LEMMA ResetOwner ==
  ASSUME OInv, NEW a \in Actors,
         \/ PresentCovered \/ ResetMismatch \/ DrawSoftware \/ CloseSurface
         \/ PublishSoftware \/ Stop(a) \/ Join(a)
  PROVE  OwnerInv'
<1> USE FrameReadbackAssumption DEF FrameReadbackAssumption, OInv, PInv, TInv, TypeOK, PointInv,
         HandInv, LifeInv, Slots, Actors, Holding, Over, serviceVars, slotVars, collectorVars,
         actorVars, glVars, Still, Writing
<1>1. CASE PresentCovered
  <2>1. ResetDone("gl", "idle")
    BY <1>1, ResetEffect DEF PresentCovered, ActorPoints
  <2>2. ASSUME NEW q \in Pipes
        PROVE  Still(q)
    BY <1>1, <2>1 DEF PresentCovered, ResetDone
  <2> QED
    BY <2>2, StillOwned DEF OwnerInv
<1>2. CASE ResetMismatch
  <2>1. ResetDone("gl", "capture")
    BY <1>2, ResetEffect DEF ResetMismatch, ActorPoints
  <2>2. ASSUME NEW q \in Pipes
        PROVE  Still(q)
    BY <1>2, <2>1 DEF ResetMismatch, ResetDone
  <2> QED
    BY <2>2, StillOwned DEF OwnerInv
<1>3. CASE DrawSoftware
  <2>1. ResetDone("host", "draw")
    BY <1>3, ResetEffect DEF DrawSoftware, ActorPoints
  <2>2. ASSUME NEW q \in Pipes
        PROVE  Still(q)
    BY <1>3, <2>1 DEF DrawSoftware, ResetDone
  <2> QED
    BY <2>2, StillOwned DEF OwnerInv
<1>4. CASE CloseSurface
  <2>1. ResetDone("host", "idle")
    BY <1>4, ResetEffect DEF CloseSurface, ActorPoints
  <2>2. ASSUME NEW q \in Pipes
        PROVE  Still(q)
    BY <1>4, <2>1 DEF CloseSurface, ResetDone
  <2> QED
    BY <2>2, StillOwned DEF OwnerInv
<1>5. CASE PublishSoftware
  <2>1. ASSUME NEW q \in Pipes
        PROVE  Still(q)
    BY <1>5 DEF PublishSoftware, Goto
  <2> QED
    BY <2>1, StillOwned DEF OwnerInv
<1>6. CASE Stop(a)
  <2>1. ASSUME NEW q \in Pipes
        PROVE  Still(q)
    BY <1>6 DEF Stop, Goto
  <2> QED
    BY <2>1, StillOwned DEF OwnerInv
<1>7. CASE Join(a)
  <2>1. ASSUME NEW q \in Pipes
        PROVE  Still(q)
    BY <1>7 DEF Join, Goto
  <2> QED
    BY <2>1, StillOwned DEF OwnerInv
<1> QED
  BY <1>1, <1>2, <1>3, <1>4, <1>5, <1>6, <1>7

-----------------------------------------------------------------------------
(* The order of the frames.                                                *)

\* The number of a frame is new.
LEMMA NumberEffect ==
  ASSUME TypeOK, NEW a \in Actors, Number(a)
  PROVE  /\ frames \in Nat /\ frames' = frames + 1
         /\ frame'[a] = frames + 1 /\ \A b \in Actors \ {a} : frame'[b] = frame[b]
         /\ \A b \in Actors : frame[b] \in Nat
BY FrameReadbackAssumption DEF TypeOK, Number, FrameReadbackAssumption

\* What is counted is a natural number.
LEMMA Numbers ==
  ASSUME TypeOK
  PROVE  /\ epoch \in Nat /\ frames \in Nat /\ seen \in Nat /\ latest.n \in Nat
         /\ \A a \in Actors : frame[a] \in Nat
         /\ \A p \in Pipes : born[p] \in Nat /\ pixels[p] \in Nat
         /\ \A p \in Pipes, s \in Slots : content[p][s] \in Nat
BY FrameReadbackAssumption DEF TypeOK, FrameReadbackAssumption

\* A new frame is the newest.
LEMMA NumberKeepsBounds ==
  ASSUME TypeOK, BoundInv, frames' = frames + 1, epoch' \in {epoch, epoch + 1}, seen' \in {seen, epoch},
         UNCHANGED <<latest, born>>,
         \A a \in Actors : frame'[a] \in {frame[a], frames + 1},
         \A p \in Pipes, s \in Slots : content'[p][s] \in {content[p][s], frames + 1}
  PROVE  BoundInv'
<1>1. seen' <= epoch' /\ latest'.n <= frames'
  BY Numbers DEF BoundInv
<1>2. \A a \in Actors : frame'[a] <= frames'
  BY Numbers DEF BoundInv
<1>3. \A p \in Pipes : born'[p] <= epoch'
  BY Numbers DEF BoundInv
<1>4. \A p \in Pipes, s \in Slots : content'[p][s] <= frames'
  BY Numbers DEF BoundInv
<1> QED
  BY <1>1, <1>2, <1>3, <1>4 DEF BoundInv

\* The new frame is in the slot of the GL thread, and nowhere else.
LEMMA SubmitEffect ==
  ASSUME RInv, Submit
  PROVE  /\ frames \in Nat /\ frames' = frames + 1 /\ pipe["gl"] \in Pipes /\ slot \in Slots
         /\ content'[pipe["gl"]] \in [Slots -> Nat]
         /\ content'[pipe["gl"]][slot] = frames + 1
         /\ \A s \in Slots \ {slot} : content'[pipe["gl"]][s] = content[pipe["gl"]][s]
         /\ \A p \in Pipes \ {pipe["gl"]} : content'[p] = content[p]
<1> DEFINE q == pipe["gl"]
<1>1. TypeOK /\ q \in Pipes /\ slot \in Slots
  BY DEF RInv, OInv, PInv, TInv, PointInv, Submit, Inside
<1>2. frames \in Nat /\ frames' = frames + 1
  BY <1>1, NumberEffect DEF Submit, Actors
<1>3. content[q] \in [Slots -> Nat] /\ content \in [Pipes -> [Slots -> 0 .. MaxFrames]]
  BY <1>1 DEF TypeOK
<1>4. content' = [content EXCEPT ![q] = [content[q] EXCEPT ![slot] = frames + 1]]
  BY <1>1 DEF Submit
<1>5. content'[q] = [content[q] EXCEPT ![slot] = frames + 1]
  BY <1>1, <1>3, <1>4
<1>6. \A p \in Pipes \ {q} : content'[p] = content[p]
  BY <1>3, <1>4
<1>7. [content[q] EXCEPT ![slot] = frames + 1] \in [Slots -> Nat]
  BY <1>1, <1>2, <1>3
<1>8. /\ content'[q] \in [Slots -> Nat] /\ content'[q][slot] = frames + 1
      /\ \A s \in Slots \ {slot} : content'[q][s] = content[q][s]
  BY <1>1, <1>3, <1>5, <1>7
<1> QED
  BY <1>1, <1>2, <1>6, <1>8

\* Numbers and epochs only grow.
LEMMA CollectorBound ==
  ASSUME RInv, NEW p \in Pipes, CollectorStep(p)
  PROVE  BoundInv'
<1> USE FrameReadbackAssumption DEF FrameReadbackAssumption, RInv, OInv, PInv, TInv, TypeOK,
         PointInv, HandInv, Slots, Actors, Holding, BoundInv, serviceVars, slotVars, collectorVars,
         actorVars, glVars
<1>1. CASE CollectorStarts(p)
  BY <1>1 DEF CollectorStarts, Collector, CollectorOnly
<1>2. CASE Take(p)
  BY <1>2 DEF Take, Collector, CollectorOnly
<1>3. CASE FencePassed(p)
  BY <1>3 DEF FencePassed, Collector, CollectorOnly
<1>4. CASE NoticeEnd(p)
  BY <1>4 DEF NoticeEnd, Collector, CollectorOnly, Over
<1>5. CASE Copy(p)
  BY <1>5 DEF Copy, Collector, CollectorOnly
<1>6. CASE Deliver(p)
  <2>1. pixels[p] = content[p][taken[p]] /\ content[p][taken[p]] <= frames
    BY <1>6, HandTaken DEF Deliver, OrderInv, Ordered
  <2>2. latest'.n = pixels[p] \/ latest' = latest
    BY <1>6 DEF Deliver, PublishReadback
  <2> QED
    BY <1>6, <2>1, <2>2 DEF Deliver, CollectorOnly
<1>7. CASE FreeSlot(p)
  BY <1>7 DEF FreeSlot, Collector, CollectorOnly
<1>8. CASE DeleteBuffers(p)
  BY <1>8 DEF DeleteBuffers, Collector, CollectorOnly
<1> QED
  BY <1>1, <1>2, <1>3, <1>4, <1>5, <1>6, <1>7, <1>8 DEF CollectorStep

LEMMA FirstBound ==
  ASSUME RInv, Present \/ GiveUp \/ CaptureEpoch \/ PublishFirst \/ Create \/ Install
  PROVE  BoundInv'
<1> USE FrameReadbackAssumption DEF FrameReadbackAssumption, RInv, OInv, PInv, TInv, TypeOK,
         PointInv, HandInv, Slots, Actors, Holding, BoundInv, serviceVars, slotVars, collectorVars,
         actorVars, glVars
<1>1. CASE Present
  BY <1>1 DEF Present, Goto
<1>2. CASE GiveUp
  BY <1>2 DEF GiveUp, Goto
<1>3. CASE CaptureEpoch
  <2>1. /\ frames \in Nat /\ frames' = frames + 1
        /\ frame'["gl"] = frames + 1 /\ frame'["host"] = frame["host"]
    BY <1>3, NumberEffect DEF CaptureEpoch
  <2>2. seen' = epoch /\ UNCHANGED <<epoch, latest, born, content>>
    BY <1>3 DEF CaptureEpoch
  <2> HIDE DEF RInv, OInv, PInv, TInv, TypeOK, BoundInv, Slots, Actors
  <2>3. TypeOK /\ BoundInv /\ epoch' \in {epoch, epoch + 1} /\ seen' \in {seen, epoch}
    BY <2>2 DEF RInv, OInv, PInv, TInv
  <2>4. \A a \in Actors : frame'[a] \in {frame[a], frames + 1}
    BY <2>1 DEF Actors
  <2> QED
    BY <2>1, <2>2, <2>3, <2>4, NumberKeepsBounds
<1>4. CASE PublishFirst
  BY <1>4 DEF PublishFirst, Goto, PublishReadback
<1>5. CASE Create
  BY <1>5 DEF Create, Goto, Collector
<1>6. CASE Install
  BY <1>6 DEF Install, Goto
<1> QED
  BY <1>1, <1>2, <1>3, <1>4, <1>5, <1>6

LEMMA EnqueueBound ==
  ASSUME RInv, LockProducer \/ Reserve \/ Submit \/ SubmitFails \/ Push
  PROVE  BoundInv'
<1> USE FrameReadbackAssumption DEF FrameReadbackAssumption, RInv, OInv, PInv, TInv, TypeOK,
         PointInv, HandInv, Slots, Actors, Holding, BoundInv, serviceVars, slotVars, collectorVars,
         actorVars, glVars
<1>1. CASE LockProducer
  BY <1>1 DEF LockProducer, Goto
<1>2. CASE Reserve
  BY <1>2 DEF Reserve, Goto, LeaveEnqueue
<1>3. CASE Submit
  <2>1. /\ frames \in Nat /\ frames' = frames + 1
        /\ frame'["gl"] = frames + 1 /\ frame'["host"] = frame["host"]
    BY <1>3, NumberEffect DEF Submit
  <2>2. UNCHANGED <<seen, epoch, latest, born>>
    BY <1>3 DEF Submit
  <2>3. ASSUME NEW q \in Pipes, NEW s \in Slots
        PROVE  content'[q][s] \in {content[q][s], frames + 1}
    BY <1>3, SubmitEffect
  <2> HIDE DEF RInv, OInv, PInv, TInv, TypeOK, BoundInv, Slots, Actors
  <2>4. TypeOK /\ BoundInv /\ epoch' \in {epoch, epoch + 1} /\ seen' \in {seen, epoch}
    BY <2>2 DEF RInv, OInv, PInv, TInv
  <2>5. \A a \in Actors : frame'[a] \in {frame[a], frames + 1}
    BY <2>1 DEF Actors
  <2> QED
    BY <2>1, <2>2, <2>3, <2>4, <2>5, NumberKeepsBounds
<1>4. CASE SubmitFails
  BY <1>4 DEF SubmitFails, Goto, LeaveEnqueue
<1>5. CASE Push
  BY <1>5 DEF Push, Goto, LeaveEnqueue
<1> QED
  BY <1>1, <1>2, <1>3, <1>4, <1>5

LEMMA ResetBound ==
  ASSUME RInv, NEW a \in Actors,
         \/ PresentCovered \/ ResetMismatch \/ DrawSoftware \/ CloseSurface
         \/ PublishSoftware \/ Stop(a) \/ Join(a)
  PROVE  BoundInv'
<1> USE FrameReadbackAssumption DEF FrameReadbackAssumption, RInv, OInv, PInv, TInv, TypeOK,
         PointInv, HandInv, Slots, Actors, Holding, BoundInv, serviceVars, slotVars, collectorVars,
         actorVars, glVars
<1>1. CASE PresentCovered
  <2>1. ResetDone("gl", "idle")
    BY <1>1, ResetEffect DEF PresentCovered, ActorPoints
  <2> QED
    BY <1>1, <2>1 DEF PresentCovered, ResetDone
<1>2. CASE ResetMismatch
  <2>1. ResetDone("gl", "capture")
    BY <1>2, ResetEffect DEF ResetMismatch, ActorPoints
  <2> QED
    BY <1>2, <2>1 DEF ResetMismatch, ResetDone
<1>3. CASE DrawSoftware
  <2>1. /\ frames \in Nat /\ frames' = frames + 1
        /\ frame'["host"] = frames + 1 /\ frame'["gl"] = frame["gl"]
    BY <1>3, NumberEffect DEF DrawSoftware
  <2>2. epoch' = epoch + 1 /\ UNCHANGED <<seen, latest, born, content>>
    BY <1>3, ResetEffect DEF DrawSoftware, ActorPoints, ResetDone
  <2> HIDE DEF RInv, OInv, PInv, TInv, TypeOK, BoundInv, Slots, Actors
  <2>3. TypeOK /\ BoundInv /\ epoch' \in {epoch, epoch + 1} /\ seen' \in {seen, epoch}
    BY <2>2 DEF RInv, OInv, PInv, TInv
  <2>4. \A c \in Actors : frame'[c] \in {frame[c], frames + 1}
    BY <2>1 DEF Actors
  <2> QED
    BY <2>1, <2>2, <2>3, <2>4, NumberKeepsBounds
<1>4. CASE CloseSurface
  <2>1. ResetDone("host", "idle")
    BY <1>4, ResetEffect DEF CloseSurface, ActorPoints
  <2> QED
    BY <1>4, <2>1 DEF CloseSurface, ResetDone
<1>5. CASE PublishSoftware
  BY <1>5 DEF PublishSoftware, Goto
<1>6. CASE Stop(a)
  BY <1>6 DEF Stop, Goto
<1>7. CASE Join(a)
  BY <1>7 DEF Join, Goto
<1> QED
  BY <1>1, <1>2, <1>3, <1>4, <1>5, <1>6, <1>7

\* What is under way belongs to the installed pipeline or to an older epoch.
LEMMA CollectorFlight ==
  ASSUME RInv, NEW p \in Pipes, CollectorStep(p)
  PROVE  FlightInv'
<1> USE FrameReadbackAssumption DEF FrameReadbackAssumption, RInv, OInv, PInv, TInv, TypeOK,
         PointInv, HandInv, LifeInv, Slots, Actors, Holding, Inside, CurrentInv, BoundInv,
         FlightInv, serviceVars, slotVars, collectorVars, actorVars, glVars
<1>1. CASE CollectorStarts(p)
  BY <1>1 DEF CollectorStarts, Collector, CollectorOnly
<1>2. CASE Take(p)
  BY <1>2 DEF Take, Collector, CollectorOnly
<1>3. CASE FencePassed(p)
  BY <1>3 DEF FencePassed, Collector, CollectorOnly
<1>4. CASE NoticeEnd(p)
  BY <1>4 DEF NoticeEnd, Collector, CollectorOnly, Over
<1>5. CASE Copy(p)
  BY <1>5 DEF Copy, Collector, CollectorOnly
<1>6. CASE Deliver(p)
  BY <1>6 DEF Deliver, Collector, CollectorOnly, PublishReadback
<1>7. CASE FreeSlot(p)
  BY <1>7 DEF FreeSlot, Collector, CollectorOnly
<1>8. CASE DeleteBuffers(p)
  BY <1>8 DEF DeleteBuffers, Collector, CollectorOnly
<1> QED
  BY <1>1, <1>2, <1>3, <1>4, <1>5, <1>6, <1>7, <1>8 DEF CollectorStep

LEMMA FirstFlight ==
  ASSUME RInv, Present \/ GiveUp \/ CaptureEpoch \/ PublishFirst \/ Create \/ Install
  PROVE  FlightInv'
<1> USE FrameReadbackAssumption DEF FrameReadbackAssumption, RInv, OInv, PInv, TInv, TypeOK,
         PointInv, HandInv, LifeInv, Slots, Actors, Holding, Inside, CurrentInv, BoundInv,
         FlightInv, serviceVars, slotVars, collectorVars, actorVars, glVars
<1>1. CASE Present
  BY <1>1 DEF Present, Goto
<1>2. CASE GiveUp
  BY <1>2 DEF GiveUp, Goto
<1>3. CASE CaptureEpoch
  BY <1>3 DEF CaptureEpoch, Goto, Number
<1>4. CASE PublishFirst
  BY <1>4 DEF PublishFirst, Goto, PublishReadback
<1>5. CASE Create
  BY <1>5 DEF Create, Goto, Collector
<1>6. CASE Install
  BY <1>6 DEF Install, Goto
<1> QED
  BY <1>1, <1>2, <1>3, <1>4, <1>5, <1>6

LEMMA EnqueueFlight ==
  ASSUME RInv, LockProducer \/ Reserve \/ Submit \/ SubmitFails \/ Push
  PROVE  FlightInv'
<1> USE FrameReadbackAssumption DEF FrameReadbackAssumption, RInv, OInv, PInv, TInv, TypeOK,
         PointInv, HandInv, LifeInv, Slots, Actors, Holding, Inside, CurrentInv, BoundInv,
         FlightInv, serviceVars, slotVars, collectorVars, actorVars, glVars
<1>1. CASE LockProducer
  BY <1>1 DEF LockProducer, Goto
<1>2. CASE Reserve
  BY <1>2 DEF Reserve, Goto, LeaveEnqueue
<1>3. CASE Submit
  BY <1>3 DEF Submit, Goto, Number
<1>4. CASE SubmitFails
  BY <1>4 DEF SubmitFails, Goto, LeaveEnqueue
<1>5. CASE Push
  BY <1>5 DEF Push, Goto, LeaveEnqueue
<1> QED
  BY <1>1, <1>2, <1>3, <1>4, <1>5

LEMMA ResetFlight ==
  ASSUME RInv, NEW a \in Actors,
         \/ PresentCovered \/ ResetMismatch \/ DrawSoftware \/ CloseSurface
         \/ PublishSoftware \/ Stop(a) \/ Join(a)
  PROVE  FlightInv'
<1> USE FrameReadbackAssumption DEF FrameReadbackAssumption, RInv, OInv, PInv, TInv, TypeOK,
         PointInv, HandInv, LifeInv, Slots, Actors, Holding, Inside, CurrentInv, BoundInv,
         FlightInv, serviceVars, slotVars, collectorVars, actorVars, glVars
<1>1. CASE PresentCovered
  <2>1. ResetDone("gl", "idle")
    BY <1>1, ResetEffect DEF PresentCovered, ActorPoints
  <2> QED
    BY <1>1, <2>1 DEF PresentCovered, ResetDone
<1>2. CASE ResetMismatch
  <2>1. ResetDone("gl", "capture")
    BY <1>2, ResetEffect DEF ResetMismatch, ActorPoints
  <2> QED
    BY <1>2, <2>1 DEF ResetMismatch, ResetDone
<1>3. CASE DrawSoftware
  <2>1. ResetDone("host", "draw")
    BY <1>3, ResetEffect DEF DrawSoftware, ActorPoints
  <2> QED
    BY <1>3, <2>1 DEF DrawSoftware, ResetDone
<1>4. CASE CloseSurface
  <2>1. ResetDone("host", "idle")
    BY <1>4, ResetEffect DEF CloseSurface, ActorPoints
  <2> QED
    BY <1>4, <2>1 DEF CloseSurface, ResetDone
<1>5. CASE PublishSoftware
  BY <1>5 DEF PublishSoftware, Goto
<1>6. CASE Stop(a)
  BY <1>6 DEF Stop, Goto
<1>7. CASE Join(a)
  BY <1>7 DEF Join, Goto
<1> QED
  BY <1>1, <1>2, <1>3, <1>4, <1>5, <1>6, <1>7

-----------------------------------------------------------------------------
(* A step that neither queues nor takes a frame.                           *)

Calm(p) ==
  /\ pending'[p] = pending[p] /\ content'[p] = content[p]
  /\ state'[p] \in Holding => state[p] \in Holding /\ taken'[p] = taken[p]
  /\ state'[p] = "copied" => \/ state[p] = "copied" /\ pixels'[p] = pixels[p]
                            \/ pixels'[p] = content[p][taken[p]]

GlCalm ==
  pc'["gl"] = "push" => pc["gl"] = "push" /\ pipe'["gl"] = pipe["gl"] /\ slot' = slot

ReadCalm ==
  pc'["gl"] = "read" => pc["gl"] = "read" /\ seen' = seen /\ frame'["gl"] = frame["gl"]

\* No slot becomes due, and what is due keeps its frame.
DueCalm(p) ==
  \A s \in Slots : Due(p, s)' => Due(p, s) /\ content'[p][s] = content[p][s]

\* Such a step keeps a pipeline in order.
LEMMA CalmOrder ==
  ASSUME OrderInv, NEW p \in Pipes, Calm(p), GlCalm
  PROVE  Ordered(p)' /\ DueCalm(p)
<1>1. Ordered(p)
  BY DEF OrderInv
<1>2. \A s : Contains(pending'[p], s) <=> Contains(pending[p], s)
  BY DEF Calm
<1>3. ASSUME NEW s, Waiting(p, s)'
      PROVE  Waiting(p, s)
  BY <1>2, <1>3 DEF Waiting, Calm
<1>4. DueCalm(p)
  BY <1>3 DEF Due, DueCalm, Calm, GlCalm
<1>5. Sorted(pending[p], content[p])'
  BY <1>1 DEF Calm, Ordered, Sorted
<1>6. state'[p] = "copied" => pixels'[p] = content'[p][taken'[p]]
  BY <1>1 DEF Calm, Ordered, Holding
<1>7. state'[p] \in Holding =>
        \A s \in Slots : Contains(pending'[p], s) => content'[p][taken'[p]] <= content'[p][s]
  BY <1>1, <1>2 DEF Calm, Ordered
<1>8. pc'["gl"] = "push" /\ pipe'["gl"] = p =>
        \A s \in Slots : Waiting(p, s)' => content'[p][s] <= content'[p][slot']
  BY <1>1, <1>3 DEF Calm, GlCalm, Ordered
<1> QED
  BY <1>4, <1>5, <1>6, <1>7, <1>8 DEF Ordered

\* It keeps what is due as new as it was.
LEMMA CalmFloor ==
  ASSUME \A p \in Pipes : DueCalm(p) /\ born'[p] = born[p], ReadCalm, epoch' = epoch
  PROVE  \A n : Floor(n) => Floor(n)'
<1> SUFFICES ASSUME NEW n, Floor(n) PROVE Floor(n)'
  OBVIOUS
<1>1. pc'["gl"] = "read" /\ seen' = epoch' => n <= frame'["gl"]
  BY DEF Floor, ReadCalm
<1>2. ASSUME NEW p \in Pipes, NEW s \in Slots, born'[p] = epoch', Due(p, s)'
      PROVE  n <= content'[p][s]
  BY <1>2 DEF Floor, DueCalm
<1> QED
  BY <1>1, <1>2 DEF Floor

\* A new epoch asks nothing of what began before it.
LEMMA FreshFloor ==
  ASSUME TypeOK, BoundInv, epoch' = epoch + 1, born' = born, ReadCalm
  PROVE  \A n : Floor(n)'
<1>1. pc'["gl"] = "read" => seen' # epoch'
  BY Numbers DEF ReadCalm, BoundInv
<1>2. \A p \in Pipes : born'[p] # epoch'
  BY Numbers DEF BoundInv
<1> QED
  BY <1>1, <1>2 DEF Floor

\* Most steps are of this kind.
LEMMA CalmStep ==
  ASSUME RInv, \A p \in Pipes : Calm(p), GlCalm, ReadCalm, born' = born,
         \/ epoch' = epoch + 1
         \/ epoch' = epoch /\ {latest'.n, frame'["host"]} \subseteq {latest.n, frame["host"]}
  PROVE  OrderInv' /\ FloorInv'
<1>1. OrderInv /\ TypeOK /\ BoundInv /\ FloorInv
  BY DEF RInv, OInv, PInv, TInv
<1>2. \A p \in Pipes : Ordered(p)' /\ DueCalm(p)
  BY <1>1, CalmOrder
<1>3. OrderInv'
  BY <1>2 DEF OrderInv
<1>4. CASE epoch' = epoch + 1
  BY <1>1, <1>3, <1>4, FreshFloor DEF FloorInv
<1>5. CASE epoch' = epoch /\ {latest'.n, frame'["host"]} \subseteq {latest.n, frame["host"]}
  <2>1. \A n : Floor(n) => Floor(n)'
    BY <1>2, <1>5, CalmFloor
  <2>2. \A n \in {latest'.n, frame'["host"]} : Floor(n)'
    BY <1>1, <1>5, <2>1 DEF FloorInv
  <2> QED
    BY <1>3, <2>2 DEF FloorInv
<1> QED
  BY <1>4, <1>5

-----------------------------------------------------------------------------
(* A step that publishes, captures or moves a frame.                       *)

\* What the collector publishes is the oldest there is.
LEMMA DeliveredIsOldest ==
  ASSUME RInv, NEW p \in Pipes, state[p] = "copied", born[p] = epoch
  PROVE  Floor(pixels[p]) /\ latest.n <= pixels[p]
<1> DEFINE x == content[p][taken[p]]
<1>1. taken[p] \in Slots /\ x \in Nat /\ pixels[p] = x
  BY HandTaken, Numbers DEF RInv, OInv, PInv, TInv, OrderInv, Ordered, Holding
<1>2. p = current
  BY <1>1, FrameReadbackAssumption DEF RInv, FlightInv, FrameReadbackAssumption
<1>3. pc["gl"] # "read"
  BY <1>2, FrameReadbackAssumption DEF RInv, OInv, PInv, CurrentInv, FrameReadbackAssumption
<1>4. ASSUME NEW q \in Pipes, NEW s \in Slots, born[q] = epoch, Due(q, s)
      PROVE  x <= content[q][s]
  <2>1. q = current
    <3>1. pending[q] # <<>> \/ taken[q] # None \/ (pipe["gl"] = q /\ pc["gl"] = "push")
      <4>1. CASE Contains(pending[q], s)
        BY <4>1, EmptySeq DEF Contains
      <4>2. CASE taken[q] = s
        BY <4>2, FrameReadbackAssumption DEF FrameReadbackAssumption
      <4> QED
        BY <1>4, <4>1, <4>2 DEF Due, Waiting
    <3> QED
      BY <1>4, <3>1 DEF RInv, FlightInv, Inside
  <2>2. Ordered(p)
    BY DEF RInv, OrderInv
  <2>3. Waiting(p, taken[p])
    BY DEF Waiting, Holding
  <2> HIDE DEF x
  <2>4. CASE Contains(pending[p], s)
    BY <1>2, <2>1, <2>2, <2>4 DEF Ordered, Holding, x
  <2>5. CASE taken[p] = s
    BY <1>1, <1>2, <2>1, <2>5 DEF x
  <2>6. CASE pc["gl"] = "push" /\ pipe["gl"] = p /\ slot = s
    BY <1>1, <1>2, <2>1, <2>2, <2>3, <2>6 DEF Ordered, x
  <2> QED
    BY <1>2, <1>4, <2>1, <2>4, <2>5, <2>6 DEF Due, Waiting
<1>5. latest.n <= x
  BY <1>1 DEF RInv, FloorInv, Floor, Due, Waiting, Holding
<1> QED
  BY <1>1, <1>3, <1>4, <1>5 DEF Floor

\* Without a pipeline the frame that the GL thread has read is the oldest, for it is
\* the only one.
LEMMA FirstIsOldest ==
  ASSUME RInv, pc["gl"] = "read", seen = epoch
  PROVE  Floor(frame["gl"]) /\ latest.n <= frame["gl"]
<1>1. frame["gl"] \in Nat
  BY Numbers DEF RInv, OInv, PInv, TInv, Actors
<1>2. current = None
  BY DEF RInv, OInv, PInv, CurrentInv
<1>3. ASSUME NEW q \in Pipes, NEW s \in Slots, born[q] = epoch, Due(q, s)
      PROVE  FALSE
  <2>1. pending[q] # <<>> \/ taken[q] # None
    <3>1. CASE Contains(pending[q], s)
      BY <3>1, EmptySeq DEF Contains
    <3>2. CASE taken[q] = s
      BY <3>2, FrameReadbackAssumption DEF FrameReadbackAssumption
    <3> QED
      BY <1>3, <3>1, <3>2 DEF Due, Waiting
  <2> QED
    BY <1>2, <1>3, <2>1, FrameReadbackAssumption DEF RInv, FlightInv, FrameReadbackAssumption
<1>4. latest.n <= frame["gl"]
  BY DEF RInv, FloorInv, Floor
<1> QED
  BY <1>1, <1>3, <1>4 DEF Floor

\* What is published is in order.
LEMMA DeliverOrder ==
  ASSUME RInv, NEW p \in Pipes, Deliver(p)
  PROVE  OrderInv' /\ FloorInv'
<1> USE DEF Deliver, Collector, CollectorOnly, slotVars, actorVars, glVars
<1>1. ASSUME NEW q \in Pipes
      PROVE  Calm(q)
  BY DEF RInv, OInv, PInv, TInv, TypeOK, Calm, Holding
<1>2. GlCalm /\ ReadCalm /\ epoch' = epoch /\ born' = born /\ frame' = frame
  BY DEF GlCalm, ReadCalm
<1>3. \A q \in Pipes : Ordered(q)' /\ DueCalm(q)
  BY <1>1, <1>2, CalmOrder DEF RInv
<1>4. \A n : Floor(n) => Floor(n)'
  BY <1>2, <1>3, CalmFloor
<1>5. latest'.n = latest.n \/ Floor(latest'.n)
  BY DeliveredIsOldest DEF PublishReadback
<1>6. Floor(latest.n) /\ Floor(frame["host"])
  BY DEF RInv, FloorInv
<1>7. \A n \in {latest'.n, frame'["host"]} : Floor(n)
  BY <1>2, <1>5, <1>6
<1> QED
  BY <1>3, <1>4, <1>7 DEF OrderInv, FloorInv

LEMMA PublishFirstOrder ==
  ASSUME RInv, PublishFirst
  PROVE  OrderInv' /\ FloorInv'
<1> USE DEF PublishFirst, Goto, slotVars, collectorVars, glVars
<1>1. ASSUME NEW q \in Pipes
      PROVE  Calm(q)
  BY DEF Calm, Holding
<1>2. GlCalm /\ ReadCalm /\ epoch' = epoch /\ born' = born /\ frame' = frame
  BY DEF GlCalm, ReadCalm, RInv, OInv, PInv, TInv, TypeOK, Actors
<1>3. \A q \in Pipes : Ordered(q)' /\ DueCalm(q)
  BY <1>1, <1>2, CalmOrder DEF RInv
<1>4. \A n : Floor(n) => Floor(n)'
  BY <1>2, <1>3, CalmFloor
<1>5. latest'.n = latest.n \/ Floor(latest'.n)
  BY FirstIsOldest DEF PublishReadback
<1>6. Floor(latest.n) /\ Floor(frame["host"])
  BY DEF RInv, FloorInv
<1>7. \A n \in {latest'.n, frame'["host"]} : Floor(n)
  BY <1>2, <1>5, <1>6
<1> QED
  BY <1>3, <1>4, <1>7 DEF OrderInv, FloorInv

\* The first frame is newer than all that were published.
LEMMA CaptureOrder ==
  ASSUME RInv, CaptureEpoch
  PROVE  OrderInv' /\ FloorInv'
<1> USE DEF CaptureEpoch, Goto, slotVars, collectorVars, serviceVars
<1>1. ASSUME NEW q \in Pipes
      PROVE  Calm(q)
  BY DEF Calm, Holding
<1>2. pc'["gl"] = "read" /\ epoch' = epoch /\ latest' = latest /\ born' = born
  BY DEF RInv, OInv, PInv, TInv, TypeOK, Actors
<1>3. \A q \in Pipes : Ordered(q)' /\ DueCalm(q)
  BY <1>1, <1>2, CalmOrder DEF RInv, GlCalm
<1>4. frames \in Nat /\ frame'["gl"] = frames + 1 /\ frame'["host"] = frame["host"]
  BY NumberEffect DEF RInv, OInv, PInv, TInv, Actors
<1>5. \A n \in {latest.n, frame["host"]} : n <= frames /\ n \in Nat
  BY Numbers DEF RInv, OInv, PInv, TInv, BoundInv, Actors
<1>6. ASSUME NEW n \in {latest'.n, frame'["host"]}
      PROVE  Floor(n)'
  <2>1. Floor(n) /\ n <= frame'["gl"]
    BY <1>2, <1>4, <1>5, <1>6 DEF RInv, FloorInv
  <2> QED
    BY <1>2, <1>3, <2>1 DEF Floor, DueCalm
<1> QED
  BY <1>3, <1>6 DEF OrderInv, FloorInv

\* A new pipeline has no frames.
LEMMA CreateOrder ==
  ASSUME RInv, Create
  PROVE  OrderInv' /\ FloorInv'
<1> USE DEF Create, Goto, slotVars, serviceVars
<1>1. CASE Goto("gl", "idle") /\ UNCHANGED <<state, born, pipe>>
  <2>1. ASSUME NEW q \in Pipes
        PROVE  Calm(q)
    BY <1>1 DEF Calm, Holding
  <2>2. GlCalm /\ ReadCalm /\ epoch' = epoch /\ latest' = latest /\ born' = born /\ frame' = frame
    BY <1>1 DEF GlCalm, ReadCalm, RInv, OInv, PInv, TInv, TypeOK, Actors
  <2> QED
    BY <2>1, <2>2, CalmStep
<1>2. ASSUME NEW p \in Pipes, state[p] = "unused", Collector(p, "starting"),
             born' = [born EXCEPT ![p] = seen], pipe' = [pipe EXCEPT !["gl"] = p],
             Goto("gl", "creating")
      PROVE  OrderInv' /\ FloorInv'
  <2>1. pc'["gl"] = "creating" /\ epoch' = epoch /\ latest' = latest /\ frame' = frame
    BY <1>2 DEF RInv, OInv, PInv, TInv, TypeOK, Actors
  <2>2. ASSUME NEW q \in Pipes
        PROVE  Calm(q)
    BY <1>2 DEF Calm, Holding, Collector, RInv, OInv, PInv, TInv, TypeOK
  <2>3. \A q \in Pipes : Ordered(q)' /\ DueCalm(q)
    BY <2>1, <2>2, CalmOrder DEF RInv, GlCalm
  <2>4. ASSUME NEW s \in Slots
        PROVE  ~Due(p, s)'
    <3>1. pending[p] = <<>>
      BY <1>2 DEF RInv, OInv, PInv, LifeInv
    <3>2. ~Contains(pending'[p], s)
      BY <3>1 DEF Contains
    <3>3. state'[p] = "starting"
      BY <1>2 DEF Collector, RInv, OInv, PInv, TInv, TypeOK
    <3> QED
      BY <2>1, <3>2, <3>3 DEF Due, Waiting, Holding
  <2>5. \A q \in Pipes \ {p} : born'[q] = born[q]
    BY <1>2 DEF RInv, OInv, PInv, TInv, TypeOK
  <2>6. ASSUME NEW n \in {latest'.n, frame'["host"]}
        PROVE  Floor(n)'
    <3>1. Floor(n)
      BY <2>1 DEF RInv, FloorInv
    <3>2. ASSUME NEW q \in Pipes, NEW s \in Slots, born'[q] = epoch', Due(q, s)'
          PROVE  n <= content'[q][s]
      BY <2>1, <2>3, <2>4, <2>5, <3>1, <3>2 DEF Floor, DueCalm
    <3> QED
      BY <2>1, <3>2 DEF Floor
  <2> QED
    BY <2>3, <2>6 DEF OrderInv, FloorInv
<1> QED
  BY <1>1, <1>2

\* What is written into a buffer is newer than all that is queued.
LEMMA SubmitOrder ==
  ASSUME RInv, Submit
  PROVE  OrderInv' /\ FloorInv'
<1> DEFINE c == frames + 1
<1>1. PICK p \in Pipes : p = pipe["gl"]
  BY SubmitEffect
<1>2. /\ frames \in Nat /\ slot \in Slots /\ frames' = c
      /\ content'[p][slot] = c
      /\ \A s \in Slots \ {slot} : content'[p][s] = content[p][s]
      /\ \A q \in Pipes \ {p} : content'[q] = content[q]
  BY <1>1, SubmitEffect
<1>3. /\ pc'["gl"] = "push" /\ pipe' = pipe /\ slot' = slot /\ epoch' = epoch /\ latest' = latest
      /\ born' = born /\ pending' = pending /\ state' = state /\ taken' = taken /\ pixels' = pixels
  BY DEF Submit, Goto, RInv, OInv, PInv, TInv, TypeOK, Actors, serviceVars, collectorVars, glVars
<1>4. frame'["host"] = frame["host"]
  BY NumberEffect DEF Submit, RInv, OInv, PInv, TInv, Actors
<1>5. \A q \in Pipes, s \in Slots : content[q][s] \in Nat /\ content[q][s] <= frames
  BY Numbers DEF RInv, OInv, PInv, TInv, BoundInv
<1>6. ~Contains(pending[p], slot) /\ taken[p] # slot /\ pending[p] \in Seq(Slots)
  BY <1>1, <1>2 DEF RInv, OInv, PInv, TInv, TypeOK, OwnerInv, OneOwner, Writing, Submit
<1>7. \A q, s : Waiting(q, s)' <=> Waiting(q, s)
  BY <1>3 DEF Waiting
<1> HIDE DEF c
<1>8. ASSUME NEW q \in Pipes
      PROVE  Ordered(q)'
  <2>1. Ordered(q)
    BY DEF RInv, OrderInv
  <2>2. CASE q # p
    <3>1. content'[q] = content[q] /\ pipe'["gl"] # q
      BY <1>1, <1>2, <1>3, <2>2
    <3>2. Sorted(pending[q], content[q])'
      BY <1>3, <2>1, <3>1 DEF Ordered, Sorted
    <3> QED
      BY <1>3, <2>1, <3>1, <3>2 DEF Ordered
  <2>3. CASE q = p
    <3>1. \A s : Contains(pending[p], s) => content'[p][s] = content[p][s]
      <4>1. ASSUME NEW s, Contains(pending[p], s)
            PROVE  s \in Slots \ {slot}
        BY <1>6, <4>1, ElementOfSeq DEF Contains
      <4> QED
        BY <1>2, <4>1
    <3>2. Sorted(pending[p], content'[p])
      BY <2>1, <2>3, <3>1, SortedAgree DEF Ordered
    <3>3. Sorted(pending[p], content[p])'
      BY <1>3, <3>2 DEF Sorted
    <3>4. state[p] \in Holding => /\ taken[p] \in Slots \ {slot}
                                  /\ content'[p][taken[p]] = content[p][taken[p]]
      BY <1>2, <1>6, HandTaken DEF RInv, OInv, PInv
    <3>5. state'[p] = "copied" => pixels'[p] = content'[p][taken'[p]]
      BY <1>3, <2>1, <2>3, <3>4 DEF Ordered, Holding
    <3>6. state'[p] \in Holding =>
            \A s \in Slots : Contains(pending'[p], s) => content'[p][taken'[p]] <= content'[p][s]
      BY <1>3, <2>1, <2>3, <3>1, <3>4 DEF Ordered
    <3>7. \A s \in Slots : content'[p][s] <= content'[p][slot']
      BY <1>2, <1>3, <1>5 DEF c
    <3> QED
      BY <2>3, <3>3, <3>5, <3>6, <3>7 DEF Ordered
  <2> QED
    BY <2>2, <2>3
<1>9. ASSUME NEW n \in {latest'.n, frame'["host"]}
      PROVE  Floor(n)'
  <2>1. Floor(n) /\ n \in Nat /\ n <= frames
    BY <1>3, <1>4, Numbers DEF RInv, OInv, PInv, TInv, FloorInv, BoundInv, Actors
  <2>2. ASSUME NEW q \in Pipes, NEW s \in Slots, born'[q] = epoch', Due(q, s)'
        PROVE  n <= content'[q][s]
    <3>1. CASE q = p /\ s = slot
      BY <1>2, <2>1, <3>1 DEF c
    <3>2. CASE q # p \/ s # slot
      <4>1. Waiting(q, s) /\ content'[q][s] = content[q][s]
        BY <1>1, <1>2, <1>3, <1>7, <2>2, <3>2 DEF Due
      <4> QED
        BY <1>3, <2>1, <2>2, <4>1 DEF Floor, Due
    <3> QED
      BY <3>1, <3>2
  <2> QED
    BY <1>3, <2>2 DEF Floor
<1> QED
  BY <1>8, <1>9 DEF OrderInv, FloorInv

\* A frame is queued behind those that are.
LEMMA PushOrder ==
  ASSUME RInv, Push
  PROVE  OrderInv' /\ FloorInv'
<1>1. PICK p \in Pipes : p = pipe["gl"]
  BY DEF RInv, OInv, PInv, TInv, PointInv, Push, Inside
<1> DEFINE q == pending[p]
<1>2. /\ pc["gl"] = "push" /\ pc'["gl"] = "idle" /\ epoch' = epoch /\ latest' = latest /\ frame' = frame
      /\ born' = born /\ content' = content /\ state' = state /\ taken' = taken /\ pixels' = pixels
  BY DEF Push, LeaveEnqueue, Goto, RInv, OInv, PInv, TInv, TypeOK, Actors, serviceVars, collectorVars
<1>3. /\ q \in Seq(Slots) /\ slot \in Slots /\ content[p][slot] \in Nat
      /\ \A u \in Pipes \ {p} : pending'[u] = pending[u]
      /\ pending'[p] = q \/ pending'[p] = Append(q, slot)
  BY <1>1, Numbers DEF Push, RInv, OInv, PInv, TInv, TypeOK, PointInv
<1>4. \A x : Contains(Append(q, slot), x) <=> x = slot \/ Contains(q, x)
  BY <1>3, AppendElements
<1>5. \A x : Contains(pending'[p], x) => x = slot \/ Contains(q, x)
  BY <1>3, <1>4
<1>6. ASSUME NEW u \in Pipes, NEW s \in Slots, Due(u, s)'
      PROVE  Due(u, s)
  <2>1. CASE u = p
    BY <1>1, <1>2, <1>5, <1>6, <2>1 DEF Due, Waiting
  <2>2. CASE u # p
    <3>1. Contains(pending'[u], s) <=> Contains(pending[u], s)
      BY <1>3, <2>2
    <3> QED
      BY <1>2, <1>6, <3>1 DEF Due, Waiting
  <2> QED
    BY <2>1, <2>2
<1>7. ASSUME NEW u \in Pipes
      PROVE  Ordered(u)'
  <2>1. Ordered(u)
    BY DEF RInv, OrderInv
  <2>2. CASE u # p
    <3>1. pending'[u] = pending[u]
      BY <1>3, <2>2
    <3>2. Sorted(pending[u], content[u])'
      BY <1>2, <2>1, <3>1 DEF Ordered, Sorted
    <3> QED
      BY <1>2, <2>1, <3>1, <3>2 DEF Ordered
  <2>3. CASE u = p
    <3>1. \A s \in Slots : Waiting(p, s) => content[p][s] <= content[p][slot]
      BY <1>1, <1>2, <2>1, <2>3 DEF Ordered
    <3>2. \A s \in Slots : Contains(q, s) => content[p][s] <= content[p][slot]
      BY <3>1 DEF Waiting
    <3>3. Sorted(q, content[p])
      BY <2>1, <2>3 DEF Ordered
    <3>4. Sorted(Append(q, slot), content[p])
      BY <1>3, <3>2, <3>3, SortedAppend
    <3>5. Sorted(pending'[p], content[p])
      BY <1>3, <3>3, <3>4, Zenon
    <3>6. Sorted(pending[p], content[p])'
      BY <1>2, <3>5 DEF Sorted
    <3>7. state[p] \in Holding => taken[p] \in Slots /\ content[p][taken[p]] <= content[p][slot]
      BY <3>1, HandTaken DEF RInv, OInv, PInv, Waiting
    <3>8. state[p] \in Holding =>
            \A s \in Slots : Contains(pending'[p], s) => content[p][taken[p]] <= content[p][s]
      BY <1>5, <2>1, <2>3, <3>7 DEF Ordered
    <3> QED
      BY <1>2, <2>1, <2>3, <3>6, <3>8 DEF Ordered
  <2> QED
    BY <2>2, <2>3
<1>8. \A u \in Pipes : DueCalm(u)
  BY <1>2, <1>6 DEF DueCalm
<1>9. \A n : Floor(n) => Floor(n)'
  BY <1>2, <1>8, CalmFloor DEF ReadCalm
<1> QED
  BY <1>2, <1>7, <1>9 DEF OrderInv, FloorInv, RInv

\* The collector takes the oldest.
LEMMA TakeOrder ==
  ASSUME RInv, NEW p \in Pipes, Take(p)
  PROVE  OrderInv' /\ FloorInv'
<1> DEFINE q == pending[p]
<1>1. /\ q \in Seq(Slots) /\ q # <<>>
      /\ pending'[p] = Tail(q) /\ taken'[p] = Head(q) /\ state'[p] = "polling"
      /\ \A u \in Pipes \ {p} : pending'[u] = pending[u] /\ taken'[u] = taken[u] /\ state'[u] = state[u]
  BY DEF Take, Collector, RInv, OInv, PInv, TInv, TypeOK
<1>2. /\ pc' = pc /\ pipe' = pipe /\ slot' = slot /\ seen' = seen /\ frame' = frame
      /\ epoch' = epoch /\ latest' = latest /\ born' = born /\ content' = content /\ pixels' = pixels
  BY DEF Take, CollectorOnly, actorVars, glVars
<1>3. /\ Head(q) \in Slots
      /\ \A x : Contains(q, x) <=> x = Head(q) \/ Contains(Tail(q), x)
  BY <1>1, TailElements
<1>4. \A s : Waiting(p, s)' => Waiting(p, s)
  BY <1>1, <1>3 DEF Waiting, Holding
<1>5. ASSUME NEW u \in Pipes
      PROVE  Ordered(u)' /\ DueCalm(u)
  <2>1. Ordered(u)
    BY DEF RInv, OrderInv
  <2>2. CASE u # p
    <3>1. Calm(u)
      BY <1>1, <1>2, <2>2 DEF Calm
    <3> QED
      BY <1>2, <3>1, CalmOrder DEF GlCalm, RInv
  <2>3. CASE u = p
    <3>1. /\ Sorted(Tail(q), content[p])
          /\ \A x : Contains(Tail(q), x) => content[p][Head(q)] <= content[p][x]
      BY <1>1, <2>1, <2>3, SortedTail DEF Ordered
    <3>2. Sorted(pending[p], content[p])'
      BY <1>1, <1>2, <3>1 DEF Sorted
    <3>3. \A s \in Slots : Contains(pending'[p], s) => content'[p][taken'[p]] <= content'[p][s]
      BY <1>1, <1>2, <3>1
    <3>4. pc'["gl"] = "push" /\ pipe'["gl"] = p =>
            \A s \in Slots : Waiting(p, s)' => content'[p][s] <= content'[p][slot']
      BY <1>2, <1>4, <2>1, <2>3 DEF Ordered
    <3>5. Ordered(p)'
      BY <1>1, <3>2, <3>3, <3>4 DEF Ordered
    <3>6. DueCalm(p)
      BY <1>2, <1>4 DEF DueCalm, Due
    <3> QED
      BY <2>3, <3>5, <3>6
  <2> QED
    BY <2>2, <2>3
<1>6. \A n : Floor(n) => Floor(n)'
  BY <1>2, <1>5, CalmFloor DEF ReadCalm
<1> QED
  BY <1>2, <1>5, <1>6 DEF OrderInv, FloorInv, RInv

\* The frames of a pipeline stay in order, above all that was published.
LEMMA CollectorOrder ==
  ASSUME RInv, NEW p \in Pipes, CollectorStep(p)
  PROVE  OrderInv' /\ FloorInv'
<1> USE FrameReadbackAssumption DEF FrameReadbackAssumption, RInv, OInv, PInv, TInv, TypeOK,
         PointInv, HandInv, Slots, Actors, Holding, Calm, GlCalm, ReadCalm, serviceVars, slotVars,
         collectorVars, actorVars, glVars
<1>1. CASE CollectorStarts(p)
  <2>1. ASSUME NEW q \in Pipes
        PROVE  Calm(q)
    BY <1>1 DEF CollectorStarts, Collector, CollectorOnly
  <2>2. GlCalm
    BY <1>1 DEF CollectorStarts, Collector, CollectorOnly
  <2>3. ReadCalm /\ born' = born
    BY <1>1 DEF CollectorStarts, Collector, CollectorOnly
  <2>4. \/ epoch' = epoch + 1
        \/ epoch' = epoch /\ {latest'.n, frame'["host"]} \subseteq {latest.n, frame["host"]}
    BY <1>1 DEF CollectorStarts, Collector, CollectorOnly
  <2> HIDE DEF Calm, GlCalm, ReadCalm, RInv
  <2> QED
    BY <2>1, <2>2, <2>3, <2>4, CalmStep
<1>2. CASE Take(p)
  BY <1>2, TakeOrder, Zenon
<1>3. CASE FencePassed(p)
  <2>1. ASSUME NEW q \in Pipes
        PROVE  Calm(q)
    BY <1>3 DEF FencePassed, Collector, CollectorOnly
  <2>2. GlCalm
    BY <1>3 DEF FencePassed, Collector, CollectorOnly
  <2>3. ReadCalm /\ born' = born
    BY <1>3 DEF FencePassed, Collector, CollectorOnly
  <2>4. \/ epoch' = epoch + 1
        \/ epoch' = epoch /\ {latest'.n, frame'["host"]} \subseteq {latest.n, frame["host"]}
    BY <1>3 DEF FencePassed, Collector, CollectorOnly
  <2> HIDE DEF Calm, GlCalm, ReadCalm, RInv
  <2> QED
    BY <2>1, <2>2, <2>3, <2>4, CalmStep
<1>4. CASE NoticeEnd(p)
  <2>1. ASSUME NEW q \in Pipes
        PROVE  Calm(q)
    BY <1>4 DEF NoticeEnd, Collector, CollectorOnly, Over
  <2>2. GlCalm
    BY <1>4 DEF NoticeEnd, Collector, CollectorOnly, Over
  <2>3. ReadCalm /\ born' = born
    BY <1>4 DEF NoticeEnd, Collector, CollectorOnly, Over
  <2>4. \/ epoch' = epoch + 1
        \/ epoch' = epoch /\ {latest'.n, frame'["host"]} \subseteq {latest.n, frame["host"]}
    BY <1>4 DEF NoticeEnd, Collector, CollectorOnly, Over
  <2> HIDE DEF Calm, GlCalm, ReadCalm, RInv
  <2> QED
    BY <2>1, <2>2, <2>3, <2>4, CalmStep
<1>5. CASE Copy(p)
  <2>1. ASSUME NEW q \in Pipes
        PROVE  Calm(q)
    <3>1. CASE pixels' = [pixels EXCEPT ![p] = content[p][taken[p]]] /\ Collector(p, "copied")
      BY <1>5, <3>1 DEF Copy, Collector
    <3>2. CASE Collector(p, "leaving") /\ UNCHANGED pixels
      BY <1>5, <3>2 DEF Copy, Collector
    <3> QED
      BY <1>5, <3>1, <3>2 DEF Copy
  <2>2. GlCalm
    BY <1>5 DEF Copy, Collector, CollectorOnly
  <2>3. ReadCalm /\ born' = born
    BY <1>5 DEF Copy, Collector, CollectorOnly
  <2>4. \/ epoch' = epoch + 1
        \/ epoch' = epoch /\ {latest'.n, frame'["host"]} \subseteq {latest.n, frame["host"]}
    BY <1>5 DEF Copy, Collector, CollectorOnly
  <2> HIDE DEF Calm, GlCalm, ReadCalm, RInv
  <2> QED
    BY <2>1, <2>2, <2>3, <2>4, CalmStep
<1>6. CASE Deliver(p)
  BY <1>6, DeliverOrder, Zenon
<1>7. CASE FreeSlot(p)
  <2>1. ASSUME NEW q \in Pipes
        PROVE  Calm(q)
    BY <1>7 DEF FreeSlot, Collector, CollectorOnly
  <2>2. GlCalm
    BY <1>7 DEF FreeSlot, Collector, CollectorOnly
  <2>3. ReadCalm /\ born' = born
    BY <1>7 DEF FreeSlot, Collector, CollectorOnly
  <2>4. \/ epoch' = epoch + 1
        \/ epoch' = epoch /\ {latest'.n, frame'["host"]} \subseteq {latest.n, frame["host"]}
    BY <1>7 DEF FreeSlot, Collector, CollectorOnly
  <2> HIDE DEF Calm, GlCalm, ReadCalm, RInv
  <2> QED
    BY <2>1, <2>2, <2>3, <2>4, CalmStep
<1>8. CASE DeleteBuffers(p)
  <2>1. ASSUME NEW q \in Pipes
        PROVE  Calm(q)
    BY <1>8 DEF DeleteBuffers, Collector, CollectorOnly
  <2>2. GlCalm
    BY <1>8 DEF DeleteBuffers, Collector, CollectorOnly
  <2>3. ReadCalm /\ born' = born
    BY <1>8 DEF DeleteBuffers, Collector, CollectorOnly
  <2>4. \/ epoch' = epoch + 1
        \/ epoch' = epoch /\ {latest'.n, frame'["host"]} \subseteq {latest.n, frame["host"]}
    BY <1>8 DEF DeleteBuffers, Collector, CollectorOnly
  <2> HIDE DEF Calm, GlCalm, ReadCalm, RInv
  <2> QED
    BY <2>1, <2>2, <2>3, <2>4, CalmStep
<1> QED
  BY <1>1, <1>2, <1>3, <1>4, <1>5, <1>6, <1>7, <1>8 DEF CollectorStep

LEMMA FirstOrder ==
  ASSUME RInv, Present \/ GiveUp \/ CaptureEpoch \/ PublishFirst \/ Create \/ Install
  PROVE  OrderInv' /\ FloorInv'
<1> USE FrameReadbackAssumption DEF FrameReadbackAssumption, RInv, OInv, PInv, TInv, TypeOK,
         PointInv, HandInv, Slots, Actors, Holding, Calm, GlCalm, ReadCalm, serviceVars, slotVars,
         collectorVars, actorVars, glVars
<1>1. CASE Present
  <2>1. ASSUME NEW q \in Pipes
        PROVE  Calm(q)
    BY <1>1 DEF Present, Goto
  <2>2. GlCalm
    BY <1>1 DEF Present, Goto
  <2>3. ReadCalm /\ born' = born
    BY <1>1 DEF Present, Goto
  <2>4. \/ epoch' = epoch + 1
        \/ epoch' = epoch /\ {latest'.n, frame'["host"]} \subseteq {latest.n, frame["host"]}
    BY <1>1 DEF Present, Goto
  <2> HIDE DEF Calm, GlCalm, ReadCalm, RInv
  <2> QED
    BY <2>1, <2>2, <2>3, <2>4, CalmStep
<1>2. CASE GiveUp
  <2>1. ASSUME NEW q \in Pipes
        PROVE  Calm(q)
    BY <1>2 DEF GiveUp, Goto
  <2>2. GlCalm
    BY <1>2 DEF GiveUp, Goto
  <2>3. ReadCalm /\ born' = born
    BY <1>2 DEF GiveUp, Goto
  <2>4. \/ epoch' = epoch + 1
        \/ epoch' = epoch /\ {latest'.n, frame'["host"]} \subseteq {latest.n, frame["host"]}
    BY <1>2 DEF GiveUp, Goto
  <2> HIDE DEF Calm, GlCalm, ReadCalm, RInv
  <2> QED
    BY <2>1, <2>2, <2>3, <2>4, CalmStep
<1>3. CASE CaptureEpoch
  BY <1>3, CaptureOrder, Zenon
<1>4. CASE PublishFirst
  BY <1>4, PublishFirstOrder, Zenon
<1>5. CASE Create
  BY <1>5, CreateOrder, Zenon
<1>6. CASE Install
  <2>1. ASSUME NEW q \in Pipes
        PROVE  Calm(q)
    BY <1>6 DEF Install, Goto
  <2>2. GlCalm
    BY <1>6 DEF Install, Goto
  <2>3. ReadCalm /\ born' = born
    BY <1>6 DEF Install, Goto
  <2>4. \/ epoch' = epoch + 1
        \/ epoch' = epoch /\ {latest'.n, frame'["host"]} \subseteq {latest.n, frame["host"]}
    BY <1>6 DEF Install, Goto
  <2> HIDE DEF Calm, GlCalm, ReadCalm, RInv
  <2> QED
    BY <2>1, <2>2, <2>3, <2>4, CalmStep
<1> QED
  BY <1>1, <1>2, <1>3, <1>4, <1>5, <1>6

LEMMA EnqueueOrder ==
  ASSUME RInv, LockProducer \/ Reserve \/ Submit \/ SubmitFails \/ Push
  PROVE  OrderInv' /\ FloorInv'
<1> USE FrameReadbackAssumption DEF FrameReadbackAssumption, RInv, OInv, PInv, TInv, TypeOK,
         PointInv, HandInv, Slots, Actors, Holding, Calm, GlCalm, ReadCalm, serviceVars, slotVars,
         collectorVars, actorVars, glVars
<1>1. CASE LockProducer
  <2>1. ASSUME NEW q \in Pipes
        PROVE  Calm(q)
    BY <1>1 DEF LockProducer, Goto
  <2>2. GlCalm
    BY <1>1 DEF LockProducer, Goto
  <2>3. ReadCalm /\ born' = born
    BY <1>1 DEF LockProducer, Goto
  <2>4. \/ epoch' = epoch + 1
        \/ epoch' = epoch /\ {latest'.n, frame'["host"]} \subseteq {latest.n, frame["host"]}
    BY <1>1 DEF LockProducer, Goto
  <2> HIDE DEF Calm, GlCalm, ReadCalm, RInv
  <2> QED
    BY <2>1, <2>2, <2>3, <2>4, CalmStep
<1>2. CASE Reserve
  <2>1. ASSUME NEW q \in Pipes
        PROVE  Calm(q)
    BY <1>2 DEF Reserve, Goto, LeaveEnqueue
  <2>2. GlCalm
    BY <1>2 DEF Reserve, Goto, LeaveEnqueue
  <2>3. ReadCalm /\ born' = born
    BY <1>2 DEF Reserve, Goto, LeaveEnqueue
  <2>4. \/ epoch' = epoch + 1
        \/ epoch' = epoch /\ {latest'.n, frame'["host"]} \subseteq {latest.n, frame["host"]}
    BY <1>2 DEF Reserve, Goto, LeaveEnqueue
  <2> HIDE DEF Calm, GlCalm, ReadCalm, RInv
  <2> QED
    BY <2>1, <2>2, <2>3, <2>4, CalmStep
<1>3. CASE Submit
  BY <1>3, SubmitOrder, Zenon
<1>4. CASE SubmitFails
  <2>1. ASSUME NEW q \in Pipes
        PROVE  Calm(q)
    BY <1>4 DEF SubmitFails, Goto, LeaveEnqueue
  <2>2. GlCalm
    BY <1>4 DEF SubmitFails, Goto, LeaveEnqueue
  <2>3. ReadCalm /\ born' = born
    BY <1>4 DEF SubmitFails, Goto, LeaveEnqueue
  <2>4. \/ epoch' = epoch + 1
        \/ epoch' = epoch /\ {latest'.n, frame'["host"]} \subseteq {latest.n, frame["host"]}
    BY <1>4 DEF SubmitFails, Goto, LeaveEnqueue
  <2> HIDE DEF Calm, GlCalm, ReadCalm, RInv
  <2> QED
    BY <2>1, <2>2, <2>3, <2>4, CalmStep
<1>5. CASE Push
  BY <1>5, PushOrder, Zenon
<1> QED
  BY <1>1, <1>2, <1>3, <1>4, <1>5

LEMMA ResetOrder ==
  ASSUME RInv, NEW a \in Actors,
         \/ PresentCovered \/ ResetMismatch \/ DrawSoftware \/ CloseSurface
         \/ PublishSoftware \/ Stop(a) \/ Join(a)
  PROVE  OrderInv' /\ FloorInv'
<1> USE FrameReadbackAssumption DEF FrameReadbackAssumption, RInv, OInv, PInv, TInv, TypeOK,
         PointInv, HandInv, Slots, Actors, Holding, Calm, GlCalm, ReadCalm, serviceVars, slotVars,
         collectorVars, actorVars, glVars
<1>1. CASE PresentCovered
  <2>1. ResetDone("gl", "idle")
    BY <1>1, ResetEffect DEF PresentCovered, ActorPoints
  <2>2. ASSUME NEW q \in Pipes
        PROVE  Calm(q)
    BY <1>1, <2>1 DEF PresentCovered, ResetDone
  <2>3. GlCalm
    BY <1>1, <2>1 DEF PresentCovered, ResetDone
  <2>4. ReadCalm /\ born' = born
    BY <1>1, <2>1 DEF PresentCovered, ResetDone
  <2>5. \/ epoch' = epoch + 1
        \/ epoch' = epoch /\ {latest'.n, frame'["host"]} \subseteq {latest.n, frame["host"]}
    BY <1>1, <2>1 DEF PresentCovered, ResetDone
  <2> HIDE DEF Calm, GlCalm, ReadCalm, RInv
  <2> QED
    BY <2>2, <2>3, <2>4, <2>5, CalmStep
<1>2. CASE ResetMismatch
  <2>1. ResetDone("gl", "capture")
    BY <1>2, ResetEffect DEF ResetMismatch, ActorPoints
  <2>2. ASSUME NEW q \in Pipes
        PROVE  Calm(q)
    BY <1>2, <2>1 DEF ResetMismatch, ResetDone
  <2>3. GlCalm
    BY <1>2, <2>1 DEF ResetMismatch, ResetDone
  <2>4. ReadCalm /\ born' = born
    BY <1>2, <2>1 DEF ResetMismatch, ResetDone
  <2>5. \/ epoch' = epoch + 1
        \/ epoch' = epoch /\ {latest'.n, frame'["host"]} \subseteq {latest.n, frame["host"]}
    BY <1>2, <2>1 DEF ResetMismatch, ResetDone
  <2> HIDE DEF Calm, GlCalm, ReadCalm, RInv
  <2> QED
    BY <2>2, <2>3, <2>4, <2>5, CalmStep
<1>3. CASE DrawSoftware
  <2>1. ResetDone("host", "draw")
    BY <1>3, ResetEffect DEF DrawSoftware, ActorPoints
  <2>2. ASSUME NEW q \in Pipes
        PROVE  Calm(q)
    BY <1>3, <2>1 DEF DrawSoftware, ResetDone, Number
  <2>3. GlCalm
    BY <1>3, <2>1 DEF DrawSoftware, ResetDone, Number
  <2>4. ReadCalm /\ born' = born
    BY <1>3, <2>1 DEF DrawSoftware, ResetDone, Number
  <2>5. \/ epoch' = epoch + 1
        \/ epoch' = epoch /\ {latest'.n, frame'["host"]} \subseteq {latest.n, frame["host"]}
    BY <1>3, <2>1 DEF DrawSoftware, ResetDone, Number
  <2> HIDE DEF Calm, GlCalm, ReadCalm, RInv
  <2> QED
    BY <2>2, <2>3, <2>4, <2>5, CalmStep
<1>4. CASE CloseSurface
  <2>1. ResetDone("host", "idle")
    BY <1>4, ResetEffect DEF CloseSurface, ActorPoints
  <2>2. ASSUME NEW q \in Pipes
        PROVE  Calm(q)
    BY <1>4, <2>1 DEF CloseSurface, ResetDone
  <2>3. GlCalm
    BY <1>4, <2>1 DEF CloseSurface, ResetDone
  <2>4. ReadCalm /\ born' = born
    BY <1>4, <2>1 DEF CloseSurface, ResetDone
  <2>5. \/ epoch' = epoch + 1
        \/ epoch' = epoch /\ {latest'.n, frame'["host"]} \subseteq {latest.n, frame["host"]}
    BY <1>4, <2>1 DEF CloseSurface, ResetDone
  <2> HIDE DEF Calm, GlCalm, ReadCalm, RInv
  <2> QED
    BY <2>2, <2>3, <2>4, <2>5, CalmStep
<1>5. CASE PublishSoftware
  <2>1. ASSUME NEW q \in Pipes
        PROVE  Calm(q)
    BY <1>5 DEF PublishSoftware, Goto
  <2>2. GlCalm
    BY <1>5 DEF PublishSoftware, Goto
  <2>3. ReadCalm /\ born' = born
    BY <1>5 DEF PublishSoftware, Goto
  <2>4. \/ epoch' = epoch + 1
        \/ epoch' = epoch /\ {latest'.n, frame'["host"]} \subseteq {latest.n, frame["host"]}
    BY <1>5 DEF PublishSoftware, Goto
  <2> HIDE DEF Calm, GlCalm, ReadCalm, RInv
  <2> QED
    BY <2>1, <2>2, <2>3, <2>4, CalmStep
<1>6. CASE Stop(a)
  <2>1. ASSUME NEW q \in Pipes
        PROVE  Calm(q)
    BY <1>6 DEF Stop, Goto
  <2>2. GlCalm
    BY <1>6 DEF Stop, Goto
  <2>3. ReadCalm /\ born' = born
    BY <1>6 DEF Stop, Goto
  <2>4. \/ epoch' = epoch + 1
        \/ epoch' = epoch /\ {latest'.n, frame'["host"]} \subseteq {latest.n, frame["host"]}
    BY <1>6 DEF Stop, Goto
  <2> HIDE DEF Calm, GlCalm, ReadCalm, RInv
  <2> QED
    BY <2>1, <2>2, <2>3, <2>4, CalmStep
<1>7. CASE Join(a)
  <2>1. ASSUME NEW q \in Pipes
        PROVE  Calm(q)
    BY <1>7 DEF Join, Goto
  <2>2. GlCalm
    BY <1>7 DEF Join, Goto
  <2>3. ReadCalm /\ born' = born
    BY <1>7 DEF Join, Goto
  <2>4. \/ epoch' = epoch + 1
        \/ epoch' = epoch /\ {latest'.n, frame'["host"]} \subseteq {latest.n, frame["host"]}
    BY <1>7 DEF Join, Goto
  <2> HIDE DEF Calm, GlCalm, ReadCalm, RInv
  <2> QED
    BY <2>1, <2>2, <2>3, <2>4, CalmStep
<1> QED
  BY <1>1, <1>2, <1>3, <1>4, <1>5, <1>6, <1>7

-----------------------------------------------------------------------------
(* The invariants.                                                         *)

\* The service begins without a pipeline.
LEMMA Start ==
  ASSUME Init
  PROVE  RInv
<1> USE FrameReadbackAssumption DEF FrameReadbackAssumption, Init, Slots, Actors
<1>1. TypeOK
  BY DEF TypeOK, ActorPoints, CollectorPoints
<1>2. PointInv /\ HandInv /\ LifeInv /\ ProducerInv /\ CurrentInv
  BY DEF PointInv, HandInv, LifeInv, ProducerInv, NoUseAfterDelete, CurrentInv, Inside, Holding
<1>3. \A p \in Pipes : pending[p] = <<>> /\ Len(pending[p]) = 0 /\ \A s : ~Contains(pending[p], s)
  BY EmptySeq DEF Contains
<1>4. QueueInv /\ \A p \in Pipes : Sorted(pending[p], content[p])
  BY <1>3 DEF QueueInv, Distinct, Sorted
<1>5. OwnerInv
  BY <1>3 DEF OwnerInv, OneOwner, Writing
<1>6. BoundInv /\ FlightInv
  BY DEF BoundInv, FlightInv, Inside
<1>7. \A p \in Pipes, s \in Slots : ~Waiting(p, s) /\ ~Due(p, s)
  BY <1>3 DEF Due, Waiting, Holding
<1>8. OrderInv
  BY <1>4, <1>7 DEF OrderInv, Ordered, Holding
<1>9. FloorInv
  BY <1>7 DEF FloorInv, Floor
<1> HIDE DEF Init
<1> QED
  BY <1>1, <1>2, <1>4, <1>5, <1>6, <1>8, <1>9 DEF RInv, OInv, PInv, TInv

LEMMA Stutter ==
  ASSUME RInv, UNCHANGED vars
  PROVE  RInv'
<1> USE DEF vars, serviceVars, slotVars, collectorVars, actorVars, glVars
<1>1. TInv'
  BY DEF RInv, OInv, PInv, TInv, TypeOK, PointInv, HandInv
<1>2. LifeInv' /\ ProducerInv' /\ CurrentInv'
  BY DEF RInv, OInv, PInv, LifeInv, ProducerInv, NoUseAfterDelete, CurrentInv, Over
<1>3. QueueInv' /\ BoundInv' /\ FlightInv'
  BY DEF RInv, OInv, QueueInv, BoundInv, FlightInv
<1>4. \A p \in Pipes : Still(p) /\ Calm(p)
  BY DEF Still, Writing, Over, Calm
<1>5. OwnerInv'
  BY <1>4, StillOwned DEF RInv, OInv, OwnerInv
<1>6. OrderInv' /\ FloorInv'
  <2>1. GlCalm /\ ReadCalm /\ born' = born /\ epoch' = epoch
        /\ {latest'.n, frame'["host"]} \subseteq {latest.n, frame["host"]}
    BY DEF GlCalm, ReadCalm
  <2> QED
    BY <1>4, <2>1, CalmStep
<1> QED
  BY <1>1, <1>2, <1>3, <1>5, <1>6 DEF RInv, OInv, PInv

\* The steps by the four groups of lemmas above.
LEMMA Groups ==
  ASSUME Next
  PROVE  \/ \E p \in Pipes : CollectorStep(p)
         \/ Present \/ GiveUp \/ CaptureEpoch \/ PublishFirst \/ Create \/ Install
         \/ LockProducer \/ Reserve \/ Submit \/ SubmitFails \/ Push
         \/ \E a \in Actors : \/ PresentCovered \/ ResetMismatch \/ DrawSoftware \/ CloseSurface
                              \/ PublishSoftware \/ Stop(a) \/ Join(a)
BY DEF Next, GlCall, HostCall, Actors

\* Every step keeps each part of the invariant.
LEMMA StepPipes ==
  ASSUME RInv, Next
  PROVE  PInv'
<1> USE DEF RInv, OInv, PInv
<1>1. ASSUME NEW p \in Pipes, CollectorStep(p)
      PROVE  PInv'
  BY <1>1, CollectorType, CollectorLife, CollectorProducer, CollectorCurrent
<1>2. CASE Present \/ GiveUp \/ CaptureEpoch \/ PublishFirst \/ Create \/ Install
  BY <1>2, FirstType, FirstLife, FirstProducer, FirstCurrent
<1>3. CASE LockProducer \/ Reserve \/ Submit \/ SubmitFails \/ Push
  BY <1>3, EnqueueType, EnqueueLife, EnqueueProducer, EnqueueCurrent
<1>4. ASSUME NEW a \in Actors,
             \/ PresentCovered \/ ResetMismatch \/ DrawSoftware \/ CloseSurface
             \/ PublishSoftware \/ Stop(a) \/ Join(a)
      PROVE  PInv'
  BY <1>4, ResetType, ResetLife, ResetProducer, ResetCurrent
<1> QED
  BY <1>1, <1>2, <1>3, <1>4, Groups

LEMMA StepSlots ==
  ASSUME RInv, Next
  PROVE  QueueInv' /\ OwnerInv'
<1> USE DEF RInv, OInv, PInv
<1>1. ASSUME NEW p \in Pipes, CollectorStep(p)
      PROVE  QueueInv' /\ OwnerInv'
  BY <1>1, CollectorQueue, CollectorOwner
<1>2. CASE Present \/ GiveUp \/ CaptureEpoch \/ PublishFirst \/ Create \/ Install
  BY <1>2, FirstQueue, FirstOwner
<1>3. CASE LockProducer \/ Reserve \/ Submit \/ SubmitFails \/ Push
  BY <1>3, EnqueueQueue, EnqueueOwner
<1>4. ASSUME NEW a \in Actors,
             \/ PresentCovered \/ ResetMismatch \/ DrawSoftware \/ CloseSurface
             \/ PublishSoftware \/ Stop(a) \/ Join(a)
      PROVE  QueueInv' /\ OwnerInv'
  BY <1>4, ResetQueue, ResetOwner
<1> QED
  BY <1>1, <1>2, <1>3, <1>4, Groups

LEMMA StepOrder ==
  ASSUME RInv, Next
  PROVE  BoundInv' /\ FlightInv' /\ OrderInv' /\ FloorInv'
<1> USE DEF RInv, OInv, PInv
<1>1. ASSUME NEW p \in Pipes, CollectorStep(p)
      PROVE  BoundInv' /\ FlightInv' /\ OrderInv' /\ FloorInv'
  BY <1>1, CollectorBound, CollectorFlight, CollectorOrder
<1>2. CASE Present \/ GiveUp \/ CaptureEpoch \/ PublishFirst \/ Create \/ Install
  BY <1>2, FirstBound, FirstFlight, FirstOrder
<1>3. CASE LockProducer \/ Reserve \/ Submit \/ SubmitFails \/ Push
  BY <1>3, EnqueueBound, EnqueueFlight, EnqueueOrder
<1>4. ASSUME NEW a \in Actors,
             \/ PresentCovered \/ ResetMismatch \/ DrawSoftware \/ CloseSurface
             \/ PublishSoftware \/ Stop(a) \/ Join(a)
      PROVE  BoundInv' /\ FlightInv' /\ OrderInv' /\ FloorInv'
  BY <1>4, ResetBound, ResetFlight, ResetOrder
<1> QED
  BY <1>1, <1>2, <1>3, <1>4, Groups

\* The invariant holds.
LEMMA Inductive == Spec => []RInv
<1>1. Init => RInv
  BY Start
<1>2. RInv /\ [Next]_vars => RInv'
  <2> SUFFICES ASSUME RInv, [Next]_vars PROVE RInv'
    OBVIOUS
  <2>1. CASE Next
    BY <2>1, StepPipes, StepSlots, StepOrder DEF RInv, OInv
  <2>2. CASE UNCHANGED vars
    BY <2>2, Stutter
  <2> QED
    BY <2>1, <2>2
<1> QED
  BY <1>1, <1>2, PTL DEF Spec

\* Every variable keeps its type, for any number of pipelines, frames and resets.
THEOREM TypeCorrect == Spec => []TypeOK
<1>1. RInv => TypeOK
  BY DEF RInv, OInv, PInv, TInv
<1> QED
  BY <1>1, Inductive, PTL

\* A buffer is in one place at a time (angle_readback.cpp, Enqueue and Collect): no
\* frame is overwritten before it is copied, and none is copied twice.
THEOREM SlotsHaveOneOwner == Spec => []SlotHasOneOwner
<1>1. RInv => SlotHasOneOwner
  BY OneOwnerEach DEF RInv, OInv
<1> QED
  BY <1>1, Inductive, PTL

\* The GL thread never uses a buffer that the collector has deleted
\* (angle_readback.cpp, Enqueue against the end of Collect).
THEOREM BuffersOutliveTheirUse == Spec => []NoUseAfterDelete
<1>1. RInv => NoUseAfterDelete
  BY DEF RInv, OInv, PInv, ProducerInv
<1> QED
  BY <1>1, Inductive, PTL

\* No pipeline is destroyed under the mutex of the frame service because another
\* takes its place (frame_service.cpp, PublishAngleFrame).
THEOREM NoPipelineIsReplaced == Spec => []NothingIsReplaced
<1>1. RInv => NothingIsReplaced
  BY DEF RInv, OInv, PInv, CurrentInv, NothingIsReplaced
<1> QED
  BY <1>1, Inductive, PTL

\* Frames of the guest appear in the order in which they were presented, and none
\* replaces a software frame whose reset came after it (frame_service.cpp,
\* PublishReadback).
THEOREM FramesAppearInOrder == Spec => FramesInOrder
<1>1. RInv /\ [Next]_vars => [latest'.n < latest.n => latest'.by = "host"]_vars
  <2> SUFFICES ASSUME RInv, Next, latest'.n < latest.n PROVE latest'.by = "host"
    BY DEF vars
  <2>1. latest.n \in Nat
    BY Numbers DEF RInv, OInv, PInv, TInv
  <2>2. latest' # latest
    BY <2>1
  <2>3. ASSUME NEW p \in Pipes, Deliver(p)
        PROVE  FALSE
    BY <2>1, <2>3, DeliveredIsOldest, Numbers DEF Deliver, PublishReadback, RInv, OInv, PInv, TInv
  <2>4. CASE PublishFirst
    BY <2>1, <2>4, FirstIsOldest, Numbers DEF PublishFirst, PublishReadback, RInv, OInv, PInv, TInv, Actors
  <2>5. CASE PublishSoftware
    BY <2>5 DEF PublishSoftware
  <2>6. ASSUME NEW p \in Pipes, CollectorStep(p)
        PROVE  latest' = latest \/ Deliver(p)
    BY <2>6 DEF CollectorStep, CollectorStarts, Take, FencePassed, NoticeEnd, Copy, FreeSlot, DeleteBuffers
  <2>7. CASE Present \/ GiveUp \/ CaptureEpoch \/ PublishFirst \/ Create \/ Install
    BY <2>2, <2>4, <2>7 DEF Present, GiveUp, CaptureEpoch, Create, Install, serviceVars
  <2>8. CASE LockProducer \/ Reserve \/ Submit \/ SubmitFails \/ Push
    BY <2>2, <2>8 DEF LockProducer, Reserve, Submit, SubmitFails, Push, serviceVars
  <2>9. ASSUME NEW a \in Actors,
               \/ PresentCovered \/ ResetMismatch \/ DrawSoftware \/ CloseSurface
               \/ PublishSoftware \/ Stop(a) \/ Join(a)
        PROVE  latest' = latest \/ PublishSoftware
    BY <2>9 DEF PresentCovered, ResetMismatch, DrawSoftware, CloseSurface, Reset, Stop, Join, serviceVars
  <2> QED
    BY <2>2, <2>3, <2>4, <2>5, <2>6, <2>7, <2>8, <2>9, Groups
<1> QED
  BY <1>1, Inductive, PTL DEF Spec, FramesInOrder
=============================================================================
