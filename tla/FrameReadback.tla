--------------------------- MODULE FrameReadback ---------------------------
(***************************************************************************)
(* FrameService (src/src/runtime/boundary/services/frame_service.cpp) over *)
(* AsyncAngleReadback (src/src/gles/angle_readback.cpp): the pixels of a   *)
(* presented frame are read back by a pipeline with two buffers and a      *)
(* collector thread, while the host draws frames of its own and retires    *)
(* the pipeline.                                                           *)
(*                                                                         *)
(* The processes: the GL thread that presents (the execution mutex of the  *)
(* boundary admits one at a time), the host thread that publishes software *)
(* frames and closes the surface, and the collector of every pipeline.     *)
(* Each step is one critical section of the service's mutex or of a        *)
(* pipeline's, or one use of a GL buffer between them.  Pixels are the     *)
(* number of the frame they show.  Who takes frames and gives their memory *)
(* back changes nothing here and is left out.                              *)
(***************************************************************************)
EXTENDS Naturals, Sequences, SequencesExt

CONSTANTS Pipes,       (* bound: the pipelines that may be created         *)
          None,
          MaxFrames,   (* bound: frames presented or drawn                 *)
          MaxEpoch     (* bound: resets of the readback                    *)

Slots == {0, 1}
Actors == {"gl", "host"}

ASSUME FrameReadbackAssumption ==
  /\ None \notin Pipes \cup Slots
  /\ MaxFrames \in Nat /\ MaxEpoch \in Nat

VARIABLES
  epoch,      (* readback_epoch_                                           *)
  current,    (* async_readback_                                           *)
  latest,     (* latest_frame_: its number, 0 for none, and who made it    *)
  frames,     (* auxiliary: the frames numbered so far                     *)
  state,      (* of a pipeline: where its collector is                     *)
  stopping,   (* the pipelines with stopping_                              *)
  failed,     (* the pipelines with failure_                               *)
  free,       (* the slots that are free                                   *)
  content,    (* the frame in each slot's buffer                           *)
  pending,    (* pending_                                                  *)
  taken,      (* the collector's slot                                      *)
  pixels,     (* the frame the collector has copied                        *)
  born,       (* the epoch its publish callback captured                   *)
  producing,  (* the pipelines whose producer_mutex_ the GL thread holds   *)
  pc,         (* of the GL and the host thread: where it is,               *)
  pipe,       (* its pipeline,                                             *)
  next,       (* where it goes on after a reset                            *)
  frame,      (* and the number of its frame                               *)
  slot, seen  (* of the GL thread: its slot, the epoch it captured         *)

serviceVars == <<epoch, current, latest>>
slotVars == <<free, content, pending>>
collectorVars == <<state, taken, pixels>>
actorVars == <<pc, pipe, next, frame>>
glVars == <<slot, seen>>
vars == <<serviceVars, frames, slotVars, collectorVars, stopping, failed, born, producing,
          actorVars, glVars>>

CollectorPoints == {"unused", "starting", "idle", "polling", "mapping", "copied", "freeing",
                    "leaving", "ended"}
ActorPoints == {"idle", "mismatch", "capture", "read", "create", "creating", "enqueue", "reserve",
                "reading", "push", "draw", "stop", "join"}

\* Every variable has its type: slots are 0 or 1, frames and epochs are within
\* their bounds, threads and collectors are at one of their points.
TypeOK ==
  /\ epoch \in 0 .. MaxEpoch /\ frames \in 0 .. MaxFrames
  /\ current \in Pipes \cup {None}
  /\ latest \in [n : 0 .. MaxFrames, by : Actors]
  /\ state \in [Pipes -> CollectorPoints]
  /\ stopping \subseteq Pipes /\ failed \subseteq Pipes /\ producing \subseteq Pipes
  /\ free \in [Pipes -> SUBSET Slots]
  /\ content \in [Pipes -> [Slots -> 0 .. MaxFrames]]
  /\ pending \in [Pipes -> Seq(Slots)]
  /\ taken \in [Pipes -> Slots \cup {None}]
  /\ pixels \in [Pipes -> 0 .. MaxFrames]
  /\ born \in [Pipes -> 0 .. MaxEpoch]
  /\ pc \in [Actors -> ActorPoints] /\ next \in [Actors -> ActorPoints]
  /\ pipe \in [Actors -> Pipes \cup {None}]
  /\ frame \in [Actors -> 0 .. MaxFrames]
  /\ slot \in Slots \cup {None} /\ seen \in 0 .. MaxEpoch

Init ==
  /\ epoch = 0 /\ current = None /\ latest = [n |-> 0, by |-> "host"] /\ frames = 0
  /\ state = [p \in Pipes |-> "unused"]
  /\ stopping = {} /\ failed = {} /\ producing = {}
  /\ free = [p \in Pipes |-> Slots]
  /\ content = [p \in Pipes |-> [s \in Slots |-> 0]]
  /\ pending = [p \in Pipes |-> <<>>]
  /\ taken = [p \in Pipes |-> None]
  /\ pixels = [p \in Pipes |-> 0]
  /\ born = [p \in Pipes |-> 0]
  /\ pc = [a \in Actors |-> "idle"] /\ next = [a \in Actors |-> "idle"]
  /\ pipe = [a \in Actors |-> None]
  /\ frame = [a \in Actors |-> 0]
  /\ slot = None /\ seen = 0

Goto(a, point) == pc' = [pc EXCEPT ![a] = point]
Collector(p, point) == state' = [state EXCEPT ![p] = point]
Over(p) == p \in stopping \cup failed

\* The thread's next frame is its own from now on.
Number(a) ==
  /\ frames < MaxFrames
  /\ frames' = frames + 1
  /\ frame' = [frame EXCEPT ![a] = frames + 1]

-----------------------------------------------------------------------------
(* ResetReadback.                                                          *)

Reset(a, after) ==
  /\ epoch < MaxEpoch
  /\ epoch' = epoch + 1
  /\ current' = None
  /\ pipe' = [pipe EXCEPT ![a] = current]
  /\ \/ current = None /\ Goto(a, after) /\ UNCHANGED next
     \/ current # None /\ Goto(a, "stop") /\ next' = [next EXCEPT ![a] = after]
  /\ UNCHANGED <<latest, slotVars, collectorVars, stopping, failed, born, producing, glVars>>

\* Mutant: the collector is not told to stop.
StopUnsaid(a) ==
  /\ pc[a] = "stop"
  /\ Goto(a, "join")
  /\ UNCHANGED <<serviceVars, frames, slotVars, collectorVars, stopping, failed, born, producing,
                 pipe, next, frame, glVars>>

Stop(a) ==
  /\ pc[a] = "stop"
  /\ stopping' = stopping \cup {pipe[a]}
  /\ Goto(a, "join")
  /\ UNCHANGED <<serviceVars, frames, slotVars, collectorVars, failed, born, producing,
                 pipe, next, frame, glVars>>

\* The collector has ended.  Its failure is thrown at whoever retired it.
Join(a) ==
  /\ pc[a] = "join"
  /\ state[pipe[a]] = "ended"
  /\ Goto(a, IF pipe[a] \in failed THEN "idle" ELSE next[a])
  /\ pipe' = [pipe EXCEPT ![a] = None]
  /\ next' = [next EXCEPT ![a] = "idle"]
  /\ UNCHANGED <<serviceVars, frames, slotVars, collectorVars, stopping, failed, born,
                 producing, frame, glVars>>

-----------------------------------------------------------------------------
(* PublishAngleFrame.                                                      *)

\* The host's own picture covers this one.
PresentCovered == pc["gl"] = "idle" /\ Reset("gl", "idle") /\ UNCHANGED <<frames, frame>>

\* The pipeline of the last frame, if there is one, takes this frame too unless
\* the window has changed since it was made.
Present ==
  /\ pc["gl"] = "idle"
  /\ pipe' = [pipe EXCEPT !["gl"] = current]
  /\ \/ current = None /\ Goto("gl", "capture")
     \/ current # None /\ \E point \in {"enqueue", "mismatch"} : Goto("gl", point)
  /\ UNCHANGED <<serviceVars, frames, slotVars, collectorVars, stopping, failed, born,
                 producing, next, frame, glVars>>

\* Mutant: the pipeline of the other window is left where it is.
LeaveMismatch ==
  /\ pc["gl"] = "mismatch"
  /\ pipe' = [pipe EXCEPT !["gl"] = None]
  /\ Goto("gl", "capture")
  /\ UNCHANGED <<serviceVars, frames, slotVars, collectorVars, stopping, failed, born,
                 producing, next, frame, glVars>>

ResetMismatch == pc["gl"] = "mismatch" /\ Reset("gl", "capture") /\ UNCHANGED <<frames, frame>>

\* The end of what is checked: no epoch or no frame number is left.
GiveUp ==
  /\ \/ pc["gl"] = "mismatch" /\ epoch = MaxEpoch
     \/ pc["gl"] = "capture" /\ frames = MaxFrames
  /\ pipe' = [pipe EXCEPT !["gl"] = None]
  /\ Goto("gl", "idle")
  /\ UNCHANGED <<serviceVars, frames, slotVars, collectorVars, stopping, failed, born,
                 producing, next, frame, glVars>>

\* Without a pipeline: the epoch, then the pixels, outside the mutex.
CaptureEpoch ==
  /\ pc["gl"] = "capture"
  /\ seen' = epoch
  /\ Number("gl")
  /\ Goto("gl", "read")
  /\ UNCHANGED <<serviceVars, slotVars, collectorVars, stopping, failed, born, producing,
                 pipe, next, slot>>

\* Mutant: what comes from an older epoch is published all the same.
PublishAlways(n, captured) == latest' = [n |-> n, by |-> "gl"]

\* PublishReadback drops what comes from an older epoch.
PublishReadback(n, captured) ==
  latest' = IF captured = epoch THEN [n |-> n, by |-> "gl"] ELSE latest

PublishFirst ==
  /\ pc["gl"] = "read"
  /\ PublishReadback(frame["gl"], seen)
  /\ Goto("gl", "create")
  /\ UNCHANGED <<epoch, current, frames, slotVars, collectorVars, stopping, failed, born,
                 producing, pipe, next, frame, glVars>>

\* A pipeline for the frames to come, unless the epoch has moved on or the
\* platform has none.
Create ==
  /\ pc["gl"] = "create"
  /\ \/ /\ Goto("gl", "idle")
        /\ UNCHANGED <<state, born, pipe>>
     \/ /\ seen = epoch
        /\ \E p \in Pipes :
             /\ state[p] = "unused"
             /\ Collector(p, "starting")
             /\ born' = [born EXCEPT ![p] = seen]
             /\ pipe' = [pipe EXCEPT !["gl"] = p]
        /\ Goto("gl", "creating")
  /\ UNCHANGED <<serviceVars, frames, slotVars, taken, pixels, stopping, failed, producing,
                 next, frame, glVars>>

\* The constructor waits for the collector and throws its failure; a pipeline
\* that comes too late is destroyed, which stops it.
Install ==
  LET p == pipe["gl"] IN
  /\ pc["gl"] = "creating"
  /\ state[p] # "starting"
  /\ \/ /\ p \notin failed /\ seen = epoch
        /\ current' = p
        /\ pipe' = [pipe EXCEPT !["gl"] = None]
        /\ Goto("gl", "idle")
     \/ /\ p \in failed \/ seen # epoch
        /\ Goto("gl", "stop")
        /\ UNCHANGED <<current, pipe>>
  /\ UNCHANGED <<epoch, latest, frames, slotVars, collectorVars, stopping, failed, born,
                 producing, next, frame, glVars>>

-----------------------------------------------------------------------------
(* Enqueue.                                                                *)

LockProducer ==
  /\ pc["gl"] = "enqueue"
  /\ producing' = producing \cup {pipe["gl"]}
  /\ Goto("gl", "reserve")
  /\ UNCHANGED <<serviceVars, frames, slotVars, collectorVars, stopping, failed, born,
                 pipe, next, frame, glVars>>

\* Enqueue returns or throws.
LeaveEnqueue ==
  /\ producing' = producing \ {pipe["gl"]}
  /\ pipe' = [pipe EXCEPT !["gl"] = None]
  /\ slot' = None
  /\ Goto("gl", "idle")

\* Backpressure: until a slot is free, or the pipeline is over.  With a slot free
\* Enqueue may still throw, because its context is not current; MaxFrames is only
\* the bound on frames.
Reserve ==
  LET p == pipe["gl"] IN
  /\ pc["gl"] = "reserve"
  /\ \/ /\ Over(p) \/ free[p] # {} \/ frames = MaxFrames
        /\ LeaveEnqueue
        /\ UNCHANGED free
     \/ /\ ~Over(p) /\ free[p] # {} /\ frames < MaxFrames
        /\ slot' = IF 0 \in free[p] THEN 0 ELSE 1
        /\ free' = [free EXCEPT ![p] = @ \ {slot'}]
        /\ Goto("gl", "reading")
        /\ UNCHANGED <<producing, pipe>>
  /\ UNCHANGED <<serviceVars, frames, content, pending, collectorVars, stopping, failed, born,
                 next, frame, seen>>

\* The pixels go into the slot's buffer, behind a fence.
Submit ==
  /\ pc["gl"] = "reading"
  /\ Number("gl")
  /\ content' = [content EXCEPT ![pipe["gl"]][slot] = frames + 1]
  /\ Goto("gl", "push")
  /\ UNCHANGED <<serviceVars, free, pending, collectorVars, stopping, failed, born, producing,
                 pipe, next, glVars>>

SubmitFails ==
  /\ pc["gl"] = "reading"
  /\ failed' = failed \cup {pipe["gl"]}
  /\ LeaveEnqueue
  /\ UNCHANGED <<serviceVars, frames, slotVars, collectorVars, stopping, born, next, frame, seen>>

Push ==
  LET p == pipe["gl"] IN
  /\ pc["gl"] = "push"
  /\ pending' = [pending EXCEPT ![p] = IF p \in stopping THEN @ ELSE Append(@, slot)]
  /\ LeaveEnqueue
  /\ UNCHANGED <<serviceVars, frames, free, content, collectorVars, stopping, failed, born,
                 next, frame, seen>>

-----------------------------------------------------------------------------
(* The collector.                                                          *)

CollectorOnly == UNCHANGED <<epoch, current, frames, stopping, born, producing, actorVars, glVars>>

CollectorStarts(p) ==
  /\ state[p] = "starting"
  /\ \/ Collector(p, "idle") /\ UNCHANGED failed
     \/ Collector(p, "leaving") /\ failed' = failed \cup {p}
  /\ UNCHANGED <<latest, slotVars, taken, pixels>> /\ CollectorOnly

Take(p) ==
  /\ state[p] = "idle" /\ ~Over(p)
  /\ pending[p] # <<>>
  /\ taken' = [taken EXCEPT ![p] = Head(pending[p])]
  /\ pending' = [pending EXCEPT ![p] = Tail(@)]
  /\ Collector(p, "polling")
  /\ UNCHANGED <<latest, free, content, pixels, failed>> /\ CollectorOnly

\* The fence is behind the GPU's work: the buffer can be mapped.
FencePassed(p) ==
  /\ state[p] = "polling" /\ ~Over(p)
  /\ Collector(p, "mapping")
  /\ UNCHANGED <<latest, slotVars, taken, pixels, failed>> /\ CollectorOnly

NoticeEnd(p) ==
  /\ state[p] \in {"idle", "polling"} /\ Over(p)
  /\ Collector(p, "leaving")
  /\ UNCHANGED <<latest, slotVars, taken, pixels, failed>> /\ CollectorOnly

\* The mapping may fail; so may the wait for the fence, with the same effect.
Copy(p) ==
  /\ state[p] = "mapping"
  /\ \/ /\ pixels' = [pixels EXCEPT ![p] = content[p][taken[p]]]
        /\ Collector(p, "copied")
        /\ UNCHANGED failed
     \/ /\ failed' = failed \cup {p}
        /\ Collector(p, "leaving")
        /\ UNCHANGED pixels
  /\ UNCHANGED <<latest, slotVars, taken>> /\ CollectorOnly

Deliver(p) ==
  /\ state[p] = "copied"
  /\ PublishReadback(pixels[p], born[p])
  /\ Collector(p, "freeing")
  /\ UNCHANGED <<slotVars, taken, pixels, failed>> /\ CollectorOnly

\* Mutant: both slots become free.
FreeBoth(p) ==
  /\ state[p] = "freeing"
  /\ free' = [free EXCEPT ![p] = Slots]
  /\ taken' = [taken EXCEPT ![p] = None]
  /\ Collector(p, "idle")
  /\ UNCHANGED <<latest, content, pending, pixels, failed>> /\ CollectorOnly

FreeSlot(p) ==
  /\ state[p] = "freeing"
  /\ free' = [free EXCEPT ![p] = @ \cup {taken[p]}]
  /\ taken' = [taken EXCEPT ![p] = None]
  /\ Collector(p, "idle")
  /\ UNCHANGED <<latest, content, pending, pixels, failed>> /\ CollectorOnly

\* Mutant: the buffers go without the producer's mutex.
DeleteAtOnce(p) ==
  /\ state[p] = "leaving"
  /\ Collector(p, "ended")
  /\ UNCHANGED <<latest, slotVars, taken, pixels, failed>> /\ CollectorOnly

\* Inside the producer's mutex.
DeleteBuffers(p) ==
  /\ state[p] = "leaving"
  /\ p \notin producing
  /\ Collector(p, "ended")
  /\ UNCHANGED <<latest, slotVars, taken, pixels, failed>> /\ CollectorOnly

-----------------------------------------------------------------------------
(* The host.                                                               *)

\* PublishSoftwareFrame: its frame is newer than all that the reset finds.
DrawSoftware ==
  /\ pc["host"] = "idle"
  /\ Number("host")
  /\ Reset("host", "draw")

PublishSoftware ==
  /\ pc["host"] = "draw"
  /\ latest' = [n |-> frame["host"], by |-> "host"]
  /\ Goto("host", "idle")
  /\ UNCHANGED <<epoch, current, frames, slotVars, collectorVars, stopping, failed, born,
                 producing, pipe, next, frame, glVars>>

\* SetRenderTargetReady(false), and the end of the service.
CloseSurface == pc["host"] = "idle" /\ Reset("host", "idle") /\ UNCHANGED <<frames, frame>>

-----------------------------------------------------------------------------
CollectorStep(p) ==
  \/ CollectorStarts(p) \/ Take(p) \/ FencePassed(p) \/ NoticeEnd(p)
  \/ Copy(p) \/ Deliver(p) \/ FreeSlot(p) \/ DeleteBuffers(p)

GlCall ==
  \/ ResetMismatch \/ GiveUp \/ CaptureEpoch \/ PublishFirst \/ Create \/ Install
  \/ LockProducer \/ Reserve \/ Submit \/ SubmitFails \/ Push
  \/ Stop("gl") \/ Join("gl")

HostCall == PublishSoftware \/ Stop("host") \/ Join("host")

Next ==
  \/ \E p \in Pipes : CollectorStep(p)
  \/ PresentCovered \/ Present \/ GlCall
  \/ DrawSoftware \/ CloseSurface \/ HostCall

\* Threads run and the GPU finishes what it was given; nobody has to present.
Fairness == WF_vars(GlCall) /\ WF_vars(HostCall) /\ \A p \in Pipes : WF_vars(CollectorStep(p))

Spec == Init /\ [][Next]_vars /\ Fairness

-----------------------------------------------------------------------------
Owners(p, s) ==
  [free |-> s \in free[p], queued |-> Contains(pending[p], s), taken |-> taken[p] = s,
   written |-> pipe["gl"] = p /\ slot = s /\ pc["gl"] \in {"reading", "push"}]

\* A buffer is in one place at a time: free, being written by the GL thread,
\* queued or with the collector, so that a frame is never overwritten before it
\* is copied.  A slot leaves this cycle only when its pipeline ends.
SlotHasOneOwner ==
  \A p \in Pipes, s \in Slots :
    LET owners == {o \in DOMAIN Owners(p, s) : Owners(p, s)[o]} IN
    /\ \A a, b \in owners : a = b
    /\ Over(p) \/ owners # {}

\* The GL thread never reads pixels into a buffer that the collector has
\* deleted: Stop may come while it is inside glReadPixels
\* (src/src/gles/angle_readback.cpp:241).
NoUseAfterDelete ==
  pc["gl"] \in {"reading", "push"} => state[pipe["gl"]] # "ended"

\* async_readback_ is empty whenever a new pipeline is installed: the one it
\* held would be destroyed, and its collector joined, under the mutex that the
\* collector needs to publish its frame.
NothingIsReplaced ==
  pc["gl"] = "creating" /\ seen = epoch => current = None

\* Frames of the guest appear in the order in which they were presented, and
\* none replaces a software frame whose reset came after it: a readback that is
\* still under way when its pipeline is retired is dropped.
FramesInOrder == [][latest'.n < latest.n => latest'.by = "host"]_vars

\* Presenting, drawing and closing come to an end: a full pipeline lets the GL
\* thread go on, and a retired one ends even while the GL thread is inside it.
CallsReturn == \A a \in Actors : pc[a] # "idle" ~> pc[a] = "idle"
=============================================================================
