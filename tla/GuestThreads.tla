---------------------------- MODULE GuestThreads ----------------------------
(***************************************************************************)
(* The life of native guest threads: GuestThreadLifecycle (the status of   *)
(* every guest thread), the clone syscall and its committer, the host      *)
(* thread under each clone child (GuestThreadGroup and                     *)
(* GuestCloneThreadRuntime::RunChildBody), and the drain in which the      *)
(* process owner asks every worker to exit and joins it                    *)
(* (QuiesceNativeWorkers).  Futex waits are those of AbstractFutex, which  *)
(* Futex.tla implements.                                                   *)
(*                                                                         *)
(* Each of these components has a mutex of its own, so a step is one       *)
(* critical section, one guest memory access or one futex call.            *)
(***************************************************************************)
EXTENDS Naturals, FiniteSets

CONSTANTS LastThread,   (* bound: ids the clone runtime may hand out       *)
          Words,        (* guest words that hold a thread id               *)
          NoWord,       (* clear_child_tid is 0, or an address the cleanup *)
                        (* finds misaligned or unmapped                    *)
          HostFailures  (* may host exceptions and CPU stops happen?       *)

Root == 1
None == 0
Threads == 1 .. LastThread
Children == 2 .. LastThread

ASSUME GuestThreadsAssumption ==
  /\ LastThread \in Nat /\ LastThread >= 2
  /\ NoWord \notin Words
  /\ HostFailures \in BOOLEAN

VARIABLES
  status,       (* GuestThreadRuntimeState::status                         *)
  clear,        (* GuestThreadRuntimeState::clear_child_tid                *)
  word,         (* guest memory: the thread id, or 0, in each word         *)
  waiting, permits, closed,   (* the futex table                           *)
  pc,           (* where each thread's host thread is                      *)
  then,         (* where it goes after the clear-child-tid cleanup         *)
  spawn,        (* the clone a thread is making                            *)
  nextId,       (* next_thread_id_                                         *)
  committer,    (* the owner of GuestThreadCloneCommitter::mutex_          *)
  owned,        (* spawned_threads_                                        *)
  outcomes,     (* outcomes_                                               *)
  failure,      (* Record::failure of each child                           *)
  teardown,     (* cleanup_requested_, teardown_requested_                 *)
  drain,        (* what QuiesceNativeWorkers has listed and not yet seen   *)
  groupExit     (* auxiliary: some RequestExitGroup has taken place        *)

futexVars == <<waiting, permits, closed>>
lifeVars == <<status, clear, groupExit>>
cloneVars == <<spawn, nextId, committer, owned>>
vars == <<lifeVars, word, futexVars, pc, then, cloneVars, outcomes, failure,
          teardown, drain>>

Futex == INSTANCE AbstractFutex WITH Addresses <- Words

Statuses == {"none", "running", "exit_requested", "exited"}
RunPoints == {"top", "guest", "waiting"}
ClonePoints == {"spawning", "registering", "launching", "owning"}
ExitPoints == {"clearing", "waking"}
ChildPoints ==
  {"none", "starting", "entering", "between", "stopped", "publishing", "ending",
   "fail_group", "fail_close", "fail_complete", "notifying", "finished"}
OwnerPoints ==
  {"idle", "drain_close", "drain_list", "drain_request", "drain_join", "drained",
   "drain_aborted"}

NoSpawn == [child |-> None, word |-> NoWord, saved |-> None]
NoDrain == [members |-> {}, live |-> {}, left |-> {}]

\* Every variable has its type: statuses as GuestThreadStatus names them, and
\* words that hold only 0 or the id of a clone child.
TypeOK ==
  /\ status \in [Threads -> Statuses]
  /\ clear \in [Threads -> Words \cup {NoWord}]
  /\ word \in [Words -> Children \cup {None}]
  /\ waiting \in [Words -> SUBSET Threads]
  /\ permits \in [Words -> Nat]
  /\ closed \in BOOLEAN
  /\ pc \in [Threads -> RunPoints \cup ClonePoints \cup ExitPoints
                          \cup ChildPoints \cup OwnerPoints]
  /\ then \in [Threads -> {"top", "publishing", "notifying"}]
  /\ spawn \in [Threads -> [child : Children \cup {None},
                            word : Words \cup {NoWord},
                            saved : Children \cup {None}]]
  /\ nextId \in 2 .. LastThread + 1
  /\ committer \in Threads \cup {None}
  /\ owned \subseteq Children
  /\ outcomes \subseteq Children
  /\ failure \in [Children -> {"none", "not_running", "host"}]
  /\ teardown \in BOOLEAN
  /\ drain \in [members : SUBSET Children, live : SUBSET Children,
                left : SUBSET Children]
  /\ groupExit \in BOOLEAN

Init ==
  /\ status = [t \in Threads |-> IF t = Root THEN "running" ELSE "none"]
  /\ clear = [t \in Threads |-> NoWord]
  /\ word = [w \in Words |-> None]
  /\ Futex!Init
  /\ pc = [t \in Threads |-> IF t = Root THEN "top" ELSE "none"]
  /\ then = [t \in Threads |-> "top"]
  /\ spawn = [t \in Threads |-> NoSpawn]
  /\ nextId = 2
  /\ committer = None
  /\ owned = {}
  /\ outcomes = {}
  /\ failure = [c \in Children |-> "none"]
  /\ teardown = FALSE
  /\ drain = NoDrain
  /\ groupExit = FALSE

-----------------------------------------------------------------------------
(* GuestThreadLifecycle.                                                   *)

Running(t) == status[t] = "running"
ExitRequested(t) == status[t] = "exit_requested"

\* Every thread that has not exited is told to; a second request only
\* replaces the exit code.
RequestExitGroup ==
  /\ status' = [t \in Threads |-> IF status[t] \in {"running", "exit_requested"}
                                    THEN "exit_requested" ELSE status[t]]
  /\ groupExit' = TRUE
  /\ UNCHANGED clear

RequestExit(t) ==
  /\ status[t] \in {"running", "exit_requested"}
  /\ status' = [status EXCEPT ![t] = "exit_requested"]
  /\ UNCHANGED <<clear, groupExit>>

\* Host thread `t` completes the exit of `c`: the status changes under the
\* lifecycle mutex; the guest word and its futex follow outside it.
CompleteExit(t, c, next) ==
  /\ ExitRequested(c)
  /\ status' = [status EXCEPT ![c] = "exited"]
  /\ pc' = [pc EXCEPT ![t] = IF clear[c] \in Words THEN "clearing" ELSE next]
  /\ then' = [then EXCEPT ![t] = next]
  /\ UNCHANGED <<clear, groupExit>>

\* The thread whose exit `t` is completing: its own, or that of a child whose
\* host thread could not be started.
Subject(t) == IF then[t] = "top" THEN spawn[t].child ELSE t

Goto(t, point) == pc' = [pc EXCEPT ![t] = point] /\ UNCHANGED then

\* Mutant of ClearChildTid: the word is cleared and nobody is woken.
ClearWithoutWake(t) ==
  /\ pc[t] = "clearing"
  /\ word' = [word EXCEPT ![clear[Subject(t)]] = None]
  /\ Goto(t, then[t])
  /\ UNCHANGED <<lifeVars, futexVars, cloneVars, outcomes, failure, teardown, drain>>

ClearChildTid(t) ==
  /\ pc[t] = "clearing"
  /\ word' = [word EXCEPT ![clear[Subject(t)]] = None]
  /\ Goto(t, "waking")
  /\ UNCHANGED <<lifeVars, futexVars, cloneVars, outcomes, failure, teardown, drain>>

HasSleeper(w) == ~closed /\ permits[w] < Cardinality(waiting[w])

\* Wake(clear_child_tid, 1).
WakeJoiner(t) ==
  LET w == clear[Subject(t)] IN
  /\ pc[t] = "waking"
  /\ \/ HasSleeper(w) /\ Futex!Signal(w, 1)
     \/ ~HasSleeper(w) /\ UNCHANGED futexVars
  /\ Goto(t, then[t])
  /\ UNCHANGED <<lifeVars, word, cloneVars, outcomes, failure, teardown, drain>>

-----------------------------------------------------------------------------
(* RunAndroidArmGuestThread.  A thread passes "top" before every CPU run   *)
(* and after every syscall; there, and between two budget slices, a child  *)
(* looks at its status.  The root runs under InvokeA32GuestCall, which     *)
(* leaves the call instead of completing an exit.                          *)

stepVars == <<word, futexVars, cloneVars, outcomes, failure, teardown, drain>>

RunGuest(t) ==
  /\ pc[t] = "top"
  /\ Running(t)
  /\ Goto(t, "guest")
  /\ UNCHANGED <<lifeVars, stepVars>>

Exit(c) ==
  /\ pc[c] \in {"starting", "top", "between", "stopped"}
  /\ c # Root
  /\ CompleteExit(c, c, "publishing")
  /\ UNCHANGED stepVars

\* The slice's ticks are used up: the runner is left and entered again.
EndSlice(c) ==
  /\ pc[c] = "guest"
  /\ c # Root
  /\ Goto(c, "between")
  /\ UNCHANGED <<lifeVars, stepVars>>

Continue(c) ==
  /\ pc[c] \in {"starting", "between"}
  /\ ~ExitRequested(c)
  /\ Goto(c, "entering")
  /\ UNCHANGED <<lifeVars, stepVars>>

\* The runner's precondition, in a lifecycle lookup of its own.
EnterRunner(c) ==
  /\ pc[c] = "entering"
  /\ Running(c)
  /\ Goto(c, "top")
  /\ UNCHANGED <<lifeVars, stepVars>>

\* A cancelled nested JNI call unwinds the child that made it.
Cancel(c) ==
  /\ pc[c] = "guest"
  /\ c # Root
  /\ teardown
  /\ status[c] \in {"running", "exit_requested"}
  /\ status' = [status EXCEPT ![c] = "exit_requested"]
  /\ Goto(c, "stopped")
  /\ UNCHANGED <<clear, groupExit, stepVars>>

-----------------------------------------------------------------------------
(* What guest code does between two looks at the status.                   *)

SyscallExit(t) ==
  /\ pc[t] = "guest"
  /\ RequestExit(t)
  /\ Goto(t, "top")
  /\ UNCHANGED stepVars

SyscallExitGroup(t) ==
  /\ pc[t] = "guest"
  /\ RequestExitGroup
  /\ Goto(t, "top")
  /\ UNCHANGED stepVars

\* set_tid_address to an address that names no thread.
SetTidAddress(t) ==
  /\ pc[t] = "guest"
  /\ Running(t)
  /\ clear' = [clear EXCEPT ![t] = NoWord]
  /\ Goto(t, "top")
  /\ UNCHANGED <<status, groupExit, stepVars>>

\* pthread_join: a futex wait for the word of a thread that clone returned.
\* Guest code joins a thread once.
JoinThread(t, w) ==
  /\ pc[t] = "guest"
  /\ word[w] \in Children \ {t}
  /\ word[w] \in owned
  /\ waiting[w] = {}
  /\ \/ ~closed /\ Futex!Join(t, w) /\ Goto(t, "waiting")
     \/ closed /\ UNCHANGED futexVars /\ Goto(t, "top")
  /\ UNCHANGED <<lifeVars, word, cloneVars, outcomes, failure, teardown, drain>>

Awake(t, w) ==
  /\ pc[t] = "waiting"
  /\ \/ Futex!Take(t, w)
     \/ closed /\ Futex!GiveUp(t, w)
  /\ Goto(t, "top")
  /\ UNCHANGED <<lifeVars, word, cloneVars, outcomes, failure, teardown, drain>>

\* A signal ends the wait.
EndWait(t, w) ==
  /\ pc[t] = "waiting"
  /\ ~closed /\ Futex!GiveUp(t, w)
  /\ Goto(t, "top")
  /\ UNCHANGED <<lifeVars, word, cloneVars, outcomes, failure, teardown, drain>>

-----------------------------------------------------------------------------
(* The clone syscall.                                                      *)

\* A word the guest may pass to clone: it holds no thread, nobody waits for
\* it and no live thread will clear it.
Unused(w) ==
  w \in Words =>
    /\ word[w] = None
    /\ waiting[w] = {}
    /\ \A t \in Threads :
         /\ clear[t] = w => status[t] \in {"none", "exited"}
         /\ pc[t] \in ClonePoints => spawn[t].word # w

Stored(w, value) == IF w \in Words THEN [word EXCEPT ![w] = value] ELSE word

\* spawn_allowed_.
CallClone(t, w) ==
  /\ pc[t] = "guest"
  /\ Unused(w)
  /\ \/ teardown /\ Goto(t, "top") /\ UNCHANGED spawn
     \/ /\ ~teardown
        /\ spawn' = [spawn EXCEPT ![t] = [child |-> None, word |-> w, saved |-> None]]
        /\ Goto(t, "spawning")
  /\ UNCHANGED <<lifeVars, word, futexVars, nextId, committer, owned, outcomes,
                 failure, teardown, drain>>

\* Commit finds its parent no longer running: ESRCH.
RefuseClone(t) ==
  /\ pc[t] = "spawning"
  /\ committer = None
  /\ ~Running(t)
  /\ nextId \in Children
  /\ nextId' = nextId + 1
  /\ spawn' = [spawn EXCEPT ![t] = NoSpawn]
  /\ Goto(t, "top")
  /\ UNCHANGED <<lifeVars, word, futexVars, committer, owned, outcomes, failure,
                 teardown, drain>>

\* Mutant of BeginCommit: CLONE_PARENT_SETTID is not honoured.
BeginCommitUnwritten(t) ==
  LET w == spawn[t].word IN
  /\ pc[t] = "spawning"
  /\ committer = None
  /\ Running(t)
  /\ nextId \in Children
  /\ nextId' = nextId + 1
  /\ committer' = t
  /\ spawn' = [spawn EXCEPT ![t] = [child |-> nextId, word |-> w, saved |-> None]]
  /\ Goto(t, "registering")
  /\ UNCHANGED <<lifeVars, word, futexVars, owned, outcomes, failure, teardown, drain>>

\* Commit checks the parent and writes the child's id to the guest's word.  One
\* word stands for parent_tid and child_tid, so there is no second write that
\* could fail and take the first one back (EFAULT).
BeginCommit(t) ==
  LET w == spawn[t].word IN
  /\ pc[t] = "spawning"
  /\ committer = None
  /\ Running(t)
  /\ nextId \in Children
  /\ nextId' = nextId + 1
  /\ committer' = t
  /\ spawn' = [spawn EXCEPT ![t] = [child |-> nextId, word |-> w,
                  saved |-> IF w \in Words THEN word[w] ELSE None]]
  /\ word' = Stored(w, nextId)
  /\ Goto(t, "registering")
  /\ UNCHANGED <<lifeVars, futexVars, owned, outcomes, failure, teardown, drain>>

\* Mutant of RegisterChild: the parent's status is not looked at again.
RegisterChildOfAnyParent(t) ==
  LET c == spawn[t].child IN
  /\ pc[t] = "registering"
  /\ status' = [status EXCEPT ![c] = "running"]
  /\ clear' = [clear EXCEPT ![c] = spawn[t].word]
  /\ committer' = None
  /\ Goto(t, "launching")
  /\ UNCHANGED <<groupExit, word, futexVars, spawn, nextId, owned, outcomes,
                 failure, teardown, drain>>

\* RegisterChild looks at the parent again, under the lifecycle mutex.
RegisterChild(t) ==
  LET c == spawn[t].child IN
  /\ pc[t] = "registering"
  /\ Running(t)
  /\ status' = [status EXCEPT ![c] = "running"]
  /\ clear' = [clear EXCEPT ![c] = spawn[t].word]
  /\ committer' = None
  /\ Goto(t, "launching")
  /\ UNCHANGED <<groupExit, word, futexVars, spawn, nextId, owned, outcomes,
                 failure, teardown, drain>>

\* Mutant of RollBackCommit: the guest's word keeps the id.
AbandonCommit(t) ==
  /\ pc[t] = "registering"
  /\ ~Running(t)
  /\ committer' = None
  /\ spawn' = [spawn EXCEPT ![t] =
                 [child |-> None, word |-> spawn[t].word, saved |-> None]]
  /\ Goto(t, "spawning")
  /\ UNCHANGED <<lifeVars, word, futexVars, nextId, owned, outcomes, failure,
                 teardown, drain>>

\* The parent was told to exit meanwhile: the word gets its old value back and
\* Spawn tries the next id.
RollBackCommit(t) ==
  /\ pc[t] = "registering"
  /\ ~Running(t)
  /\ word' = Stored(spawn[t].word, spawn[t].saved)
  /\ committer' = None
  /\ spawn' = [spawn EXCEPT ![t] =
                 [child |-> None, word |-> spawn[t].word, saved |-> None]]
  /\ Goto(t, "spawning")
  /\ UNCHANGED <<lifeVars, futexVars, nextId, owned, outcomes, failure, teardown,
                 drain>>

\* No ids are left: EAGAIN.
ExhaustIds(t) ==
  /\ pc[t] = "spawning"
  /\ nextId \notin Children
  /\ spawn' = [spawn EXCEPT ![t] = NoSpawn]
  /\ Goto(t, "top")
  /\ UNCHANGED <<lifeVars, word, futexVars, nextId, committer, owned, outcomes,
                 failure, teardown, drain>>

StartHostThread(t) ==
  /\ pc[t] = "launching"
  /\ pc' = [pc EXCEPT ![t] = "owning", ![spawn[t].child] = "starting"]
  /\ UNCHANGED <<lifeVars, word, futexVars, then, cloneVars, outcomes, failure,
                 teardown, drain>>

\* The host has no thread to give: the child exits before it ran, EAGAIN.  The
\* request and the completion of its exit are one step: the child is in nobody's
\* list, and the request only lets the completion through.
FailToSpawn(t) ==
  LET c == spawn[t].child IN
  /\ pc[t] = "launching"
  /\ HostFailures
  /\ status' = [status EXCEPT ![c] = "exited"]
  /\ then' = [then EXCEPT ![t] = "top"]
  /\ pc' = [pc EXCEPT ![t] = IF clear[c] \in Words THEN "clearing" ELSE "top"]
  /\ UNCHANGED <<clear, groupExit, stepVars>>

\* Only now does OwnsThread know the child, which may already run.
OwnChild(t) ==
  /\ pc[t] = "owning"
  /\ owned' = owned \cup {spawn[t].child}
  /\ spawn' = [spawn EXCEPT ![t] = NoSpawn]
  /\ Goto(t, "top")
  /\ UNCHANGED <<lifeVars, word, futexVars, nextId, committer, outcomes, failure,
                 teardown, drain>>

-----------------------------------------------------------------------------
(* The end of a child's host thread.                                       *)

PublishOutcome(c) ==
  /\ pc[c] = "publishing"
  /\ outcomes' = outcomes \cup {c}
  /\ Goto(c, "ending")
  /\ UNCHANGED <<lifeVars, word, futexVars, cloneVars, failure, teardown, drain>>

Finish(c) ==
  /\ pc[c] = "ending"
  /\ Goto(c, "finished")
  /\ UNCHANGED <<lifeVars, stepVars>>

Fail(c, reason) ==
  /\ failure' = [failure EXCEPT ![c] = reason]
  /\ Goto(c, "fail_group")
  /\ UNCHANGED <<lifeVars, word, futexVars, cloneVars, outcomes, teardown, drain>>

\* The CPU cannot be built, an HLE call throws, or the last GetState does.
HostException(c) ==
  /\ HostFailures
  /\ pc[c] \in {"starting", "guest", "ending"}
  /\ c # Root
  /\ Fail(c, "host")

StopUnexpectedly(c) ==
  /\ HostFailures
  /\ pc[c] = "guest"
  /\ c # Root
  /\ Goto(c, "stopped")
  /\ UNCHANGED <<lifeVars, stepVars>>

RejectStop(c) ==
  /\ pc[c] = "stopped"
  /\ ~ExitRequested(c)
  /\ Fail(c, "host")

\* The exit request came after RunChildBody looked: the runner throws.
RejectThread(c) ==
  /\ pc[c] = "entering"
  /\ ~Running(c)
  /\ Fail(c, "not_running")

\* PublishFailure, one call at a time; every call's own exception is dropped.
FailGroup(c) ==
  /\ pc[c] = "fail_group"
  /\ RequestExitGroup
  /\ Goto(c, "fail_close")
  /\ UNCHANGED stepVars

FailClose(c) ==
  /\ pc[c] = "fail_close"
  /\ \/ Futex!Close
     \/ closed /\ UNCHANGED futexVars
  /\ Goto(c, "fail_complete")
  /\ UNCHANGED <<lifeVars, word, cloneVars, outcomes, failure, teardown, drain>>

\* Mutant of FailComplete: the failing thread's own exit is not completed.
FailIncomplete(c) ==
  /\ pc[c] = "fail_complete"
  /\ Goto(c, "notifying")
  /\ UNCHANGED <<lifeVars, stepVars>>

FailComplete(c) ==
  /\ pc[c] = "fail_complete"
  /\ \/ CompleteExit(c, c, "notifying")
     \/ ~ExitRequested(c) /\ Goto(c, "notifying") /\ UNCHANGED lifeVars
  /\ UNCHANGED stepVars

\* The notifier is BeginTeardown; the futex table is closed already.
Notify(c) ==
  /\ pc[c] = "notifying"
  /\ teardown' = TRUE
  /\ Goto(c, "finished")
  /\ UNCHANGED <<lifeVars, word, futexVars, cloneVars, outcomes, failure, drain>>

-----------------------------------------------------------------------------
(* The process owner: root guest calls, then QuiesceNativeWorkers.  An     *)
(* aborted drain may be called again; a finished one returns at once.      *)

First(S) == CHOOSE c \in S : \A d \in S : c <= d

\* The guest call ends: it returned, its thread was told to exit, a worker
\* failed, or teardown cancelled it.
LeaveGuestCall ==
  /\ pc[Root] = "top"
  /\ Goto(Root, "idle")
  /\ UNCHANGED <<lifeVars, stepVars>>

CallGuest ==
  /\ pc[Root] = "idle"
  /\ Running(Root)
  /\ Goto(Root, "top")
  /\ UNCHANGED <<lifeVars, stepVars>>

BeginTeardown ==
  /\ pc[Root] \in {"idle", "drain_aborted"}
  /\ teardown' = TRUE
  /\ Goto(Root, "drain_close")
  /\ UNCHANGED <<lifeVars, word, futexVars, cloneVars, outcomes, failure, drain>>

\* Mutant of InterruptBlockingWaits: the futex table stays open.
LeaveWaitsBlocked ==
  /\ pc[Root] = "drain_close"
  /\ Goto(Root, "drain_list")
  /\ UNCHANGED <<lifeVars, stepVars>>

InterruptBlockingWaits ==
  /\ pc[Root] = "drain_close"
  /\ \/ Futex!Close
     \/ closed /\ UNCHANGED futexVars
  /\ Goto(Root, "drain_list")
  /\ UNCHANGED <<lifeVars, word, cloneVars, outcomes, failure, teardown, drain>>

\* States(), of which the children that OwnsThread does not know are erased.
ListWorkers ==
  LET members == {c \in owned : status[c] # "none"} IN
  /\ pc[Root] = "drain_list"
  /\ drain' = [members |-> members, live |-> {c \in members : Running(c)},
               left |-> members]
  /\ Goto(Root, "drain_request")
  /\ UNCHANGED <<lifeVars, word, futexVars, cloneVars, outcomes, failure, teardown>>

\* The decision is taken on the listed status, the request on the current one:
\* RequestExit throws if the worker has exited meanwhile, and the drain is left.
RequestWorkerExit ==
  LET c == First(drain.left) IN
  /\ pc[Root] = "drain_request"
  /\ drain.left # {}
  /\ drain' = [drain EXCEPT !.left = @ \ {c}]
  /\ \/ c \in drain.live /\ RequestExit(c) /\ UNCHANGED <<pc, then>>
     \/ c \in drain.live /\ status[c] = "exited" /\ Goto(Root, "drain_aborted")
        /\ UNCHANGED lifeVars
     \/ c \notin drain.live /\ UNCHANGED <<lifeVars, pc, then>>
  /\ UNCHANGED <<word, futexVars, cloneVars, outcomes, failure, teardown>>

BeginJoin ==
  /\ pc[Root] = "drain_request"
  /\ drain.left = {}
  /\ drain' = [drain EXCEPT !.left = drain.members]
  /\ Goto(Root, "drain_join")
  /\ UNCHANGED <<lifeVars, word, futexVars, cloneVars, outcomes, failure, teardown>>

\* Join returns when the host thread has ended; a failure is kept for later.
JoinWorker ==
  LET c == First(drain.left) IN
  /\ pc[Root] = "drain_join"
  /\ drain.left # {}
  /\ pc[c] = "finished"
  /\ drain' = [drain EXCEPT !.left = @ \ {c}]
  /\ outcomes' = IF failure[c] = "none" THEN outcomes \ {c} ELSE outcomes
  /\ UNCHANGED <<lifeVars, word, futexVars, pc, then, cloneVars, failure, teardown>>

EndDrain ==
  /\ pc[Root] = "drain_join"
  /\ drain.left = {}
  /\ Goto(Root, "drained")
  /\ UNCHANGED <<lifeVars, stepVars>>

-----------------------------------------------------------------------------
RunnerStep(t) ==
  \/ RunGuest(t) \/ Exit(t) \/ Continue(t) \/ EnterRunner(t)
  \/ ClearChildTid(t) \/ WakeJoiner(t)
  \/ \E w \in Words : Awake(t, w)

CloneStep(t) ==
  \/ RefuseClone(t) \/ BeginCommit(t) \/ RegisterChild(t) \/ RollBackCommit(t)
  \/ ExhaustIds(t) \/ StartHostThread(t) \/ OwnChild(t)

EndStep(c) ==
  \/ PublishOutcome(c) \/ Finish(c) \/ RejectStop(c) \/ RejectThread(c)
  \/ FailGroup(c) \/ FailClose(c) \/ FailComplete(c) \/ Notify(c)

\* What the host may do to a child, and what guest code chooses to do.
Trouble(c) == HostException(c) \/ StopUnexpectedly(c) \/ FailToSpawn(c)

GuestChoice(t) ==
  \/ SyscallExit(t) \/ SyscallExitGroup(t) \/ SetTidAddress(t) \/ Cancel(t)
  \/ \E w \in Words : JoinThread(t, w) \/ EndWait(t, w)
  \/ \E w \in Words \cup {NoWord} : CallClone(t, w)

DrainStep ==
  \/ InterruptBlockingWaits \/ ListWorkers \/ RequestWorkerExit \/ BeginJoin
  \/ JoinWorker \/ EndDrain

OwnerChoice == LeaveGuestCall \/ CallGuest \/ BeginTeardown

Next ==
  \/ \E t \in Threads : RunnerStep(t) \/ CloneStep(t) \/ EndStep(t) \/ Trouble(t)
                        \/ GuestChoice(t) \/ EndSlice(t)
  \/ DrainStep
  \/ OwnerChoice

\* Host threads keep running and the CPU budget ends every slice.  Nothing
\* makes guest code exit or the owner drain.
Fairness ==
  /\ \A t \in Threads :
       WF_vars(RunnerStep(t) \/ CloneStep(t) \/ EndStep(t) \/ EndSlice(t))
  /\ WF_vars(DrainStep)

SafetySpec == Init /\ [][Next]_vars
Spec == SafetySpec /\ Fairness

-----------------------------------------------------------------------------
\* Once an exit of the whole group was requested nobody runs, not even a child
\* whose clone was under way: RegisterChild looks at the parent's status under
\* the mutex that RequestExitGroup takes.
GroupExitIsFinal == groupExit => \A t \in Threads : ~Running(t)

\* A host thread that has ended leaves no guest thread that still counts as
\* alive, whatever ended it (RunChildBody, PublishFailure).
EndedMeansExited ==
  \A c \in Children : pc[c] = "finished" => status[c] = "exited"

\* pthread_join does not return early: as long as a thread is alive, the word
\* that its exit will clear holds its id, through clones that fail, ids that
\* are skipped and other threads' exits (Commit, CompleteExit).
WordNamesLiveThread ==
  \A c \in Children :
    /\ status[c] \in {"running", "exit_requested"}
    /\ clear[c] \in Words
    => word[clear[c]] = c

\* A guest word never keeps the id of a thread that was not created: only the
\* commit under way may have written an id that is not registered (Commit).
NoIdOfUncreatedThread ==
  \A w \in Words :
    \/ word[w] = None
    \/ status[word[w]] # "none"
    \/ committer # None /\ spawn[committer].child = word[w]

\* No joiner sleeps on after the thread it joins has gone: the word is stored
\* before the wake is issued, and a wait compares and parks in one step of the
\* queue's mutex (CompleteExit, FutexTable::Wait).
JoinerIsWoken ==
  \A w \in Words :
    word[w] = None /\ waiting[w] # {} /\ ~closed =>
      \/ permits[w] > 0
      \/ \E t \in Threads : pc[t] = "waking" /\ clear[Subject(t)] = w

\* The drain has joined everybody it listed.
AllJoined == pc[Root] = "drained" /\ \A c \in drain.members : pc[c] = "finished"

\* A worker that was running when the drain listed it had exited when its turn
\* came: RequestExit threw, and the drain was left.
Overtaken ==
  /\ pc[Root] = "drain_aborted"
  /\ \E c \in drain.live \ drain.left : status[c] = "exited"

\* The owner's drain ends with every listed worker joined: none stays in a futex
\* wait of the closed table, and each ends within a slice (QuiesceNativeWorkers).
\* Excepted is the drain that is overtaken by the exit of a worker it has just
\* listed as running: there the code asks no further worker to exit and joins
\* none, although integration/MODULE.md:231 forbids to skip the other joins.
\* Nothing else may end a drain early, and once the joins have begun it is not
\* left before the last.
DrainEnds == pc[Root] = "drain_close" ~> AllJoined \/ Overtaken

=============================================================================
