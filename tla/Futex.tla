-------------------------------- MODULE Futex --------------------------------
(***************************************************************************)
(* cpu::FutexTable (src/src/cpu/futex.cpp): one queue per futex word, each *)
(* with its own mutex and condition variable, and a sticky table-wide      *)
(* interrupt flag that is read and written without any lock.               *)
(*                                                                         *)
(* A step is what one thread does between two points where another thread  *)
(* can act: it holds a queue's mutex from Enter to the park or to the      *)
(* return, and inside that region still reads two things other threads     *)
(* change, the interrupt flag and the caller's `interrupted` predicate     *)
(* (GuestSignalRuntime::Pending).                                          *)
(***************************************************************************)
EXTENDS Naturals, FiniteSets

CONSTANTS Threads,      (* guest threads that call Wait                    *)
          Addresses,    (* futex words                                     *)
          Values,       (* what a futex word may hold                      *)
          Sweepers,     (* threads that visit every queue in turn          *)
          NoThread,     (* no holder of a queue mutex                      *)
          SizeMax,      (* the largest size_t                              *)
          MaxWake,      (* bound: the largest count of one WAKE            *)
          DiscardRace   (* may sigaction discard a signal between the two  *)
                        (* evaluations of the predicate that saw it?       *)

ASSUME FutexAssumption ==
  /\ IsFiniteSet(Threads)
  /\ NoThread \notin Threads
  /\ SizeMax \in Nat
  /\ Cardinality(Threads) <= SizeMax
  /\ MaxWake \in Nat
  /\ DiscardRace \in BOOLEAN
  /\ Values # {}

VARIABLES
  value,        (* the guest words                                         *)
  queues,       (* addresses that have a WaitQueue in queues_              *)
  holder,       (* the owner of each WaitQueue::mutex                      *)
  registered,   (* WaitQueue::waiter_details; `waiters` is its cardinality *)
  tokens,       (* WaitQueue::wake_tokens                                  *)
  asleep,       (* threads on the condition variable, not yet notified     *)
  interrupted,  (* interrupted_                                            *)
  pending,      (* threads for which the caller's predicate is true        *)
  pc,           (* where each thread is in Wait, or what Wait returned     *)
  call,         (* the arguments of its Wait                               *)
  expired,      (* timed waiters whose deadline has passed                 *)
  sweep         (* where each sweeper is in its pass over the queues       *)

waitVars == <<holder, registered, asleep, pc, call, expired>>
vars == <<value, queues, waitVars, tokens, interrupted, pending, sweep>>

Results ==
  {"awoken", "value_mismatch", "interrupted", "interrupted_after_wait", "timed_out"}
Free == {"idle"} \cup Results       \* not inside Wait
Waiting == {"checking", "parked", "deciding"}
Locked == {"checking", "deciding"}

Calls == [address: Addresses, expected: Values, timed: BOOLEAN]
NoCall == [address |-> "none"]
NoSweep == [kind |-> "none", started |-> FALSE, left |-> {}]
Sweeps ==
  {NoSweep} \cup [kind: {"wake_all", "notify", "interrupt"}, started: {FALSE}, left: {{}}]
            \cup [kind: {"wake_all", "notify", "interrupt"}, started: {TRUE},
                  left: SUBSET Addresses]

\* Every variable has its type; what WAKE and Wait compute in size_t stays in
\* its range, and a thread inside Wait has arguments.
TypeOK ==
  /\ value \in [Addresses -> Values]
  /\ queues \subseteq Addresses
  /\ holder \in [Addresses -> Threads \cup {NoThread}]
  /\ registered \in [Addresses -> SUBSET Threads]
  /\ tokens \in [Addresses -> 0 .. SizeMax]
  /\ asleep \in [Addresses -> SUBSET Threads]
  /\ interrupted \in BOOLEAN
  /\ pending \subseteq Threads
  /\ pc \in [Threads -> Free \cup Waiting \cup {"entering"}]
  /\ call \in [Threads -> Calls \cup {NoCall}]
  /\ \A t \in Threads : pc[t] \notin Free => call[t] \in Calls
  /\ expired \subseteq Threads
  /\ sweep \in [Sweepers -> Sweeps]

Init ==
  /\ value \in [Addresses -> Values]
  /\ queues = {}
  /\ holder = [a \in Addresses |-> NoThread]
  /\ registered = [a \in Addresses |-> {}]
  /\ tokens = [a \in Addresses |-> 0]
  /\ asleep = [a \in Addresses |-> {}]
  /\ interrupted = FALSE
  /\ pending = {}
  /\ pc = [t \in Threads |-> "idle"]
  /\ call = [t \in Threads |-> NoCall]
  /\ expired = {}
  /\ sweep = [s \in Sweepers |-> NoSweep]

-----------------------------------------------------------------------------
\* size_t arithmetic: both operations wrap.
Decrement(n) == IF n = 0 THEN SizeMax ELSE n - 1
Minus(m, n) == IF n <= m THEN m - n ELSE (m + SizeMax + 1) - n
Plus(m, n) == IF m + n <= SizeMax THEN m + n ELSE (m + n) - (SizeMax + 1)
Smaller(m, n) == IF m <= n THEN m ELSE n

Waiters(a) == Cardinality(registered[a])
Available(a) == Minus(Waiters(a), tokens[a])
IsInterrupted(t) == interrupted \/ t \in pending
Ready(t) == IsInterrupted(t) \/ tokens[call[t].address] # 0

\* Registered threads that are not on the condition variable: they run, or
\* wait for nothing but the queue's mutex.
Awake(a) == registered[a] \ asleep[a]

-----------------------------------------------------------------------------
(* Wait, up to the point where the thread is registered.                   *)

CallWait(t, a, c) ==
  /\ pc[t] \in Free
  /\ c.address = a
  /\ queues' = queues \cup {a}
  /\ pc' = [pc EXCEPT ![t] = "entering"]
  /\ call' = [call EXCEPT ![t] = c]
  /\ UNCHANGED <<value, holder, registered, tokens, asleep, interrupted, pending,
                 expired, sweep>>

\* The thread leaves Wait with `result` and no longer holds the mutex.
Return(t, result) ==
  /\ pc' = [pc EXCEPT ![t] = result]
  /\ call' = [call EXCEPT ![t] = NoCall]
  /\ expired' = expired \ {t}

Refuse(t) ==
  /\ pc[t] = "entering"
  /\ holder[call[t].address] = NoThread
  /\ \/ /\ value[call[t].address] # call[t].expected
        /\ Return(t, "value_mismatch")
     \/ /\ value[call[t].address] = call[t].expected
        /\ IsInterrupted(t)
        /\ Return(t, "interrupted")
  /\ UNCHANGED <<value, queues, holder, registered, tokens, asleep, interrupted,
                 pending, sweep>>

Register(t) ==
  LET a == call[t].address IN
  /\ pc[t] = "entering"
  /\ holder[a] = NoThread
  /\ value[a] = call[t].expected
  /\ ~IsInterrupted(t)
  /\ holder' = [holder EXCEPT ![a] = t]
  /\ registered' = [registered EXCEPT ![a] = @ \cup {t}]
  /\ pc' = [pc EXCEPT ![t] = "checking"]
  /\ UNCHANGED <<value, queues, tokens, asleep, interrupted, pending, call, expired,
                 sweep>>

-----------------------------------------------------------------------------
(* Wait, from the condition variable to the return.                        *)

\* remove_waiter, and the mutex is released with the return.
Leave(t, result) ==
  LET a == call[t].address IN
  /\ registered' = [registered EXCEPT ![a] = @ \ {t}]
  /\ holder' = [holder EXCEPT ![a] = NoThread]
  /\ Return(t, result)

FindReady(t) ==
  /\ pc[t] = "checking"
  /\ Ready(t)
  /\ pc' = [pc EXCEPT ![t] = "deciding"]
  /\ UNCHANGED <<value, queues, holder, registered, tokens, asleep, interrupted,
                 pending, call, expired, sweep>>

Park(t) ==
  LET a == call[t].address IN
  /\ pc[t] = "checking"
  /\ ~Ready(t)
  /\ t \notin expired
  /\ holder' = [holder EXCEPT ![a] = NoThread]
  /\ asleep' = [asleep EXCEPT ![a] = @ \cup {t}]
  /\ pc' = [pc EXCEPT ![t] = "parked"]
  /\ UNCHANGED <<value, queues, registered, tokens, interrupted, pending, call,
                 expired, sweep>>

\* Faulty variant: the deadline wins over a token that arrived with it.
TimeOutOverToken(t) ==
  /\ pc[t] = "checking"
  /\ t \in expired
  /\ Leave(t, "timed_out")
  /\ UNCHANGED <<value, queues, tokens, asleep, interrupted, pending, sweep>>

TimeOut(t) ==
  /\ pc[t] = "checking"
  /\ ~Ready(t)
  /\ t \in expired
  /\ Leave(t, "timed_out")
  /\ UNCHANGED <<value, queues, tokens, asleep, interrupted, pending, sweep>>

\* The deadline of a timed wait passes.
Expire(t) ==
  /\ pc[t] = "parked"
  /\ call[t].timed
  /\ t \notin expired
  /\ expired' = expired \cup {t}
  /\ asleep' = [asleep EXCEPT ![call[t].address] = @ \ {t}]
  /\ UNCHANGED <<value, queues, holder, registered, tokens, interrupted, pending,
                 pc, call, sweep>>

\* std::condition_variable may wake without a notify.
WakeSpuriously(t) ==
  /\ pc[t] = "parked"
  /\ t \in asleep[call[t].address]
  /\ asleep' = [asleep EXCEPT ![call[t].address] = @ \ {t}]
  /\ UNCHANGED <<value, queues, holder, registered, tokens, interrupted, pending,
                 pc, call, expired, sweep>>

Resume(t) ==
  LET a == call[t].address IN
  /\ pc[t] = "parked"
  /\ t \notin asleep[a]
  /\ holder[a] = NoThread
  /\ holder' = [holder EXCEPT ![a] = t]
  /\ pc' = [pc EXCEPT ![t] = "checking"]
  /\ UNCHANGED <<value, queues, registered, tokens, asleep, interrupted, pending,
                 call, expired, sweep>>

\* Faulty variant: an interrupted waiter leaves the token that woke it behind.
LeaveIgnoringToken(t) ==
  /\ pc[t] = "deciding"
  /\ IsInterrupted(t)
  /\ Leave(t, "interrupted_after_wait")
  /\ UNCHANGED <<value, queues, tokens, asleep, interrupted, pending, sweep>>

LeaveInterrupted(t) ==
  /\ pc[t] = "deciding"
  /\ interrupted \/ (IsInterrupted(t) /\ tokens[call[t].address] = 0)
  /\ Leave(t, "interrupted_after_wait")
  /\ UNCHANGED <<value, queues, tokens, asleep, interrupted, pending, sweep>>

TakeToken(t) ==
  LET a == call[t].address IN
  /\ pc[t] = "deciding"
  /\ ~interrupted
  /\ ~(IsInterrupted(t) /\ tokens[a] = 0)
  /\ tokens' = [tokens EXCEPT ![a] = Decrement(@)]
  /\ Leave(t, "awoken")
  /\ UNCHANGED <<value, queues, asleep, interrupted, pending, sweep>>

-----------------------------------------------------------------------------
(* The wakers.                                                             *)

Issue(a, count) == tokens' = [tokens EXCEPT ![a] = Plus(@, count)]

Wake(a, maximum) ==
  LET count == Smaller(maximum, Available(a)) IN
  /\ a \in queues
  /\ holder[a] = NoThread
  /\ ~interrupted
  /\ Issue(a, count)
  /\ \E notified \in SUBSET asleep[a] :
       /\ Cardinality(notified) = Smaller(count, Cardinality(asleep[a]))
       /\ asleep' = [asleep EXCEPT ![a] = @ \ notified]
  /\ UNCHANGED <<value, queues, holder, registered, interrupted, pending, pc, call,
                 expired, sweep>>

StartSweep(s, kind) ==
  /\ sweep[s] = NoSweep
  /\ sweep' = [sweep EXCEPT ![s] = [kind |-> kind, started |-> FALSE, left |-> {}]]
  /\ UNCHANGED <<value, queues, waitVars, tokens>>

BeginWakeAll(s) ==
  /\ ~interrupted
  /\ StartSweep(s, "wake_all")
  /\ UNCHANGED <<interrupted, pending>>

BeginInterruptAll(s) ==
  /\ interrupted' = TRUE
  /\ StartSweep(s, "interrupt")
  /\ UNCHANGED pending

\* Faulty variant: the signal is posted and no waiter is told.
PostSignalOnly(s, t) ==
  /\ sweep[s] = NoSweep
  /\ pending' = pending \cup {t}
  /\ UNCHANGED <<value, queues, waitVars, tokens, interrupted, sweep>>

\* tkill/tgkill: the signal is posted, then NotifyWaiters is called.
SendSignal(s, t) ==
  /\ pending' = pending \cup {t}
  /\ StartSweep(s, "notify")
  /\ UNCHANGED interrupted

\* The pass is over once no address is left.
Remaining(s, left) ==
  IF left = {} THEN NoSweep ELSE [kind |-> sweep[s].kind, started |-> TRUE, left |-> left]

Snapshot(s) ==
  /\ sweep[s].kind # "none"
  /\ ~sweep[s].started
  /\ sweep' = [sweep EXCEPT ![s] = Remaining(s, queues)]
  /\ UNCHANGED <<value, queues, waitVars, tokens, interrupted, pending>>

\* notify_all on a queue; a WakeAll first turns every waiter into a token.
VisitQueue(s, a) ==
  /\ sweep[s].started
  /\ a \in sweep[s].left
  /\ holder[a] = NoThread
  /\ IF sweep[s].kind = "wake_all"
       THEN IF interrupted
              THEN UNCHANGED <<tokens, asleep>>
              ELSE /\ Issue(a, Available(a))
                   /\ asleep' = [asleep EXCEPT ![a] = {}]
       ELSE /\ asleep' = [asleep EXCEPT ![a] = {}]
            /\ UNCHANGED tokens
  /\ sweep' = [sweep EXCEPT ![s] = Remaining(s, @.left \ {a})]
  /\ UNCHANGED <<value, queues, holder, registered, interrupted, pending, pc, call, expired>>

-----------------------------------------------------------------------------
(* The rest of the program, as the table sees it.                          *)

\* A guest store to a futex word.
Store(a, v) ==
  /\ value[a] # v
  /\ value' = [value EXCEPT ![a] = v]
  /\ UNCHANGED <<queues, waitVars, tokens, interrupted, pending, sweep>>

\* A thread outside Wait delivers its pending signal.
DeliverSignal(t) ==
  /\ pc[t] \in Free
  /\ t \in pending
  /\ pending' = pending \ {t}
  /\ UNCHANGED <<value, queues, waitVars, tokens, interrupted, sweep>>

\* Another thread's sigaction(SIG_IGN) discards the signal everywhere. It takes
\* no queue mutex, so nothing keeps it out of a waiter's locked region.
IgnoreSignal ==
  /\ pending # {}
  /\ DiscardRace \/ \A t \in pending : pc[t] # "deciding"
  /\ pending' = {}
  /\ UNCHANGED <<value, queues, waitVars, tokens, interrupted, sweep>>

-----------------------------------------------------------------------------
WaitStep(t) ==
  \/ \E a \in Addresses, c \in Calls : CallWait(t, a, c)
  \/ Refuse(t)
  \/ Register(t)
  \/ FindReady(t)
  \/ Park(t)
  \/ TimeOut(t)
  \/ Expire(t)
  \/ WakeSpuriously(t)
  \/ Resume(t)
  \/ LeaveInterrupted(t)
  \/ TakeToken(t)

SweepStep(s) ==
  \/ BeginWakeAll(s)
  \/ BeginInterruptAll(s)
  \/ \E t \in Threads : SendSignal(s, t)
  \/ Snapshot(s)
  \/ \E a \in Addresses : VisitQueue(s, a)

Next ==
  \/ \E t \in Threads : WaitStep(t) \/ DeliverSignal(t)
  \/ \E s \in Sweepers : SweepStep(s)
  \/ \E a \in Addresses, n \in 1 .. MaxWake : Wake(a, n)
  \/ \E a \in Addresses, v \in Values : Store(a, v)
  \/ IgnoreSignal

(***************************************************************************)
(* A running host thread keeps running, and one that queues on a mutex     *)
(* which is released again and again gets it (strong fairness on Resume    *)
(* and VisitQueue). Nobody has to call, to store or to time out.           *)
(***************************************************************************)
Fairness ==
  /\ \A t \in Threads :
       /\ WF_vars(FindReady(t) \/ Park(t) \/ TimeOut(t) \/ LeaveInterrupted(t) \/ TakeToken(t))
       /\ SF_vars(Resume(t))
  /\ \A s \in Sweepers :
       /\ WF_vars(Snapshot(s))
       /\ \A a \in Addresses : SF_vars(VisitQueue(s, a))

SafetySpec == Init /\ [][Next]_vars

Spec == SafetySpec /\ Fairness

-----------------------------------------------------------------------------
(* Properties.                                                             *)

\* No wake is lost: as long as the table is not interrupted, there are at
\* least as many registered threads that will look at wake_tokens as there
\* are tokens. Hence `waiters - wake_tokens` in Wake and WakeAll never wraps,
\* and a token is never left to threads that all sleep.
TokensCovered ==
  ~interrupted => \A a \in Addresses : tokens[a] <= Cardinality(Awake(a))

\* A signal sent to a waiting thread gets it out of Wait, unless the signal is
\* discarded first: NotifyWaiters makes it evaluate its predicate even though
\* nobody woke the futex.
SignalEndsWait ==
  \A t \in Threads : (t \in pending /\ pc[t] \in Waiting) ~> (pc[t] \notin Waiting \/ t \notin pending)

\* Tokens are issued by WAKE and by the global wake, never by a thread that
\* leaves Wait (cpu/MODULE.md: NotifyWaiters issues no WAKE token).
OnlyWakesIssueTokens ==
  [][\A a \in Addresses : tokens'[a] > tokens[a] => registered'[a] = registered[a]]_vars

\* FutexTable keeps the promise of AbstractFutex.
Promise == INSTANCE AbstractFutex
             WITH waiting <- registered, permits <- tokens, closed <- interrupted

ImplementsPromise == Promise!Spec

=============================================================================
