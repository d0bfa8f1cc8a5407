------------------------- MODULE GuestThreadsProofs -------------------------
(***************************************************************************)
(* Proofs about GuestThreads for any number of guest threads and words,    *)
(* with and without failures of the host.                                  *)
(***************************************************************************)
EXTENDS GuestThreads, FiniteSetTheorems, TLAPS

AllPoints == RunPoints \cup ClonePoints \cup ExitPoints \cup ChildPoints \cup OwnerPoints
Alive(t) == status[t] \in {"running", "exit_requested"}

\* The root is never the subject of an exit, and a child never drains.
RootInv ==
  /\ pc[Root] \in RunPoints \cup ClonePoints \cup ExitPoints \cup OwnerPoints
  /\ then[Root] = "top"
  /\ \A c \in Children : pc[c] \notin OwnerPoints

\* A host thread runs for a registered guest thread, and what it does after its
\* guest code has ended says how far the exit has come.
EndInv ==
  \A c \in Children :
    /\ status[c] = "none" => pc[c] = "none"
    /\ pc[c] \in {"fail_close", "fail_complete"} => status[c] \in {"exit_requested", "exited"}
    /\ pc[c] \in {"publishing", "ending", "notifying", "finished"} => status[c] = "exited"

\* Who completes an exit, its own or that of a child that could not be started.
SubjectInv ==
  \A t \in Threads : pc[t] \in ExitPoints =>
    /\ Subject(t) \in Children
    /\ status[Subject(t)] = "exited"
    /\ clear[Subject(t)] \in Words
    /\ then[t] = "top" => pc[Subject(t)] = "none"

\* The thread has a child in hand that nobody else knows of.
Holds(t) == pc[t] \in {"registering", "launching"} \/ (pc[t] \in ExitPoints /\ then[t] = "top")

Parent(t) ==
  /\ committer = t <=> pc[t] = "registering"
  /\ Holds(t) => spawn[t].child \in 2 .. nextId - 1
  /\ pc[t] \in {"registering", "launching", "owning"} => spawn[t].child \in Children
  /\ pc[t] = "registering" => status[spawn[t].child] = "none"
  /\ pc[t] = "launching" => Alive(spawn[t].child) /\ pc[spawn[t].child] = "none"
  /\ pc[t] = "owning" => status[spawn[t].child] # "none"

OneParent ==
  \A t, u \in Threads :
    Holds(t) /\ Holds(u) /\ spawn[t].child = spawn[u].child => t = u

ChildInv ==
  /\ \A t \in Threads : Parent(t)
  /\ OneParent
  /\ \A c \in Children : c >= nextId => status[c] = "none"
  /\ \A c \in owned : status[c] # "none"

\* The word of a clone under way is nobody else's: no thread alive will clear it
\* and nobody waits for it, and until the child is registered no other word holds
\* its id.
Committing == {"spawning", "registering"}

Reserved(t, w) ==
  /\ waiting[w] = {}
  /\ \A c \in Threads : Alive(c) => clear[c] # w
  /\ \A u \in Threads : pc[u] \in Committing /\ spawn[u].word = w => t = u
  /\ pc[t] = "spawning" => word[w] = None
  /\ pc[t] = "registering" => word[w] = spawn[t].child /\ spawn[t].saved = None

ReservedInv ==
  \A t \in Threads : pc[t] \in Committing =>
    /\ \A w \in Words : w = spawn[t].word => Reserved(t, w)
    /\ pc[t] = "registering" =>
         \A x \in Words : word[x] = spawn[t].child => x = spawn[t].word

\* The word of a thread holds its id until the word is cleared for it.
ClearingInv ==
  \A t \in Threads : pc[t] = "clearing" => word[clear[Subject(t)]] = Subject(t)

\* A word has one joiner.
OneJoiner == \A w \in Words : \A t, u \in waiting[w] : t = u

TInv == TypeOK /\ RootInv
LInv == TInv /\ EndInv /\ SubjectInv /\ ChildInv /\ GroupExitIsFinal
WInv == LInv /\ ReservedInv /\ ClearingInv /\ WordNamesLiveThread /\ NoIdOfUncreatedThread
GInv == WInv /\ OneJoiner /\ JoinerIsWoken

-----------------------------------------------------------------------------

(* Types.                                                                  *)

\* The root is the one thread that no clone makes.
LEMMA Constants ==
  /\ Root \in Threads /\ Root \notin Children
  /\ None \notin Children /\ None \notin Threads
  /\ Threads = Children \cup {Root}
  /\ Children \subseteq Nat
  /\ LastThread \in Nat /\ LastThread >= 2
  /\ NoWord \notin Words
BY GuestThreadsAssumption DEF GuestThreadsAssumption, Root, None, Threads, Children

\* The program starts with variables of their types.
LEMMA InitTypeOK == Init => TypeOK
<1> SUFFICES ASSUME Init
             PROVE  TypeOK
  OBVIOUS
<1>1. NoSpawn \in [child : Children \cup {None}, word : Words \cup {NoWord},
                   saved : Children \cup {None}]
  BY DEF NoSpawn
<1>2. NoDrain \in [members : SUBSET Children, live : SUBSET Children,
                   left : SUBSET Children]
  BY DEF NoDrain
<1>3. pc \in [Threads -> AllPoints]
  BY DEF Init, AllPoints, RunPoints, ChildPoints
<1>4. /\ status \in [Threads -> Statuses]
      /\ clear \in [Threads -> Words \cup {NoWord}]
      /\ word \in [Words -> Children \cup {None}]
      /\ then \in [Threads -> {"top", "publishing", "notifying"}]
      /\ failure \in [Children -> {"none", "not_running", "host"}]
  BY DEF Init, Statuses
<1>5. /\ waiting \in [Words -> SUBSET Threads]
      /\ permits \in [Words -> Nat]
      /\ closed \in BOOLEAN
  BY DEF Init, Futex!Init
<1>6. nextId \in 2 .. LastThread + 1 /\ committer \in Threads \cup {None}
  BY Constants DEF Init
<1> QED
  BY <1>1, <1>2, <1>3, <1>4, <1>5, <1>6 DEF Init, TypeOK, AllPoints

\* A thread goes to one of the points it may be at.
LEMMA GotoType ==
  ASSUME TypeOK, NEW t \in Threads, NEW point \in AllPoints, Goto(t, point)
  PROVE  /\ pc' \in [Threads -> AllPoints]
         /\ then' \in [Threads -> {"top", "publishing", "notifying"}]
BY DEF TypeOK, Goto, AllPoints



\* Every step leaves every host thread at a point of its own code.
LEMMA PcType ==
  ASSUME TypeOK, Next
  PROVE  /\ pc' \in [Threads -> AllPoints]
         /\ then' \in [Threads -> {"top", "publishing", "notifying"}]
<1>1. ASSUME NEW t \in Threads, RunGuest(t)
      PROVE  /\ pc' \in [Threads -> AllPoints]
             /\ then' \in [Threads -> {"top", "publishing", "notifying"}]
  BY <1>1, GotoType
     DEF RunGuest, AllPoints, RunPoints, ClonePoints, ExitPoints, ChildPoints,
         OwnerPoints
<1>2. ASSUME NEW t \in Threads, Exit(t)
      PROVE  /\ pc' \in [Threads -> AllPoints]
             /\ then' \in [Threads -> {"top", "publishing", "notifying"}]
  BY <1>2
     DEF Exit, CompleteExit, TypeOK, AllPoints, RunPoints, ClonePoints, ExitPoints,
         ChildPoints, OwnerPoints
<1>3. ASSUME NEW t \in Threads, EndSlice(t)
      PROVE  /\ pc' \in [Threads -> AllPoints]
             /\ then' \in [Threads -> {"top", "publishing", "notifying"}]
  BY <1>3, GotoType
     DEF EndSlice, AllPoints, RunPoints, ClonePoints, ExitPoints, ChildPoints,
         OwnerPoints
<1>4. ASSUME NEW t \in Threads, Continue(t)
      PROVE  /\ pc' \in [Threads -> AllPoints]
             /\ then' \in [Threads -> {"top", "publishing", "notifying"}]
  BY <1>4, GotoType
     DEF Continue, AllPoints, RunPoints, ClonePoints, ExitPoints, ChildPoints,
         OwnerPoints
<1>5. ASSUME NEW t \in Threads, EnterRunner(t)
      PROVE  /\ pc' \in [Threads -> AllPoints]
             /\ then' \in [Threads -> {"top", "publishing", "notifying"}]
  BY <1>5, GotoType
     DEF EnterRunner, AllPoints, RunPoints, ClonePoints, ExitPoints, ChildPoints,
         OwnerPoints
<1>6. ASSUME NEW t \in Threads, Cancel(t)
      PROVE  /\ pc' \in [Threads -> AllPoints]
             /\ then' \in [Threads -> {"top", "publishing", "notifying"}]
  BY <1>6, GotoType
     DEF Cancel, AllPoints, RunPoints, ClonePoints, ExitPoints, ChildPoints,
         OwnerPoints
<1>7. ASSUME NEW t \in Threads, SyscallExit(t)
      PROVE  /\ pc' \in [Threads -> AllPoints]
             /\ then' \in [Threads -> {"top", "publishing", "notifying"}]
  BY <1>7, GotoType
     DEF SyscallExit, AllPoints, RunPoints, ClonePoints, ExitPoints, ChildPoints,
         OwnerPoints
<1>8. ASSUME NEW t \in Threads, SyscallExitGroup(t)
      PROVE  /\ pc' \in [Threads -> AllPoints]
             /\ then' \in [Threads -> {"top", "publishing", "notifying"}]
  BY <1>8, GotoType
     DEF SyscallExitGroup, AllPoints, RunPoints, ClonePoints, ExitPoints,
         ChildPoints, OwnerPoints
<1>9. ASSUME NEW t \in Threads, SetTidAddress(t)
      PROVE  /\ pc' \in [Threads -> AllPoints]
             /\ then' \in [Threads -> {"top", "publishing", "notifying"}]
  BY <1>9, GotoType
     DEF SetTidAddress, AllPoints, RunPoints, ClonePoints, ExitPoints, ChildPoints,
         OwnerPoints
<1>10. ASSUME NEW t \in Threads, RefuseClone(t)
      PROVE  /\ pc' \in [Threads -> AllPoints]
             /\ then' \in [Threads -> {"top", "publishing", "notifying"}]
  BY <1>10, GotoType
     DEF RefuseClone, AllPoints, RunPoints, ClonePoints, ExitPoints, ChildPoints,
         OwnerPoints
<1>11. ASSUME NEW t \in Threads, BeginCommit(t)
      PROVE  /\ pc' \in [Threads -> AllPoints]
             /\ then' \in [Threads -> {"top", "publishing", "notifying"}]
  BY <1>11, GotoType
     DEF BeginCommit, AllPoints, RunPoints, ClonePoints, ExitPoints, ChildPoints,
         OwnerPoints
<1>12. ASSUME NEW t \in Threads, RegisterChild(t)
      PROVE  /\ pc' \in [Threads -> AllPoints]
             /\ then' \in [Threads -> {"top", "publishing", "notifying"}]
  BY <1>12, GotoType
     DEF RegisterChild, AllPoints, RunPoints, ClonePoints, ExitPoints, ChildPoints,
         OwnerPoints
<1>13. ASSUME NEW t \in Threads, RollBackCommit(t)
      PROVE  /\ pc' \in [Threads -> AllPoints]
             /\ then' \in [Threads -> {"top", "publishing", "notifying"}]
  BY <1>13, GotoType
     DEF RollBackCommit, AllPoints, RunPoints, ClonePoints, ExitPoints,
         ChildPoints, OwnerPoints
<1>14. ASSUME NEW t \in Threads, ExhaustIds(t)
      PROVE  /\ pc' \in [Threads -> AllPoints]
             /\ then' \in [Threads -> {"top", "publishing", "notifying"}]
  BY <1>14, GotoType
     DEF ExhaustIds, AllPoints, RunPoints, ClonePoints, ExitPoints, ChildPoints,
         OwnerPoints
<1>15. ASSUME NEW t \in Threads, StartHostThread(t)
      PROVE  /\ pc' \in [Threads -> AllPoints]
             /\ then' \in [Threads -> {"top", "publishing", "notifying"}]
  BY <1>15
     DEF StartHostThread, TypeOK, AllPoints, RunPoints, ClonePoints, ExitPoints,
         ChildPoints, OwnerPoints
<1>16. ASSUME NEW t \in Threads, FailToSpawn(t)
      PROVE  /\ pc' \in [Threads -> AllPoints]
             /\ then' \in [Threads -> {"top", "publishing", "notifying"}]
  BY <1>16
     DEF FailToSpawn, TypeOK, AllPoints, RunPoints, ClonePoints, ExitPoints,
         ChildPoints, OwnerPoints
<1>17. ASSUME NEW t \in Threads, OwnChild(t)
      PROVE  /\ pc' \in [Threads -> AllPoints]
             /\ then' \in [Threads -> {"top", "publishing", "notifying"}]
  BY <1>17, GotoType
     DEF OwnChild, AllPoints, RunPoints, ClonePoints, ExitPoints, ChildPoints,
         OwnerPoints
<1>18. ASSUME NEW t \in Threads, PublishOutcome(t)
      PROVE  /\ pc' \in [Threads -> AllPoints]
             /\ then' \in [Threads -> {"top", "publishing", "notifying"}]
  BY <1>18, GotoType
     DEF PublishOutcome, AllPoints, RunPoints, ClonePoints, ExitPoints,
         ChildPoints, OwnerPoints
<1>19. ASSUME NEW t \in Threads, Finish(t)
      PROVE  /\ pc' \in [Threads -> AllPoints]
             /\ then' \in [Threads -> {"top", "publishing", "notifying"}]
  BY <1>19, GotoType
     DEF Finish, AllPoints, RunPoints, ClonePoints, ExitPoints, ChildPoints,
         OwnerPoints
<1>20. ASSUME NEW t \in Threads, HostException(t)
      PROVE  /\ pc' \in [Threads -> AllPoints]
             /\ then' \in [Threads -> {"top", "publishing", "notifying"}]
  BY <1>20, GotoType
     DEF HostException, Fail, AllPoints, RunPoints, ClonePoints, ExitPoints,
         ChildPoints, OwnerPoints
<1>21. ASSUME NEW t \in Threads, StopUnexpectedly(t)
      PROVE  /\ pc' \in [Threads -> AllPoints]
             /\ then' \in [Threads -> {"top", "publishing", "notifying"}]
  BY <1>21, GotoType
     DEF StopUnexpectedly, AllPoints, RunPoints, ClonePoints, ExitPoints,
         ChildPoints, OwnerPoints
<1>22. ASSUME NEW t \in Threads, RejectStop(t)
      PROVE  /\ pc' \in [Threads -> AllPoints]
             /\ then' \in [Threads -> {"top", "publishing", "notifying"}]
  BY <1>22, GotoType
     DEF RejectStop, Fail, AllPoints, RunPoints, ClonePoints, ExitPoints,
         ChildPoints, OwnerPoints
<1>23. ASSUME NEW t \in Threads, RejectThread(t)
      PROVE  /\ pc' \in [Threads -> AllPoints]
             /\ then' \in [Threads -> {"top", "publishing", "notifying"}]
  BY <1>23, GotoType
     DEF RejectThread, Fail, AllPoints, RunPoints, ClonePoints, ExitPoints,
         ChildPoints, OwnerPoints
<1>24. ASSUME NEW t \in Threads, FailGroup(t)
      PROVE  /\ pc' \in [Threads -> AllPoints]
             /\ then' \in [Threads -> {"top", "publishing", "notifying"}]
  BY <1>24, GotoType
     DEF FailGroup, AllPoints, RunPoints, ClonePoints, ExitPoints, ChildPoints,
         OwnerPoints
<1>25. ASSUME NEW t \in Threads, FailClose(t)
      PROVE  /\ pc' \in [Threads -> AllPoints]
             /\ then' \in [Threads -> {"top", "publishing", "notifying"}]
  BY <1>25, GotoType
     DEF FailClose, AllPoints, RunPoints, ClonePoints, ExitPoints, ChildPoints,
         OwnerPoints
<1>26. ASSUME NEW t \in Threads, FailComplete(t)
      PROVE  /\ pc' \in [Threads -> AllPoints]
             /\ then' \in [Threads -> {"top", "publishing", "notifying"}]
  <2>1. CASE CompleteExit(t, t, "notifying")
    BY <2>1
       DEF CompleteExit, TypeOK, AllPoints, RunPoints, ClonePoints, ExitPoints,
           ChildPoints, OwnerPoints
  <2>2. CASE Goto(t, "notifying")
    BY <2>2, GotoType
       DEF AllPoints, RunPoints, ClonePoints, ExitPoints, ChildPoints,
           OwnerPoints
  <2> QED
    BY <1>26, <2>1, <2>2 DEF FailComplete
<1>27. ASSUME NEW t \in Threads, Notify(t)
      PROVE  /\ pc' \in [Threads -> AllPoints]
             /\ then' \in [Threads -> {"top", "publishing", "notifying"}]
  BY <1>27, GotoType
     DEF Notify, AllPoints, RunPoints, ClonePoints, ExitPoints, ChildPoints,
         OwnerPoints
<1>28. ASSUME NEW t \in Threads, ClearChildTid(t)
      PROVE  /\ pc' \in [Threads -> AllPoints]
             /\ then' \in [Threads -> {"top", "publishing", "notifying"}]
  BY <1>28, GotoType
     DEF ClearChildTid, AllPoints, RunPoints, ClonePoints, ExitPoints, ChildPoints,
         OwnerPoints
<1>29. ASSUME NEW t \in Threads, WakeJoiner(t)
      PROVE  /\ pc' \in [Threads -> AllPoints]
             /\ then' \in [Threads -> {"top", "publishing", "notifying"}]
  <2>1. then[t] \in AllPoints
    BY
       DEF TypeOK, AllPoints, RunPoints, ClonePoints, ExitPoints, ChildPoints,
           OwnerPoints
  <2> QED
    BY <1>29, <2>1, GotoType DEF WakeJoiner
<1>30. ASSUME NEW t \in Threads, NEW w \in Words, Awake(t, w)
      PROVE  /\ pc' \in [Threads -> AllPoints]
             /\ then' \in [Threads -> {"top", "publishing", "notifying"}]
  BY <1>30, GotoType
     DEF Awake, AllPoints, RunPoints, ClonePoints, ExitPoints, ChildPoints,
         OwnerPoints
<1>31. ASSUME NEW t \in Threads, NEW w \in Words, JoinThread(t, w)
      PROVE  /\ pc' \in [Threads -> AllPoints]
             /\ then' \in [Threads -> {"top", "publishing", "notifying"}]
  BY <1>31, GotoType
     DEF JoinThread, AllPoints, RunPoints, ClonePoints, ExitPoints, ChildPoints,
         OwnerPoints
<1>32. ASSUME NEW t \in Threads, NEW w \in Words, EndWait(t, w)
      PROVE  /\ pc' \in [Threads -> AllPoints]
             /\ then' \in [Threads -> {"top", "publishing", "notifying"}]
  BY <1>32, GotoType
     DEF EndWait, AllPoints, RunPoints, ClonePoints, ExitPoints, ChildPoints,
         OwnerPoints
<1>33. ASSUME NEW t \in Threads, NEW w \in Words \cup {NoWord}, CallClone(t, w)
      PROVE  /\ pc' \in [Threads -> AllPoints]
             /\ then' \in [Threads -> {"top", "publishing", "notifying"}]
  BY <1>33, GotoType
     DEF CallClone, AllPoints, RunPoints, ClonePoints, ExitPoints, ChildPoints,
         OwnerPoints
<1>34. ASSUME LeaveGuestCall
      PROVE  /\ pc' \in [Threads -> AllPoints]
             /\ then' \in [Threads -> {"top", "publishing", "notifying"}]
  BY <1>34, Constants, GotoType
     DEF LeaveGuestCall, AllPoints, RunPoints, ClonePoints, ExitPoints,
         ChildPoints, OwnerPoints
<1>35. ASSUME CallGuest
      PROVE  /\ pc' \in [Threads -> AllPoints]
             /\ then' \in [Threads -> {"top", "publishing", "notifying"}]
  BY <1>35, Constants, GotoType
     DEF CallGuest, AllPoints, RunPoints, ClonePoints, ExitPoints, ChildPoints,
         OwnerPoints
<1>36. ASSUME BeginTeardown
      PROVE  /\ pc' \in [Threads -> AllPoints]
             /\ then' \in [Threads -> {"top", "publishing", "notifying"}]
  BY <1>36, Constants, GotoType
     DEF BeginTeardown, AllPoints, RunPoints, ClonePoints, ExitPoints, ChildPoints,
         OwnerPoints
<1>37. ASSUME InterruptBlockingWaits
      PROVE  /\ pc' \in [Threads -> AllPoints]
             /\ then' \in [Threads -> {"top", "publishing", "notifying"}]
  BY <1>37, Constants, GotoType
     DEF InterruptBlockingWaits, AllPoints, RunPoints, ClonePoints, ExitPoints,
         ChildPoints, OwnerPoints
<1>38. ASSUME ListWorkers
      PROVE  /\ pc' \in [Threads -> AllPoints]
             /\ then' \in [Threads -> {"top", "publishing", "notifying"}]
  BY <1>38, Constants, GotoType
     DEF ListWorkers, AllPoints, RunPoints, ClonePoints, ExitPoints, ChildPoints,
         OwnerPoints
<1>39. ASSUME RequestWorkerExit
      PROVE  /\ pc' \in [Threads -> AllPoints]
             /\ then' \in [Threads -> {"top", "publishing", "notifying"}]
  BY <1>39, Constants, GotoType
     DEF RequestWorkerExit, AllPoints, RunPoints, ClonePoints, ExitPoints,
         ChildPoints, OwnerPoints, TypeOK
<1>40. ASSUME BeginJoin
      PROVE  /\ pc' \in [Threads -> AllPoints]
             /\ then' \in [Threads -> {"top", "publishing", "notifying"}]
  BY <1>40, Constants, GotoType
     DEF BeginJoin, AllPoints, RunPoints, ClonePoints, ExitPoints, ChildPoints,
         OwnerPoints
<1>41. ASSUME JoinWorker
      PROVE  /\ pc' \in [Threads -> AllPoints]
             /\ then' \in [Threads -> {"top", "publishing", "notifying"}]
  BY <1>41, Constants, GotoType
     DEF JoinWorker, AllPoints, RunPoints, ClonePoints, ExitPoints, ChildPoints,
         OwnerPoints, TypeOK
<1>42. ASSUME EndDrain
      PROVE  /\ pc' \in [Threads -> AllPoints]
             /\ then' \in [Threads -> {"top", "publishing", "notifying"}]
  BY <1>42, Constants, GotoType
     DEF EndDrain, AllPoints, RunPoints, ClonePoints, ExitPoints, ChildPoints,
         OwnerPoints
<1> QED
  BY <1>1, <1>2, <1>3, <1>4, <1>5, <1>6, <1>7, <1>8, <1>9, <1>10, <1>11,
     <1>12, <1>13, <1>14, <1>15, <1>16, <1>17, <1>18, <1>19, <1>20, <1>21,
     <1>22, <1>23, <1>24, <1>25, <1>26, <1>27, <1>28, <1>29, <1>30, <1>31,
     <1>32, <1>33, <1>34, <1>35, <1>36, <1>37, <1>38, <1>39, <1>40, <1>41,
     <1>42
     DEF Next, RunnerStep, CloneStep, EndStep, Trouble, GuestChoice, DrainStep, OwnerChoice

LifeTyped ==
  /\ status \in [Threads -> Statuses]
  /\ clear \in [Threads -> Words \cup {NoWord}]
  /\ groupExit \in BOOLEAN

\* The lifecycle table.
LEMMA LifeType ==
  ASSUME TypeOK, Next
  PROVE  LifeTyped'
<1>1. ASSUME NEW t \in Threads, RunGuest(t)
      PROVE  LifeTyped'
  BY <1>1 DEF RunGuest, TypeOK, LifeTyped, Statuses, lifeVars
<1>2. ASSUME NEW t \in Threads, Exit(t)
      PROVE  LifeTyped'
  BY <1>2 DEF Exit, CompleteExit, TypeOK, LifeTyped, Statuses, lifeVars
<1>3. ASSUME NEW t \in Threads, EndSlice(t)
      PROVE  LifeTyped'
  BY <1>3 DEF EndSlice, TypeOK, LifeTyped, Statuses, lifeVars
<1>4. ASSUME NEW t \in Threads, Continue(t)
      PROVE  LifeTyped'
  BY <1>4 DEF Continue, TypeOK, LifeTyped, Statuses, lifeVars
<1>5. ASSUME NEW t \in Threads, EnterRunner(t)
      PROVE  LifeTyped'
  BY <1>5 DEF EnterRunner, TypeOK, LifeTyped, Statuses, lifeVars
<1>6. ASSUME NEW t \in Threads, Cancel(t)
      PROVE  LifeTyped'
  BY <1>6 DEF Cancel, TypeOK, LifeTyped, Statuses, lifeVars
<1>7. ASSUME NEW t \in Threads, SyscallExit(t)
      PROVE  LifeTyped'
  BY <1>7 DEF SyscallExit, RequestExit, TypeOK, LifeTyped, Statuses, lifeVars
<1>8. ASSUME NEW t \in Threads, SyscallExitGroup(t)
      PROVE  LifeTyped'
  BY <1>8 DEF SyscallExitGroup, RequestExitGroup, TypeOK, LifeTyped, Statuses, lifeVars
<1>9. ASSUME NEW t \in Threads, SetTidAddress(t)
      PROVE  LifeTyped'
  BY <1>9 DEF SetTidAddress, TypeOK, LifeTyped, Statuses, lifeVars
<1>10. ASSUME NEW t \in Threads, RefuseClone(t)
      PROVE  LifeTyped'
  BY <1>10 DEF RefuseClone, TypeOK, LifeTyped, Statuses, lifeVars
<1>11. ASSUME NEW t \in Threads, BeginCommit(t)
      PROVE  LifeTyped'
  BY <1>11 DEF BeginCommit, TypeOK, LifeTyped, Statuses, lifeVars
<1>12. ASSUME NEW t \in Threads, RegisterChild(t)
      PROVE  LifeTyped'
  BY <1>12 DEF RegisterChild, TypeOK, LifeTyped, Statuses, lifeVars
<1>13. ASSUME NEW t \in Threads, RollBackCommit(t)
      PROVE  LifeTyped'
  BY <1>13 DEF RollBackCommit, TypeOK, LifeTyped, Statuses, lifeVars
<1>14. ASSUME NEW t \in Threads, ExhaustIds(t)
      PROVE  LifeTyped'
  BY <1>14 DEF ExhaustIds, TypeOK, LifeTyped, Statuses, lifeVars
<1>15. ASSUME NEW t \in Threads, StartHostThread(t)
      PROVE  LifeTyped'
  BY <1>15 DEF StartHostThread, TypeOK, LifeTyped, Statuses, lifeVars
<1>16. ASSUME NEW t \in Threads, FailToSpawn(t)
      PROVE  LifeTyped'
  BY <1>16 DEF FailToSpawn, TypeOK, LifeTyped, Statuses, lifeVars
<1>17. ASSUME NEW t \in Threads, OwnChild(t)
      PROVE  LifeTyped'
  BY <1>17 DEF OwnChild, TypeOK, LifeTyped, Statuses, lifeVars
<1>18. ASSUME NEW t \in Threads, PublishOutcome(t)
      PROVE  LifeTyped'
  BY <1>18 DEF PublishOutcome, TypeOK, LifeTyped, Statuses, lifeVars
<1>19. ASSUME NEW t \in Threads, Finish(t)
      PROVE  LifeTyped'
  BY <1>19 DEF Finish, TypeOK, LifeTyped, Statuses, lifeVars
<1>20. ASSUME NEW t \in Threads, HostException(t)
      PROVE  LifeTyped'
  BY <1>20 DEF HostException, Fail, TypeOK, LifeTyped, Statuses, lifeVars
<1>21. ASSUME NEW t \in Threads, StopUnexpectedly(t)
      PROVE  LifeTyped'
  BY <1>21 DEF StopUnexpectedly, TypeOK, LifeTyped, Statuses, lifeVars
<1>22. ASSUME NEW t \in Threads, RejectStop(t)
      PROVE  LifeTyped'
  BY <1>22 DEF RejectStop, Fail, TypeOK, LifeTyped, Statuses, lifeVars
<1>23. ASSUME NEW t \in Threads, RejectThread(t)
      PROVE  LifeTyped'
  BY <1>23 DEF RejectThread, Fail, TypeOK, LifeTyped, Statuses, lifeVars
<1>24. ASSUME NEW t \in Threads, FailGroup(t)
      PROVE  LifeTyped'
  BY <1>24 DEF FailGroup, RequestExitGroup, TypeOK, LifeTyped, Statuses, lifeVars
<1>25. ASSUME NEW t \in Threads, FailClose(t)
      PROVE  LifeTyped'
  BY <1>25 DEF FailClose, TypeOK, LifeTyped, Statuses, lifeVars
<1>26. ASSUME NEW t \in Threads, FailComplete(t)
      PROVE  LifeTyped'
  BY <1>26 DEF FailComplete, CompleteExit, TypeOK, LifeTyped, Statuses, lifeVars
<1>27. ASSUME NEW t \in Threads, Notify(t)
      PROVE  LifeTyped'
  BY <1>27 DEF Notify, TypeOK, LifeTyped, Statuses, lifeVars
<1>28. ASSUME NEW t \in Threads, ClearChildTid(t)
      PROVE  LifeTyped'
  BY <1>28 DEF ClearChildTid, TypeOK, LifeTyped, Statuses, lifeVars
<1>29. ASSUME NEW t \in Threads, WakeJoiner(t)
      PROVE  LifeTyped'
  BY <1>29 DEF WakeJoiner, TypeOK, LifeTyped, Statuses, lifeVars
<1>30. ASSUME NEW t \in Threads, NEW w \in Words, Awake(t, w)
      PROVE  LifeTyped'
  BY <1>30 DEF Awake, TypeOK, LifeTyped, Statuses, lifeVars
<1>31. ASSUME NEW t \in Threads, NEW w \in Words, JoinThread(t, w)
      PROVE  LifeTyped'
  BY <1>31 DEF JoinThread, TypeOK, LifeTyped, Statuses, lifeVars
<1>32. ASSUME NEW t \in Threads, NEW w \in Words, EndWait(t, w)
      PROVE  LifeTyped'
  BY <1>32 DEF EndWait, TypeOK, LifeTyped, Statuses, lifeVars
<1>33. ASSUME NEW t \in Threads, NEW w \in Words \cup {NoWord}, CallClone(t, w)
      PROVE  LifeTyped'
  BY <1>33 DEF CallClone, TypeOK, LifeTyped, Statuses, lifeVars
<1>34. ASSUME LeaveGuestCall
      PROVE  LifeTyped'
  BY <1>34 DEF LeaveGuestCall, TypeOK, LifeTyped, Statuses, lifeVars
<1>35. ASSUME CallGuest
      PROVE  LifeTyped'
  BY <1>35 DEF CallGuest, TypeOK, LifeTyped, Statuses, lifeVars
<1>36. ASSUME BeginTeardown
      PROVE  LifeTyped'
  BY <1>36 DEF BeginTeardown, TypeOK, LifeTyped, Statuses, lifeVars
<1>37. ASSUME InterruptBlockingWaits
      PROVE  LifeTyped'
  BY <1>37 DEF InterruptBlockingWaits, TypeOK, LifeTyped, Statuses, lifeVars
<1>38. ASSUME ListWorkers
      PROVE  LifeTyped'
  BY <1>38 DEF ListWorkers, TypeOK, LifeTyped, Statuses, lifeVars
<1>39. ASSUME RequestWorkerExit
      PROVE  LifeTyped'
  BY <1>39 DEF RequestWorkerExit, RequestExit, TypeOK, LifeTyped, Statuses, lifeVars
<1>40. ASSUME BeginJoin
      PROVE  LifeTyped'
  BY <1>40 DEF BeginJoin, TypeOK, LifeTyped, Statuses, lifeVars
<1>41. ASSUME JoinWorker
      PROVE  LifeTyped'
  BY <1>41 DEF JoinWorker, TypeOK, LifeTyped, Statuses, lifeVars
<1>42. ASSUME EndDrain
      PROVE  LifeTyped'
  BY <1>42 DEF EndDrain, TypeOK, LifeTyped, Statuses, lifeVars
<1> QED
  BY <1>1, <1>2, <1>3, <1>4, <1>5, <1>6, <1>7, <1>8, <1>9, <1>10, <1>11,
     <1>12, <1>13, <1>14, <1>15, <1>16, <1>17, <1>18, <1>19, <1>20, <1>21,
     <1>22, <1>23, <1>24, <1>25, <1>26, <1>27, <1>28, <1>29, <1>30, <1>31,
     <1>32, <1>33, <1>34, <1>35, <1>36, <1>37, <1>38, <1>39, <1>40, <1>41,
     <1>42
     DEF Next, RunnerStep, CloneStep, EndStep, Trouble, GuestChoice, DrainStep, OwnerChoice

FutexTyped ==
  /\ waiting \in [Words -> SUBSET Threads]
  /\ permits \in [Words -> Nat]
  /\ closed \in BOOLEAN

\* The futex table.
LEMMA FutexType ==
  ASSUME TypeOK, Next
  PROVE  FutexTyped'
<1>1. ASSUME NEW t \in Threads, RunGuest(t)
      PROVE  FutexTyped'
  BY <1>1 DEF RunGuest, TypeOK, FutexTyped, stepVars, futexVars
<1>2. ASSUME NEW t \in Threads, Exit(t)
      PROVE  FutexTyped'
  BY <1>2 DEF Exit, TypeOK, FutexTyped, stepVars, futexVars
<1>3. ASSUME NEW t \in Threads, EndSlice(t)
      PROVE  FutexTyped'
  BY <1>3 DEF EndSlice, TypeOK, FutexTyped, stepVars, futexVars
<1>4. ASSUME NEW t \in Threads, Continue(t)
      PROVE  FutexTyped'
  BY <1>4 DEF Continue, TypeOK, FutexTyped, stepVars, futexVars
<1>5. ASSUME NEW t \in Threads, EnterRunner(t)
      PROVE  FutexTyped'
  BY <1>5 DEF EnterRunner, TypeOK, FutexTyped, stepVars, futexVars
<1>6. ASSUME NEW t \in Threads, Cancel(t)
      PROVE  FutexTyped'
  BY <1>6 DEF Cancel, TypeOK, FutexTyped, stepVars, futexVars
<1>7. ASSUME NEW t \in Threads, SyscallExit(t)
      PROVE  FutexTyped'
  BY <1>7 DEF SyscallExit, TypeOK, FutexTyped, stepVars, futexVars
<1>8. ASSUME NEW t \in Threads, SyscallExitGroup(t)
      PROVE  FutexTyped'
  BY <1>8 DEF SyscallExitGroup, TypeOK, FutexTyped, stepVars, futexVars
<1>9. ASSUME NEW t \in Threads, SetTidAddress(t)
      PROVE  FutexTyped'
  BY <1>9 DEF SetTidAddress, TypeOK, FutexTyped, stepVars, futexVars
<1>10. ASSUME NEW t \in Threads, RefuseClone(t)
      PROVE  FutexTyped'
  BY <1>10 DEF RefuseClone, TypeOK, FutexTyped, stepVars, futexVars
<1>11. ASSUME NEW t \in Threads, BeginCommit(t)
      PROVE  FutexTyped'
  BY <1>11 DEF BeginCommit, TypeOK, FutexTyped, stepVars, futexVars
<1>12. ASSUME NEW t \in Threads, RegisterChild(t)
      PROVE  FutexTyped'
  BY <1>12 DEF RegisterChild, TypeOK, FutexTyped, stepVars, futexVars
<1>13. ASSUME NEW t \in Threads, RollBackCommit(t)
      PROVE  FutexTyped'
  BY <1>13 DEF RollBackCommit, TypeOK, FutexTyped, stepVars, futexVars
<1>14. ASSUME NEW t \in Threads, ExhaustIds(t)
      PROVE  FutexTyped'
  BY <1>14 DEF ExhaustIds, TypeOK, FutexTyped, stepVars, futexVars
<1>15. ASSUME NEW t \in Threads, StartHostThread(t)
      PROVE  FutexTyped'
  BY <1>15 DEF StartHostThread, TypeOK, FutexTyped, stepVars, futexVars
<1>16. ASSUME NEW t \in Threads, FailToSpawn(t)
      PROVE  FutexTyped'
  BY <1>16 DEF FailToSpawn, TypeOK, FutexTyped, stepVars, futexVars
<1>17. ASSUME NEW t \in Threads, OwnChild(t)
      PROVE  FutexTyped'
  BY <1>17 DEF OwnChild, TypeOK, FutexTyped, stepVars, futexVars
<1>18. ASSUME NEW t \in Threads, PublishOutcome(t)
      PROVE  FutexTyped'
  BY <1>18 DEF PublishOutcome, TypeOK, FutexTyped, stepVars, futexVars
<1>19. ASSUME NEW t \in Threads, Finish(t)
      PROVE  FutexTyped'
  BY <1>19 DEF Finish, TypeOK, FutexTyped, stepVars, futexVars
<1>20. ASSUME NEW t \in Threads, HostException(t)
      PROVE  FutexTyped'
  BY <1>20 DEF HostException, Fail, TypeOK, FutexTyped, stepVars, futexVars
<1>21. ASSUME NEW t \in Threads, StopUnexpectedly(t)
      PROVE  FutexTyped'
  BY <1>21 DEF StopUnexpectedly, TypeOK, FutexTyped, stepVars, futexVars
<1>22. ASSUME NEW t \in Threads, RejectStop(t)
      PROVE  FutexTyped'
  BY <1>22 DEF RejectStop, Fail, TypeOK, FutexTyped, stepVars, futexVars
<1>23. ASSUME NEW t \in Threads, RejectThread(t)
      PROVE  FutexTyped'
  BY <1>23 DEF RejectThread, Fail, TypeOK, FutexTyped, stepVars, futexVars
<1>24. ASSUME NEW t \in Threads, FailGroup(t)
      PROVE  FutexTyped'
  BY <1>24 DEF FailGroup, TypeOK, FutexTyped, stepVars, futexVars
<1>25. ASSUME NEW t \in Threads, FailClose(t)
      PROVE  FutexTyped'
  BY <1>25 DEF FailClose, Futex!Close, TypeOK, FutexTyped, stepVars, futexVars
<1>26. ASSUME NEW t \in Threads, FailComplete(t)
      PROVE  FutexTyped'
  BY <1>26 DEF FailComplete, TypeOK, FutexTyped, stepVars, futexVars
<1>27. ASSUME NEW t \in Threads, Notify(t)
      PROVE  FutexTyped'
  BY <1>27 DEF Notify, TypeOK, FutexTyped, stepVars, futexVars
<1>28. ASSUME NEW t \in Threads, ClearChildTid(t)
      PROVE  FutexTyped'
  BY <1>28 DEF ClearChildTid, TypeOK, FutexTyped, stepVars, futexVars
<1>29. ASSUME NEW t \in Threads, WakeJoiner(t)
      PROVE  FutexTyped'
  <2>1. ASSUME NEW v, Futex!Signal(v, 1)
        PROVE  FutexTyped'
    <3>1. permits' = [permits EXCEPT ![v] = permits[v] + 1]
      BY <2>1 DEF Futex!Signal
    <3>2. permits' \in [Words -> Nat]
      <4>1. CASE v \in Words
        BY <3>1, <4>1 DEF TypeOK
      <4>2. CASE v \notin Words
        BY <3>1, <4>2, Zenon DEF TypeOK
      <4> QED
        BY <4>1, <4>2
    <3> QED
      BY <2>1, <3>2 DEF Futex!Signal, TypeOK, FutexTyped
  <2>2. CASE UNCHANGED futexVars
    BY <2>2 DEF futexVars, TypeOK, FutexTyped
  <2> QED
    BY <1>29, <2>1, <2>2 DEF WakeJoiner
<1>30. ASSUME NEW t \in Threads, NEW w \in Words, Awake(t, w)
      PROVE  FutexTyped'
  BY <1>30 DEF Awake, Futex!Take, Futex!GiveUp, TypeOK, FutexTyped, stepVars, futexVars
<1>31. ASSUME NEW t \in Threads, NEW w \in Words, JoinThread(t, w)
      PROVE  FutexTyped'
  BY <1>31 DEF JoinThread, Futex!Join, TypeOK, FutexTyped, stepVars, futexVars
<1>32. ASSUME NEW t \in Threads, NEW w \in Words, EndWait(t, w)
      PROVE  FutexTyped'
  BY <1>32 DEF EndWait, Futex!GiveUp, TypeOK, FutexTyped, stepVars, futexVars
<1>33. ASSUME NEW t \in Threads, NEW w \in Words \cup {NoWord}, CallClone(t, w)
      PROVE  FutexTyped'
  BY <1>33 DEF CallClone, TypeOK, FutexTyped, stepVars, futexVars
<1>34. ASSUME LeaveGuestCall
      PROVE  FutexTyped'
  BY <1>34 DEF LeaveGuestCall, TypeOK, FutexTyped, stepVars, futexVars
<1>35. ASSUME CallGuest
      PROVE  FutexTyped'
  BY <1>35 DEF CallGuest, TypeOK, FutexTyped, stepVars, futexVars
<1>36. ASSUME BeginTeardown
      PROVE  FutexTyped'
  BY <1>36 DEF BeginTeardown, TypeOK, FutexTyped, stepVars, futexVars
<1>37. ASSUME InterruptBlockingWaits
      PROVE  FutexTyped'
  BY <1>37
     DEF InterruptBlockingWaits, Futex!Close, TypeOK, FutexTyped, stepVars,
         futexVars
<1>38. ASSUME ListWorkers
      PROVE  FutexTyped'
  BY <1>38 DEF ListWorkers, TypeOK, FutexTyped, stepVars, futexVars
<1>39. ASSUME RequestWorkerExit
      PROVE  FutexTyped'
  BY <1>39 DEF RequestWorkerExit, TypeOK, FutexTyped, stepVars, futexVars
<1>40. ASSUME BeginJoin
      PROVE  FutexTyped'
  BY <1>40 DEF BeginJoin, TypeOK, FutexTyped, stepVars, futexVars
<1>41. ASSUME JoinWorker
      PROVE  FutexTyped'
  BY <1>41 DEF JoinWorker, TypeOK, FutexTyped, stepVars, futexVars
<1>42. ASSUME EndDrain
      PROVE  FutexTyped'
  BY <1>42 DEF EndDrain, TypeOK, FutexTyped, stepVars, futexVars
<1> QED
  BY <1>1, <1>2, <1>3, <1>4, <1>5, <1>6, <1>7, <1>8, <1>9, <1>10, <1>11,
     <1>12, <1>13, <1>14, <1>15, <1>16, <1>17, <1>18, <1>19, <1>20, <1>21,
     <1>22, <1>23, <1>24, <1>25, <1>26, <1>27, <1>28, <1>29, <1>30, <1>31,
     <1>32, <1>33, <1>34, <1>35, <1>36, <1>37, <1>38, <1>39, <1>40, <1>41,
     <1>42
     DEF Next, RunnerStep, CloneStep, EndStep, Trouble, GuestChoice, DrainStep, OwnerChoice

CloneTyped ==
  /\ word \in [Words -> Children \cup {None}]
  /\ spawn \in [Threads -> [child : Children \cup {None}, word : Words \cup {NoWord},
                            saved : Children \cup {None}]]
  /\ nextId \in 2 .. LastThread + 1
  /\ committer \in Threads \cup {None}

\* The clone runtime, and the words it writes.
LEMMA CloneType ==
  ASSUME TypeOK, Next
  PROVE  CloneTyped'
<1>1. ASSUME NEW t \in Threads, RunGuest(t)
      PROVE  CloneTyped'
  BY <1>1 DEF RunGuest, TypeOK, CloneTyped, stepVars, cloneVars
<1>2. ASSUME NEW t \in Threads, Exit(t)
      PROVE  CloneTyped'
  BY <1>2 DEF Exit, TypeOK, CloneTyped, stepVars, cloneVars
<1>3. ASSUME NEW t \in Threads, EndSlice(t)
      PROVE  CloneTyped'
  BY <1>3 DEF EndSlice, TypeOK, CloneTyped, stepVars, cloneVars
<1>4. ASSUME NEW t \in Threads, Continue(t)
      PROVE  CloneTyped'
  BY <1>4 DEF Continue, TypeOK, CloneTyped, stepVars, cloneVars
<1>5. ASSUME NEW t \in Threads, EnterRunner(t)
      PROVE  CloneTyped'
  BY <1>5 DEF EnterRunner, TypeOK, CloneTyped, stepVars, cloneVars
<1>6. ASSUME NEW t \in Threads, Cancel(t)
      PROVE  CloneTyped'
  BY <1>6 DEF Cancel, TypeOK, CloneTyped, stepVars, cloneVars
<1>7. ASSUME NEW t \in Threads, SyscallExit(t)
      PROVE  CloneTyped'
  BY <1>7 DEF SyscallExit, TypeOK, CloneTyped, stepVars, cloneVars
<1>8. ASSUME NEW t \in Threads, SyscallExitGroup(t)
      PROVE  CloneTyped'
  BY <1>8 DEF SyscallExitGroup, TypeOK, CloneTyped, stepVars, cloneVars
<1>9. ASSUME NEW t \in Threads, SetTidAddress(t)
      PROVE  CloneTyped'
  BY <1>9 DEF SetTidAddress, TypeOK, CloneTyped, stepVars, cloneVars
<1>10. ASSUME NEW t \in Threads, RefuseClone(t)
      PROVE  CloneTyped'
  BY <1>10, Constants
     DEF RefuseClone, NoSpawn, Children, TypeOK, CloneTyped, stepVars, cloneVars
<1>11. ASSUME NEW t \in Threads, BeginCommit(t)
      PROVE  CloneTyped'
  BY <1>11, Constants
     DEF BeginCommit, Stored, Children, TypeOK, CloneTyped, stepVars, cloneVars
<1>12. ASSUME NEW t \in Threads, RegisterChild(t)
      PROVE  CloneTyped'
  BY <1>12 DEF RegisterChild, TypeOK, CloneTyped, stepVars, cloneVars
<1>13. ASSUME NEW t \in Threads, RollBackCommit(t)
      PROVE  CloneTyped'
  BY <1>13 DEF RollBackCommit, Stored, TypeOK, CloneTyped, stepVars, cloneVars
<1>14. ASSUME NEW t \in Threads, ExhaustIds(t)
      PROVE  CloneTyped'
  BY <1>14 DEF ExhaustIds, NoSpawn, TypeOK, CloneTyped, stepVars, cloneVars
<1>15. ASSUME NEW t \in Threads, StartHostThread(t)
      PROVE  CloneTyped'
  BY <1>15 DEF StartHostThread, TypeOK, CloneTyped, stepVars, cloneVars
<1>16. ASSUME NEW t \in Threads, FailToSpawn(t)
      PROVE  CloneTyped'
  BY <1>16 DEF FailToSpawn, TypeOK, CloneTyped, stepVars, cloneVars
<1>17. ASSUME NEW t \in Threads, OwnChild(t)
      PROVE  CloneTyped'
  BY <1>17 DEF OwnChild, NoSpawn, TypeOK, CloneTyped, stepVars, cloneVars
<1>18. ASSUME NEW t \in Threads, PublishOutcome(t)
      PROVE  CloneTyped'
  BY <1>18 DEF PublishOutcome, TypeOK, CloneTyped, stepVars, cloneVars
<1>19. ASSUME NEW t \in Threads, Finish(t)
      PROVE  CloneTyped'
  BY <1>19 DEF Finish, TypeOK, CloneTyped, stepVars, cloneVars
<1>20. ASSUME NEW t \in Threads, HostException(t)
      PROVE  CloneTyped'
  BY <1>20 DEF HostException, Fail, TypeOK, CloneTyped, stepVars, cloneVars
<1>21. ASSUME NEW t \in Threads, StopUnexpectedly(t)
      PROVE  CloneTyped'
  BY <1>21 DEF StopUnexpectedly, TypeOK, CloneTyped, stepVars, cloneVars
<1>22. ASSUME NEW t \in Threads, RejectStop(t)
      PROVE  CloneTyped'
  BY <1>22 DEF RejectStop, Fail, TypeOK, CloneTyped, stepVars, cloneVars
<1>23. ASSUME NEW t \in Threads, RejectThread(t)
      PROVE  CloneTyped'
  BY <1>23 DEF RejectThread, Fail, TypeOK, CloneTyped, stepVars, cloneVars
<1>24. ASSUME NEW t \in Threads, FailGroup(t)
      PROVE  CloneTyped'
  BY <1>24 DEF FailGroup, TypeOK, CloneTyped, stepVars, cloneVars
<1>25. ASSUME NEW t \in Threads, FailClose(t)
      PROVE  CloneTyped'
  BY <1>25 DEF FailClose, TypeOK, CloneTyped, stepVars, cloneVars
<1>26. ASSUME NEW t \in Threads, FailComplete(t)
      PROVE  CloneTyped'
  BY <1>26 DEF FailComplete, TypeOK, CloneTyped, stepVars, cloneVars
<1>27. ASSUME NEW t \in Threads, Notify(t)
      PROVE  CloneTyped'
  BY <1>27 DEF Notify, TypeOK, CloneTyped, stepVars, cloneVars
<1>28. ASSUME NEW t \in Threads, ClearChildTid(t)
      PROVE  CloneTyped'
  BY <1>28 DEF ClearChildTid, TypeOK, CloneTyped, stepVars, cloneVars
<1>29. ASSUME NEW t \in Threads, WakeJoiner(t)
      PROVE  CloneTyped'
  BY <1>29 DEF WakeJoiner, TypeOK, CloneTyped, stepVars, cloneVars
<1>30. ASSUME NEW t \in Threads, NEW w \in Words, Awake(t, w)
      PROVE  CloneTyped'
  BY <1>30 DEF Awake, TypeOK, CloneTyped, stepVars, cloneVars
<1>31. ASSUME NEW t \in Threads, NEW w \in Words, JoinThread(t, w)
      PROVE  CloneTyped'
  BY <1>31 DEF JoinThread, TypeOK, CloneTyped, stepVars, cloneVars
<1>32. ASSUME NEW t \in Threads, NEW w \in Words, EndWait(t, w)
      PROVE  CloneTyped'
  BY <1>32 DEF EndWait, TypeOK, CloneTyped, stepVars, cloneVars
<1>33. ASSUME NEW t \in Threads, NEW w \in Words \cup {NoWord}, CallClone(t, w)
      PROVE  CloneTyped'
  BY <1>33 DEF CallClone, TypeOK, CloneTyped, stepVars, cloneVars
<1>34. ASSUME LeaveGuestCall
      PROVE  CloneTyped'
  BY <1>34 DEF LeaveGuestCall, TypeOK, CloneTyped, stepVars, cloneVars
<1>35. ASSUME CallGuest
      PROVE  CloneTyped'
  BY <1>35 DEF CallGuest, TypeOK, CloneTyped, stepVars, cloneVars
<1>36. ASSUME BeginTeardown
      PROVE  CloneTyped'
  BY <1>36 DEF BeginTeardown, TypeOK, CloneTyped, stepVars, cloneVars
<1>37. ASSUME InterruptBlockingWaits
      PROVE  CloneTyped'
  BY <1>37 DEF InterruptBlockingWaits, TypeOK, CloneTyped, stepVars, cloneVars
<1>38. ASSUME ListWorkers
      PROVE  CloneTyped'
  BY <1>38 DEF ListWorkers, TypeOK, CloneTyped, stepVars, cloneVars
<1>39. ASSUME RequestWorkerExit
      PROVE  CloneTyped'
  BY <1>39 DEF RequestWorkerExit, TypeOK, CloneTyped, stepVars, cloneVars
<1>40. ASSUME BeginJoin
      PROVE  CloneTyped'
  BY <1>40 DEF BeginJoin, TypeOK, CloneTyped, stepVars, cloneVars
<1>41. ASSUME JoinWorker
      PROVE  CloneTyped'
  BY <1>41 DEF JoinWorker, TypeOK, CloneTyped, stepVars, cloneVars
<1>42. ASSUME EndDrain
      PROVE  CloneTyped'
  BY <1>42 DEF EndDrain, TypeOK, CloneTyped, stepVars, cloneVars
<1> QED
  BY <1>1, <1>2, <1>3, <1>4, <1>5, <1>6, <1>7, <1>8, <1>9, <1>10, <1>11,
     <1>12, <1>13, <1>14, <1>15, <1>16, <1>17, <1>18, <1>19, <1>20, <1>21,
     <1>22, <1>23, <1>24, <1>25, <1>26, <1>27, <1>28, <1>29, <1>30, <1>31,
     <1>32, <1>33, <1>34, <1>35, <1>36, <1>37, <1>38, <1>39, <1>40, <1>41,
     <1>42
     DEF Next, RunnerStep, CloneStep, EndStep, Trouble, GuestChoice, DrainStep, OwnerChoice

GroupTyped ==
  /\ owned \subseteq Children
  /\ outcomes \subseteq Children
  /\ failure \in [Children -> {"none", "not_running", "host"}]
  /\ teardown \in BOOLEAN
  /\ drain \in [members : SUBSET Children, live : SUBSET Children, left : SUBSET Children]

\* What the host and the owner of the process keep of the children.
LEMMA GroupType ==
  ASSUME TypeOK, RootInv, ChildInv, Next
  PROVE  GroupTyped'
<1>1. ASSUME NEW t \in Threads, RunGuest(t)
      PROVE  GroupTyped'
  BY <1>1 DEF RunGuest, TypeOK, GroupTyped, stepVars, cloneVars
<1>2. ASSUME NEW t \in Threads, Exit(t)
      PROVE  GroupTyped'
  BY <1>2 DEF Exit, TypeOK, GroupTyped, stepVars, cloneVars
<1>3. ASSUME NEW t \in Threads, EndSlice(t)
      PROVE  GroupTyped'
  BY <1>3 DEF EndSlice, TypeOK, GroupTyped, stepVars, cloneVars
<1>4. ASSUME NEW t \in Threads, Continue(t)
      PROVE  GroupTyped'
  BY <1>4 DEF Continue, TypeOK, GroupTyped, stepVars, cloneVars
<1>5. ASSUME NEW t \in Threads, EnterRunner(t)
      PROVE  GroupTyped'
  BY <1>5 DEF EnterRunner, TypeOK, GroupTyped, stepVars, cloneVars
<1>6. ASSUME NEW t \in Threads, Cancel(t)
      PROVE  GroupTyped'
  BY <1>6 DEF Cancel, TypeOK, GroupTyped, stepVars, cloneVars
<1>7. ASSUME NEW t \in Threads, SyscallExit(t)
      PROVE  GroupTyped'
  BY <1>7 DEF SyscallExit, TypeOK, GroupTyped, stepVars, cloneVars
<1>8. ASSUME NEW t \in Threads, SyscallExitGroup(t)
      PROVE  GroupTyped'
  BY <1>8 DEF SyscallExitGroup, TypeOK, GroupTyped, stepVars, cloneVars
<1>9. ASSUME NEW t \in Threads, SetTidAddress(t)
      PROVE  GroupTyped'
  BY <1>9 DEF SetTidAddress, TypeOK, GroupTyped, stepVars, cloneVars
<1>10. ASSUME NEW t \in Threads, RefuseClone(t)
      PROVE  GroupTyped'
  BY <1>10 DEF RefuseClone, TypeOK, GroupTyped, stepVars, cloneVars
<1>11. ASSUME NEW t \in Threads, BeginCommit(t)
      PROVE  GroupTyped'
  BY <1>11 DEF BeginCommit, TypeOK, GroupTyped, stepVars, cloneVars
<1>12. ASSUME NEW t \in Threads, RegisterChild(t)
      PROVE  GroupTyped'
  BY <1>12 DEF RegisterChild, TypeOK, GroupTyped, stepVars, cloneVars
<1>13. ASSUME NEW t \in Threads, RollBackCommit(t)
      PROVE  GroupTyped'
  BY <1>13 DEF RollBackCommit, TypeOK, GroupTyped, stepVars, cloneVars
<1>14. ASSUME NEW t \in Threads, ExhaustIds(t)
      PROVE  GroupTyped'
  BY <1>14 DEF ExhaustIds, TypeOK, GroupTyped, stepVars, cloneVars
<1>15. ASSUME NEW t \in Threads, StartHostThread(t)
      PROVE  GroupTyped'
  BY <1>15 DEF StartHostThread, TypeOK, GroupTyped, stepVars, cloneVars
<1>16. ASSUME NEW t \in Threads, FailToSpawn(t)
      PROVE  GroupTyped'
  BY <1>16 DEF FailToSpawn, TypeOK, GroupTyped, stepVars, cloneVars
<1>17. ASSUME NEW t \in Threads, OwnChild(t)
      PROVE  GroupTyped'
  <2>1. spawn[t].child \in Children
    BY <1>17 DEF OwnChild, ChildInv, Parent, OneParent
  <2> QED
    BY <1>17, <2>1 DEF OwnChild, TypeOK, GroupTyped, stepVars, cloneVars
<1>18. ASSUME NEW t \in Threads, PublishOutcome(t)
      PROVE  GroupTyped'
  <2>1. t \in Children
    BY <1>18, Constants
       DEF PublishOutcome, RootInv, RunPoints, ClonePoints, ExitPoints,
           OwnerPoints
  <2> QED
    BY <1>18, <2>1 DEF PublishOutcome, TypeOK, GroupTyped, stepVars, cloneVars
<1>19. ASSUME NEW t \in Threads, Finish(t)
      PROVE  GroupTyped'
  BY <1>19 DEF Finish, TypeOK, GroupTyped, stepVars, cloneVars
<1>20. ASSUME NEW t \in Threads, HostException(t)
      PROVE  GroupTyped'
  BY <1>20 DEF HostException, Fail, TypeOK, GroupTyped, stepVars, cloneVars
<1>21. ASSUME NEW t \in Threads, StopUnexpectedly(t)
      PROVE  GroupTyped'
  BY <1>21 DEF StopUnexpectedly, TypeOK, GroupTyped, stepVars, cloneVars
<1>22. ASSUME NEW t \in Threads, RejectStop(t)
      PROVE  GroupTyped'
  BY <1>22 DEF RejectStop, Fail, TypeOK, GroupTyped, stepVars, cloneVars
<1>23. ASSUME NEW t \in Threads, RejectThread(t)
      PROVE  GroupTyped'
  BY <1>23 DEF RejectThread, Fail, TypeOK, GroupTyped, stepVars, cloneVars
<1>24. ASSUME NEW t \in Threads, FailGroup(t)
      PROVE  GroupTyped'
  BY <1>24 DEF FailGroup, TypeOK, GroupTyped, stepVars, cloneVars
<1>25. ASSUME NEW t \in Threads, FailClose(t)
      PROVE  GroupTyped'
  BY <1>25 DEF FailClose, TypeOK, GroupTyped, stepVars, cloneVars
<1>26. ASSUME NEW t \in Threads, FailComplete(t)
      PROVE  GroupTyped'
  BY <1>26 DEF FailComplete, TypeOK, GroupTyped, stepVars, cloneVars
<1>27. ASSUME NEW t \in Threads, Notify(t)
      PROVE  GroupTyped'
  BY <1>27 DEF Notify, TypeOK, GroupTyped, stepVars, cloneVars
<1>28. ASSUME NEW t \in Threads, ClearChildTid(t)
      PROVE  GroupTyped'
  BY <1>28 DEF ClearChildTid, TypeOK, GroupTyped, stepVars, cloneVars
<1>29. ASSUME NEW t \in Threads, WakeJoiner(t)
      PROVE  GroupTyped'
  BY <1>29 DEF WakeJoiner, TypeOK, GroupTyped, stepVars, cloneVars
<1>30. ASSUME NEW t \in Threads, NEW w \in Words, Awake(t, w)
      PROVE  GroupTyped'
  BY <1>30 DEF Awake, TypeOK, GroupTyped, stepVars, cloneVars
<1>31. ASSUME NEW t \in Threads, NEW w \in Words, JoinThread(t, w)
      PROVE  GroupTyped'
  BY <1>31 DEF JoinThread, TypeOK, GroupTyped, stepVars, cloneVars
<1>32. ASSUME NEW t \in Threads, NEW w \in Words, EndWait(t, w)
      PROVE  GroupTyped'
  BY <1>32 DEF EndWait, TypeOK, GroupTyped, stepVars, cloneVars
<1>33. ASSUME NEW t \in Threads, NEW w \in Words \cup {NoWord}, CallClone(t, w)
      PROVE  GroupTyped'
  BY <1>33 DEF CallClone, TypeOK, GroupTyped, stepVars, cloneVars
<1>34. ASSUME LeaveGuestCall
      PROVE  GroupTyped'
  BY <1>34 DEF LeaveGuestCall, TypeOK, GroupTyped, stepVars, cloneVars
<1>35. ASSUME CallGuest
      PROVE  GroupTyped'
  BY <1>35 DEF CallGuest, TypeOK, GroupTyped, stepVars, cloneVars
<1>36. ASSUME BeginTeardown
      PROVE  GroupTyped'
  BY <1>36 DEF BeginTeardown, TypeOK, GroupTyped, stepVars, cloneVars
<1>37. ASSUME InterruptBlockingWaits
      PROVE  GroupTyped'
  BY <1>37 DEF InterruptBlockingWaits, TypeOK, GroupTyped, stepVars, cloneVars
<1>38. ASSUME ListWorkers
      PROVE  GroupTyped'
  BY <1>38 DEF ListWorkers, TypeOK, GroupTyped, stepVars, cloneVars
<1>39. ASSUME RequestWorkerExit
      PROVE  GroupTyped'
  BY <1>39 DEF RequestWorkerExit, TypeOK, GroupTyped, stepVars, cloneVars
<1>40. ASSUME BeginJoin
      PROVE  GroupTyped'
  BY <1>40 DEF BeginJoin, TypeOK, GroupTyped, stepVars, cloneVars
<1>41. ASSUME JoinWorker
      PROVE  GroupTyped'
  BY <1>41 DEF JoinWorker, TypeOK, GroupTyped, stepVars, cloneVars
<1>42. ASSUME EndDrain
      PROVE  GroupTyped'
  BY <1>42 DEF EndDrain, TypeOK, GroupTyped, stepVars, cloneVars
<1> QED
  BY <1>1, <1>2, <1>3, <1>4, <1>5, <1>6, <1>7, <1>8, <1>9, <1>10, <1>11,
     <1>12, <1>13, <1>14, <1>15, <1>16, <1>17, <1>18, <1>19, <1>20, <1>21,
     <1>22, <1>23, <1>24, <1>25, <1>26, <1>27, <1>28, <1>29, <1>30, <1>31,
     <1>32, <1>33, <1>34, <1>35, <1>36, <1>37, <1>38, <1>39, <1>40, <1>41,
     <1>42
     DEF Next, RunnerStep, CloneStep, EndStep, Trouble, GuestChoice, DrainStep, OwnerChoice

\* Every step keeps the types.
LEMMA TypeStep ==
  ASSUME TypeOK, RootInv, ChildInv, [Next]_vars
  PROVE  TypeOK'
<1>1. CASE Next
  BY <1>1, PcType, LifeType, FutexType, CloneType, GroupType
     DEF TypeOK, AllPoints, LifeTyped, FutexTyped, CloneTyped, GroupTyped
<1>2. CASE UNCHANGED vars
  BY <1>2 DEF TypeOK, vars, lifeVars, futexVars, cloneVars
<1> QED
  BY <1>1, <1>2


-----------------------------------------------------------------------------
(* Most steps only walk from one point to another: they may ask for exits and  *)
(* they may use the futex table, and everything else that an invariant speaks  *)
(* of stays.  The steps that do more are the exits and the clone syscall.      *)

Plain == RunPoints \cup OwnerPoints \cup (ChildPoints \ {"none"})

\* Exits asked for of threads that are alive.
Asked ==
  /\ \A c \in Threads : \/ status'[c] = status[c]
                        \/ Alive(c) /\ status'[c] = "exit_requested"
  /\ groupExit' => groupExit \/ \A c \in Threads : status'[c] # "running"

\* What a walking thread may do with the futex table.
FutexUse(t) ==
  \/ UNCHANGED <<waiting, permits>> /\ (closed => closed')
  \/ \E w \in Words :
       /\ UNCHANGED closed
       /\ \/ word[w] \in owned /\ waiting[w] = {} /\ Futex!Join(t, w)
          \/ Futex!Take(t, w)
          \/ Futex!GiveUp(t, w)

Moves(t, point) ==
  /\ pc' = [pc EXCEPT ![t] = point]
  /\ t = Root => point \in RunPoints \cup OwnerPoints
  /\ t # Root => point \in RunPoints \cup ChildPoints
  /\ point \in {"fail_close", "fail_complete"} =>
       status'[t] \in {"exit_requested", "exited"}
  /\ point \in {"publishing", "ending", "notifying", "finished"} =>
       status'[t] = "exited"

Walk(t) ==
  /\ pc[t] \in Plain
  /\ \E point \in Plain : Moves(t, point)
  /\ Asked
  /\ FutexUse(t)
  /\ UNCHANGED <<clear, word, then, spawn, nextId, committer>>
  /\ UNCHANGED owned

\* The exit of a thread by itself.
Complete(t) ==
  /\ t # Root
  /\ pc[t] \in (RunPoints \cup ChildPoints) \ {"none"}
  /\ \E next \in {"publishing", "notifying"} : CompleteExit(t, t, next)
  /\ UNCHANGED stepVars

\* The clone syscall is entered.
EnterClone(t, w) ==
  /\ pc[t] = "guest"
  /\ Unused(w)
  /\ spawn' = [spawn EXCEPT ![t] = [child |-> None, word |-> w, saved |-> None]]
  /\ Goto(t, "spawning")
  /\ UNCHANGED <<lifeVars, word, futexVars, nextId, committer, owned>>

\* It is left with an error; an id may have been used up.
LeaveClone(t) ==
  /\ pc[t] = "spawning"
  /\ nextId' >= nextId
  /\ spawn' = [spawn EXCEPT ![t] = NoSpawn]
  /\ Goto(t, "top")
  /\ UNCHANGED <<lifeVars, word, futexVars, committer, owned>>

Special(t) ==
  \/ Complete(t) \/ SetTidAddress(t) \/ ClearChildTid(t) \/ WakeJoiner(t)
  \/ LeaveClone(t) \/ BeginCommit(t) \/ RegisterChild(t) \/ RollBackCommit(t)
  \/ StartHostThread(t) \/ FailToSpawn(t) \/ OwnChild(t)
  \/ \E w \in Words \cup {NoWord} : EnterClone(t, w)

\* Nothing that these invariants speak of changes.
Rest ==
  UNCHANGED <<lifeVars, word, futexVars, pc, then, cloneVars>>


\* Three ways in which Asked comes about.
LEMMA AskedByNobody == UNCHANGED <<status, groupExit>> => Asked
BY DEF Asked

LEMMA AskedByGroup ==
  ASSUME TypeOK, RequestExitGroup
  PROVE  Asked
BY DEF Asked, RequestExitGroup, TypeOK, Alive

LEMMA AskedOfOne ==
  ASSUME TypeOK, GroupExitIsFinal, NEW t \in Threads, UNCHANGED groupExit,
         status[t] \in {"running", "exit_requested"},
         status' = [status EXCEPT ![t] = "exit_requested"]
  PROVE  Asked
BY DEF Asked, TypeOK, Alive

\* There are no other kinds of steps.
LEMMA Kinds ==
  ASSUME TypeOK, RootInv, EndInv, GroupExitIsFinal, Next
  PROVE  Rest \/ \E t \in Threads : Walk(t) \/ Special(t)
<1>1. ASSUME NEW t \in Threads, RunGuest(t)
      PROVE  Rest \/ \E x \in Threads : Walk(x) \/ Special(x)
  <2>11. Asked
    BY <1>1, AskedByNobody DEF RunGuest, lifeVars
  <2>12. FutexUse(t)
    BY <1>1 DEF RunGuest, FutexUse, stepVars, futexVars
  <2>13. UNCHANGED <<clear, word, then, spawn, nextId, committer, owned>>
    BY <1>1 DEF RunGuest, lifeVars, stepVars, cloneVars, Goto
  <2>15. pc[t] \in Plain
    BY <1>1, Constants
       DEF RunGuest, Plain, RunPoints, ClonePoints, ExitPoints, ChildPoints,
           OwnerPoints
  <2>16. Moves(t, "guest")
    BY <1>1, Constants
       DEF RunGuest, Moves, Goto, EndInv, RootInv, TypeOK, Statuses, lifeVars,
           Plain, RunPoints, ClonePoints, ExitPoints, ChildPoints, OwnerPoints,
           RequestExitGroup, ExitRequested, Running
  <2>14. Walk(t)
    BY <2>11, <2>12, <2>13, <2>15, <2>16
       DEF Walk, Plain, RunPoints, ClonePoints, ExitPoints, ChildPoints,
           OwnerPoints
  <2> QED
    BY <2>14
<1>2. ASSUME NEW t \in Threads, Exit(t)
      PROVE  Rest \/ \E x \in Threads : Walk(x) \/ Special(x)
  <2>1. Complete(t)
    BY <1>2 DEF Exit, Complete, RunPoints, ChildPoints
  <2> QED
    BY <2>1 DEF Special
<1>3. ASSUME NEW t \in Threads, EndSlice(t)
      PROVE  Rest \/ \E x \in Threads : Walk(x) \/ Special(x)
  <2>11. Asked
    BY <1>3, AskedByNobody DEF EndSlice, lifeVars
  <2>12. FutexUse(t)
    BY <1>3 DEF EndSlice, FutexUse, stepVars, futexVars
  <2>13. UNCHANGED <<clear, word, then, spawn, nextId, committer, owned>>
    BY <1>3 DEF EndSlice, lifeVars, stepVars, cloneVars, Goto
  <2>15. pc[t] \in Plain
    BY <1>3, Constants
       DEF EndSlice, Plain, RunPoints, ClonePoints, ExitPoints, ChildPoints,
           OwnerPoints
  <2>16. Moves(t, "between")
    BY <1>3, Constants
       DEF EndSlice, Moves, Goto, EndInv, RootInv, TypeOK, Statuses, lifeVars,
           Plain, RunPoints, ClonePoints, ExitPoints, ChildPoints, OwnerPoints,
           RequestExitGroup, ExitRequested, Running
  <2>14. Walk(t)
    BY <2>11, <2>12, <2>13, <2>15, <2>16
       DEF Walk, Plain, RunPoints, ClonePoints, ExitPoints, ChildPoints,
           OwnerPoints
  <2> QED
    BY <2>14
<1>4. ASSUME NEW t \in Threads, Continue(t)
      PROVE  Rest \/ \E x \in Threads : Walk(x) \/ Special(x)
  <2>11. Asked
    BY <1>4, AskedByNobody DEF Continue, lifeVars
  <2>12. FutexUse(t)
    BY <1>4 DEF Continue, FutexUse, stepVars, futexVars
  <2>13. UNCHANGED <<clear, word, then, spawn, nextId, committer, owned>>
    BY <1>4 DEF Continue, lifeVars, stepVars, cloneVars, Goto
  <2>15. pc[t] \in Plain
    BY <1>4, Constants
       DEF Continue, Plain, RunPoints, ClonePoints, ExitPoints, ChildPoints,
           OwnerPoints
  <2>16. Moves(t, "entering")
    BY <1>4, Constants
       DEF Continue, Moves, Goto, EndInv, RootInv, TypeOK, Statuses, lifeVars,
           Plain, RunPoints, ClonePoints, ExitPoints, ChildPoints, OwnerPoints,
           RequestExitGroup, ExitRequested, Running
  <2>14. Walk(t)
    BY <2>11, <2>12, <2>13, <2>15, <2>16
       DEF Walk, Plain, RunPoints, ClonePoints, ExitPoints, ChildPoints,
           OwnerPoints
  <2> QED
    BY <2>14
<1>5. ASSUME NEW t \in Threads, EnterRunner(t)
      PROVE  Rest \/ \E x \in Threads : Walk(x) \/ Special(x)
  <2>11. Asked
    BY <1>5, AskedByNobody DEF EnterRunner, lifeVars
  <2>12. FutexUse(t)
    BY <1>5 DEF EnterRunner, FutexUse, stepVars, futexVars
  <2>13. UNCHANGED <<clear, word, then, spawn, nextId, committer, owned>>
    BY <1>5 DEF EnterRunner, lifeVars, stepVars, cloneVars, Goto
  <2>15. pc[t] \in Plain
    BY <1>5, Constants
       DEF EnterRunner, Plain, RunPoints, ClonePoints, ExitPoints, ChildPoints,
           OwnerPoints
  <2>16. Moves(t, "top")
    BY <1>5, Constants
       DEF EnterRunner, Moves, Goto, EndInv, RootInv, TypeOK, Statuses, lifeVars,
           Plain, RunPoints, ClonePoints, ExitPoints, ChildPoints, OwnerPoints,
           RequestExitGroup, ExitRequested, Running
  <2>14. Walk(t)
    BY <2>11, <2>12, <2>13, <2>15, <2>16
       DEF Walk, Plain, RunPoints, ClonePoints, ExitPoints, ChildPoints,
           OwnerPoints
  <2> QED
    BY <2>14
<1>6. ASSUME NEW t \in Threads, Cancel(t)
      PROVE  Rest \/ \E x \in Threads : Walk(x) \/ Special(x)
  <2>11. Asked
    BY <1>6, AskedOfOne DEF Cancel, lifeVars
  <2>12. FutexUse(t)
    BY <1>6 DEF Cancel, FutexUse, stepVars, futexVars
  <2>13. UNCHANGED <<clear, word, then, spawn, nextId, committer, owned>>
    BY <1>6 DEF Cancel, lifeVars, stepVars, cloneVars, Goto
  <2>15. pc[t] \in Plain
    BY <1>6, Constants
       DEF Cancel, Plain, RunPoints, ClonePoints, ExitPoints, ChildPoints,
           OwnerPoints
  <2>16. Moves(t, "stopped")
    BY <1>6, Constants
       DEF Cancel, Moves, Goto, EndInv, RootInv, TypeOK, Statuses, lifeVars,
           Plain, RunPoints, ClonePoints, ExitPoints, ChildPoints, OwnerPoints,
           RequestExitGroup, ExitRequested, Running
  <2>14. Walk(t)
    BY <2>11, <2>12, <2>13, <2>15, <2>16
       DEF Walk, Plain, RunPoints, ClonePoints, ExitPoints, ChildPoints,
           OwnerPoints
  <2> QED
    BY <2>14
<1>7. ASSUME NEW t \in Threads, SyscallExit(t)
      PROVE  Rest \/ \E x \in Threads : Walk(x) \/ Special(x)
  <2>11. Asked
    BY <1>7, AskedOfOne DEF SyscallExit, lifeVars, RequestExit
  <2>12. FutexUse(t)
    BY <1>7 DEF SyscallExit, FutexUse, stepVars, futexVars
  <2>13. UNCHANGED <<clear, word, then, spawn, nextId, committer, owned>>
    BY <1>7 DEF SyscallExit, lifeVars, stepVars, cloneVars, Goto, RequestExit
  <2>15. pc[t] \in Plain
    BY <1>7, Constants
       DEF SyscallExit, Plain, RunPoints, ClonePoints, ExitPoints, ChildPoints,
           OwnerPoints
  <2>16. Moves(t, "top")
    BY <1>7, Constants
       DEF SyscallExit, Moves, Goto, EndInv, RootInv, TypeOK, Statuses, lifeVars,
           Plain, RunPoints, ClonePoints, ExitPoints, ChildPoints, OwnerPoints,
           RequestExitGroup, ExitRequested, Running
  <2>14. Walk(t)
    BY <2>11, <2>12, <2>13, <2>15, <2>16
       DEF Walk, Plain, RunPoints, ClonePoints, ExitPoints, ChildPoints,
           OwnerPoints
  <2> QED
    BY <2>14
<1>8. ASSUME NEW t \in Threads, SyscallExitGroup(t)
      PROVE  Rest \/ \E x \in Threads : Walk(x) \/ Special(x)
  <2>11. Asked
    BY <1>8, AskedByGroup DEF SyscallExitGroup, lifeVars
  <2>12. FutexUse(t)
    BY <1>8 DEF SyscallExitGroup, FutexUse, stepVars, futexVars
  <2>13. UNCHANGED <<clear, word, then, spawn, nextId, committer, owned>>
    BY <1>8 DEF SyscallExitGroup, lifeVars, stepVars, cloneVars, Goto, RequestExitGroup
  <2>15. pc[t] \in Plain
    BY <1>8, Constants
       DEF SyscallExitGroup, Plain, RunPoints, ClonePoints, ExitPoints,
           ChildPoints, OwnerPoints
  <2>16. Moves(t, "top")
    BY <1>8, Constants
       DEF SyscallExitGroup, Moves, Goto, EndInv, RootInv, TypeOK, Statuses,
           lifeVars, Plain, RunPoints, ClonePoints, ExitPoints, ChildPoints,
           OwnerPoints, RequestExitGroup, ExitRequested, Running
  <2>14. Walk(t)
    BY <2>11, <2>12, <2>13, <2>15, <2>16
       DEF Walk, Plain, RunPoints, ClonePoints, ExitPoints, ChildPoints,
           OwnerPoints
  <2> QED
    BY <2>14
<1>9. ASSUME NEW t \in Threads, SetTidAddress(t)
      PROVE  Rest \/ \E x \in Threads : Walk(x) \/ Special(x)
  BY <1>9 DEF Special
<1>10. ASSUME NEW t \in Threads, RefuseClone(t)
      PROVE  Rest \/ \E x \in Threads : Walk(x) \/ Special(x)
  <2>1. LeaveClone(t)
    BY <1>10 DEF RefuseClone, LeaveClone, TypeOK
  <2> QED
    BY <2>1 DEF Special
<1>11. ASSUME NEW t \in Threads, BeginCommit(t)
      PROVE  Rest \/ \E x \in Threads : Walk(x) \/ Special(x)
  BY <1>11 DEF Special
<1>12. ASSUME NEW t \in Threads, RegisterChild(t)
      PROVE  Rest \/ \E x \in Threads : Walk(x) \/ Special(x)
  BY <1>12 DEF Special
<1>13. ASSUME NEW t \in Threads, RollBackCommit(t)
      PROVE  Rest \/ \E x \in Threads : Walk(x) \/ Special(x)
  BY <1>13 DEF Special
<1>14. ASSUME NEW t \in Threads, ExhaustIds(t)
      PROVE  Rest \/ \E x \in Threads : Walk(x) \/ Special(x)
  <2>1. LeaveClone(t)
    BY <1>14 DEF ExhaustIds, LeaveClone, TypeOK
  <2> QED
    BY <2>1 DEF Special
<1>15. ASSUME NEW t \in Threads, StartHostThread(t)
      PROVE  Rest \/ \E x \in Threads : Walk(x) \/ Special(x)
  BY <1>15 DEF Special
<1>16. ASSUME NEW t \in Threads, FailToSpawn(t)
      PROVE  Rest \/ \E x \in Threads : Walk(x) \/ Special(x)
  BY <1>16 DEF Special
<1>17. ASSUME NEW t \in Threads, OwnChild(t)
      PROVE  Rest \/ \E x \in Threads : Walk(x) \/ Special(x)
  BY <1>17 DEF Special
<1>18. ASSUME NEW t \in Threads, PublishOutcome(t)
      PROVE  Rest \/ \E x \in Threads : Walk(x) \/ Special(x)
  <2>11. Asked
    BY <1>18, AskedByNobody DEF PublishOutcome, lifeVars
  <2>12. FutexUse(t)
    BY <1>18 DEF PublishOutcome, FutexUse, stepVars, futexVars
  <2>13. UNCHANGED <<clear, word, then, spawn, nextId, committer, owned>>
    BY <1>18 DEF PublishOutcome, lifeVars, stepVars, cloneVars, Goto
  <2>15. pc[t] \in Plain
    BY <1>18, Constants
       DEF PublishOutcome, Plain, RunPoints, ClonePoints, ExitPoints,
           ChildPoints, OwnerPoints
  <2>16. Moves(t, "ending")
    BY <1>18, Constants
       DEF PublishOutcome, Moves, Goto, EndInv, RootInv, TypeOK, Statuses,
           lifeVars, Plain, RunPoints, ClonePoints, ExitPoints, ChildPoints,
           OwnerPoints, RequestExitGroup, ExitRequested, Running
  <2>14. Walk(t)
    BY <2>11, <2>12, <2>13, <2>15, <2>16
       DEF Walk, Plain, RunPoints, ClonePoints, ExitPoints, ChildPoints,
           OwnerPoints
  <2> QED
    BY <2>14
<1>19. ASSUME NEW t \in Threads, Finish(t)
      PROVE  Rest \/ \E x \in Threads : Walk(x) \/ Special(x)
  <2>11. Asked
    BY <1>19, AskedByNobody DEF Finish, lifeVars
  <2>12. FutexUse(t)
    BY <1>19 DEF Finish, FutexUse, stepVars, futexVars
  <2>13. UNCHANGED <<clear, word, then, spawn, nextId, committer, owned>>
    BY <1>19 DEF Finish, lifeVars, stepVars, cloneVars, Goto
  <2>15. pc[t] \in Plain
    BY <1>19, Constants
       DEF Finish, Plain, RunPoints, ClonePoints, ExitPoints, ChildPoints,
           OwnerPoints
  <2>16. Moves(t, "finished")
    BY <1>19, Constants
       DEF Finish, Moves, Goto, EndInv, RootInv, TypeOK, Statuses, lifeVars,
           Plain, RunPoints, ClonePoints, ExitPoints, ChildPoints, OwnerPoints,
           RequestExitGroup, ExitRequested, Running
  <2>14. Walk(t)
    BY <2>11, <2>12, <2>13, <2>15, <2>16
       DEF Walk, Plain, RunPoints, ClonePoints, ExitPoints, ChildPoints,
           OwnerPoints
  <2> QED
    BY <2>14
<1>20. ASSUME NEW t \in Threads, HostException(t)
      PROVE  Rest \/ \E x \in Threads : Walk(x) \/ Special(x)
  <2>11. Asked
    BY <1>20, AskedByNobody DEF HostException, Fail, lifeVars
  <2>12. FutexUse(t)
    BY <1>20 DEF HostException, Fail, FutexUse, stepVars, futexVars
  <2>13. UNCHANGED <<clear, word, then, spawn, nextId, committer, owned>>
    BY <1>20 DEF HostException, Fail, lifeVars, stepVars, cloneVars, Goto
  <2>15. pc[t] \in Plain
    BY <1>20, Constants
       DEF HostException, Fail, Plain, RunPoints, ClonePoints, ExitPoints,
           ChildPoints, OwnerPoints
  <2>16. Moves(t, "fail_group")
    BY <1>20, Constants
       DEF HostException, Fail, Moves, Goto, EndInv, RootInv, TypeOK, Statuses,
           lifeVars, Plain, RunPoints, ClonePoints, ExitPoints, ChildPoints,
           OwnerPoints, RequestExitGroup, ExitRequested, Running
  <2>14. Walk(t)
    BY <2>11, <2>12, <2>13, <2>15, <2>16
       DEF Walk, Plain, RunPoints, ClonePoints, ExitPoints, ChildPoints,
           OwnerPoints
  <2> QED
    BY <2>14
<1>21. ASSUME NEW t \in Threads, StopUnexpectedly(t)
      PROVE  Rest \/ \E x \in Threads : Walk(x) \/ Special(x)
  <2>11. Asked
    BY <1>21, AskedByNobody DEF StopUnexpectedly, lifeVars
  <2>12. FutexUse(t)
    BY <1>21 DEF StopUnexpectedly, FutexUse, stepVars, futexVars
  <2>13. UNCHANGED <<clear, word, then, spawn, nextId, committer, owned>>
    BY <1>21 DEF StopUnexpectedly, lifeVars, stepVars, cloneVars, Goto
  <2>15. pc[t] \in Plain
    BY <1>21, Constants
       DEF StopUnexpectedly, Plain, RunPoints, ClonePoints, ExitPoints,
           ChildPoints, OwnerPoints
  <2>16. Moves(t, "stopped")
    BY <1>21, Constants
       DEF StopUnexpectedly, Moves, Goto, EndInv, RootInv, TypeOK, Statuses,
           lifeVars, Plain, RunPoints, ClonePoints, ExitPoints, ChildPoints,
           OwnerPoints, RequestExitGroup, ExitRequested, Running
  <2>14. Walk(t)
    BY <2>11, <2>12, <2>13, <2>15, <2>16
       DEF Walk, Plain, RunPoints, ClonePoints, ExitPoints, ChildPoints,
           OwnerPoints
  <2> QED
    BY <2>14
<1>22. ASSUME NEW t \in Threads, RejectStop(t)
      PROVE  Rest \/ \E x \in Threads : Walk(x) \/ Special(x)
  <2>11. Asked
    BY <1>22, AskedByNobody DEF RejectStop, Fail, lifeVars
  <2>12. FutexUse(t)
    BY <1>22 DEF RejectStop, Fail, FutexUse, stepVars, futexVars
  <2>13. UNCHANGED <<clear, word, then, spawn, nextId, committer, owned>>
    BY <1>22 DEF RejectStop, Fail, lifeVars, stepVars, cloneVars, Goto
  <2>15. pc[t] \in Plain
    BY <1>22, Constants
       DEF RejectStop, Fail, Plain, RunPoints, ClonePoints, ExitPoints,
           ChildPoints, OwnerPoints
  <2>16. Moves(t, "fail_group")
    BY <1>22, Constants
       DEF RejectStop, Fail, Moves, Goto, EndInv, RootInv, TypeOK, Statuses,
           lifeVars, Plain, RunPoints, ClonePoints, ExitPoints, ChildPoints,
           OwnerPoints, RequestExitGroup, ExitRequested, Running
  <2>14. Walk(t)
    BY <2>11, <2>12, <2>13, <2>15, <2>16
       DEF Walk, Plain, RunPoints, ClonePoints, ExitPoints, ChildPoints,
           OwnerPoints
  <2> QED
    BY <2>14
<1>23. ASSUME NEW t \in Threads, RejectThread(t)
      PROVE  Rest \/ \E x \in Threads : Walk(x) \/ Special(x)
  <2>11. Asked
    BY <1>23, AskedByNobody DEF RejectThread, Fail, lifeVars
  <2>12. FutexUse(t)
    BY <1>23 DEF RejectThread, Fail, FutexUse, stepVars, futexVars
  <2>13. UNCHANGED <<clear, word, then, spawn, nextId, committer, owned>>
    BY <1>23 DEF RejectThread, Fail, lifeVars, stepVars, cloneVars, Goto
  <2>15. pc[t] \in Plain
    BY <1>23, Constants
       DEF RejectThread, Fail, Plain, RunPoints, ClonePoints, ExitPoints,
           ChildPoints, OwnerPoints
  <2>16. Moves(t, "fail_group")
    BY <1>23, Constants
       DEF RejectThread, Fail, Moves, Goto, EndInv, RootInv, TypeOK, Statuses,
           lifeVars, Plain, RunPoints, ClonePoints, ExitPoints, ChildPoints,
           OwnerPoints, RequestExitGroup, ExitRequested, Running
  <2>14. Walk(t)
    BY <2>11, <2>12, <2>13, <2>15, <2>16
       DEF Walk, Plain, RunPoints, ClonePoints, ExitPoints, ChildPoints,
           OwnerPoints
  <2> QED
    BY <2>14
<1>24. ASSUME NEW t \in Threads, FailGroup(t)
      PROVE  Rest \/ \E x \in Threads : Walk(x) \/ Special(x)
  <2>11. Asked
    BY <1>24, AskedByGroup DEF FailGroup, lifeVars
  <2>12. FutexUse(t)
    BY <1>24 DEF FailGroup, FutexUse, stepVars, futexVars
  <2>13. UNCHANGED <<clear, word, then, spawn, nextId, committer, owned>>
    BY <1>24 DEF FailGroup, lifeVars, stepVars, cloneVars, Goto, RequestExitGroup
  <2>15. pc[t] \in Plain
    BY <1>24, Constants
       DEF FailGroup, Plain, RunPoints, ClonePoints, ExitPoints, ChildPoints,
           OwnerPoints
  <2>16. Moves(t, "fail_close")
    BY <1>24, Constants
       DEF FailGroup, Moves, Goto, EndInv, RootInv, TypeOK, Statuses, lifeVars,
           Plain, RunPoints, ClonePoints, ExitPoints, ChildPoints, OwnerPoints,
           RequestExitGroup, ExitRequested, Running
  <2>14. Walk(t)
    BY <2>11, <2>12, <2>13, <2>15, <2>16
       DEF Walk, Plain, RunPoints, ClonePoints, ExitPoints, ChildPoints,
           OwnerPoints
  <2> QED
    BY <2>14
<1>25. ASSUME NEW t \in Threads, FailClose(t)
      PROVE  Rest \/ \E x \in Threads : Walk(x) \/ Special(x)
  <2>11. Asked
    BY <1>25, AskedByNobody DEF FailClose, lifeVars
  <2>12. FutexUse(t)
    BY <1>25 DEF FailClose, Futex!Close, FutexUse, stepVars, futexVars
  <2>13. UNCHANGED <<clear, word, then, spawn, nextId, committer, owned>>
    BY <1>25 DEF FailClose, lifeVars, stepVars, cloneVars, Goto
  <2>15. pc[t] \in Plain
    BY <1>25, Constants
       DEF FailClose, Plain, RunPoints, ClonePoints, ExitPoints, ChildPoints,
           OwnerPoints
  <2>16. Moves(t, "fail_complete")
    BY <1>25, Constants
       DEF FailClose, Moves, Goto, EndInv, RootInv, TypeOK, Statuses, lifeVars,
           Plain, RunPoints, ClonePoints, ExitPoints, ChildPoints, OwnerPoints,
           RequestExitGroup, ExitRequested, Running
  <2>14. Walk(t)
    BY <2>11, <2>12, <2>13, <2>15, <2>16
       DEF Walk, Plain, RunPoints, ClonePoints, ExitPoints, ChildPoints,
           OwnerPoints
  <2> QED
    BY <2>14
<1>26. ASSUME NEW t \in Threads, FailComplete(t)
      PROVE  Rest \/ \E x \in Threads : Walk(x) \/ Special(x)
  <2>1. CASE CompleteExit(t, t, "notifying")
    <3>1. Complete(t)
      BY <1>26, <2>1, Constants
         DEF FailComplete, Complete, RootInv, Plain, RunPoints, ClonePoints,
             ExitPoints, ChildPoints, OwnerPoints
    <3> QED
      BY <3>1 DEF Special
  <2>2. CASE ~ExitRequested(t) /\ Goto(t, "notifying") /\ UNCHANGED lifeVars
    <3>11. Asked
      BY <1>26, <2>2, AskedByNobody DEF FailComplete, lifeVars
    <3>12. FutexUse(t)
      BY <1>26, <2>2 DEF FailComplete, FutexUse, stepVars, futexVars
    <3>13. UNCHANGED <<clear, word, then, spawn, nextId, committer, owned>>
      BY <1>26, <2>2 DEF FailComplete, lifeVars, stepVars, cloneVars, Goto
    <3>15. pc[t] \in Plain
      BY <1>26, <2>2, Constants
         DEF FailComplete, Plain, RunPoints, ClonePoints, ExitPoints,
             ChildPoints, OwnerPoints
    <3>16. Moves(t, "notifying")
      BY <1>26, <2>2, Constants
         DEF FailComplete, Moves, Goto, EndInv, RootInv, TypeOK, Statuses,
             lifeVars, Plain, RunPoints, ClonePoints, ExitPoints, ChildPoints,
             OwnerPoints, RequestExitGroup, ExitRequested, Running
    <3>14. Walk(t)
      BY <3>11, <3>12, <3>13, <3>15, <3>16
         DEF Walk, Plain, RunPoints, ClonePoints, ExitPoints, ChildPoints,
             OwnerPoints
    <3> QED
      BY <3>14
  <2> QED
    BY <1>26, <2>1, <2>2 DEF FailComplete
<1>27. ASSUME NEW t \in Threads, Notify(t)
      PROVE  Rest \/ \E x \in Threads : Walk(x) \/ Special(x)
  <2>11. Asked
    BY <1>27, AskedByNobody DEF Notify, lifeVars
  <2>12. FutexUse(t)
    BY <1>27 DEF Notify, FutexUse, stepVars, futexVars
  <2>13. UNCHANGED <<clear, word, then, spawn, nextId, committer, owned>>
    BY <1>27 DEF Notify, lifeVars, stepVars, cloneVars, Goto
  <2>15. pc[t] \in Plain
    BY <1>27, Constants
       DEF Notify, Plain, RunPoints, ClonePoints, ExitPoints, ChildPoints,
           OwnerPoints
  <2>16. Moves(t, "finished")
    BY <1>27, Constants
       DEF Notify, Moves, Goto, EndInv, RootInv, TypeOK, Statuses, lifeVars,
           Plain, RunPoints, ClonePoints, ExitPoints, ChildPoints, OwnerPoints,
           RequestExitGroup, ExitRequested, Running
  <2>14. Walk(t)
    BY <2>11, <2>12, <2>13, <2>15, <2>16
       DEF Walk, Plain, RunPoints, ClonePoints, ExitPoints, ChildPoints,
           OwnerPoints
  <2> QED
    BY <2>14
<1>28. ASSUME NEW t \in Threads, ClearChildTid(t)
      PROVE  Rest \/ \E x \in Threads : Walk(x) \/ Special(x)
  BY <1>28 DEF Special
<1>29. ASSUME NEW t \in Threads, WakeJoiner(t)
      PROVE  Rest \/ \E x \in Threads : Walk(x) \/ Special(x)
  BY <1>29 DEF Special
<1>30. ASSUME NEW t \in Threads, NEW w \in Words, Awake(t, w)
      PROVE  Rest \/ \E x \in Threads : Walk(x) \/ Special(x)
  <2>11. Asked
    BY <1>30, AskedByNobody DEF Awake, lifeVars
  <2>12. FutexUse(t)
    BY <1>30 DEF Awake, Futex!Take, Futex!GiveUp, FutexUse, stepVars, futexVars
  <2>13. UNCHANGED <<clear, word, then, spawn, nextId, committer, owned>>
    BY <1>30 DEF Awake, lifeVars, stepVars, cloneVars, Goto
  <2>15. pc[t] \in Plain
    BY <1>30, Constants
       DEF Awake, Plain, RunPoints, ClonePoints, ExitPoints, ChildPoints,
           OwnerPoints
  <2>16. Moves(t, "top")
    BY <1>30, Constants
       DEF Awake, Moves, Goto, EndInv, RootInv, TypeOK, Statuses, lifeVars,
           Plain, RunPoints, ClonePoints, ExitPoints, ChildPoints, OwnerPoints,
           RequestExitGroup, ExitRequested, Running
  <2>14. Walk(t)
    BY <2>11, <2>12, <2>13, <2>15, <2>16
       DEF Walk, Plain, RunPoints, ClonePoints, ExitPoints, ChildPoints,
           OwnerPoints
  <2> QED
    BY <2>14
<1>31. ASSUME NEW t \in Threads, NEW w \in Words, JoinThread(t, w)
      PROVE  Rest \/ \E x \in Threads : Walk(x) \/ Special(x)
  <2>1. CASE ~closed /\ Goto(t, "waiting")
    <3>11. Asked
      BY <1>31, <2>1, AskedByNobody DEF JoinThread, lifeVars
    <3>12. FutexUse(t)
      BY <1>31, <2>1 DEF JoinThread, Futex!Join, FutexUse, stepVars, futexVars
    <3>13. UNCHANGED <<clear, word, then, spawn, nextId, committer, owned>>
      BY <1>31, <2>1 DEF JoinThread, lifeVars, stepVars, cloneVars, Goto
    <3>15. pc[t] \in Plain
      BY <1>31, <2>1, Constants
         DEF JoinThread, Plain, RunPoints, ClonePoints, ExitPoints,
             ChildPoints, OwnerPoints
    <3>16. Moves(t, "waiting")
      BY <1>31, <2>1, Constants
         DEF JoinThread, Moves, Goto, EndInv, RootInv, TypeOK, Statuses,
             lifeVars, Plain, RunPoints, ClonePoints, ExitPoints, ChildPoints,
             OwnerPoints, RequestExitGroup, ExitRequested, Running
    <3>14. Walk(t)
      BY <3>11, <3>12, <3>13, <3>15, <3>16
         DEF Walk, Plain, RunPoints, ClonePoints, ExitPoints, ChildPoints,
             OwnerPoints
    <3> QED
      BY <3>14
  <2>2. CASE closed /\ Goto(t, "top")
    <3>11. Asked
      BY <1>31, <2>2, AskedByNobody DEF JoinThread, lifeVars
    <3>12. FutexUse(t)
      BY <1>31, <2>2 DEF JoinThread, Futex!Join, FutexUse, stepVars, futexVars
    <3>13. UNCHANGED <<clear, word, then, spawn, nextId, committer, owned>>
      BY <1>31, <2>2 DEF JoinThread, lifeVars, stepVars, cloneVars, Goto
    <3>15. pc[t] \in Plain
      BY <1>31, <2>2, Constants
         DEF JoinThread, Plain, RunPoints, ClonePoints, ExitPoints,
             ChildPoints, OwnerPoints
    <3>16. Moves(t, "top")
      BY <1>31, <2>2, Constants
         DEF JoinThread, Moves, Goto, EndInv, RootInv, TypeOK, Statuses,
             lifeVars, Plain, RunPoints, ClonePoints, ExitPoints, ChildPoints,
             OwnerPoints, RequestExitGroup, ExitRequested, Running
    <3>14. Walk(t)
      BY <3>11, <3>12, <3>13, <3>15, <3>16
         DEF Walk, Plain, RunPoints, ClonePoints, ExitPoints, ChildPoints,
             OwnerPoints
    <3> QED
      BY <3>14
  <2> QED
    BY <1>31, <2>1, <2>2 DEF JoinThread
<1>32. ASSUME NEW t \in Threads, NEW w \in Words, EndWait(t, w)
      PROVE  Rest \/ \E x \in Threads : Walk(x) \/ Special(x)
  <2>11. Asked
    BY <1>32, AskedByNobody DEF EndWait, lifeVars
  <2>12. FutexUse(t)
    BY <1>32 DEF EndWait, Futex!GiveUp, FutexUse, stepVars, futexVars
  <2>13. UNCHANGED <<clear, word, then, spawn, nextId, committer, owned>>
    BY <1>32 DEF EndWait, lifeVars, stepVars, cloneVars, Goto
  <2>15. pc[t] \in Plain
    BY <1>32, Constants
       DEF EndWait, Plain, RunPoints, ClonePoints, ExitPoints, ChildPoints,
           OwnerPoints
  <2>16. Moves(t, "top")
    BY <1>32, Constants
       DEF EndWait, Moves, Goto, EndInv, RootInv, TypeOK, Statuses, lifeVars,
           Plain, RunPoints, ClonePoints, ExitPoints, ChildPoints, OwnerPoints,
           RequestExitGroup, ExitRequested, Running
  <2>14. Walk(t)
    BY <2>11, <2>12, <2>13, <2>15, <2>16
       DEF Walk, Plain, RunPoints, ClonePoints, ExitPoints, ChildPoints,
           OwnerPoints
  <2> QED
    BY <2>14
<1>33. ASSUME NEW t \in Threads, NEW w \in Words \cup {NoWord}, CallClone(t, w)
      PROVE  Rest \/ \E x \in Threads : Walk(x) \/ Special(x)
  <2>1. CASE ~teardown
    <3>1. EnterClone(t, w)
      BY <1>33, <2>1 DEF CallClone, EnterClone
    <3> QED
      BY <3>1 DEF Special
  <2>2. CASE teardown
    <3>11. Asked
      BY <1>33, <2>2, AskedByNobody DEF CallClone, lifeVars
    <3>12. FutexUse(t)
      BY <1>33, <2>2 DEF CallClone, FutexUse, stepVars, futexVars
    <3>13. UNCHANGED <<clear, word, then, spawn, nextId, committer, owned>>
      BY <1>33, <2>2 DEF CallClone, lifeVars, stepVars, cloneVars, Goto
    <3>15. pc[t] \in Plain
      BY <1>33, <2>2, Constants
         DEF CallClone, Plain, RunPoints, ClonePoints, ExitPoints, ChildPoints,
             OwnerPoints
    <3>16. Moves(t, "top")
      BY <1>33, <2>2, Constants
         DEF CallClone, Moves, Goto, EndInv, RootInv, TypeOK, Statuses,
             lifeVars, Plain, RunPoints, ClonePoints, ExitPoints, ChildPoints,
             OwnerPoints, RequestExitGroup, ExitRequested, Running
    <3>14. Walk(t)
      BY <3>11, <3>12, <3>13, <3>15, <3>16
         DEF Walk, Plain, RunPoints, ClonePoints, ExitPoints, ChildPoints,
             OwnerPoints
    <3> QED
      BY <3>14
  <2> QED
    BY <2>1, <2>2
<1>34. ASSUME LeaveGuestCall
      PROVE  Rest \/ \E x \in Threads : Walk(x) \/ Special(x)
  <2>11. Asked
    BY <1>34, AskedByNobody, Constants DEF LeaveGuestCall, lifeVars
  <2>12. FutexUse(Root)
    BY <1>34 DEF LeaveGuestCall, FutexUse, stepVars, futexVars
  <2>13. UNCHANGED <<clear, word, then, spawn, nextId, committer, owned>>
    BY <1>34 DEF LeaveGuestCall, lifeVars, stepVars, cloneVars, Goto
  <2>15. pc[Root] \in Plain
    BY <1>34, Constants
       DEF LeaveGuestCall, Plain, RunPoints, ClonePoints, ExitPoints,
           ChildPoints, OwnerPoints
  <2>16. Moves(Root, "idle")
    BY <1>34, Constants
       DEF LeaveGuestCall, Moves, Goto, EndInv, RootInv, TypeOK, Statuses,
           lifeVars, Plain, RunPoints, ClonePoints, ExitPoints, ChildPoints,
           OwnerPoints, RequestExitGroup, ExitRequested, Running
  <2>14. Walk(Root)
    BY <2>11, <2>12, <2>13, <2>15, <2>16
       DEF Walk, Plain, RunPoints, ClonePoints, ExitPoints, ChildPoints,
           OwnerPoints
  <2> QED
    BY <2>14, Constants
<1>35. ASSUME CallGuest
      PROVE  Rest \/ \E x \in Threads : Walk(x) \/ Special(x)
  <2>11. Asked
    BY <1>35, AskedByNobody, Constants DEF CallGuest, lifeVars
  <2>12. FutexUse(Root)
    BY <1>35 DEF CallGuest, FutexUse, stepVars, futexVars
  <2>13. UNCHANGED <<clear, word, then, spawn, nextId, committer, owned>>
    BY <1>35 DEF CallGuest, lifeVars, stepVars, cloneVars, Goto
  <2>15. pc[Root] \in Plain
    BY <1>35, Constants
       DEF CallGuest, Plain, RunPoints, ClonePoints, ExitPoints, ChildPoints,
           OwnerPoints
  <2>16. Moves(Root, "top")
    BY <1>35, Constants
       DEF CallGuest, Moves, Goto, EndInv, RootInv, TypeOK, Statuses, lifeVars,
           Plain, RunPoints, ClonePoints, ExitPoints, ChildPoints, OwnerPoints,
           RequestExitGroup, ExitRequested, Running
  <2>14. Walk(Root)
    BY <2>11, <2>12, <2>13, <2>15, <2>16
       DEF Walk, Plain, RunPoints, ClonePoints, ExitPoints, ChildPoints,
           OwnerPoints
  <2> QED
    BY <2>14, Constants
<1>36. ASSUME BeginTeardown
      PROVE  Rest \/ \E x \in Threads : Walk(x) \/ Special(x)
  <2>11. Asked
    BY <1>36, AskedByNobody, Constants DEF BeginTeardown, lifeVars
  <2>12. FutexUse(Root)
    BY <1>36 DEF BeginTeardown, FutexUse, stepVars, futexVars
  <2>13. UNCHANGED <<clear, word, then, spawn, nextId, committer, owned>>
    BY <1>36 DEF BeginTeardown, lifeVars, stepVars, cloneVars, Goto
  <2>15. pc[Root] \in Plain
    BY <1>36, Constants
       DEF BeginTeardown, Plain, RunPoints, ClonePoints, ExitPoints, ChildPoints,
           OwnerPoints
  <2>16. Moves(Root, "drain_close")
    BY <1>36, Constants
       DEF BeginTeardown, Moves, Goto, EndInv, RootInv, TypeOK, Statuses,
           lifeVars, Plain, RunPoints, ClonePoints, ExitPoints, ChildPoints,
           OwnerPoints, RequestExitGroup, ExitRequested, Running
  <2>14. Walk(Root)
    BY <2>11, <2>12, <2>13, <2>15, <2>16
       DEF Walk, Plain, RunPoints, ClonePoints, ExitPoints, ChildPoints,
           OwnerPoints
  <2> QED
    BY <2>14, Constants
<1>37. ASSUME InterruptBlockingWaits
      PROVE  Rest \/ \E x \in Threads : Walk(x) \/ Special(x)
  <2>11. Asked
    BY <1>37, AskedByNobody, Constants DEF InterruptBlockingWaits, lifeVars
  <2>12. FutexUse(Root)
    BY <1>37 DEF InterruptBlockingWaits, Futex!Close, FutexUse, stepVars, futexVars
  <2>13. UNCHANGED <<clear, word, then, spawn, nextId, committer, owned>>
    BY <1>37 DEF InterruptBlockingWaits, lifeVars, stepVars, cloneVars, Goto
  <2>15. pc[Root] \in Plain
    BY <1>37, Constants
       DEF InterruptBlockingWaits, Plain, RunPoints, ClonePoints, ExitPoints,
           ChildPoints, OwnerPoints
  <2>16. Moves(Root, "drain_list")
    BY <1>37, Constants
       DEF InterruptBlockingWaits, Moves, Goto, EndInv, RootInv, TypeOK,
           Statuses, lifeVars, Plain, RunPoints, ClonePoints, ExitPoints,
           ChildPoints, OwnerPoints, RequestExitGroup, ExitRequested, Running
  <2>14. Walk(Root)
    BY <2>11, <2>12, <2>13, <2>15, <2>16
       DEF Walk, Plain, RunPoints, ClonePoints, ExitPoints, ChildPoints,
           OwnerPoints
  <2> QED
    BY <2>14, Constants
<1>38. ASSUME ListWorkers
      PROVE  Rest \/ \E x \in Threads : Walk(x) \/ Special(x)
  <2>11. Asked
    BY <1>38, AskedByNobody, Constants DEF ListWorkers, lifeVars
  <2>12. FutexUse(Root)
    BY <1>38 DEF ListWorkers, FutexUse, stepVars, futexVars
  <2>13. UNCHANGED <<clear, word, then, spawn, nextId, committer, owned>>
    BY <1>38 DEF ListWorkers, lifeVars, stepVars, cloneVars, Goto
  <2>15. pc[Root] \in Plain
    BY <1>38, Constants
       DEF ListWorkers, Plain, RunPoints, ClonePoints, ExitPoints, ChildPoints,
           OwnerPoints
  <2>16. Moves(Root, "drain_request")
    BY <1>38, Constants
       DEF ListWorkers, Moves, Goto, EndInv, RootInv, TypeOK, Statuses, lifeVars,
           Plain, RunPoints, ClonePoints, ExitPoints, ChildPoints, OwnerPoints,
           RequestExitGroup, ExitRequested, Running
  <2>14. Walk(Root)
    BY <2>11, <2>12, <2>13, <2>15, <2>16
       DEF Walk, Plain, RunPoints, ClonePoints, ExitPoints, ChildPoints,
           OwnerPoints
  <2> QED
    BY <2>14, Constants
<1>39. ASSUME RequestWorkerExit
      PROVE  Rest \/ \E x \in Threads : Walk(x) \/ Special(x)
  <2>1. CASE RequestExit(First(drain.left)) /\ UNCHANGED <<pc, then>>
    <3>1. Asked
      <4>1. CASE First(drain.left) \in Threads
        BY <2>1, <4>1, AskedOfOne DEF RequestExit
      <4>2. CASE First(drain.left) \notin Threads
        <5>1. UNCHANGED <<status, groupExit>>
          BY <2>1, <4>2 DEF RequestExit, TypeOK
        <5> QED
          BY <5>1, AskedByNobody
      <4> QED
        BY <4>1, <4>2
    <3>2. UNCHANGED <<clear, waiting, permits, closed, word, then, spawn, nextId, committer, owned, pc>>
      BY <1>39, <2>1 DEF RequestWorkerExit, RequestExit, cloneVars, futexVars
    <3>3. Walk(Root)
      <4>1. pc[Root] = "drain_request" /\ pc' = [pc EXCEPT ![Root] = "drain_request"]
        BY <1>39, <3>2, Constants DEF RequestWorkerExit, TypeOK
      <4>2. Moves(Root, "drain_request")
        BY <4>1 DEF Moves, OwnerPoints
      <4> QED
        BY <3>1, <3>2, <4>1, <4>2
           DEF Walk, FutexUse, Plain, RunPoints, ClonePoints, ExitPoints,
               ChildPoints, OwnerPoints
    <3> QED
      BY <3>3, Constants
  <2>2. CASE Goto(Root, "drain_aborted") /\ UNCHANGED lifeVars
    <3>11. Asked
      BY <1>39, <2>2, AskedByNobody, Constants DEF RequestWorkerExit, lifeVars
    <3>12. FutexUse(Root)
      BY <1>39, <2>2 DEF RequestWorkerExit, FutexUse, stepVars, futexVars
    <3>13. UNCHANGED <<clear, word, then, spawn, nextId, committer, owned>>
      BY <1>39, <2>2 DEF RequestWorkerExit, lifeVars, stepVars, cloneVars, Goto
    <3>15. pc[Root] \in Plain
      BY <1>39, <2>2, Constants
         DEF RequestWorkerExit, Plain, RunPoints, ClonePoints, ExitPoints,
             ChildPoints, OwnerPoints
    <3>16. Moves(Root, "drain_aborted")
      BY <1>39, <2>2, Constants
         DEF RequestWorkerExit, Moves, Goto, EndInv, RootInv, TypeOK, Statuses,
             lifeVars, Plain, RunPoints, ClonePoints, ExitPoints, ChildPoints,
             OwnerPoints, RequestExitGroup, ExitRequested, Running
    <3>14. Walk(Root)
      BY <3>11, <3>12, <3>13, <3>15, <3>16
         DEF Walk, Plain, RunPoints, ClonePoints, ExitPoints, ChildPoints,
             OwnerPoints
    <3> QED
      BY <3>14, Constants
  <2>3. CASE UNCHANGED <<lifeVars, pc, then>>
    BY <1>39, <2>3 DEF RequestWorkerExit, Rest
  <2> QED
    BY <1>39, <2>1, <2>2, <2>3 DEF RequestWorkerExit
<1>40. ASSUME BeginJoin
      PROVE  Rest \/ \E x \in Threads : Walk(x) \/ Special(x)
  <2>11. Asked
    BY <1>40, AskedByNobody, Constants DEF BeginJoin, lifeVars
  <2>12. FutexUse(Root)
    BY <1>40 DEF BeginJoin, FutexUse, stepVars, futexVars
  <2>13. UNCHANGED <<clear, word, then, spawn, nextId, committer, owned>>
    BY <1>40 DEF BeginJoin, lifeVars, stepVars, cloneVars, Goto
  <2>15. pc[Root] \in Plain
    BY <1>40, Constants
       DEF BeginJoin, Plain, RunPoints, ClonePoints, ExitPoints, ChildPoints,
           OwnerPoints
  <2>16. Moves(Root, "drain_join")
    BY <1>40, Constants
       DEF BeginJoin, Moves, Goto, EndInv, RootInv, TypeOK, Statuses, lifeVars,
           Plain, RunPoints, ClonePoints, ExitPoints, ChildPoints, OwnerPoints,
           RequestExitGroup, ExitRequested, Running
  <2>14. Walk(Root)
    BY <2>11, <2>12, <2>13, <2>15, <2>16
       DEF Walk, Plain, RunPoints, ClonePoints, ExitPoints, ChildPoints,
           OwnerPoints
  <2> QED
    BY <2>14, Constants
<1>41. ASSUME JoinWorker
      PROVE  Rest \/ \E x \in Threads : Walk(x) \/ Special(x)
  BY <1>41 DEF JoinWorker, Rest
<1>42. ASSUME EndDrain
      PROVE  Rest \/ \E x \in Threads : Walk(x) \/ Special(x)
  <2>11. Asked
    BY <1>42, AskedByNobody, Constants DEF EndDrain, lifeVars
  <2>12. FutexUse(Root)
    BY <1>42 DEF EndDrain, FutexUse, stepVars, futexVars
  <2>13. UNCHANGED <<clear, word, then, spawn, nextId, committer, owned>>
    BY <1>42 DEF EndDrain, lifeVars, stepVars, cloneVars, Goto
  <2>15. pc[Root] \in Plain
    BY <1>42, Constants
       DEF EndDrain, Plain, RunPoints, ClonePoints, ExitPoints, ChildPoints,
           OwnerPoints
  <2>16. Moves(Root, "drained")
    BY <1>42, Constants
       DEF EndDrain, Moves, Goto, EndInv, RootInv, TypeOK, Statuses, lifeVars,
           Plain, RunPoints, ClonePoints, ExitPoints, ChildPoints, OwnerPoints,
           RequestExitGroup, ExitRequested, Running
  <2>14. Walk(Root)
    BY <2>11, <2>12, <2>13, <2>15, <2>16
       DEF Walk, Plain, RunPoints, ClonePoints, ExitPoints, ChildPoints,
           OwnerPoints
  <2> QED
    BY <2>14, Constants
<1> QED
  BY <1>1, <1>2, <1>3, <1>4, <1>5, <1>6, <1>7, <1>8, <1>9, <1>10, <1>11,
     <1>12, <1>13, <1>14, <1>15, <1>16, <1>17, <1>18, <1>19, <1>20, <1>21,
     <1>22, <1>23, <1>24, <1>25, <1>26, <1>27, <1>28, <1>29, <1>30, <1>31,
     <1>32, <1>33, <1>34, <1>35, <1>36, <1>37, <1>38, <1>39, <1>40, <1>41,
     <1>42
     DEF Next, RunnerStep, CloneStep, EndStep, Trouble, GuestChoice, DrainStep, OwnerChoice

-----------------------------------------------------------------------------
(* A walking thread changes nothing that the invariants of the others see.  *)

\* The kinds of points are apart.
LEMMA PlainPoints ==
  /\ Plain \cap ClonePoints = {} /\ Plain \cap ExitPoints = {} /\ "none" \notin Plain
  /\ ClonePoints \cap ExitPoints = {} /\ "none" \notin ClonePoints \cup ExitPoints
BY DEF Plain, RunPoints, ClonePoints, ExitPoints, ChildPoints, OwnerPoints

\* One thread walks, between plain points.
LEMMA WalkPoints ==
  ASSUME TypeOK, NEW t \in Threads, Walk(t)
  PROVE  \A u \in Threads : pc'[u] = pc[u] \/ (u = t /\ pc[u] \in Plain /\ pc'[u] \in Plain)
<1>1. PICK point \in Plain : Moves(t, point)
  BY DEF Walk
<1> QED
  BY <1>1 DEF Walk, Moves, TypeOK

\* A walk leaves every thread as dead or alive as it was.
LEMMA WalkStatus ==
  ASSUME TypeOK, NEW t \in Threads, Walk(t), NEW c \in Threads
  PROVE  /\ status'[c] = "none" <=> status[c] = "none"
         /\ status'[c] = "exited" <=> status[c] = "exited"
         /\ Alive(c)' <=> Alive(c)
         /\ status'[c] = "running" => status[c] = "running"
<1>1. status'[c] = status[c] \/ (Alive(c) /\ status'[c] = "exit_requested")
  BY DEF Walk, Asked
<1>2. status[c] \in {"none", "running", "exit_requested", "exited"}
  BY DEF TypeOK, Statuses
<1> QED
  BY <1>1, <1>2 DEF Alive

\* A walk leaves what exits and clones are at.
LEMMA WalkFrame ==
  ASSUME TypeOK, NEW t \in Threads, Walk(t), NEW u \in Threads
  PROVE  /\ Subject(u)' = Subject(u)
         /\ Holds(u)' <=> Holds(u)
         /\ spawn'[u] = spawn[u] /\ then'[u] = then[u] /\ clear'[u] = clear[u]
<1>1. Subject(u)' = Subject(u)
  BY DEF Walk, Subject
<1>2. Holds(u)' <=> Holds(u)
  BY WalkPoints, PlainPoints DEF Walk, Holds, ClonePoints
<1> QED
  BY <1>1, <1>2 DEF Walk

\* A walk keeps the invariants of the lifecycle and the clones.
LEMMA WalkLife ==
  ASSUME LInv, NEW t \in Threads, Walk(t)
  PROVE  RootInv' /\ EndInv' /\ SubjectInv' /\ ChildInv' /\ GroupExitIsFinal'
<1> USE DEF LInv, TInv
<1>1. PICK point \in Plain : Moves(t, point)
  BY DEF Walk
<1>2. RootInv'
  BY <1>1, Constants
     DEF RootInv, Moves, Walk, TypeOK, ChildPoints, RunPoints, OwnerPoints
<1>3. EndInv'
  <2> SUFFICES ASSUME NEW c \in Children
               PROVE  /\ status'[c] = "none" => pc'[c] = "none"
                      /\ pc'[c] \in {"fail_close", "fail_complete"} =>
                           status'[c] \in {"exit_requested", "exited"}
                      /\ pc'[c] \in {"publishing", "ending", "notifying", "finished"} =>
                           status'[c] = "exited"
    BY DEF EndInv
  <2>1. c \in Threads
    BY Constants
  <2>2. CASE c = t
    BY <1>1, <2>1, <2>2, WalkStatus, PlainPoints DEF Moves, EndInv, TypeOK, Walk
  <2>3. CASE c # t
    <3>1. pc'[c] = pc[c]
      BY <2>1, <2>3, WalkPoints
    <3>2. status'[c] = status[c] \/ (Alive(c) /\ status'[c] = "exit_requested")
      BY <2>1 DEF Walk, Asked
    <3>3. status[c] = "none" => pc[c] = "none"
      BY DEF EndInv
    <3> QED
      BY <2>1, <3>1, <3>2, <3>3 DEF EndInv, Alive
  <2> QED
    BY <2>2, <2>3
<1>4. SubjectInv'
  <2> SUFFICES ASSUME NEW u \in Threads, pc'[u] \in ExitPoints
               PROVE  /\ Subject(u)' \in Children
                      /\ status'[Subject(u)'] = "exited"
                      /\ clear'[Subject(u)'] \in Words
                      /\ then'[u] = "top" => pc'[Subject(u)'] = "none"
    BY DEF SubjectInv
  <2>1. pc[u] \in ExitPoints
    BY WalkPoints, PlainPoints
  <2>2. Subject(u) \in Threads
    BY <2>1, Constants DEF SubjectInv
  <2>3. then[u] = "top" => pc'[Subject(u)] = "none"
    BY <2>1, <2>2, WalkPoints, PlainPoints DEF SubjectInv
  <2> QED
    BY <2>1, <2>2, <2>3, WalkFrame, WalkStatus DEF SubjectInv
<1>5. ChildInv'
  <2>1. ASSUME NEW u \in Threads
        PROVE  /\ committer' = u <=> pc'[u] = "registering"
               /\ Holds(u)' => spawn'[u].child \in 2 .. nextId' - 1
               /\ pc'[u] \in {"registering", "launching", "owning"} => spawn'[u].child \in Children
               /\ pc'[u] = "registering" => status'[spawn'[u].child] = "none"
               /\ pc'[u] = "launching" => /\ status'[spawn'[u].child] \in {"running", "exit_requested"}
                                          /\ pc'[spawn'[u].child] = "none"
               /\ pc'[u] = "owning" => status'[spawn'[u].child] # "none"
    <3>1. \/ pc'[u] = pc[u]
          \/ /\ pc[u] \notin {"registering", "launching", "owning"}
             /\ pc'[u] \notin {"registering", "launching", "owning"}
      BY WalkPoints, PlainPoints DEF ClonePoints
    <3>2. UNCHANGED committer /\ UNCHANGED nextId /\ spawn'[u] = spawn[u] /\ (Holds(u)' <=> Holds(u))
      BY WalkFrame DEF Walk
    <3>3. pc[u] \in {"registering", "launching", "owning"} => spawn[u].child \in Threads
      BY Constants DEF ChildInv, Parent, OneParent
    <3>4. pc[u] = "launching" => pc'[spawn[u].child] = "none"
      BY <3>3, WalkPoints, PlainPoints DEF ChildInv, Parent, OneParent
    <3>5. pc[u] = "launching" => status'[spawn[u].child] \in {"running", "exit_requested"}
      <4>1. ASSUME NEW c \in Threads, Alive(c)
            PROVE  status'[c] \in {"running", "exit_requested"}
        BY <4>1, WalkStatus DEF Alive
      <4> QED
        BY <3>3, <4>1 DEF ChildInv, Parent, OneParent
    <3> QED
      BY <3>1, <3>2, <3>3, <3>4, <3>5, WalkStatus DEF ChildInv, Parent, OneParent
  <2>2. ASSUME NEW u \in Threads, NEW v \in Threads, Holds(u)', Holds(v)',
               spawn'[u].child = spawn'[v].child
        PROVE  u = v
    BY <2>2, WalkFrame DEF ChildInv, Parent, OneParent
  <2>3. \A c \in Children : c >= nextId' => status'[c] = "none"
    BY WalkStatus, Constants DEF ChildInv, Parent, OneParent, Walk
  <2>4. \A c \in owned' : status'[c] # "none"
    BY WalkStatus, Constants DEF ChildInv, Parent, OneParent, Walk, TypeOK
  <2>5. spawn' = spawn
    BY DEF Walk
  <2> QED
    BY <2>1, <2>2, <2>3, <2>4, <2>5 DEF ChildInv, Parent, OneParent, Alive
<1>6. GroupExitIsFinal'
  BY WalkStatus DEF Walk, Asked, GroupExitIsFinal, Running
<1> QED
  BY <1>2, <1>3, <1>4, <1>5, <1>6


\* What a walking thread does to the waiters of a word.
LEMMA WalkWaiters ==
  ASSUME TypeOK, OneJoiner, NEW t \in Threads, Walk(t), NEW w \in Words
  PROVE  \/ waiting'[w] = waiting[w] /\ permits'[w] = permits[w] /\ (closed => closed')
         \/ word[w] \in owned /\ waiting'[w] = {t}
         \/ waiting'[w] = {}
<1>1. CASE UNCHANGED <<waiting, permits>> /\ (closed => closed')
  BY <1>1
<1>2. ASSUME NEW x \in Words, UNCHANGED closed,
             word[x] \in owned /\ waiting[x] = {} /\ Futex!Join(t, x)
      PROVE  \/ waiting'[w] = waiting[w] /\ permits'[w] = permits[w] /\ (closed => closed')
             \/ word[w] \in owned /\ waiting'[w] = {t}
  <2>1. waiting' = [waiting EXCEPT ![x] = waiting[x] \cup {t}] /\ UNCHANGED <<permits, closed>>
    BY <1>2 DEF Futex!Join
  <2> QED
    BY <1>2, <2>1 DEF TypeOK
<1>3. ASSUME NEW x \in Words, UNCHANGED closed, Futex!Take(t, x) \/ Futex!GiveUp(t, x)
      PROVE  \/ waiting'[w] = waiting[w] /\ permits'[w] = permits[w] /\ (closed => closed')
             \/ waiting'[w] = {}
  <2>1. /\ t \in waiting[x]
        /\ waiting' = [waiting EXCEPT ![x] = waiting[x] \ {t}]
        /\ permits' = permits \/ permits' = [permits EXCEPT ![x] = permits[x] - 1]
    BY <1>3 DEF Futex!Take, Futex!GiveUp
  <2>2. waiting[x] = {t}
    BY <2>1 DEF OneJoiner
  <2> QED
    BY <1>3, <2>1, <2>2 DEF TypeOK
<1> QED
  BY <1>1, <1>2, <1>3 DEF Walk, FutexUse

\* A walk keeps the invariants of the words and their waiters.
LEMMA WalkWords ==
  ASSUME GInv, NEW t \in Threads, Walk(t)
  PROVE  /\ ReservedInv' /\ ClearingInv' /\ WordNamesLiveThread' /\ NoIdOfUncreatedThread'
         /\ OneJoiner' /\ JoinerIsWoken'
<1> USE DEF GInv, WInv, LInv, TInv
<1>0. word' = word /\ spawn' = spawn /\ clear' = clear /\ committer' = committer
  BY DEF Walk
<1>1. ReservedInv'
  <2> SUFFICES ASSUME NEW u \in Threads, pc'[u] \in Committing
               PROVE  /\ \A w \in Words : w = spawn'[u].word => Reserved(u, w)'
                      /\ pc'[u] = "registering" =>
                           \A x \in Words : word'[x] = spawn'[u].child => x = spawn'[u].word
    BY DEF ReservedInv, Committing
  <2>1. pc'[u] = pc[u]
    BY WalkPoints, PlainPoints DEF ClonePoints, Committing
  <2>2. ASSUME NEW v \in Threads, pc'[v] \in Committing
        PROVE  pc[v] \in Committing
    BY <2>2, WalkPoints, PlainPoints DEF ClonePoints, Committing
  <2>3. ASSUME NEW w \in Words, w = spawn[u].word
        PROVE  Reserved(u, w)'
    <3>0. Reserved(u, w)
      BY <2>1, <2>3 DEF ReservedInv
    <3>1. word[w] \notin owned
      <4>1. CASE pc[u] = "spawning"
        BY <3>0, <4>1, Constants DEF Reserved, TypeOK
      <4>2. CASE pc[u] = "registering"
        <5>1. word[w] = spawn[u].child
          BY <3>0, <4>2 DEF Reserved
        <5>2. status[spawn[u].child] = "none"
          BY <4>2 DEF ChildInv, Parent, OneParent
        <5> QED
          BY <5>1, <5>2 DEF ChildInv, Parent, OneParent
      <4> QED
        BY <2>1, <4>1, <4>2 DEF Committing
    <3>2. waiting'[w] = {}
      BY <3>0, <3>1, WalkWaiters DEF Reserved
    <3>3. ASSUME NEW c \in Threads, Alive(c)'
          PROVE  clear'[c] # w
      BY <1>0, <3>0, <3>3, WalkStatus DEF Reserved
    <3> QED
      BY <1>0, <2>1, <2>2, <3>0, <3>2, <3>3 DEF Reserved
  <2> QED
    BY <1>0, <2>1, <2>3 DEF ReservedInv
<1>2. ClearingInv'
  BY <1>0, WalkFrame, WalkPoints, PlainPoints DEF ClearingInv, ExitPoints
<1>3. WordNamesLiveThread'
  <2> SUFFICES ASSUME NEW c \in Children, status'[c] \in {"running", "exit_requested"},
                      clear[c] \in Words
               PROVE  word[clear[c]] = c
    BY <1>0 DEF WordNamesLiveThread
  <2>1. status[c] \in {"running", "exit_requested"}
    BY WalkStatus, Constants DEF Alive
  <2> QED
    BY <2>1 DEF WordNamesLiveThread
<1>4. NoIdOfUncreatedThread'
  <2> SUFFICES ASSUME NEW w \in Words
               PROVE  \/ word[w] = None
                      \/ status'[word[w]] # "none"
                      \/ committer # None /\ spawn[committer].child = word[w]
    BY <1>0 DEF NoIdOfUncreatedThread
  <2>1. word[w] # None => word[w] \in Threads
    BY Constants DEF TypeOK
  <2> QED
    BY <2>1, WalkStatus DEF NoIdOfUncreatedThread
<1>5. OneJoiner'
  BY WalkWaiters DEF OneJoiner
<1>6. JoinerIsWoken'
  <2> SUFFICES ASSUME NEW w \in Words, word[w] = None, waiting'[w] # {}, ~closed'
               PROVE  \/ permits'[w] > 0
                      \/ \E u \in Threads : pc'[u] = "waking" /\ clear[Subject(u)'] = w
    BY <1>0 DEF JoinerIsWoken
  <2>1. word[w] \notin owned
    BY Constants DEF TypeOK
  <2>2. waiting'[w] = waiting[w] /\ permits'[w] = permits[w] /\ ~closed
    BY <2>1, WalkWaiters
  <2>3. CASE permits[w] > 0
    BY <2>2, <2>3
  <2>4. ASSUME NEW u \in Threads, pc[u] = "waking" /\ clear[Subject(u)] = w
        PROVE  pc'[u] = "waking" /\ clear[Subject(u)'] = w
    BY <2>4, WalkPoints, WalkFrame, PlainPoints DEF ExitPoints
  <2> QED
    BY <2>2, <2>3, <2>4 DEF JoinerIsWoken
<1> QED
  BY <1>1, <1>2, <1>3, <1>4, <1>5, <1>6


-----------------------------------------------------------------------------
(* The steps that do more.                                                  *)

\* No two threads complete the same exit.
LEMMA Subjects ==
  ASSUME LInv, NEW t \in Threads, NEW u \in Threads,
         pc[t] \in ExitPoints, pc[u] \in ExitPoints, Subject(t) = Subject(u)
  PROVE  t = u
<1> USE DEF LInv, SubjectInv, Subject
<1>1. CASE then[t] = "top" /\ then[u] = "top"
  BY <1>1 DEF ChildInv, OneParent, Holds
<1>2. CASE then[t] = "top" /\ then[u] # "top"
  BY <1>2, PlainPoints
<1>3. CASE then[t] # "top" /\ then[u] = "top"
  BY <1>3, PlainPoints
<1> QED
  BY <1>1, <1>2, <1>3


\* A wake leaves a word with a permit, or with nobody who sleeps on it.
LEMMA SomebodySleeps ==
  ASSUME NEW S \in SUBSET Threads, S # {}
  PROVE  Cardinality(S) \in Nat /\ Cardinality(S) >= 1
<1>1. IsFiniteSet(Threads)
  BY GuestThreadsAssumption, FS_Interval DEF GuestThreadsAssumption, Threads
<1>2. IsFiniteSet(S)
  BY <1>1, FS_Subset
<1> QED
  BY <1>2, FS_CardinalityType, FS_EmptySet

LEMMA WakeIsEnough ==
  ASSUME TypeOK, NEW w \in Words, waiting[w] # {}, ~closed,
         \/ HasSleeper(w) /\ Futex!Signal(w, 1)
         \/ ~HasSleeper(w) /\ UNCHANGED futexVars
  PROVE  permits'[w] > 0
<1>1. permits \in [Words -> Nat] /\ Cardinality(waiting[w]) \in Nat /\ Cardinality(waiting[w]) >= 1
  BY SomebodySleeps DEF TypeOK
<1>2. CASE Futex!Signal(w, 1)
  BY <1>1, <1>2 DEF Futex!Signal
<1>3. CASE ~HasSleeper(w) /\ UNCHANGED futexVars
  BY <1>1, <1>3 DEF HasSleeper, futexVars
<1> QED
  BY <1>2, <1>3


\* set_tid_address.
LEMMA SetTidKeeps ==
  ASSUME GInv, TypeOK', NEW t \in Threads, SetTidAddress(t)
  PROVE  GInv'
<1> USE DEF GInv, WInv, LInv, TInv
<1>a1. pc[t] = "guest" /\ pc'[t] = "top" /\ then' = then /\ status[t] = "running"
  BY DEF SetTidAddress, Goto, Running, TypeOK
<1>a2. \A u \in Threads \ {t} : pc'[u] = pc[u] /\ clear'[u] = clear[u]
  BY DEF SetTidAddress, Goto, TypeOK
<1>a3. clear'[t] = NoWord
  BY DEF SetTidAddress, TypeOK
<1>a4. UNCHANGED <<status, groupExit, word, waiting, permits, closed, spawn, nextId, committer, owned>>
  BY DEF SetTidAddress, stepVars, futexVars, cloneVars
<1>s. ASSUME NEW u \in Threads, u # t, pc[u] \in ExitPoints \/ pc'[u] \in ExitPoints
      PROVE  /\ pc[u] \in ExitPoints /\ pc'[u] = pc[u] /\ Subject(u)' = Subject(u) /\ then'[u] = then[u]
             /\ Subject(u) \in Children /\ status[Subject(u)] = "exited" /\ clear[Subject(u)] \in Words
             /\ then[u] = "top" => pc[Subject(u)] = "none"
  <2>1. pc[u] \in ExitPoints /\ pc'[u] = pc[u] /\ then'[u] = then[u]
    BY <1>s, <1>a1, <1>a2, PlainPoints DEF ExitPoints
  <2>2. Subject(u)' = Subject(u)
    BY <2>1, <1>a4 DEF Subject
  <2> QED
    BY <2>1, <2>2 DEF SubjectInv
<1>1. RootInv'
  BY <1>a1, <1>a2, Constants
     DEF RootInv, RunPoints, ClonePoints, ExitPoints, ChildPoints, OwnerPoints
<1>2. EndInv'
  BY <1>a1, <1>a2, <1>a4, Constants
     DEF EndInv, Alive, RunPoints, ClonePoints, ExitPoints, ChildPoints,
         OwnerPoints
<1>3. SubjectInv'
  <2> SUFFICES ASSUME NEW u \in Threads, pc'[u] \in ExitPoints
               PROVE  /\ Subject(u)' \in Children
                      /\ status'[Subject(u)'] = "exited"
                      /\ clear'[Subject(u)'] \in Words
                      /\ then'[u] = "top" => pc'[Subject(u)'] = "none"
    BY DEF SubjectInv
  <2>1. CASE u # t
    <3>1. /\ pc[u] \in ExitPoints /\ Subject(u)' = Subject(u) /\ then'[u] = then[u]
          /\ Subject(u) \in Threads /\ Subject(u) \in Children
          /\ status[Subject(u)] = "exited" /\ clear[Subject(u)] \in Words
          /\ then[u] = "top" => pc[Subject(u)] = "none"
      BY <1>s, <2>1, Constants
    <3>2. status'[Subject(u)] = "exited"
      BY <1>a4, <3>1 DEF Alive
    <3>3. clear'[Subject(u)] \in Words
      BY <1>a1, <1>a2, <3>1 DEF Alive
    <3>4. then[u] = "top" => pc'[Subject(u)] = "none"
      BY <1>a1, <1>a2, <3>1 DEF Alive
    <3> QED
      BY <3>1, <3>2, <3>3, <3>4
  <2>2. CASE u = t
    BY <1>a1, <2>2 DEF SubjectInv, Subject, ExitPoints
  <2> QED
    BY <2>1, <2>2
<1>4. ChildInv'
  <2>1. ASSUME NEW u \in Threads
        PROVE  Parent(u)'
    <3>0. Parent(u)
      BY DEF ChildInv
    <3>7. pc[u] \in {"registering", "launching", "owning"} => spawn[u].child \in Threads
      BY <3>0, Constants DEF Parent
    <3>1. /\ committer' = u <=> pc'[u] = "registering"
          /\ pc'[u] \in {"registering", "launching", "owning"} => spawn'[u].child \in Children
      BY <1>a1, <1>a2, <1>a4, <3>0 DEF Parent
    <3>2. Holds(u)' => spawn'[u].child \in 2 .. nextId' - 1
      BY <1>a1, <1>a2, <1>a4, <3>0 DEF Parent, Holds, ExitPoints
    <3>3. pc'[u] = "registering" => status'[spawn'[u].child] = "none"
      BY <1>a1, <1>a2, <1>a4, <3>0, <3>7 DEF Parent
    <3>4. pc'[u] = "launching" => status'[spawn'[u].child] \in {"running", "exit_requested"}
      BY <1>a1, <1>a2, <1>a4, <3>0, <3>7 DEF Parent, Alive
    <3>5. pc'[u] = "launching" => pc'[spawn'[u].child] = "none"
      BY <1>a1, <1>a2, <1>a4, <3>0, <3>7 DEF Parent
    <3>6. pc'[u] = "owning" => status'[spawn'[u].child] # "none"
      BY <1>a1, <1>a2, <1>a4, <3>0, <3>7 DEF Parent
    <3> QED
      BY <3>1, <3>2, <3>3, <3>4, <3>5, <3>6 DEF Parent, Alive
  <2>2. OneParent'
    BY <1>a1, <1>a2, <1>a4 DEF ChildInv, Parent, OneParent, Holds, ExitPoints
  <2>3. \A c \in Children : c >= nextId' => status'[c] = "none"
    BY <1>a4 DEF ChildInv, EndInv, Alive
  <2>4. \A c \in owned' : status'[c] # "none"
    BY <1>a4 DEF ChildInv, Parent, TypeOK
  <2> QED
    BY <2>1, <2>2, <2>3, <2>4 DEF ChildInv
<1>5. GroupExitIsFinal'
  BY <1>a4 DEF GroupExitIsFinal, Running
<1>6. ReservedInv'
  <2> SUFFICES ASSUME NEW u \in Threads, pc'[u] \in Committing
               PROVE  /\ \A w \in Words : w = spawn'[u].word => Reserved(u, w)'
                      /\ pc'[u] = "registering" =>
                           \A x \in Words : word'[x] = spawn'[u].child => x = spawn'[u].word
    BY DEF ReservedInv
  <2>1. ASSUME NEW w \in Words, w = spawn'[u].word
        PROVE  Reserved(u, w)'
    <3>1. waiting'[w] = {}
      BY <1>a1, <1>a2, <1>a4, <2>1 DEF ReservedInv, Reserved, Committing
    <3>2. ASSUME NEW c \in Threads, Alive(c)'
          PROVE  clear'[c] # w
      BY <1>a1, <1>a2, <1>a3, <1>a4, Constants, <2>1, <3>2
         DEF ReservedInv, Reserved, Committing, Alive
    <3>3. ASSUME NEW v \in Threads, pc'[v] \in Committing, spawn'[v].word = w
          PROVE  u = v
      BY <1>a1, <1>a2, <1>a4, <2>1, <3>3 DEF ReservedInv, Reserved, Committing
    <3>4. /\ pc'[u] = "spawning" => word'[w] = None
          /\ pc'[u] = "registering" => word'[w] = spawn'[u].child /\ spawn'[u].saved = None
      BY <1>a1, <1>a2, <1>a4, <2>1 DEF ReservedInv, Reserved, Committing
    <3> QED
      BY <3>1, <3>2, <3>3, <3>4 DEF Reserved
  <2>2. ASSUME pc'[u] = "registering", NEW x \in Words, word'[x] = spawn'[u].child
        PROVE  x = spawn'[u].word
    BY <1>a1, <1>a2, <1>a4, <2>2 DEF ReservedInv, Committing
  <2> QED
    BY <2>1, <2>2
<1>7. ClearingInv'
  <2> SUFFICES ASSUME NEW u \in Threads, pc'[u] = "clearing"
               PROVE  word'[clear'[Subject(u)']] = Subject(u)'
    BY DEF ClearingInv
  <2>1. CASE u # t
    <3>1. pc[u] = "clearing" /\ word[clear[Subject(u)]] = Subject(u)
      BY <1>s, <2>1 DEF ClearingInv, ExitPoints
    <3>2. /\ pc[u] \in ExitPoints /\ Subject(u)' = Subject(u) /\ Subject(u) \in Threads
          /\ Subject(u) \in Children /\ status[Subject(u)] = "exited" /\ clear[Subject(u)] \in Words
      BY <1>s, <2>1, <3>1, Constants DEF ExitPoints
    <3> QED
      BY <1>a1, <1>a2, <1>a4, <2>1, <3>1, <3>2 DEF Alive
  <2>2. CASE u = t
    BY <1>a1, <2>2 DEF Subject, ExitPoints, WordNamesLiveThread, Alive
  <2> QED
    BY <2>1, <2>2
<1>8. WordNamesLiveThread'
  BY <1>a2, <1>a3, <1>a4, Constants DEF WordNamesLiveThread
<1>9. NoIdOfUncreatedThread'
  <2> SUFFICES ASSUME NEW w \in Words
               PROVE  \/ word'[w] = None
                      \/ status'[word'[w]] # "none"
                      \/ committer' # None /\ spawn'[committer'].child = word'[w]
    BY DEF NoIdOfUncreatedThread
  <2>1. word[w] = None \/ word[w] \in Children
    BY DEF TypeOK
  <2>2. \/ word[w] = None
        \/ status[word[w]] # "none"
        \/ committer # None /\ spawn[committer].child = word[w]
    BY DEF NoIdOfUncreatedThread
  <2>3. committer # None => committer \in Threads /\ pc[committer] = "registering"
    BY DEF TypeOK, ChildInv, Parent
  <2> QED
    BY <1>a4, <2>1, <2>2, <2>3 DEF ChildInv, Parent
<1>10. OneJoiner'
  BY <1>a4 DEF OneJoiner
<1>11. JoinerIsWoken'
  <2> SUFFICES ASSUME NEW w \in Words, word'[w] = None, waiting'[w] # {}, ~closed'
               PROVE  \/ permits'[w] > 0
                      \/ \E u \in Threads : pc'[u] = "waking" /\ clear'[Subject(u)'] = w
    BY DEF JoinerIsWoken
  <2>1. ASSUME NEW u \in Threads, u # t, pc[u] = "waking", clear[Subject(u)] = w
        PROVE  pc'[u] = "waking" /\ clear'[Subject(u)'] = w
    BY <1>a1, <1>a2, <1>a3, <1>a4, Constants, <2>1, <1>s DEF ExitPoints
  <2> QED
    BY <1>a1, <1>a4, <2>1 DEF JoinerIsWoken
<1> QED
  BY <1>1, <1>2, <1>3, <1>4, <1>5, <1>6, <1>7, <1>8, <1>9, <1>10, <1>11

\* A thread completes its own exit.
LEMMA CompleteKeeps ==
  ASSUME GInv, TypeOK', NEW t \in Threads, Complete(t)
  PROVE  GInv'
<1> USE DEF GInv, WInv, LInv, TInv
<1>a1. /\ t # Root /\ t \in Children /\ status[t] = "exit_requested" /\ status'[t] = "exited"
       /\ pc[t] \in (RunPoints \cup ChildPoints) \ {"none"}
  BY Constants DEF Complete, CompleteExit, ExitRequested, TypeOK
<1>a2. \A u \in Threads \ {t} : pc'[u] = pc[u] /\ then'[u] = then[u] /\ status'[u] = status[u]
  BY DEF Complete, CompleteExit, TypeOK
<1>a3. /\ then'[t] \in {"publishing", "notifying"}
       /\ pc'[t] = IF clear[t] \in Words THEN "clearing" ELSE then'[t]
  BY DEF Complete, CompleteExit, TypeOK
<1>a4. UNCHANGED <<clear, groupExit, word, waiting, permits, closed, spawn, nextId, committer, owned>>
  BY DEF Complete, CompleteExit, stepVars, futexVars, cloneVars
<1>a5. /\ pc[t] \notin {"none", "spawning", "registering", "launching", "owning", "clearing", "waking"}
       /\ pc'[t] \in {"clearing", "publishing", "notifying"}
  BY <1>a1, <1>a3 DEF RunPoints, ChildPoints
<1>s. ASSUME NEW u \in Threads, u # t, pc[u] \in ExitPoints \/ pc'[u] \in ExitPoints
      PROVE  /\ pc[u] \in ExitPoints /\ pc'[u] = pc[u] /\ Subject(u)' = Subject(u) /\ then'[u] = then[u]
             /\ Subject(u) \in Children /\ status[Subject(u)] = "exited" /\ clear[Subject(u)] \in Words
             /\ then[u] = "top" => pc[Subject(u)] = "none"
  <2>1. pc[u] \in ExitPoints /\ pc'[u] = pc[u] /\ then'[u] = then[u]
    BY <1>s, <1>a2, PlainPoints DEF ExitPoints
  <2>2. Subject(u)' = Subject(u)
    BY <2>1, <1>a4 DEF Subject
  <2> QED
    BY <2>1, <2>2 DEF SubjectInv
<1>1. RootInv'
  BY <1>a1, <1>a2, <1>a3, Constants
     DEF RootInv, RunPoints, ClonePoints, ExitPoints, ChildPoints, OwnerPoints
<1>2. EndInv'
  BY <1>a1, <1>a2, Constants
     DEF EndInv, Alive, RunPoints, ClonePoints, ExitPoints, ChildPoints,
         OwnerPoints
<1>3. SubjectInv'
  <2> SUFFICES ASSUME NEW u \in Threads, pc'[u] \in ExitPoints
               PROVE  /\ Subject(u)' \in Children
                      /\ status'[Subject(u)'] = "exited"
                      /\ clear'[Subject(u)'] \in Words
                      /\ then'[u] = "top" => pc'[Subject(u)'] = "none"
    BY DEF SubjectInv
  <2>1. CASE u # t
    <3>1. /\ pc[u] \in ExitPoints /\ Subject(u)' = Subject(u) /\ then'[u] = then[u]
          /\ Subject(u) \in Threads /\ Subject(u) \in Children
          /\ status[Subject(u)] = "exited" /\ clear[Subject(u)] \in Words
          /\ then[u] = "top" => pc[Subject(u)] = "none"
      BY <1>s, <2>1, Constants
    <3>2. status'[Subject(u)] = "exited"
      BY <1>a1, <1>a2, <3>1 DEF Alive
    <3>3. clear'[Subject(u)] \in Words
      BY <1>a4, <3>1 DEF Alive
    <3>4. then[u] = "top" => pc'[Subject(u)] = "none"
      BY <1>a1, <1>a2, <3>1 DEF Alive
    <3> QED
      BY <3>1, <3>2, <3>3, <3>4
  <2>2. CASE u = t
    BY <1>a1, <1>a3, <1>a4, <2>2 DEF SubjectInv, Subject, ExitPoints
  <2> QED
    BY <2>1, <2>2
<1>4. ChildInv'
  <2>1. ASSUME NEW u \in Threads
        PROVE  Parent(u)'
    <3>0. Parent(u)
      BY DEF ChildInv
    <3>7. pc[u] \in {"registering", "launching", "owning"} => spawn[u].child \in Threads
      BY <3>0, Constants DEF Parent
    <3>1. /\ committer' = u <=> pc'[u] = "registering"
          /\ pc'[u] \in {"registering", "launching", "owning"} => spawn'[u].child \in Children
      BY <1>a2, <1>a4, <1>a5, <3>0 DEF Parent
    <3>2. Holds(u)' => spawn'[u].child \in 2 .. nextId' - 1
      BY <1>a2, <1>a3, <1>a4, <3>0 DEF Parent, Holds, ExitPoints
    <3>3. pc'[u] = "registering" => status'[spawn'[u].child] = "none"
      BY <1>a1, <1>a2, <1>a3, <1>a4, <3>0, <3>7 DEF Parent
    <3>4. pc'[u] = "launching" => status'[spawn'[u].child] \in {"running", "exit_requested"}
      BY <1>a1, <1>a2, <1>a3, <1>a4, <3>0, <3>7 DEF Parent, Alive
    <3>5. pc'[u] = "launching" => pc'[spawn'[u].child] = "none"
      BY <1>a1, <1>a2, <1>a3, <1>a4, <3>0, <3>7 DEF Parent
    <3>6. pc'[u] = "owning" => status'[spawn'[u].child] # "none"
      BY <1>a1, <1>a2, <1>a3, <1>a4, <3>0, <3>7 DEF Parent
    <3> QED
      BY <3>1, <3>2, <3>3, <3>4, <3>5, <3>6 DEF Parent, Alive
  <2>2. OneParent'
    BY <1>a2, <1>a3, <1>a4 DEF ChildInv, Parent, OneParent, Holds, ExitPoints
  <2>3. \A c \in Children : c >= nextId' => status'[c] = "none"
    BY <1>a1, <1>a2, <1>a4, Constants DEF ChildInv, EndInv, Alive
  <2>4. \A c \in owned' : status'[c] # "none"
    BY <1>a1, <1>a2, <1>a4, Constants DEF ChildInv, Parent, TypeOK
  <2> QED
    BY <2>1, <2>2, <2>3, <2>4 DEF ChildInv
<1>5. GroupExitIsFinal'
  BY <1>a1, <1>a2, <1>a4 DEF GroupExitIsFinal, Running
<1>6. ReservedInv'
  <2> SUFFICES ASSUME NEW u \in Threads, pc'[u] \in Committing
               PROVE  /\ \A w \in Words : w = spawn'[u].word => Reserved(u, w)'
                      /\ pc'[u] = "registering" =>
                           \A x \in Words : word'[x] = spawn'[u].child => x = spawn'[u].word
    BY DEF ReservedInv
  <2>1. ASSUME NEW w \in Words, w = spawn'[u].word
        PROVE  Reserved(u, w)'
    <3>1. waiting'[w] = {}
      BY <1>a2, <1>a3, <1>a4, <2>1 DEF ReservedInv, Reserved, Committing
    <3>2. ASSUME NEW c \in Threads, Alive(c)'
          PROVE  clear'[c] # w
      BY <1>a1, <1>a2, <1>a3, <1>a4, <2>1, <3>2
         DEF ReservedInv, Reserved, Committing, Alive
    <3>3. ASSUME NEW v \in Threads, pc'[v] \in Committing, spawn'[v].word = w
          PROVE  u = v
      BY <1>a2, <1>a3, <1>a4, <2>1, <3>3 DEF ReservedInv, Reserved, Committing
    <3>4. /\ pc'[u] = "spawning" => word'[w] = None
          /\ pc'[u] = "registering" => word'[w] = spawn'[u].child /\ spawn'[u].saved = None
      BY <1>a2, <1>a3, <1>a4, <2>1 DEF ReservedInv, Reserved, Committing
    <3> QED
      BY <3>1, <3>2, <3>3, <3>4 DEF Reserved
  <2>2. ASSUME pc'[u] = "registering", NEW x \in Words, word'[x] = spawn'[u].child
        PROVE  x = spawn'[u].word
    BY <1>a2, <1>a3, <1>a4, <2>2 DEF ReservedInv, Committing
  <2> QED
    BY <2>1, <2>2
<1>7. ClearingInv'
  <2> SUFFICES ASSUME NEW u \in Threads, pc'[u] = "clearing"
               PROVE  word'[clear'[Subject(u)']] = Subject(u)'
    BY DEF ClearingInv
  <2>1. CASE u # t
    <3>1. pc[u] = "clearing" /\ word[clear[Subject(u)]] = Subject(u)
      BY <1>s, <2>1 DEF ClearingInv, ExitPoints
    <3>2. /\ pc[u] \in ExitPoints /\ Subject(u)' = Subject(u) /\ Subject(u) \in Threads
          /\ Subject(u) \in Children /\ status[Subject(u)] = "exited" /\ clear[Subject(u)] \in Words
      BY <1>s, <2>1, <3>1, Constants DEF ExitPoints
    <3> QED
      BY <1>a4, <2>1, <3>1, <3>2 DEF Alive
  <2>2. CASE u = t
    BY <1>a1, <1>a3, <1>a4, <2>2 DEF Subject, ExitPoints, WordNamesLiveThread, Alive
  <2> QED
    BY <2>1, <2>2
<1>8. WordNamesLiveThread'
  BY <1>a1, <1>a2, <1>a4, Constants DEF WordNamesLiveThread
<1>9. NoIdOfUncreatedThread'
  <2> SUFFICES ASSUME NEW w \in Words
               PROVE  \/ word'[w] = None
                      \/ status'[word'[w]] # "none"
                      \/ committer' # None /\ spawn'[committer'].child = word'[w]
    BY DEF NoIdOfUncreatedThread
  <2>1. word[w] = None \/ word[w] \in Children
    BY DEF TypeOK
  <2>2. \/ word[w] = None
        \/ status[word[w]] # "none"
        \/ committer # None /\ spawn[committer].child = word[w]
    BY DEF NoIdOfUncreatedThread
  <2>3. committer # None => committer \in Threads /\ pc[committer] = "registering"
    BY DEF TypeOK, ChildInv, Parent
  <2> QED
    BY <1>a1, <1>a2, <1>a4, Constants, <2>1, <2>2, <2>3 DEF ChildInv, Parent
<1>10. OneJoiner'
  BY <1>a4 DEF OneJoiner
<1>11. JoinerIsWoken'
  <2> SUFFICES ASSUME NEW w \in Words, word'[w] = None, waiting'[w] # {}, ~closed'
               PROVE  \/ permits'[w] > 0
                      \/ \E u \in Threads : pc'[u] = "waking" /\ clear'[Subject(u)'] = w
    BY DEF JoinerIsWoken
  <2>1. ASSUME NEW u \in Threads, u # t, pc[u] = "waking", clear[Subject(u)] = w
        PROVE  pc'[u] = "waking" /\ clear'[Subject(u)'] = w
    BY <1>a4, <2>1, <1>s DEF ExitPoints
  <2> QED
    BY <1>a4, <1>a5, <2>1 DEF JoinerIsWoken
<1> QED
  BY <1>1, <1>2, <1>3, <1>4, <1>5, <1>6, <1>7, <1>8, <1>9, <1>10, <1>11

\* The word of an exited thread is cleared.
LEMMA ClearChildTidKeeps ==
  ASSUME GInv, TypeOK', NEW t \in Threads, ClearChildTid(t)
  PROVE  GInv'
<1> USE DEF GInv, WInv, LInv, TInv
<1>a1. /\ pc[t] = "clearing" /\ pc'[t] = "waking" /\ pc[t] \in ExitPoints
       /\ then' = then
  BY DEF ClearChildTid, Goto, TypeOK, ExitPoints
<1>a2. \A u \in Threads \ {t} : pc'[u] = pc[u]
  BY DEF ClearChildTid, Goto, TypeOK
<1>a3. /\ clear[Subject(t)] \in Words /\ word[clear[Subject(t)]] = Subject(t) /\ word'[clear[Subject(t)]] = None
       /\ Subject(t) \in Children /\ status[Subject(t)] = "exited"
  BY DEF ClearChildTid, TypeOK, SubjectInv, ClearingInv, ExitPoints
<1>a4. \A w \in Words : w # clear[Subject(t)] => word'[w] = word[w]
  BY DEF ClearChildTid, TypeOK
<1>a5. UNCHANGED <<clear, status, groupExit, waiting, permits, closed, spawn, nextId, committer, owned>>
  BY DEF ClearChildTid, lifeVars, futexVars, cloneVars
<1>a6. \A u \in Threads : pc[u] = "registering" =>
       spawn[u].child \in Children /\ status[spawn[u].child] = "none"
  BY DEF ChildInv, Parent
<1>s. ASSUME NEW u \in Threads, u # t, pc[u] \in ExitPoints \/ pc'[u] \in ExitPoints
      PROVE  /\ pc[u] \in ExitPoints /\ pc'[u] = pc[u] /\ Subject(u)' = Subject(u) /\ then'[u] = then[u]
             /\ Subject(u) \in Children /\ status[Subject(u)] = "exited" /\ clear[Subject(u)] \in Words
             /\ then[u] = "top" => pc[Subject(u)] = "none"
  <2>1. pc[u] \in ExitPoints /\ pc'[u] = pc[u] /\ then'[u] = then[u]
    BY <1>s, <1>a1, <1>a2, PlainPoints DEF ExitPoints
  <2>2. Subject(u)' = Subject(u)
    BY <2>1, <1>a5 DEF Subject
  <2> QED
    BY <2>1, <2>2 DEF SubjectInv
<1>1. RootInv'
  BY <1>a1, <1>a2, Constants
     DEF RootInv, RunPoints, ClonePoints, ExitPoints, ChildPoints, OwnerPoints
<1>2. EndInv'
  BY <1>a1, <1>a2, <1>a5, Constants
     DEF EndInv, Alive, RunPoints, ClonePoints, ExitPoints, ChildPoints,
         OwnerPoints
<1>3. SubjectInv'
  <2> SUFFICES ASSUME NEW u \in Threads, pc'[u] \in ExitPoints
               PROVE  /\ Subject(u)' \in Children
                      /\ status'[Subject(u)'] = "exited"
                      /\ clear'[Subject(u)'] \in Words
                      /\ then'[u] = "top" => pc'[Subject(u)'] = "none"
    BY DEF SubjectInv
  <2>1. CASE u # t
    <3>1. /\ pc[u] \in ExitPoints /\ Subject(u)' = Subject(u) /\ then'[u] = then[u]
          /\ Subject(u) \in Threads /\ Subject(u) \in Children
          /\ status[Subject(u)] = "exited" /\ clear[Subject(u)] \in Words
          /\ then[u] = "top" => pc[Subject(u)] = "none"
      BY <1>s, <2>1, Constants
    <3>2. status'[Subject(u)] = "exited"
      BY <1>a5, <3>1 DEF Alive
    <3>3. clear'[Subject(u)] \in Words
      BY <1>a5, <3>1 DEF Alive
    <3>4. then[u] = "top" => pc'[Subject(u)] = "none"
      BY <1>a1, <1>a2, <3>1 DEF Alive
    <3> QED
      BY <3>1, <3>2, <3>3, <3>4
  <2>2. CASE u = t
    <3>1. /\ Subject(t)' = Subject(t) /\ then'[t] = then[t] /\ Subject(t) \in Threads
          /\ clear'[Subject(t)] = clear[Subject(t)] /\ status'[Subject(t)] = "exited"
      BY <1>a1, <1>a3, <1>a5, Constants DEF Subject
    <3>2. then[t] = "top" => pc[Subject(t)] = "none" /\ Subject(t) # t
      BY <1>a1 DEF SubjectInv
    <3> QED
      BY <1>a2, <1>a3, <2>2, <3>1, <3>2
  <2> QED
    BY <2>1, <2>2
<1>4. ChildInv'
  <2>1. ASSUME NEW u \in Threads
        PROVE  Parent(u)'
    <3>0. Parent(u)
      BY DEF ChildInv
    <3>7. pc[u] \in {"registering", "launching", "owning"} => spawn[u].child \in Threads
      BY <3>0, Constants DEF Parent
    <3>1. /\ committer' = u <=> pc'[u] = "registering"
          /\ pc'[u] \in {"registering", "launching", "owning"} => spawn'[u].child \in Children
      BY <1>a1, <1>a2, <1>a5, <3>0 DEF Parent
    <3>2. Holds(u)' => spawn'[u].child \in 2 .. nextId' - 1
      BY <1>a1, <1>a2, <1>a5, <3>0 DEF Parent, Holds, ExitPoints
    <3>3. pc'[u] = "registering" => status'[spawn'[u].child] = "none"
      BY <1>a1, <1>a2, <1>a5, <3>0, <3>7 DEF Parent
    <3>4. pc'[u] = "launching" => status'[spawn'[u].child] \in {"running", "exit_requested"}
      BY <1>a1, <1>a2, <1>a5, <3>0, <3>7 DEF Parent, Alive
    <3>5. pc'[u] = "launching" => pc'[spawn'[u].child] = "none"
      BY <1>a1, <1>a2, <1>a5, <3>0, <3>7 DEF Parent
    <3>6. pc'[u] = "owning" => status'[spawn'[u].child] # "none"
      BY <1>a1, <1>a2, <1>a5, <3>0, <3>7 DEF Parent
    <3> QED
      BY <3>1, <3>2, <3>3, <3>4, <3>5, <3>6 DEF Parent, Alive
  <2>2. OneParent'
    BY <1>a1, <1>a2, <1>a5 DEF ChildInv, Parent, OneParent, Holds, ExitPoints
  <2>3. \A c \in Children : c >= nextId' => status'[c] = "none"
    BY <1>a5 DEF ChildInv, EndInv, Alive
  <2>4. \A c \in owned' : status'[c] # "none"
    BY <1>a5 DEF ChildInv, Parent, TypeOK
  <2> QED
    BY <2>1, <2>2, <2>3, <2>4 DEF ChildInv
<1>5. GroupExitIsFinal'
  BY <1>a5 DEF GroupExitIsFinal, Running
<1>6. ReservedInv'
  <2> SUFFICES ASSUME NEW u \in Threads, pc'[u] \in Committing
               PROVE  /\ \A w \in Words : w = spawn'[u].word => Reserved(u, w)'
                      /\ pc'[u] = "registering" =>
                           \A x \in Words : word'[x] = spawn'[u].child => x = spawn'[u].word
    BY DEF ReservedInv
  <2>1. ASSUME NEW w \in Words, w = spawn'[u].word
        PROVE  Reserved(u, w)'
    <3>1. waiting'[w] = {}
      BY <1>a1, <1>a2, <1>a5, <2>1 DEF ReservedInv, Reserved, Committing
    <3>2. ASSUME NEW c \in Threads, Alive(c)'
          PROVE  clear'[c] # w
      BY <1>a1, <1>a2, <1>a5, <2>1, <3>2 DEF ReservedInv, Reserved, Committing, Alive
    <3>3. ASSUME NEW v \in Threads, pc'[v] \in Committing, spawn'[v].word = w
          PROVE  u = v
      BY <1>a1, <1>a2, <1>a5, <2>1, <3>3 DEF ReservedInv, Reserved, Committing
    <3>4. /\ pc'[u] = "spawning" => word'[w] = None
          /\ pc'[u] = "registering" => word'[w] = spawn'[u].child /\ spawn'[u].saved = None
      BY <1>a1, <1>a2, <1>a3, <1>a4, <1>a5, <1>a6, <2>1
         DEF ReservedInv, Reserved, Committing
    <3> QED
      BY <3>1, <3>2, <3>3, <3>4 DEF Reserved
  <2>2. ASSUME pc'[u] = "registering", NEW x \in Words, word'[x] = spawn'[u].child
        PROVE  x = spawn'[u].word
    BY <1>a1, <1>a2, <1>a3, <1>a4, <1>a5, <1>a6, Constants, <2>2
       DEF ReservedInv, Committing
  <2> QED
    BY <2>1, <2>2
<1>7. ClearingInv'
  <2> SUFFICES ASSUME NEW u \in Threads, pc'[u] = "clearing"
               PROVE  word'[clear'[Subject(u)']] = Subject(u)'
    BY DEF ClearingInv
  <2>1. CASE u # t
    <3>1. pc[u] = "clearing" /\ word[clear[Subject(u)]] = Subject(u)
      BY <1>s, <2>1 DEF ClearingInv, ExitPoints
    <3>2. /\ pc[u] \in ExitPoints /\ Subject(u)' = Subject(u) /\ Subject(u) \in Threads
          /\ Subject(u) \in Children /\ status[Subject(u)] = "exited" /\ clear[Subject(u)] \in Words
      BY <1>s, <2>1, <3>1, Constants DEF ExitPoints
    <3> QED
      BY <1>a1, <1>a3, <1>a4, <1>a5, <2>1, <3>1, <3>2, Subjects DEF Alive
  <2>2. CASE u = t
    BY <1>a1, <2>2 DEF Subject, ExitPoints, WordNamesLiveThread, Alive
  <2> QED
    BY <2>1, <2>2
<1>8. WordNamesLiveThread'
  BY <1>a3, <1>a4, <1>a5 DEF WordNamesLiveThread
<1>9. NoIdOfUncreatedThread'
  <2> SUFFICES ASSUME NEW w \in Words
               PROVE  \/ word'[w] = None
                      \/ status'[word'[w]] # "none"
                      \/ committer' # None /\ spawn'[committer'].child = word'[w]
    BY DEF NoIdOfUncreatedThread
  <2>1. word[w] = None \/ word[w] \in Children
    BY DEF TypeOK
  <2>2. \/ word[w] = None
        \/ status[word[w]] # "none"
        \/ committer # None /\ spawn[committer].child = word[w]
    BY DEF NoIdOfUncreatedThread
  <2>3. committer # None => committer \in Threads /\ pc[committer] = "registering"
    BY DEF TypeOK, ChildInv, Parent
  <2> QED
    BY <1>a3, <1>a4, <1>a5, <2>1, <2>2, <2>3 DEF ChildInv, Parent
<1>10. OneJoiner'
  BY <1>a5 DEF OneJoiner
<1>11. JoinerIsWoken'
  <2> SUFFICES ASSUME NEW w \in Words, word'[w] = None, waiting'[w] # {}, ~closed'
               PROVE  \/ permits'[w] > 0
                      \/ \E u \in Threads : pc'[u] = "waking" /\ clear'[Subject(u)'] = w
    BY DEF JoinerIsWoken
  <2>1. ASSUME NEW u \in Threads, u # t, pc[u] = "waking", clear[Subject(u)] = w
        PROVE  pc'[u] = "waking" /\ clear'[Subject(u)'] = w
    BY <1>a5, <2>1, <1>s DEF ExitPoints
  <2> QED
    BY <1>a1, <1>a4, <1>a5, <2>1 DEF JoinerIsWoken, Subject, SubjectInv, ExitPoints
<1> QED
  BY <1>1, <1>2, <1>3, <1>4, <1>5, <1>6, <1>7, <1>8, <1>9, <1>10, <1>11

\* A clone fails before it wrote anything.
LEMMA LeaveCloneKeeps ==
  ASSUME GInv, TypeOK', NEW t \in Threads, LeaveClone(t)
  PROVE  GInv'
<1> USE DEF GInv, WInv, LInv, TInv
<1>a1. pc[t] = "spawning" /\ pc'[t] = "top" /\ then' = then /\ nextId' >= nextId /\ nextId \in Nat /\ nextId' \in Nat
  BY DEF LeaveClone, Goto, TypeOK
<1>a2. \A u \in Threads \ {t} : pc'[u] = pc[u] /\ spawn'[u] = spawn[u]
  BY DEF LeaveClone, Goto, TypeOK
<1>a3. UNCHANGED <<clear, status, groupExit, word, waiting, permits, closed, committer, owned>>
  BY DEF LeaveClone, lifeVars, futexVars
<1>s. ASSUME NEW u \in Threads, u # t, pc[u] \in ExitPoints \/ pc'[u] \in ExitPoints
      PROVE  /\ pc[u] \in ExitPoints /\ pc'[u] = pc[u] /\ Subject(u)' = Subject(u) /\ then'[u] = then[u]
             /\ Subject(u) \in Children /\ status[Subject(u)] = "exited" /\ clear[Subject(u)] \in Words
             /\ then[u] = "top" => pc[Subject(u)] = "none"
  <2>1. pc[u] \in ExitPoints /\ pc'[u] = pc[u] /\ then'[u] = then[u]
    BY <1>s, <1>a1, <1>a2, PlainPoints DEF ExitPoints
  <2>2. Subject(u)' = Subject(u)
    BY <2>1, <1>a1, <1>a2 DEF Subject
  <2> QED
    BY <2>1, <2>2 DEF SubjectInv
<1>1. RootInv'
  BY <1>a1, <1>a2, Constants
     DEF RootInv, RunPoints, ClonePoints, ExitPoints, ChildPoints, OwnerPoints
<1>2. EndInv'
  BY <1>a1, <1>a2, <1>a3, Constants
     DEF EndInv, Alive, RunPoints, ClonePoints, ExitPoints, ChildPoints,
         OwnerPoints
<1>3. SubjectInv'
  <2> SUFFICES ASSUME NEW u \in Threads, pc'[u] \in ExitPoints
               PROVE  /\ Subject(u)' \in Children
                      /\ status'[Subject(u)'] = "exited"
                      /\ clear'[Subject(u)'] \in Words
                      /\ then'[u] = "top" => pc'[Subject(u)'] = "none"
    BY DEF SubjectInv
  <2>1. CASE u # t
    <3>1. /\ pc[u] \in ExitPoints /\ Subject(u)' = Subject(u) /\ then'[u] = then[u]
          /\ Subject(u) \in Threads /\ Subject(u) \in Children
          /\ status[Subject(u)] = "exited" /\ clear[Subject(u)] \in Words
          /\ then[u] = "top" => pc[Subject(u)] = "none"
      BY <1>s, <2>1, Constants
    <3>2. status'[Subject(u)] = "exited"
      BY <1>a3, <3>1 DEF Alive
    <3>3. clear'[Subject(u)] \in Words
      BY <1>a3, <3>1 DEF Alive
    <3>4. then[u] = "top" => pc'[Subject(u)] = "none"
      BY <1>a1, <1>a2, <3>1 DEF Alive
    <3> QED
      BY <3>1, <3>2, <3>3, <3>4
  <2>2. CASE u = t
    BY <1>a1, <2>2 DEF SubjectInv, Subject, ExitPoints
  <2> QED
    BY <2>1, <2>2
<1>4. ChildInv'
  <2>1. ASSUME NEW u \in Threads
        PROVE  Parent(u)'
    <3>0. Parent(u)
      BY DEF ChildInv
    <3>7. pc[u] \in {"registering", "launching", "owning"} => spawn[u].child \in Threads
      BY <3>0, Constants DEF Parent
    <3>1. /\ committer' = u <=> pc'[u] = "registering"
          /\ pc'[u] \in {"registering", "launching", "owning"} => spawn'[u].child \in Children
      BY <1>a1, <1>a2, <1>a3, <3>0 DEF Parent
    <3>2. Holds(u)' => spawn'[u].child \in 2 .. nextId' - 1
      BY <1>a1, <1>a2, <3>0 DEF Parent, Holds, ExitPoints
    <3>3. pc'[u] = "registering" => status'[spawn'[u].child] = "none"
      BY <1>a1, <1>a2, <1>a3, <3>0, <3>7 DEF Parent
    <3>4. pc'[u] = "launching" => status'[spawn'[u].child] \in {"running", "exit_requested"}
      BY <1>a1, <1>a2, <1>a3, <3>0, <3>7 DEF Parent, Alive
    <3>5. pc'[u] = "launching" => pc'[spawn'[u].child] = "none"
      BY <1>a1, <1>a2, <3>0, <3>7 DEF Parent
    <3>6. pc'[u] = "owning" => status'[spawn'[u].child] # "none"
      BY <1>a1, <1>a2, <1>a3, <3>0, <3>7 DEF Parent
    <3> QED
      BY <3>1, <3>2, <3>3, <3>4, <3>5, <3>6 DEF Parent, Alive
  <2>2. OneParent'
    BY <1>a1, <1>a2 DEF ChildInv, Parent, OneParent, Holds, ExitPoints
  <2>3. \A c \in Children : c >= nextId' => status'[c] = "none"
    BY <1>a1, <1>a3, Constants DEF ChildInv, EndInv, Alive
  <2>4. \A c \in owned' : status'[c] # "none"
    BY <1>a3 DEF ChildInv, Parent, TypeOK
  <2> QED
    BY <2>1, <2>2, <2>3, <2>4 DEF ChildInv
<1>5. GroupExitIsFinal'
  BY <1>a3 DEF GroupExitIsFinal, Running
<1>6. ReservedInv'
  <2> SUFFICES ASSUME NEW u \in Threads, pc'[u] \in Committing
               PROVE  /\ \A w \in Words : w = spawn'[u].word => Reserved(u, w)'
                      /\ pc'[u] = "registering" =>
                           \A x \in Words : word'[x] = spawn'[u].child => x = spawn'[u].word
    BY DEF ReservedInv
  <2>1. ASSUME NEW w \in Words, w = spawn'[u].word
        PROVE  Reserved(u, w)'
    <3>1. waiting'[w] = {}
      BY <1>a1, <1>a2, <1>a3, <2>1 DEF ReservedInv, Reserved, Committing
    <3>2. ASSUME NEW c \in Threads, Alive(c)'
          PROVE  clear'[c] # w
      BY <1>a1, <1>a2, <1>a3, <2>1, <3>2 DEF ReservedInv, Reserved, Committing, Alive
    <3>3. ASSUME NEW v \in Threads, pc'[v] \in Committing, spawn'[v].word = w
          PROVE  u = v
      BY <1>a1, <1>a2, <2>1, <3>3 DEF ReservedInv, Reserved, Committing
    <3>4. /\ pc'[u] = "spawning" => word'[w] = None
          /\ pc'[u] = "registering" => word'[w] = spawn'[u].child /\ spawn'[u].saved = None
      BY <1>a1, <1>a2, <1>a3, <2>1 DEF ReservedInv, Reserved, Committing
    <3> QED
      BY <3>1, <3>2, <3>3, <3>4 DEF Reserved
  <2>2. ASSUME pc'[u] = "registering", NEW x \in Words, word'[x] = spawn'[u].child
        PROVE  x = spawn'[u].word
    BY <1>a1, <1>a2, <1>a3, <2>2 DEF ReservedInv, Committing
  <2> QED
    BY <2>1, <2>2
<1>7. ClearingInv'
  <2> SUFFICES ASSUME NEW u \in Threads, pc'[u] = "clearing"
               PROVE  word'[clear'[Subject(u)']] = Subject(u)'
    BY DEF ClearingInv
  <2>1. CASE u # t
    <3>1. pc[u] = "clearing" /\ word[clear[Subject(u)]] = Subject(u)
      BY <1>s, <2>1 DEF ClearingInv, ExitPoints
    <3>2. /\ pc[u] \in ExitPoints /\ Subject(u)' = Subject(u) /\ Subject(u) \in Threads
          /\ Subject(u) \in Children /\ status[Subject(u)] = "exited" /\ clear[Subject(u)] \in Words
      BY <1>s, <2>1, <3>1, Constants DEF ExitPoints
    <3> QED
      BY <1>a3, <2>1, <3>1, <3>2 DEF Alive
  <2>2. CASE u = t
    BY <1>a1, <2>2 DEF Subject, ExitPoints, WordNamesLiveThread, Alive
  <2> QED
    BY <2>1, <2>2
<1>8. WordNamesLiveThread'
  BY <1>a3 DEF WordNamesLiveThread
<1>9. NoIdOfUncreatedThread'
  <2> SUFFICES ASSUME NEW w \in Words
               PROVE  \/ word'[w] = None
                      \/ status'[word'[w]] # "none"
                      \/ committer' # None /\ spawn'[committer'].child = word'[w]
    BY DEF NoIdOfUncreatedThread
  <2>1. word[w] = None \/ word[w] \in Children
    BY DEF TypeOK
  <2>2. \/ word[w] = None
        \/ status[word[w]] # "none"
        \/ committer # None /\ spawn[committer].child = word[w]
    BY DEF NoIdOfUncreatedThread
  <2>3. committer # None => committer \in Threads /\ pc[committer] = "registering"
    BY DEF TypeOK, ChildInv, Parent
  <2> QED
    BY <1>a1, <1>a2, <1>a3, <2>1, <2>2, <2>3 DEF ChildInv, Parent
<1>10. OneJoiner'
  BY <1>a3 DEF OneJoiner
<1>11. JoinerIsWoken'
  <2> SUFFICES ASSUME NEW w \in Words, word'[w] = None, waiting'[w] # {}, ~closed'
               PROVE  \/ permits'[w] > 0
                      \/ \E u \in Threads : pc'[u] = "waking" /\ clear'[Subject(u)'] = w
    BY DEF JoinerIsWoken
  <2>1. ASSUME NEW u \in Threads, u # t, pc[u] = "waking", clear[Subject(u)] = w
        PROVE  pc'[u] = "waking" /\ clear'[Subject(u)'] = w
    BY <1>a3, <2>1, <1>s DEF ExitPoints
  <2> QED
    BY <1>a1, <1>a3, <2>1 DEF JoinerIsWoken
<1> QED
  BY <1>1, <1>2, <1>3, <1>4, <1>5, <1>6, <1>7, <1>8, <1>9, <1>10, <1>11

\* A clone begins with a word of its own.
LEMMA EnterCloneKeeps ==
  ASSUME GInv, TypeOK', NEW t \in Threads, NEW v \in Words \cup {NoWord}, EnterClone(t, v)
  PROVE  GInv'
<1> USE DEF GInv, WInv, LInv, TInv
<1>a1. pc[t] = "guest" /\ pc'[t] = "spawning" /\ then' = then /\ spawn'[t].word = v
  BY DEF EnterClone, Goto, TypeOK
<1>a2. \A u \in Threads \ {t} : pc'[u] = pc[u] /\ spawn'[u] = spawn[u]
  BY DEF EnterClone, Goto, TypeOK
<1>a3. v \in Words => /\ word[v] = None /\ waiting[v] = {}
                      /\ \A u \in Threads : Alive(u) => clear[u] # v
                      /\ \A u \in Threads : pc[u] \in Committing => spawn[u].word # v
  BY DEF EnterClone, Unused, Alive, Committing, ClonePoints
<1>a4. UNCHANGED <<clear, status, groupExit, word, waiting, permits, closed, nextId, committer, owned>>
  BY DEF EnterClone, lifeVars, futexVars
<1>s. ASSUME NEW u \in Threads, u # t, pc[u] \in ExitPoints \/ pc'[u] \in ExitPoints
      PROVE  /\ pc[u] \in ExitPoints /\ pc'[u] = pc[u] /\ Subject(u)' = Subject(u) /\ then'[u] = then[u]
             /\ Subject(u) \in Children /\ status[Subject(u)] = "exited" /\ clear[Subject(u)] \in Words
             /\ then[u] = "top" => pc[Subject(u)] = "none"
  <2>1. pc[u] \in ExitPoints /\ pc'[u] = pc[u] /\ then'[u] = then[u]
    BY <1>s, <1>a1, <1>a2, PlainPoints DEF ExitPoints
  <2>2. Subject(u)' = Subject(u)
    BY <2>1, <1>a1, <1>a2 DEF Subject
  <2> QED
    BY <2>1, <2>2 DEF SubjectInv
<1>1. RootInv'
  BY <1>a1, <1>a2, Constants
     DEF RootInv, RunPoints, ClonePoints, ExitPoints, ChildPoints, OwnerPoints
<1>2. EndInv'
  BY <1>a1, <1>a2, <1>a4, Constants
     DEF EndInv, Alive, RunPoints, ClonePoints, ExitPoints, ChildPoints,
         OwnerPoints
<1>3. SubjectInv'
  <2> SUFFICES ASSUME NEW u \in Threads, pc'[u] \in ExitPoints
               PROVE  /\ Subject(u)' \in Children
                      /\ status'[Subject(u)'] = "exited"
                      /\ clear'[Subject(u)'] \in Words
                      /\ then'[u] = "top" => pc'[Subject(u)'] = "none"
    BY DEF SubjectInv
  <2>1. CASE u # t
    <3>1. /\ pc[u] \in ExitPoints /\ Subject(u)' = Subject(u) /\ then'[u] = then[u]
          /\ Subject(u) \in Threads /\ Subject(u) \in Children
          /\ status[Subject(u)] = "exited" /\ clear[Subject(u)] \in Words
          /\ then[u] = "top" => pc[Subject(u)] = "none"
      BY <1>s, <2>1, Constants
    <3>2. status'[Subject(u)] = "exited"
      BY <1>a4, <3>1 DEF Alive
    <3>3. clear'[Subject(u)] \in Words
      BY <1>a4, <3>1 DEF Alive
    <3>4. then[u] = "top" => pc'[Subject(u)] = "none"
      BY <1>a1, <1>a2, <3>1 DEF Alive
    <3> QED
      BY <3>1, <3>2, <3>3, <3>4
  <2>2. CASE u = t
    BY <1>a1, <2>2 DEF SubjectInv, Subject, ExitPoints
  <2> QED
    BY <2>1, <2>2
<1>4. ChildInv'
  <2>1. ASSUME NEW u \in Threads
        PROVE  Parent(u)'
    <3>0. Parent(u)
      BY DEF ChildInv
    <3>7. pc[u] \in {"registering", "launching", "owning"} => spawn[u].child \in Threads
      BY <3>0, Constants DEF Parent
    <3>1. /\ committer' = u <=> pc'[u] = "registering"
          /\ pc'[u] \in {"registering", "launching", "owning"} => spawn'[u].child \in Children
      BY <1>a1, <1>a2, <1>a4, <3>0 DEF Parent
    <3>2. Holds(u)' => spawn'[u].child \in 2 .. nextId' - 1
      BY <1>a1, <1>a2, <1>a4, <3>0 DEF Parent, Holds, ExitPoints
    <3>3. pc'[u] = "registering" => status'[spawn'[u].child] = "none"
      BY <1>a1, <1>a2, <1>a4, <3>0, <3>7 DEF Parent
    <3>4. pc'[u] = "launching" => status'[spawn'[u].child] \in {"running", "exit_requested"}
      BY <1>a1, <1>a2, <1>a4, <3>0, <3>7 DEF Parent, Alive
    <3>5. pc'[u] = "launching" => pc'[spawn'[u].child] = "none"
      BY <1>a1, <1>a2, <3>0, <3>7 DEF Parent
    <3>6. pc'[u] = "owning" => status'[spawn'[u].child] # "none"
      BY <1>a1, <1>a2, <1>a4, <3>0, <3>7 DEF Parent
    <3> QED
      BY <3>1, <3>2, <3>3, <3>4, <3>5, <3>6 DEF Parent, Alive
  <2>2. OneParent'
    BY <1>a1, <1>a2 DEF ChildInv, Parent, OneParent, Holds, ExitPoints
  <2>3. \A c \in Children : c >= nextId' => status'[c] = "none"
    BY <1>a4 DEF ChildInv, EndInv, Alive
  <2>4. \A c \in owned' : status'[c] # "none"
    BY <1>a4 DEF ChildInv, Parent, TypeOK
  <2> QED
    BY <2>1, <2>2, <2>3, <2>4 DEF ChildInv
<1>5. GroupExitIsFinal'
  BY <1>a4 DEF GroupExitIsFinal, Running
<1>6. ReservedInv'
  <2> SUFFICES ASSUME NEW u \in Threads, pc'[u] \in Committing
               PROVE  /\ \A w \in Words : w = spawn'[u].word => Reserved(u, w)'
                      /\ pc'[u] = "registering" =>
                           \A x \in Words : word'[x] = spawn'[u].child => x = spawn'[u].word
    BY DEF ReservedInv
  <2>1. ASSUME NEW w \in Words, w = spawn'[u].word
        PROVE  Reserved(u, w)'
    <3>1. waiting'[w] = {}
      BY <1>a1, <1>a2, <1>a3, <1>a4, <2>1 DEF ReservedInv, Reserved, Committing
    <3>2. ASSUME NEW c \in Threads, Alive(c)'
          PROVE  clear'[c] # w
      <4>1. CASE u = t
        BY <1>a1, <1>a3, <1>a4, <2>1, <3>2, <4>1 DEF Alive
      <4>2. CASE u # t
        BY <1>a2, <1>a4, <2>1, <3>2, <4>2 DEF ReservedInv, Reserved, Alive
      <4> QED
        BY <4>1, <4>2
    <3>3. ASSUME NEW y \in Threads, pc'[y] \in Committing, spawn'[y].word = w
          PROVE  u = y
      <4>1. CASE u # t /\ y # t
        BY <1>a2, <2>1, <3>3, <4>1 DEF ReservedInv, Reserved
      <4>2. CASE u = t \/ y = t
        BY <1>a1, <1>a2, <1>a3, <2>1, <3>3, <4>2
      <4> QED
        BY <4>1, <4>2
    <3>4. /\ pc'[u] = "spawning" => word'[w] = None
          /\ pc'[u] = "registering" => word'[w] = spawn'[u].child /\ spawn'[u].saved = None
      BY <1>a1, <1>a2, <1>a3, <1>a4, <2>1 DEF ReservedInv, Reserved, Committing
    <3> QED
      BY <3>1, <3>2, <3>3, <3>4 DEF Reserved
  <2>2. ASSUME pc'[u] = "registering", NEW x \in Words, word'[x] = spawn'[u].child
        PROVE  x = spawn'[u].word
    BY <1>a1, <1>a2, <1>a4, <2>2 DEF ReservedInv, Committing
  <2> QED
    BY <2>1, <2>2
<1>7. ClearingInv'
  <2> SUFFICES ASSUME NEW u \in Threads, pc'[u] = "clearing"
               PROVE  word'[clear'[Subject(u)']] = Subject(u)'
    BY DEF ClearingInv
  <2>1. CASE u # t
    <3>1. pc[u] = "clearing" /\ word[clear[Subject(u)]] = Subject(u)
      BY <1>s, <2>1 DEF ClearingInv, ExitPoints
    <3>2. /\ pc[u] \in ExitPoints /\ Subject(u)' = Subject(u) /\ Subject(u) \in Threads
          /\ Subject(u) \in Children /\ status[Subject(u)] = "exited" /\ clear[Subject(u)] \in Words
      BY <1>s, <2>1, <3>1, Constants DEF ExitPoints
    <3> QED
      BY <1>a4, <2>1, <3>1, <3>2 DEF Alive
  <2>2. CASE u = t
    BY <1>a1, <2>2 DEF Subject, ExitPoints, WordNamesLiveThread, Alive
  <2> QED
    BY <2>1, <2>2
<1>8. WordNamesLiveThread'
  BY <1>a4 DEF WordNamesLiveThread
<1>9. NoIdOfUncreatedThread'
  <2> SUFFICES ASSUME NEW w \in Words
               PROVE  \/ word'[w] = None
                      \/ status'[word'[w]] # "none"
                      \/ committer' # None /\ spawn'[committer'].child = word'[w]
    BY DEF NoIdOfUncreatedThread
  <2>1. word[w] = None \/ word[w] \in Children
    BY DEF TypeOK
  <2>2. \/ word[w] = None
        \/ status[word[w]] # "none"
        \/ committer # None /\ spawn[committer].child = word[w]
    BY DEF NoIdOfUncreatedThread
  <2>3. committer # None => committer \in Threads /\ pc[committer] = "registering"
    BY DEF TypeOK, ChildInv, Parent
  <2> QED
    BY <1>a1, <1>a2, <1>a4, <2>1, <2>2, <2>3 DEF ChildInv, Parent
<1>10. OneJoiner'
  BY <1>a4 DEF OneJoiner
<1>11. JoinerIsWoken'
  <2> SUFFICES ASSUME NEW w \in Words, word'[w] = None, waiting'[w] # {}, ~closed'
               PROVE  \/ permits'[w] > 0
                      \/ \E u \in Threads : pc'[u] = "waking" /\ clear'[Subject(u)'] = w
    BY DEF JoinerIsWoken
  <2>1. ASSUME NEW u \in Threads, u # t, pc[u] = "waking", clear[Subject(u)] = w
        PROVE  pc'[u] = "waking" /\ clear'[Subject(u)'] = w
    BY <1>a4, <2>1, <1>s DEF ExitPoints
  <2> QED
    BY <1>a1, <1>a4, <2>1 DEF JoinerIsWoken
<1> QED
  BY <1>1, <1>2, <1>3, <1>4, <1>5, <1>6, <1>7, <1>8, <1>9, <1>10, <1>11

\* The parent owns the child.
LEMMA OwnChildKeeps ==
  ASSUME GInv, TypeOK', NEW t \in Threads, OwnChild(t)
  PROVE  GInv'
<1> USE DEF GInv, WInv, LInv, TInv
<1>a1. pc[t] = "owning" /\ pc'[t] = "top" /\ then' = then
  BY DEF OwnChild, Goto, TypeOK
<1>a2. \A u \in Threads \ {t} : pc'[u] = pc[u] /\ spawn'[u] = spawn[u]
  BY DEF OwnChild, Goto, TypeOK
<1>a3. owned' = owned \cup {spawn[t].child}
  BY DEF OwnChild
<1>a4. UNCHANGED <<clear, status, groupExit, word, waiting, permits, closed, nextId, committer>>
  BY DEF OwnChild, lifeVars, futexVars
<1>s. ASSUME NEW u \in Threads, u # t, pc[u] \in ExitPoints \/ pc'[u] \in ExitPoints
      PROVE  /\ pc[u] \in ExitPoints /\ pc'[u] = pc[u] /\ Subject(u)' = Subject(u) /\ then'[u] = then[u]
             /\ Subject(u) \in Children /\ status[Subject(u)] = "exited" /\ clear[Subject(u)] \in Words
             /\ then[u] = "top" => pc[Subject(u)] = "none"
  <2>1. pc[u] \in ExitPoints /\ pc'[u] = pc[u] /\ then'[u] = then[u]
    BY <1>s, <1>a1, <1>a2, PlainPoints DEF ExitPoints
  <2>2. Subject(u)' = Subject(u)
    BY <2>1, <1>a1, <1>a2 DEF Subject
  <2> QED
    BY <2>1, <2>2 DEF SubjectInv
<1>1. RootInv'
  BY <1>a1, <1>a2, Constants
     DEF RootInv, RunPoints, ClonePoints, ExitPoints, ChildPoints, OwnerPoints
<1>2. EndInv'
  BY <1>a1, <1>a2, <1>a4, Constants
     DEF EndInv, Alive, RunPoints, ClonePoints, ExitPoints, ChildPoints,
         OwnerPoints
<1>3. SubjectInv'
  <2> SUFFICES ASSUME NEW u \in Threads, pc'[u] \in ExitPoints
               PROVE  /\ Subject(u)' \in Children
                      /\ status'[Subject(u)'] = "exited"
                      /\ clear'[Subject(u)'] \in Words
                      /\ then'[u] = "top" => pc'[Subject(u)'] = "none"
    BY DEF SubjectInv
  <2>1. CASE u # t
    <3>1. /\ pc[u] \in ExitPoints /\ Subject(u)' = Subject(u) /\ then'[u] = then[u]
          /\ Subject(u) \in Threads /\ Subject(u) \in Children
          /\ status[Subject(u)] = "exited" /\ clear[Subject(u)] \in Words
          /\ then[u] = "top" => pc[Subject(u)] = "none"
      BY <1>s, <2>1, Constants
    <3>2. status'[Subject(u)] = "exited"
      BY <1>a4, <3>1 DEF Alive
    <3>3. clear'[Subject(u)] \in Words
      BY <1>a4, <3>1 DEF Alive
    <3>4. then[u] = "top" => pc'[Subject(u)] = "none"
      BY <1>a1, <1>a2, <3>1 DEF Alive
    <3> QED
      BY <3>1, <3>2, <3>3, <3>4
  <2>2. CASE u = t
    BY <1>a1, <2>2 DEF SubjectInv, Subject, ExitPoints
  <2> QED
    BY <2>1, <2>2
<1>4. ChildInv'
  <2>1. ASSUME NEW u \in Threads
        PROVE  Parent(u)'
    <3>0. Parent(u)
      BY DEF ChildInv
    <3>7. pc[u] \in {"registering", "launching", "owning"} => spawn[u].child \in Threads
      BY <3>0, Constants DEF Parent
    <3>1. /\ committer' = u <=> pc'[u] = "registering"
          /\ pc'[u] \in {"registering", "launching", "owning"} => spawn'[u].child \in Children
      BY <1>a1, <1>a2, <1>a4, <3>0 DEF Parent
    <3>2. Holds(u)' => spawn'[u].child \in 2 .. nextId' - 1
      BY <1>a1, <1>a2, <1>a4, <3>0 DEF Parent, Holds, ExitPoints
    <3>3. pc'[u] = "registering" => status'[spawn'[u].child] = "none"
      BY <1>a1, <1>a2, <1>a4, <3>0, <3>7 DEF Parent
    <3>4. pc'[u] = "launching" => status'[spawn'[u].child] \in {"running", "exit_requested"}
      BY <1>a1, <1>a2, <1>a4, <3>0, <3>7 DEF Parent, Alive
    <3>5. pc'[u] = "launching" => pc'[spawn'[u].child] = "none"
      BY <1>a1, <1>a2, <3>0, <3>7 DEF Parent
    <3>6. pc'[u] = "owning" => status'[spawn'[u].child] # "none"
      BY <1>a1, <1>a2, <1>a4, <3>0, <3>7 DEF Parent
    <3> QED
      BY <3>1, <3>2, <3>3, <3>4, <3>5, <3>6 DEF Parent, Alive
  <2>2. OneParent'
    BY <1>a1, <1>a2 DEF ChildInv, Parent, OneParent, Holds, ExitPoints
  <2>3. \A c \in Children : c >= nextId' => status'[c] = "none"
    BY <1>a4 DEF ChildInv, EndInv, Alive
  <2>4. \A c \in owned' : status'[c] # "none"
    BY <1>a1, <1>a3, <1>a4 DEF ChildInv, Parent, TypeOK
  <2> QED
    BY <2>1, <2>2, <2>3, <2>4 DEF ChildInv
<1>5. GroupExitIsFinal'
  BY <1>a4 DEF GroupExitIsFinal, Running
<1>6. ReservedInv'
  <2> SUFFICES ASSUME NEW u \in Threads, pc'[u] \in Committing
               PROVE  /\ \A w \in Words : w = spawn'[u].word => Reserved(u, w)'
                      /\ pc'[u] = "registering" =>
                           \A x \in Words : word'[x] = spawn'[u].child => x = spawn'[u].word
    BY DEF ReservedInv
  <2>1. ASSUME NEW w \in Words, w = spawn'[u].word
        PROVE  Reserved(u, w)'
    <3>1. waiting'[w] = {}
      BY <1>a1, <1>a2, <1>a4, <2>1 DEF ReservedInv, Reserved, Committing
    <3>2. ASSUME NEW c \in Threads, Alive(c)'
          PROVE  clear'[c] # w
      BY <1>a1, <1>a2, <1>a4, <2>1, <3>2 DEF ReservedInv, Reserved, Committing, Alive
    <3>3. ASSUME NEW v \in Threads, pc'[v] \in Committing, spawn'[v].word = w
          PROVE  u = v
      BY <1>a1, <1>a2, <2>1, <3>3 DEF ReservedInv, Reserved, Committing
    <3>4. /\ pc'[u] = "spawning" => word'[w] = None
          /\ pc'[u] = "registering" => word'[w] = spawn'[u].child /\ spawn'[u].saved = None
      BY <1>a1, <1>a2, <1>a4, <2>1 DEF ReservedInv, Reserved, Committing
    <3> QED
      BY <3>1, <3>2, <3>3, <3>4 DEF Reserved
  <2>2. ASSUME pc'[u] = "registering", NEW x \in Words, word'[x] = spawn'[u].child
        PROVE  x = spawn'[u].word
    BY <1>a1, <1>a2, <1>a4, <2>2 DEF ReservedInv, Committing
  <2> QED
    BY <2>1, <2>2
<1>7. ClearingInv'
  <2> SUFFICES ASSUME NEW u \in Threads, pc'[u] = "clearing"
               PROVE  word'[clear'[Subject(u)']] = Subject(u)'
    BY DEF ClearingInv
  <2>1. CASE u # t
    <3>1. pc[u] = "clearing" /\ word[clear[Subject(u)]] = Subject(u)
      BY <1>s, <2>1 DEF ClearingInv, ExitPoints
    <3>2. /\ pc[u] \in ExitPoints /\ Subject(u)' = Subject(u) /\ Subject(u) \in Threads
          /\ Subject(u) \in Children /\ status[Subject(u)] = "exited" /\ clear[Subject(u)] \in Words
      BY <1>s, <2>1, <3>1, Constants DEF ExitPoints
    <3> QED
      BY <1>a4, <2>1, <3>1, <3>2 DEF Alive
  <2>2. CASE u = t
    BY <1>a1, <2>2 DEF Subject, ExitPoints, WordNamesLiveThread, Alive
  <2> QED
    BY <2>1, <2>2
<1>8. WordNamesLiveThread'
  BY <1>a4 DEF WordNamesLiveThread
<1>9. NoIdOfUncreatedThread'
  <2> SUFFICES ASSUME NEW w \in Words
               PROVE  \/ word'[w] = None
                      \/ status'[word'[w]] # "none"
                      \/ committer' # None /\ spawn'[committer'].child = word'[w]
    BY DEF NoIdOfUncreatedThread
  <2>1. word[w] = None \/ word[w] \in Children
    BY DEF TypeOK
  <2>2. \/ word[w] = None
        \/ status[word[w]] # "none"
        \/ committer # None /\ spawn[committer].child = word[w]
    BY DEF NoIdOfUncreatedThread
  <2>3. committer # None => committer \in Threads /\ pc[committer] = "registering"
    BY DEF TypeOK, ChildInv, Parent
  <2> QED
    BY <1>a1, <1>a2, <1>a4, <2>1, <2>2, <2>3 DEF ChildInv, Parent
<1>10. OneJoiner'
  BY <1>a4 DEF OneJoiner
<1>11. JoinerIsWoken'
  <2> SUFFICES ASSUME NEW w \in Words, word'[w] = None, waiting'[w] # {}, ~closed'
               PROVE  \/ permits'[w] > 0
                      \/ \E u \in Threads : pc'[u] = "waking" /\ clear'[Subject(u)'] = w
    BY DEF JoinerIsWoken
  <2>1. ASSUME NEW u \in Threads, u # t, pc[u] = "waking", clear[Subject(u)] = w
        PROVE  pc'[u] = "waking" /\ clear'[Subject(u)'] = w
    BY <1>a4, <2>1, <1>s DEF ExitPoints
  <2> QED
    BY <1>a1, <1>a4, <2>1 DEF JoinerIsWoken
<1> QED
  BY <1>1, <1>2, <1>3, <1>4, <1>5, <1>6, <1>7, <1>8, <1>9, <1>10, <1>11

\* The child's host thread starts.
LEMMA StartHostThreadKeeps ==
  ASSUME GInv, TypeOK', NEW t \in Threads, StartHostThread(t)
  PROVE  GInv'
<1> USE DEF GInv, WInv, LInv, TInv
<1>a1. /\ pc[t] = "launching" /\ then' = then /\ spawn[t].child \in Children
       /\ pc[spawn[t].child] = "none" /\ Alive(spawn[t].child) /\ spawn[t].child # t
  BY DEF StartHostThread, ChildInv, Parent
<1>a2. /\ pc'[t] = "owning" /\ pc'[spawn[t].child] = "starting"
       /\ \A u \in Threads \ {t, spawn[t].child} : pc'[u] = pc[u]
  BY DEF StartHostThread, TypeOK
<1>a3. Holds(t)
  BY <1>a1 DEF Holds
<1>a4. UNCHANGED <<clear, status, groupExit, word, waiting, permits, closed, spawn, nextId, committer, owned>>
  BY DEF StartHostThread, lifeVars, futexVars, cloneVars
<1>a5. /\ \A u \in Threads : pc[u] = "launching" =>
            /\ spawn[u].child \in Children /\ pc[spawn[u].child] = "none"
            /\ status[spawn[u].child] \in {"running", "exit_requested"}
       /\ \A u \in Threads \ {t} : pc[u] \in {"registering", "launching"} =>
            spawn[u].child # spawn[t].child
  BY <1>a1 DEF ChildInv, Parent, OneParent, Holds, Alive
<1>s. ASSUME NEW u \in Threads, u # t, pc[u] \in ExitPoints \/ pc'[u] \in ExitPoints
      PROVE  /\ pc[u] \in ExitPoints /\ pc'[u] = pc[u] /\ Subject(u)' = Subject(u) /\ then'[u] = then[u]
             /\ Subject(u) \in Children /\ status[Subject(u)] = "exited" /\ clear[Subject(u)] \in Words
             /\ then[u] = "top" => pc[Subject(u)] = "none"
  <2>1. pc[u] \in ExitPoints /\ pc'[u] = pc[u] /\ then'[u] = then[u]
    BY <1>s, <1>a1, <1>a2, PlainPoints DEF ExitPoints
  <2>2. Subject(u)' = Subject(u)
    BY <2>1, <1>a4 DEF Subject
  <2> QED
    BY <2>1, <2>2 DEF SubjectInv
<1>1. RootInv'
  BY <1>a1, <1>a2, Constants
     DEF RootInv, RunPoints, ClonePoints, ExitPoints, ChildPoints, OwnerPoints
<1>2. EndInv'
  BY <1>a1, <1>a2, <1>a4, Constants
     DEF EndInv, Alive, RunPoints, ClonePoints, ExitPoints, ChildPoints,
         OwnerPoints
<1>3. SubjectInv'
  <2> SUFFICES ASSUME NEW u \in Threads, pc'[u] \in ExitPoints
               PROVE  /\ Subject(u)' \in Children
                      /\ status'[Subject(u)'] = "exited"
                      /\ clear'[Subject(u)'] \in Words
                      /\ then'[u] = "top" => pc'[Subject(u)'] = "none"
    BY DEF SubjectInv
  <2>1. CASE u # t
    <3>1. /\ pc[u] \in ExitPoints /\ Subject(u)' = Subject(u) /\ then'[u] = then[u]
          /\ Subject(u) \in Threads /\ Subject(u) \in Children
          /\ status[Subject(u)] = "exited" /\ clear[Subject(u)] \in Words
          /\ then[u] = "top" => pc[Subject(u)] = "none"
      BY <1>s, <2>1, Constants
    <3>2. status'[Subject(u)] = "exited"
      BY <1>a4, <3>1 DEF Alive
    <3>3. clear'[Subject(u)] \in Words
      BY <1>a4, <3>1 DEF Alive
    <3>4. then[u] = "top" => pc'[Subject(u)] = "none"
      BY <1>a1, <1>a2, <3>1 DEF Alive
    <3> QED
      BY <3>1, <3>2, <3>3, <3>4
  <2>2. CASE u = t
    BY <1>a2, <2>2 DEF SubjectInv, Subject, ExitPoints
  <2> QED
    BY <2>1, <2>2
<1>4. ChildInv'
  <2>1. ASSUME NEW u \in Threads
        PROVE  Parent(u)'
    <3>0. Parent(u)
      BY DEF ChildInv
    <3>7. pc[u] \in {"registering", "launching", "owning"} => spawn[u].child \in Threads
      BY <3>0, Constants DEF Parent
    <3>1. /\ committer' = u <=> pc'[u] = "registering"
          /\ pc'[u] \in {"registering", "launching", "owning"} => spawn'[u].child \in Children
      BY <1>a1, <1>a2, <1>a4, <3>0 DEF Parent
    <3>2. Holds(u)' => spawn'[u].child \in 2 .. nextId' - 1
      BY <1>a1, <1>a2, <1>a4, <3>0 DEF Parent, Holds, ExitPoints
    <3>3. pc'[u] = "registering" => status'[spawn'[u].child] = "none"
      BY <1>a2, <1>a4, <3>0, <3>7 DEF Parent
    <3>4. pc'[u] = "launching" => status'[spawn'[u].child] \in {"running", "exit_requested"}
      BY <1>a2, <1>a4, <3>0, <3>7 DEF Parent, Alive
    <3>5. pc'[u] = "launching" => pc'[spawn'[u].child] = "none"
      <4>1. pc'[u] = "launching" => pc[u] = "launching" /\ u # t
        BY <1>a2
      <4>2. pc[u] = "launching" /\ u # t =>
              spawn[u].child \in Threads \ {t, spawn[t].child} /\ pc[spawn[u].child] = "none"
        BY <1>a1, <1>a5, <3>7
      <4> QED
        BY <1>a2, <1>a4, <4>1, <4>2
    <3>6. pc'[u] = "owning" => status'[spawn'[u].child] # "none"
      BY <1>a1, <1>a2, <1>a4, <1>a5, <3>0, <3>7 DEF Parent
    <3> QED
      BY <3>1, <3>2, <3>3, <3>4, <3>5, <3>6 DEF Parent, Alive
  <2>2. OneParent'
    BY <1>a1, <1>a2, <1>a4 DEF ChildInv, Parent, OneParent, Holds, ExitPoints
  <2>3. \A c \in Children : c >= nextId' => status'[c] = "none"
    BY <1>a4 DEF ChildInv, EndInv, Alive
  <2>4. \A c \in owned' : status'[c] # "none"
    BY <1>a4 DEF ChildInv, Parent, TypeOK
  <2> QED
    BY <2>1, <2>2, <2>3, <2>4 DEF ChildInv
<1>5. GroupExitIsFinal'
  BY <1>a4 DEF GroupExitIsFinal, Running
<1>6. ReservedInv'
  <2> SUFFICES ASSUME NEW u \in Threads, pc'[u] \in Committing
               PROVE  /\ \A w \in Words : w = spawn'[u].word => Reserved(u, w)'
                      /\ pc'[u] = "registering" =>
                           \A x \in Words : word'[x] = spawn'[u].child => x = spawn'[u].word
    BY DEF ReservedInv
  <2>1. ASSUME NEW w \in Words, w = spawn'[u].word
        PROVE  Reserved(u, w)'
    <3>1. waiting'[w] = {}
      BY <1>a2, <1>a4, <2>1 DEF ReservedInv, Reserved, Committing
    <3>2. ASSUME NEW c \in Threads, Alive(c)'
          PROVE  clear'[c] # w
      BY <1>a2, <1>a4, <2>1, <3>2 DEF ReservedInv, Reserved, Committing, Alive
    <3>3. ASSUME NEW v \in Threads, pc'[v] \in Committing, spawn'[v].word = w
          PROVE  u = v
      BY <1>a2, <1>a4, <2>1, <3>3 DEF ReservedInv, Reserved, Committing
    <3>4. /\ pc'[u] = "spawning" => word'[w] = None
          /\ pc'[u] = "registering" => word'[w] = spawn'[u].child /\ spawn'[u].saved = None
      BY <1>a2, <1>a4, <2>1 DEF ReservedInv, Reserved, Committing
    <3> QED
      BY <3>1, <3>2, <3>3, <3>4 DEF Reserved
  <2>2. ASSUME pc'[u] = "registering", NEW x \in Words, word'[x] = spawn'[u].child
        PROVE  x = spawn'[u].word
    BY <1>a2, <1>a4, <2>2 DEF ReservedInv, Committing
  <2> QED
    BY <2>1, <2>2
<1>7. ClearingInv'
  <2> SUFFICES ASSUME NEW u \in Threads, pc'[u] = "clearing"
               PROVE  word'[clear'[Subject(u)']] = Subject(u)'
    BY DEF ClearingInv
  <2>1. CASE u # t
    <3>1. pc[u] = "clearing" /\ word[clear[Subject(u)]] = Subject(u)
      BY <1>s, <2>1 DEF ClearingInv, ExitPoints
    <3>2. /\ pc[u] \in ExitPoints /\ Subject(u)' = Subject(u) /\ Subject(u) \in Threads
          /\ Subject(u) \in Children /\ status[Subject(u)] = "exited" /\ clear[Subject(u)] \in Words
      BY <1>s, <2>1, <3>1, Constants DEF ExitPoints
    <3> QED
      BY <1>a4, <2>1, <3>1, <3>2 DEF Alive
  <2>2. CASE u = t
    BY <1>a2, <2>2 DEF Subject, ExitPoints, WordNamesLiveThread, Alive
  <2> QED
    BY <2>1, <2>2
<1>8. WordNamesLiveThread'
  BY <1>a4 DEF WordNamesLiveThread
<1>9. NoIdOfUncreatedThread'
  <2> SUFFICES ASSUME NEW w \in Words
               PROVE  \/ word'[w] = None
                      \/ status'[word'[w]] # "none"
                      \/ committer' # None /\ spawn'[committer'].child = word'[w]
    BY DEF NoIdOfUncreatedThread
  <2>1. word[w] = None \/ word[w] \in Children
    BY DEF TypeOK
  <2>2. \/ word[w] = None
        \/ status[word[w]] # "none"
        \/ committer # None /\ spawn[committer].child = word[w]
    BY DEF NoIdOfUncreatedThread
  <2>3. committer # None => committer \in Threads /\ pc[committer] = "registering"
    BY DEF TypeOK, ChildInv, Parent
  <2> QED
    BY <1>a4, <2>1, <2>2, <2>3 DEF ChildInv, Parent
<1>10. OneJoiner'
  BY <1>a4 DEF OneJoiner
<1>11. JoinerIsWoken'
  <2> SUFFICES ASSUME NEW w \in Words, word'[w] = None, waiting'[w] # {}, ~closed'
               PROVE  \/ permits'[w] > 0
                      \/ \E u \in Threads : pc'[u] = "waking" /\ clear'[Subject(u)'] = w
    BY DEF JoinerIsWoken
  <2>1. ASSUME NEW u \in Threads, u # t, pc[u] = "waking", clear[Subject(u)] = w
        PROVE  pc'[u] = "waking" /\ clear'[Subject(u)'] = w
    BY <1>a4, <2>1, <1>s DEF ExitPoints
  <2> QED
    BY <1>a1, <1>a4, <2>1 DEF JoinerIsWoken
<1> QED
  BY <1>1, <1>2, <1>3, <1>4, <1>5, <1>6, <1>7, <1>8, <1>9, <1>10, <1>11

\* The host has no thread for the child.
LEMMA FailToSpawnKeeps ==
  ASSUME GInv, TypeOK', NEW t \in Threads, FailToSpawn(t)
  PROVE  GInv'
<1> USE DEF GInv, WInv, LInv, TInv
<1>a1. /\ pc[t] = "launching" /\ spawn[t].child \in Children
       /\ pc[spawn[t].child] = "none" /\ Alive(spawn[t].child) /\ spawn[t].child # t
  BY DEF FailToSpawn, ChildInv, Parent
<1>a2. \A u \in Threads \ {t} : pc'[u] = pc[u] /\ then'[u] = then[u]
  BY DEF FailToSpawn, TypeOK
<1>a3. /\ then'[t] = "top"
       /\ pc'[t] = IF clear[spawn[t].child] \in Words THEN "clearing" ELSE "top"
  BY DEF FailToSpawn, TypeOK
<1>a4. /\ status'[spawn[t].child] = "exited"
       /\ \A u \in Threads \ {spawn[t].child} : status'[u] = status[u]
  BY DEF FailToSpawn, TypeOK
<1>a5. UNCHANGED <<clear, groupExit, word, waiting, permits, closed, spawn, nextId, committer, owned>>
  BY DEF FailToSpawn, stepVars, futexVars, cloneVars
<1>a6. /\ \A u \in Threads : pc[u] = "launching" =>
            /\ spawn[u].child \in Children /\ pc[spawn[u].child] = "none"
            /\ status[spawn[u].child] \in {"running", "exit_requested"}
       /\ \A u \in Threads \ {t} : pc[u] \in {"registering", "launching"} =>
            spawn[u].child # spawn[t].child
  BY <1>a1 DEF ChildInv, Parent, OneParent, Holds, Alive
<1>a7. spawn[t].child \in 2 .. nextId - 1 /\ nextId \in Nat
  BY <1>a1 DEF ChildInv, Parent, Holds, TypeOK
<1>s. ASSUME NEW u \in Threads, u # t, pc[u] \in ExitPoints \/ pc'[u] \in ExitPoints
      PROVE  /\ pc[u] \in ExitPoints /\ pc'[u] = pc[u] /\ Subject(u)' = Subject(u) /\ then'[u] = then[u]
             /\ Subject(u) \in Children /\ status[Subject(u)] = "exited" /\ clear[Subject(u)] \in Words
             /\ then[u] = "top" => pc[Subject(u)] = "none"
  <2>1. pc[u] \in ExitPoints /\ pc'[u] = pc[u] /\ then'[u] = then[u]
    BY <1>s, <1>a2, PlainPoints DEF ExitPoints
  <2>2. Subject(u)' = Subject(u)
    BY <2>1, <1>a5 DEF Subject
  <2> QED
    BY <2>1, <2>2 DEF SubjectInv
<1>1. RootInv'
  BY <1>a2, <1>a3, Constants
     DEF RootInv, RunPoints, ClonePoints, ExitPoints, ChildPoints, OwnerPoints
<1>2. EndInv'
  BY <1>a1, <1>a2, <1>a3, <1>a4, Constants
     DEF EndInv, Alive, RunPoints, ClonePoints, ExitPoints, ChildPoints,
         OwnerPoints
<1>3. SubjectInv'
  <2> SUFFICES ASSUME NEW u \in Threads, pc'[u] \in ExitPoints
               PROVE  /\ Subject(u)' \in Children
                      /\ status'[Subject(u)'] = "exited"
                      /\ clear'[Subject(u)'] \in Words
                      /\ then'[u] = "top" => pc'[Subject(u)'] = "none"
    BY DEF SubjectInv
  <2>1. CASE u # t
    <3>1. /\ pc[u] \in ExitPoints /\ Subject(u)' = Subject(u) /\ then'[u] = then[u]
          /\ Subject(u) \in Threads /\ Subject(u) \in Children
          /\ status[Subject(u)] = "exited" /\ clear[Subject(u)] \in Words
          /\ then[u] = "top" => pc[Subject(u)] = "none"
      BY <1>s, <2>1, Constants
    <3>2. status'[Subject(u)] = "exited"
      BY <1>a4, <3>1 DEF Alive
    <3>3. clear'[Subject(u)] \in Words
      BY <1>a5, <3>1 DEF Alive
    <3>4. then[u] = "top" => pc'[Subject(u)] = "none"
      BY <1>a1, <1>a2, <3>1 DEF Alive
    <3> QED
      BY <3>1, <3>2, <3>3, <3>4
  <2>2. CASE u = t
    BY <1>a1, <1>a2, <1>a3, <1>a4, <1>a5, <1>a7, Constants, <2>2
       DEF SubjectInv, Subject, ExitPoints
  <2> QED
    BY <2>1, <2>2
<1>4. ChildInv'
  <2>1. ASSUME NEW u \in Threads
        PROVE  Parent(u)'
    <3>0. Parent(u)
      BY DEF ChildInv
    <3>7. pc[u] \in {"registering", "launching", "owning"} => spawn[u].child \in Threads
      BY <3>0, Constants DEF Parent
    <3>1. /\ committer' = u <=> pc'[u] = "registering"
          /\ pc'[u] \in {"registering", "launching", "owning"} => spawn'[u].child \in Children
      BY <1>a1, <1>a2, <1>a3, <1>a5, <3>0 DEF Parent
    <3>2. Holds(u)' => spawn'[u].child \in 2 .. nextId' - 1
      BY <1>a1, <1>a2, <1>a5, <3>0 DEF Parent, Holds, ExitPoints
    <3>3. pc'[u] = "registering" => status'[spawn'[u].child] = "none"
      BY <1>a2, <1>a3, <1>a4, <1>a5, <1>a6, <3>0, <3>7 DEF Parent
    <3>4. pc'[u] = "launching" => status'[spawn'[u].child] \in {"running", "exit_requested"}
      <4>1. pc'[u] = "launching" => pc[u] = "launching" /\ u # t
        BY <1>a2, <1>a3
      <4>2. pc[u] = "launching" /\ u # t =>
              /\ spawn[u].child \in Threads \ {spawn[t].child}
              /\ status[spawn[u].child] \in {"running", "exit_requested"}
        BY <1>a6, <3>7
      <4> QED
        BY <1>a4, <1>a5, <4>1, <4>2
    <3>5. pc'[u] = "launching" => pc'[spawn'[u].child] = "none"
      BY <1>a1, <1>a2, <1>a5, <3>0, <3>7 DEF Parent
    <3>6. pc'[u] = "owning" => status'[spawn'[u].child] # "none"
      BY <1>a2, <1>a4, <1>a5, <3>0, <3>7 DEF Parent
    <3> QED
      BY <3>1, <3>2, <3>3, <3>4, <3>5, <3>6 DEF Parent, Alive
  <2>2. OneParent'
    BY <1>a1, <1>a2, <1>a5 DEF ChildInv, Parent, OneParent, Holds, ExitPoints
  <2>3. \A c \in Children : c >= nextId' => status'[c] = "none"
    <3>1. \A c \in Children : c >= nextId => status[c] = "none"
      BY DEF ChildInv
    <3>2. ASSUME NEW c \in Children, c >= nextId'
          PROVE  status'[c] = "none"
      <4>1. c \in Nat /\ c >= nextId /\ c # spawn[t].child
        BY <1>a5, <1>a7, <3>2, Constants
      <4> QED
        BY <1>a4, <3>1, <4>1, Constants
    <3> QED
      BY <3>2
  <2>4. \A c \in owned' : status'[c] # "none"
    BY <1>a4, <1>a5, Constants DEF ChildInv, Parent, TypeOK
  <2> QED
    BY <2>1, <2>2, <2>3, <2>4 DEF ChildInv
<1>5. GroupExitIsFinal'
  BY <1>a4, <1>a5 DEF GroupExitIsFinal, Running
<1>6. ReservedInv'
  <2> SUFFICES ASSUME NEW u \in Threads, pc'[u] \in Committing
               PROVE  /\ \A w \in Words : w = spawn'[u].word => Reserved(u, w)'
                      /\ pc'[u] = "registering" =>
                           \A x \in Words : word'[x] = spawn'[u].child => x = spawn'[u].word
    BY DEF ReservedInv
  <2>1. ASSUME NEW w \in Words, w = spawn'[u].word
        PROVE  Reserved(u, w)'
    <3>1. waiting'[w] = {}
      BY <1>a2, <1>a3, <1>a5, <2>1 DEF ReservedInv, Reserved, Committing
    <3>2. ASSUME NEW c \in Threads, Alive(c)'
          PROVE  clear'[c] # w
      BY <1>a2, <1>a3, <1>a4, <1>a5, <2>1, <3>2
         DEF ReservedInv, Reserved, Committing, Alive
    <3>3. ASSUME NEW v \in Threads, pc'[v] \in Committing, spawn'[v].word = w
          PROVE  u = v
      BY <1>a2, <1>a3, <1>a5, <2>1, <3>3 DEF ReservedInv, Reserved, Committing
    <3>4. /\ pc'[u] = "spawning" => word'[w] = None
          /\ pc'[u] = "registering" => word'[w] = spawn'[u].child /\ spawn'[u].saved = None
      BY <1>a2, <1>a3, <1>a5, <2>1 DEF ReservedInv, Reserved, Committing
    <3> QED
      BY <3>1, <3>2, <3>3, <3>4 DEF Reserved
  <2>2. ASSUME pc'[u] = "registering", NEW x \in Words, word'[x] = spawn'[u].child
        PROVE  x = spawn'[u].word
    BY <1>a2, <1>a3, <1>a5, <2>2 DEF ReservedInv, Committing
  <2> QED
    BY <2>1, <2>2
<1>7. ClearingInv'
  <2> SUFFICES ASSUME NEW u \in Threads, pc'[u] = "clearing"
               PROVE  word'[clear'[Subject(u)']] = Subject(u)'
    BY DEF ClearingInv
  <2>1. CASE u # t
    <3>1. pc[u] = "clearing" /\ word[clear[Subject(u)]] = Subject(u)
      BY <1>s, <2>1 DEF ClearingInv, ExitPoints
    <3>2. /\ pc[u] \in ExitPoints /\ Subject(u)' = Subject(u) /\ Subject(u) \in Threads
          /\ Subject(u) \in Children /\ status[Subject(u)] = "exited" /\ clear[Subject(u)] \in Words
      BY <1>s, <2>1, <3>1, Constants DEF ExitPoints
    <3> QED
      BY <1>a5, <2>1, <3>1, <3>2 DEF Alive
  <2>2. CASE u = t
    BY <1>a1, <1>a3, <1>a5, <2>2 DEF Subject, ExitPoints, WordNamesLiveThread, Alive
  <2> QED
    BY <2>1, <2>2
<1>8. WordNamesLiveThread'
  BY <1>a4, <1>a5, Constants DEF WordNamesLiveThread
<1>9. NoIdOfUncreatedThread'
  <2> SUFFICES ASSUME NEW w \in Words
               PROVE  \/ word'[w] = None
                      \/ status'[word'[w]] # "none"
                      \/ committer' # None /\ spawn'[committer'].child = word'[w]
    BY DEF NoIdOfUncreatedThread
  <2>1. word[w] = None \/ word[w] \in Children
    BY DEF TypeOK
  <2>2. \/ word[w] = None
        \/ status[word[w]] # "none"
        \/ committer # None /\ spawn[committer].child = word[w]
    BY DEF NoIdOfUncreatedThread
  <2>3. committer # None => committer \in Threads /\ pc[committer] = "registering"
    BY DEF TypeOK, ChildInv, Parent
  <2> QED
    BY <1>a4, <1>a5, <1>a7, Constants, <2>1, <2>2, <2>3 DEF ChildInv, Parent
<1>10. OneJoiner'
  BY <1>a5 DEF OneJoiner
<1>11. JoinerIsWoken'
  <2> SUFFICES ASSUME NEW w \in Words, word'[w] = None, waiting'[w] # {}, ~closed'
               PROVE  \/ permits'[w] > 0
                      \/ \E u \in Threads : pc'[u] = "waking" /\ clear'[Subject(u)'] = w
    BY DEF JoinerIsWoken
  <2>1. ASSUME NEW u \in Threads, u # t, pc[u] = "waking", clear[Subject(u)] = w
        PROVE  pc'[u] = "waking" /\ clear'[Subject(u)'] = w
    BY <1>a5, <2>1, <1>s DEF ExitPoints
  <2> QED
    BY <1>a1, <1>a5, <2>1 DEF JoinerIsWoken
<1> QED
  BY <1>1, <1>2, <1>3, <1>4, <1>5, <1>6, <1>7, <1>8, <1>9, <1>10, <1>11

\* The child is registered while its parent runs.
LEMMA RegisterChildKeeps ==
  ASSUME GInv, TypeOK', NEW t \in Threads, RegisterChild(t)
  PROVE  GInv'
<1> USE DEF GInv, WInv, LInv, TInv
<1>a1. /\ pc[t] = "registering" /\ status[t] = "running" /\ ~groupExit
       /\ spawn[t].child \in Children /\ status[spawn[t].child] = "none"
       /\ pc[spawn[t].child] = "none" /\ spawn[t].child # t /\ committer = t
  BY DEF RegisterChild, Running, ChildInv, Parent, EndInv, GroupExitIsFinal
<1>a2. /\ then' = then /\ pc'[t] = "launching"
       /\ \A u \in Threads \ {t} : pc'[u] = pc[u] /\ pc[u] # "registering"
  BY DEF RegisterChild, Goto, TypeOK, ChildInv, Parent
<1>a3. /\ status'[spawn[t].child] = "running" /\ clear'[spawn[t].child] = spawn[t].word
       /\ \A u \in Threads \ {spawn[t].child} : status'[u] = status[u] /\ clear'[u] = clear[u]
  BY DEF RegisterChild, TypeOK
<1>a4. committer' = None
  BY DEF RegisterChild
<1>a5. spawn[t].child \in 2 .. nextId - 1 /\ nextId \in Nat /\ Holds(t)
  BY <1>a1 DEF ChildInv, Parent, Holds, TypeOK
<1>a6. \A w \in Words : w = spawn[t].word => Reserved(t, w)
  BY <1>a1 DEF ReservedInv, Committing
<1>a7. /\ \A u \in Threads : pc[u] = "launching" =>
            /\ spawn[u].child \in Children /\ pc[spawn[u].child] = "none"
            /\ status[spawn[u].child] \in {"running", "exit_requested"}
       /\ \A u \in Threads \ {t} : pc[u] = "launching" => spawn[u].child # spawn[t].child
  BY <1>a1 DEF ChildInv, Parent, OneParent, Holds, Alive
<1>a8. UNCHANGED <<groupExit, word, waiting, permits, closed, spawn, nextId, owned>>
  BY DEF RegisterChild, futexVars
<1>a9. \A u \in Threads : pc[u] \in ExitPoints => Subject(u) \in Threads \ {spawn[t].child}
  BY <1>a1, Constants DEF SubjectInv
<1>s. ASSUME NEW u \in Threads, u # t, pc[u] \in ExitPoints \/ pc'[u] \in ExitPoints
      PROVE  /\ pc[u] \in ExitPoints /\ pc'[u] = pc[u] /\ Subject(u)' = Subject(u) /\ then'[u] = then[u]
             /\ Subject(u) \in Children /\ status[Subject(u)] = "exited" /\ clear[Subject(u)] \in Words
             /\ then[u] = "top" => pc[Subject(u)] = "none"
  <2>1. pc[u] \in ExitPoints /\ pc'[u] = pc[u] /\ then'[u] = then[u]
    BY <1>s, <1>a2, PlainPoints DEF ExitPoints
  <2>2. Subject(u)' = Subject(u)
    BY <2>1, <1>a8 DEF Subject
  <2> QED
    BY <2>1, <2>2 DEF SubjectInv
<1>1. RootInv'
  BY <1>a2, Constants
     DEF RootInv, RunPoints, ClonePoints, ExitPoints, ChildPoints, OwnerPoints
<1>2. EndInv'
  BY <1>a1, <1>a2, <1>a3, Constants
     DEF EndInv, Alive, RunPoints, ClonePoints, ExitPoints, ChildPoints,
         OwnerPoints
<1>3. SubjectInv'
  <2> SUFFICES ASSUME NEW u \in Threads, pc'[u] \in ExitPoints
               PROVE  /\ Subject(u)' \in Children
                      /\ status'[Subject(u)'] = "exited"
                      /\ clear'[Subject(u)'] \in Words
                      /\ then'[u] = "top" => pc'[Subject(u)'] = "none"
    BY DEF SubjectInv
  <2>1. CASE u # t
    <3>1. /\ pc[u] \in ExitPoints /\ Subject(u)' = Subject(u) /\ then'[u] = then[u]
          /\ Subject(u) \in Threads /\ Subject(u) \in Children
          /\ status[Subject(u)] = "exited" /\ clear[Subject(u)] \in Words
          /\ then[u] = "top" => pc[Subject(u)] = "none"
      BY <1>s, <2>1, Constants
    <3>2. status'[Subject(u)] = "exited"
      BY <1>a1, <1>a3, <3>1 DEF Alive
    <3>3. clear'[Subject(u)] \in Words
      BY <1>a1, <1>a3, <3>1 DEF Alive
    <3>4. then[u] = "top" => pc'[Subject(u)] = "none"
      BY <1>a1, <1>a2, <3>1 DEF Alive
    <3> QED
      BY <3>1, <3>2, <3>3, <3>4
  <2>2. CASE u = t
    BY <1>a2, <2>2 DEF SubjectInv, Subject, ExitPoints
  <2> QED
    BY <2>1, <2>2
<1>4. ChildInv'
  <2>1. ASSUME NEW u \in Threads
        PROVE  Parent(u)'
    <3>0. Parent(u)
      BY DEF ChildInv
    <3>7. pc[u] \in {"registering", "launching", "owning"} => spawn[u].child \in Threads
      BY <3>0, Constants DEF Parent
    <3>1. /\ committer' = u <=> pc'[u] = "registering"
          /\ pc'[u] \in {"registering", "launching", "owning"} => spawn'[u].child \in Children
      BY <1>a1, <1>a2, <1>a4, <1>a8, Constants, <3>0 DEF Parent
    <3>2. Holds(u)' => spawn'[u].child \in 2 .. nextId' - 1
      BY <1>a1, <1>a2, <1>a8, <3>0 DEF Parent, Holds, ExitPoints
    <3>3. pc'[u] = "registering" => status'[spawn'[u].child] = "none"
      BY <1>a2, <3>0, <3>7 DEF Parent
    <3>4. pc'[u] = "launching" => status'[spawn'[u].child] \in {"running", "exit_requested"}
      BY <1>a2, <1>a3, <1>a8, <3>0, <3>7 DEF Parent, Alive
    <3>5. pc'[u] = "launching" => pc'[spawn'[u].child] = "none"
      BY <1>a1, <1>a2, <1>a8, <3>0, <3>7 DEF Parent
    <3>6. pc'[u] = "owning" => status'[spawn'[u].child] # "none"
      BY <1>a2, <1>a3, <1>a8, <3>0, <3>7 DEF Parent
    <3> QED
      BY <3>1, <3>2, <3>3, <3>4, <3>5, <3>6 DEF Parent, Alive
  <2>2. OneParent'
    BY <1>a1, <1>a2, <1>a8 DEF ChildInv, Parent, OneParent, Holds, ExitPoints
  <2>3. \A c \in Children : c >= nextId' => status'[c] = "none"
    BY <1>a3, <1>a5, <1>a6, <1>a7, <1>a8, Constants DEF ChildInv, EndInv, Alive
  <2>4. \A c \in owned' : status'[c] # "none"
    BY <1>a3, <1>a8, Constants DEF ChildInv, Parent, TypeOK
  <2> QED
    BY <2>1, <2>2, <2>3, <2>4 DEF ChildInv
<1>5. GroupExitIsFinal'
  BY <1>a1, <1>a8 DEF GroupExitIsFinal, Running
<1>6. ReservedInv'
  <2> SUFFICES ASSUME NEW u \in Threads, pc'[u] \in Committing
               PROVE  /\ \A w \in Words : w = spawn'[u].word => Reserved(u, w)'
                      /\ pc'[u] = "registering" =>
                           \A x \in Words : word'[x] = spawn'[u].child => x = spawn'[u].word
    BY DEF ReservedInv
  <2>1. ASSUME NEW w \in Words, w = spawn'[u].word
        PROVE  Reserved(u, w)'
    <3>1. waiting'[w] = {}
      BY <1>a2, <1>a7, <1>a8, <2>1 DEF ReservedInv, Reserved, Committing
    <3>2. ASSUME NEW c \in Threads, Alive(c)'
          PROVE  clear'[c] # w
      BY <1>a1, <1>a2, <1>a3, <1>a8, <2>1, <3>2
         DEF ReservedInv, Reserved, Committing, Alive
    <3>3. ASSUME NEW v \in Threads, pc'[v] \in Committing, spawn'[v].word = w
          PROVE  u = v
      BY <1>a2, <1>a8, <2>1, <3>3 DEF ReservedInv, Reserved, Committing
    <3>4. /\ pc'[u] = "spawning" => word'[w] = None
          /\ pc'[u] = "registering" => word'[w] = spawn'[u].child /\ spawn'[u].saved = None
      BY <1>a2, <1>a8, <2>1 DEF ReservedInv, Reserved, Committing
    <3> QED
      BY <3>1, <3>2, <3>3, <3>4 DEF Reserved
  <2>2. ASSUME pc'[u] = "registering", NEW x \in Words, word'[x] = spawn'[u].child
        PROVE  x = spawn'[u].word
    BY <1>a2, <2>2 DEF ReservedInv, Committing
  <2> QED
    BY <2>1, <2>2
<1>7. ClearingInv'
  <2> SUFFICES ASSUME NEW u \in Threads, pc'[u] = "clearing"
               PROVE  word'[clear'[Subject(u)']] = Subject(u)'
    BY DEF ClearingInv
  <2>1. CASE u # t
    <3>1. pc[u] = "clearing" /\ word[clear[Subject(u)]] = Subject(u)
      BY <1>s, <2>1 DEF ClearingInv, ExitPoints
    <3>2. /\ pc[u] \in ExitPoints /\ Subject(u)' = Subject(u) /\ Subject(u) \in Threads
          /\ Subject(u) \in Children /\ status[Subject(u)] = "exited" /\ clear[Subject(u)] \in Words
      BY <1>s, <2>1, <3>1, Constants DEF ExitPoints
    <3> QED
      <4>1. Subject(u) \in Threads \ {spawn[t].child} /\ Subject(u)' = Subject(u)
        BY <1>s, <1>a9, <2>1, <3>1 DEF ExitPoints
      <4>2. clear'[Subject(u)] = clear[Subject(u)]
        BY <1>a3, <4>1
      <4> QED
        BY <1>a8, <3>1, <4>1, <4>2
  <2>2. CASE u = t
    BY <1>a2, <2>2 DEF Subject, ExitPoints, WordNamesLiveThread, Alive
  <2> QED
    BY <2>1, <2>2
<1>8. WordNamesLiveThread'
  <2> SUFFICES ASSUME NEW c \in Children, status'[c] \in {"running", "exit_requested"},
                      clear'[c] \in Words
               PROVE  word'[clear'[c]] = c
    BY DEF WordNamesLiveThread
  <2>1. CASE c = spawn[t].child
    BY <1>a1, <1>a3, <1>a6, <1>a8, <2>1 DEF Reserved
  <2>2. CASE c # spawn[t].child
    BY <1>a3, <1>a8, <2>2, Constants DEF WordNamesLiveThread
  <2> QED
    BY <2>1, <2>2
<1>9. NoIdOfUncreatedThread'
  <2> SUFFICES ASSUME NEW w \in Words
               PROVE  \/ word'[w] = None
                      \/ status'[word'[w]] # "none"
                      \/ committer' # None /\ spawn'[committer'].child = word'[w]
    BY DEF NoIdOfUncreatedThread
  <2>1. word[w] = None \/ word[w] \in Children
    BY DEF TypeOK
  <2>2. \/ word[w] = None
        \/ status[word[w]] # "none"
        \/ committer # None /\ spawn[committer].child = word[w]
    BY DEF NoIdOfUncreatedThread
  <2>3. committer # None => committer \in Threads /\ pc[committer] = "registering"
    BY DEF TypeOK, ChildInv, Parent
  <2> QED
    BY <1>a1, <1>a3, <1>a8, <1>a9, Constants, <2>1, <2>2, <2>3 DEF ChildInv, Parent
<1>10. OneJoiner'
  BY <1>a8 DEF OneJoiner
<1>11. JoinerIsWoken'
  <2> SUFFICES ASSUME NEW w \in Words, word'[w] = None, waiting'[w] # {}, ~closed'
               PROVE  \/ permits'[w] > 0
                      \/ \E u \in Threads : pc'[u] = "waking" /\ clear'[Subject(u)'] = w
    BY DEF JoinerIsWoken
  <2>1. ASSUME NEW u \in Threads, u # t, pc[u] = "waking", clear[Subject(u)] = w
        PROVE  pc'[u] = "waking" /\ clear'[Subject(u)'] = w
    <3>1. Subject(u) \in Threads \ {spawn[t].child} /\ Subject(u)' = Subject(u) /\ pc'[u] = pc[u]
      BY <1>s, <1>a9, <2>1 DEF ExitPoints
    <3>2. clear'[Subject(u)] = clear[Subject(u)]
      BY <1>a3, <3>1
    <3> QED
      BY <2>1, <3>1, <3>2
  <2> QED
    BY <1>a1, <1>a8, <2>1 DEF JoinerIsWoken
<1> QED
  BY <1>1, <1>2, <1>3, <1>4, <1>5, <1>6, <1>7, <1>8, <1>9, <1>10, <1>11

\* The clone is taken back.
LEMMA RollBackCommitKeeps ==
  ASSUME GInv, TypeOK', NEW t \in Threads, RollBackCommit(t)
  PROVE  GInv'
<1> USE DEF GInv, WInv, LInv, TInv
<1>a1. /\ pc[t] = "registering" /\ committer = t
       /\ spawn[t].child \in Children /\ status[spawn[t].child] = "none"
  BY DEF RollBackCommit, ChildInv, Parent
<1>a2. /\ then' = then /\ pc'[t] = "spawning" /\ spawn'[t].word = spawn[t].word
       /\ \A u \in Threads \ {t} : /\ pc'[u] = pc[u] /\ pc[u] # "registering" /\ spawn'[u] = spawn[u]
  BY DEF RollBackCommit, Goto, TypeOK, ChildInv, Parent
<1>a3. committer' = None
  BY DEF RollBackCommit
<1>a4. /\ \A w \in Words : w = spawn[t].word => Reserved(t, w)
       /\ \A w \in Words : word[w] = spawn[t].child => w = spawn[t].word
  BY <1>a1 DEF ReservedInv, Committing
<1>a5. /\ \A w \in Words \ {spawn[t].word} : word'[w] = word[w]
       /\ \A w \in Words : w = spawn[t].word => word'[w] = None /\ word[w] = spawn[t].child
  BY <1>a4 DEF RollBackCommit, Stored, TypeOK, Reserved
<1>a6. UNCHANGED <<clear, status, groupExit, waiting, permits, closed, nextId, owned>>
  BY DEF RollBackCommit, lifeVars, futexVars
<1>s. ASSUME NEW u \in Threads, u # t, pc[u] \in ExitPoints \/ pc'[u] \in ExitPoints
      PROVE  /\ pc[u] \in ExitPoints /\ pc'[u] = pc[u] /\ Subject(u)' = Subject(u) /\ then'[u] = then[u]
             /\ Subject(u) \in Children /\ status[Subject(u)] = "exited" /\ clear[Subject(u)] \in Words
             /\ then[u] = "top" => pc[Subject(u)] = "none"
  <2>1. pc[u] \in ExitPoints /\ pc'[u] = pc[u] /\ then'[u] = then[u]
    BY <1>s, <1>a2, PlainPoints DEF ExitPoints
  <2>2. Subject(u)' = Subject(u)
    BY <2>1, <1>a1, <1>a2 DEF Subject
  <2> QED
    BY <2>1, <2>2 DEF SubjectInv
<1>1. RootInv'
  BY <1>a2, Constants
     DEF RootInv, RunPoints, ClonePoints, ExitPoints, ChildPoints, OwnerPoints
<1>2. EndInv'
  BY <1>a1, <1>a2, <1>a6, Constants
     DEF EndInv, Alive, RunPoints, ClonePoints, ExitPoints, ChildPoints,
         OwnerPoints
<1>3. SubjectInv'
  <2> SUFFICES ASSUME NEW u \in Threads, pc'[u] \in ExitPoints
               PROVE  /\ Subject(u)' \in Children
                      /\ status'[Subject(u)'] = "exited"
                      /\ clear'[Subject(u)'] \in Words
                      /\ then'[u] = "top" => pc'[Subject(u)'] = "none"
    BY DEF SubjectInv
  <2>1. CASE u # t
    <3>1. /\ pc[u] \in ExitPoints /\ Subject(u)' = Subject(u) /\ then'[u] = then[u]
          /\ Subject(u) \in Threads /\ Subject(u) \in Children
          /\ status[Subject(u)] = "exited" /\ clear[Subject(u)] \in Words
          /\ then[u] = "top" => pc[Subject(u)] = "none"
      BY <1>s, <2>1, Constants
    <3>2. status'[Subject(u)] = "exited"
      BY <1>a6, <3>1 DEF Alive
    <3>3. clear'[Subject(u)] \in Words
      BY <1>a6, <3>1 DEF Alive
    <3>4. then[u] = "top" => pc'[Subject(u)] = "none"
      BY <1>a1, <1>a2, <3>1 DEF Alive
    <3> QED
      BY <3>1, <3>2, <3>3, <3>4
  <2>2. CASE u = t
    BY <1>a2, <2>2 DEF SubjectInv, Subject, ExitPoints
  <2> QED
    BY <2>1, <2>2
<1>4. ChildInv'
  <2>1. ASSUME NEW u \in Threads
        PROVE  Parent(u)'
    <3>0. Parent(u)
      BY DEF ChildInv
    <3>7. pc[u] \in {"registering", "launching", "owning"} => spawn[u].child \in Threads
      BY <3>0, Constants DEF Parent
    <3>1. /\ committer' = u <=> pc'[u] = "registering"
          /\ pc'[u] \in {"registering", "launching", "owning"} => spawn'[u].child \in Children
      BY <1>a2, <1>a3, Constants, <3>0 DEF Parent
    <3>2. Holds(u)' => spawn'[u].child \in 2 .. nextId' - 1
      BY <1>a2, <1>a6, <3>0 DEF Parent, Holds, ExitPoints
    <3>3. pc'[u] = "registering" => status'[spawn'[u].child] = "none"
      BY <1>a2, <3>0, <3>7 DEF Parent
    <3>4. pc'[u] = "launching" => status'[spawn'[u].child] \in {"running", "exit_requested"}
      BY <1>a2, <1>a6, <3>0, <3>7 DEF Parent, Alive
    <3>5. pc'[u] = "launching" => pc'[spawn'[u].child] = "none"
      BY <1>a1, <1>a2, <3>0, <3>7 DEF Parent
    <3>6. pc'[u] = "owning" => status'[spawn'[u].child] # "none"
      BY <1>a2, <1>a6, <3>0, <3>7 DEF Parent
    <3> QED
      BY <3>1, <3>2, <3>3, <3>4, <3>5, <3>6 DEF Parent, Alive
  <2>2. OneParent'
    BY <1>a2 DEF ChildInv, Parent, OneParent, Holds, ExitPoints
  <2>3. \A c \in Children : c >= nextId' => status'[c] = "none"
    BY <1>a6 DEF ChildInv, EndInv, Alive
  <2>4. \A c \in owned' : status'[c] # "none"
    BY <1>a6 DEF ChildInv, Parent, TypeOK
  <2> QED
    BY <2>1, <2>2, <2>3, <2>4 DEF ChildInv
<1>5. GroupExitIsFinal'
  BY <1>a6 DEF GroupExitIsFinal, Running
<1>6. ReservedInv'
  <2> SUFFICES ASSUME NEW u \in Threads, pc'[u] \in Committing
               PROVE  /\ \A w \in Words : w = spawn'[u].word => Reserved(u, w)'
                      /\ pc'[u] = "registering" =>
                           \A x \in Words : word'[x] = spawn'[u].child => x = spawn'[u].word
    BY DEF ReservedInv
  <2>1. ASSUME NEW w \in Words, w = spawn'[u].word
        PROVE  Reserved(u, w)'
    <3>1. waiting'[w] = {}
      BY <1>a1, <1>a2, <1>a6, <2>1 DEF ReservedInv, Reserved, Committing
    <3>2. ASSUME NEW c \in Threads, Alive(c)'
          PROVE  clear'[c] # w
      BY <1>a1, <1>a2, <1>a6, <2>1, <3>2 DEF ReservedInv, Reserved, Committing, Alive
    <3>3. ASSUME NEW v \in Threads, pc'[v] \in Committing, spawn'[v].word = w
          PROVE  u = v
      BY <1>a1, <1>a2, <2>1, <3>3 DEF ReservedInv, Reserved, Committing
    <3>4. /\ pc'[u] = "spawning" => word'[w] = None
          /\ pc'[u] = "registering" => word'[w] = spawn'[u].child /\ spawn'[u].saved = None
      BY <1>a2, <1>a5, <2>1 DEF ReservedInv, Reserved, Committing
    <3> QED
      BY <3>1, <3>2, <3>3, <3>4 DEF Reserved
  <2>2. ASSUME pc'[u] = "registering", NEW x \in Words, word'[x] = spawn'[u].child
        PROVE  x = spawn'[u].word
    BY <1>a2, <2>2 DEF ReservedInv, Committing
  <2> QED
    BY <2>1, <2>2
<1>7. ClearingInv'
  <2> SUFFICES ASSUME NEW u \in Threads, pc'[u] = "clearing"
               PROVE  word'[clear'[Subject(u)']] = Subject(u)'
    BY DEF ClearingInv
  <2>1. CASE u # t
    <3>1. pc[u] = "clearing" /\ word[clear[Subject(u)]] = Subject(u)
      BY <1>s, <2>1 DEF ClearingInv, ExitPoints
    <3>2. /\ pc[u] \in ExitPoints /\ Subject(u)' = Subject(u) /\ Subject(u) \in Threads
          /\ Subject(u) \in Children /\ status[Subject(u)] = "exited" /\ clear[Subject(u)] \in Words
      BY <1>s, <2>1, <3>1, Constants DEF ExitPoints
    <3> QED
      BY <1>a1, <1>a5, <1>a6, <2>1, <3>1, <3>2 DEF Alive
  <2>2. CASE u = t
    BY <1>a2, <2>2 DEF Subject, ExitPoints, WordNamesLiveThread, Alive
  <2> QED
    BY <2>1, <2>2
<1>8. WordNamesLiveThread'
  BY <1>a1, <1>a5, <1>a6 DEF WordNamesLiveThread
<1>9. NoIdOfUncreatedThread'
  <2> SUFFICES ASSUME NEW w \in Words
               PROVE  \/ word'[w] = None
                      \/ status'[word'[w]] # "none"
                      \/ committer' # None /\ spawn'[committer'].child = word'[w]
    BY DEF NoIdOfUncreatedThread
  <2>1. word[w] = None \/ word[w] \in Children
    BY DEF TypeOK
  <2>2. \/ word[w] = None
        \/ status[word[w]] # "none"
        \/ committer # None /\ spawn[committer].child = word[w]
    BY DEF NoIdOfUncreatedThread
  <2>3. committer # None => committer \in Threads /\ pc[committer] = "registering"
    BY DEF TypeOK, ChildInv, Parent
  <2> QED
    BY <1>a1, <1>a4, <1>a5, <1>a6, <2>1, <2>2, <2>3 DEF ChildInv, Parent
<1>10. OneJoiner'
  BY <1>a6 DEF OneJoiner
<1>11. JoinerIsWoken'
  <2> SUFFICES ASSUME NEW w \in Words, word'[w] = None, waiting'[w] # {}, ~closed'
               PROVE  \/ permits'[w] > 0
                      \/ \E u \in Threads : pc'[u] = "waking" /\ clear'[Subject(u)'] = w
    BY DEF JoinerIsWoken
  <2>1. ASSUME NEW u \in Threads, u # t, pc[u] = "waking", clear[Subject(u)] = w
        PROVE  pc'[u] = "waking" /\ clear'[Subject(u)'] = w
    BY <1>a6, <2>1, <1>s DEF ExitPoints
  <2> QED
    BY <1>a1, <1>a4, <1>a5, <1>a6, <2>1 DEF JoinerIsWoken, Reserved
<1> QED
  BY <1>1, <1>2, <1>3, <1>4, <1>5, <1>6, <1>7, <1>8, <1>9, <1>10, <1>11

\* An id is written to the word of the clone.
LEMMA BeginCommitKeeps ==
  ASSUME GInv, TypeOK', NEW t \in Threads, BeginCommit(t)
  PROVE  GInv'
<1> USE DEF GInv, WInv, LInv, TInv
<1>a1. /\ pc[t] = "spawning" /\ committer = None /\ nextId \in Children
       /\ nextId' = nextId + 1 /\ nextId \in Nat /\ nextId >= 2 /\ status[nextId] = "none"
  BY DEF BeginCommit, ChildInv, TypeOK
<1>a2. /\ then' = then /\ pc'[t] = "registering" /\ spawn'[t].word = spawn[t].word /\ spawn'[t].child = nextId
       /\ \A u \in Threads \ {t} : /\ pc'[u] = pc[u] /\ pc[u] # "registering" /\ spawn'[u] = spawn[u]
  BY Constants DEF BeginCommit, Goto, TypeOK, ChildInv, Parent
<1>a3. committer' = t
  BY DEF BeginCommit
<1>a4. \A w \in Words : w = spawn[t].word => Reserved(t, w) /\ word[w] = None
  BY <1>a1 DEF ReservedInv, Committing, Reserved
<1>a5. /\ \A w \in Words \ {spawn[t].word} : word'[w] = word[w]
       /\ \A w \in Words : w = spawn[t].word => word'[w] = nextId /\ spawn'[t].saved = None
  BY <1>a4 DEF BeginCommit, Stored, TypeOK
<1>a6. \A w \in Words : word[w] # nextId
  BY <1>a1, Constants DEF NoIdOfUncreatedThread
<1>a7. UNCHANGED <<clear, status, groupExit, waiting, permits, closed, owned>>
  BY DEF BeginCommit, lifeVars, futexVars
<1>s. ASSUME NEW u \in Threads, u # t, pc[u] \in ExitPoints \/ pc'[u] \in ExitPoints
      PROVE  /\ pc[u] \in ExitPoints /\ pc'[u] = pc[u] /\ Subject(u)' = Subject(u) /\ then'[u] = then[u]
             /\ Subject(u) \in Children /\ status[Subject(u)] = "exited" /\ clear[Subject(u)] \in Words
             /\ then[u] = "top" => pc[Subject(u)] = "none"
  <2>1. pc[u] \in ExitPoints /\ pc'[u] = pc[u] /\ then'[u] = then[u]
    BY <1>s, <1>a2, PlainPoints DEF ExitPoints
  <2>2. Subject(u)' = Subject(u)
    BY <2>1, <1>a1, <1>a2 DEF Subject
  <2> QED
    BY <2>1, <2>2 DEF SubjectInv
<1>1. RootInv'
  BY <1>a2, Constants
     DEF RootInv, RunPoints, ClonePoints, ExitPoints, ChildPoints, OwnerPoints
<1>2. EndInv'
  BY <1>a1, <1>a2, <1>a7, Constants
     DEF EndInv, Alive, RunPoints, ClonePoints, ExitPoints, ChildPoints,
         OwnerPoints
<1>3. SubjectInv'
  <2> SUFFICES ASSUME NEW u \in Threads, pc'[u] \in ExitPoints
               PROVE  /\ Subject(u)' \in Children
                      /\ status'[Subject(u)'] = "exited"
                      /\ clear'[Subject(u)'] \in Words
                      /\ then'[u] = "top" => pc'[Subject(u)'] = "none"
    BY DEF SubjectInv
  <2>1. CASE u # t
    <3>1. /\ pc[u] \in ExitPoints /\ Subject(u)' = Subject(u) /\ then'[u] = then[u]
          /\ Subject(u) \in Threads /\ Subject(u) \in Children
          /\ status[Subject(u)] = "exited" /\ clear[Subject(u)] \in Words
          /\ then[u] = "top" => pc[Subject(u)] = "none"
      BY <1>s, <2>1, Constants
    <3>2. status'[Subject(u)] = "exited"
      BY <1>a7, <3>1 DEF Alive
    <3>3. clear'[Subject(u)] \in Words
      BY <1>a7, <3>1 DEF Alive
    <3>4. then[u] = "top" => pc'[Subject(u)] = "none"
      BY <1>a1, <1>a2, <3>1 DEF Alive
    <3> QED
      BY <3>1, <3>2, <3>3, <3>4
  <2>2. CASE u = t
    BY <1>a2, <2>2 DEF SubjectInv, Subject, ExitPoints
  <2> QED
    BY <2>1, <2>2
<1>4. ChildInv'
  <2>1. ASSUME NEW u \in Threads
        PROVE  Parent(u)'
    <3>0. Parent(u)
      BY DEF ChildInv
    <3>7. pc[u] \in {"registering", "launching", "owning"} => spawn[u].child \in Threads
      BY <3>0, Constants DEF Parent
    <3>1. /\ committer' = u <=> pc'[u] = "registering"
          /\ pc'[u] \in {"registering", "launching", "owning"} => spawn'[u].child \in Children
      BY <1>a1, <1>a2, <1>a3, <3>0 DEF Parent
    <3>2. Holds(u)' => spawn'[u].child \in 2 .. nextId' - 1
      BY <1>a1, <1>a2, <3>0 DEF Parent, Holds, ExitPoints
    <3>3. pc'[u] = "registering" => status'[spawn'[u].child] = "none"
      BY <1>a1, <1>a2, <1>a7, <3>0, <3>7 DEF Parent
    <3>4. pc'[u] = "launching" => status'[spawn'[u].child] \in {"running", "exit_requested"}
      BY <1>a2, <1>a7, <3>0, <3>7 DEF Parent, Alive
    <3>5. pc'[u] = "launching" => pc'[spawn'[u].child] = "none"
      BY <1>a1, <1>a2, <3>0, <3>7 DEF Parent
    <3>6. pc'[u] = "owning" => status'[spawn'[u].child] # "none"
      BY <1>a2, <1>a7, <3>0, <3>7 DEF Parent
    <3> QED
      BY <3>1, <3>2, <3>3, <3>4, <3>5, <3>6 DEF Parent, Alive
  <2>2. OneParent'
    BY <1>a2 DEF ChildInv, Parent, OneParent, Holds, ExitPoints
  <2>3. \A c \in Children : c >= nextId' => status'[c] = "none"
    <3>1. \A c \in Children : c >= nextId => status[c] = "none"
      BY DEF ChildInv
    <3>2. ASSUME NEW c \in Children, c >= nextId'
          PROVE  status'[c] = "none"
      BY <1>a1, <1>a7, <3>1, <3>2, Constants
    <3> QED
      BY <3>2
  <2>4. \A c \in owned' : status'[c] # "none"
    BY <1>a7 DEF ChildInv, Parent, TypeOK
  <2> QED
    BY <2>1, <2>2, <2>3, <2>4 DEF ChildInv
<1>5. GroupExitIsFinal'
  BY <1>a7 DEF GroupExitIsFinal, Running
<1>6. ReservedInv'
  <2> SUFFICES ASSUME NEW u \in Threads, pc'[u] \in Committing
               PROVE  /\ \A w \in Words : w = spawn'[u].word => Reserved(u, w)'
                      /\ pc'[u] = "registering" =>
                           \A x \in Words : word'[x] = spawn'[u].child => x = spawn'[u].word
    BY DEF ReservedInv
  <2>1. ASSUME NEW w \in Words, w = spawn'[u].word
        PROVE  Reserved(u, w)'
    <3>1. waiting'[w] = {}
      BY <1>a1, <1>a2, <1>a7, <2>1 DEF ReservedInv, Reserved, Committing
    <3>2. ASSUME NEW c \in Threads, Alive(c)'
          PROVE  clear'[c] # w
      BY <1>a1, <1>a2, <1>a7, <2>1, <3>2 DEF ReservedInv, Reserved, Committing, Alive
    <3>3. ASSUME NEW v \in Threads, pc'[v] \in Committing, spawn'[v].word = w
          PROVE  u = v
      BY <1>a1, <1>a2, <2>1, <3>3 DEF ReservedInv, Reserved, Committing
    <3>4. /\ pc'[u] = "spawning" => word'[w] = None
          /\ pc'[u] = "registering" => word'[w] = spawn'[u].child /\ spawn'[u].saved = None
      BY <1>a1, <1>a2, <1>a5, <2>1 DEF ReservedInv, Reserved, Committing
    <3> QED
      BY <3>1, <3>2, <3>3, <3>4 DEF Reserved
  <2>2. ASSUME pc'[u] = "registering", NEW x \in Words, word'[x] = spawn'[u].child
        PROVE  x = spawn'[u].word
    BY <1>a2, <1>a5, <1>a6, <2>2 DEF ReservedInv, Committing
  <2> QED
    BY <2>1, <2>2
<1>7. ClearingInv'
  <2> SUFFICES ASSUME NEW u \in Threads, pc'[u] = "clearing"
               PROVE  word'[clear'[Subject(u)']] = Subject(u)'
    BY DEF ClearingInv
  <2>1. CASE u # t
    <3>1. pc[u] = "clearing" /\ word[clear[Subject(u)]] = Subject(u)
      BY <1>s, <2>1 DEF ClearingInv, ExitPoints
    <3>2. /\ pc[u] \in ExitPoints /\ Subject(u)' = Subject(u) /\ Subject(u) \in Threads
          /\ Subject(u) \in Children /\ status[Subject(u)] = "exited" /\ clear[Subject(u)] \in Words
      BY <1>s, <2>1, <3>1, Constants DEF ExitPoints
    <3> QED
      BY <1>a4, <1>a5, <1>a7, Constants, <2>1, <3>1, <3>2 DEF Alive
  <2>2. CASE u = t
    BY <1>a2, <2>2 DEF Subject, ExitPoints, WordNamesLiveThread, Alive
  <2> QED
    BY <2>1, <2>2
<1>8. WordNamesLiveThread'
  BY <1>a4, <1>a5, <1>a7, Constants DEF WordNamesLiveThread
<1>9. NoIdOfUncreatedThread'
  <2> SUFFICES ASSUME NEW w \in Words
               PROVE  \/ word'[w] = None
                      \/ status'[word'[w]] # "none"
                      \/ committer' # None /\ spawn'[committer'].child = word'[w]
    BY DEF NoIdOfUncreatedThread
  <2>1. word[w] = None \/ word[w] \in Children
    BY DEF TypeOK
  <2>2. \/ word[w] = None
        \/ status[word[w]] # "none"
        \/ committer # None /\ spawn[committer].child = word[w]
    BY DEF NoIdOfUncreatedThread
  <2>3. committer # None => committer \in Threads /\ pc[committer] = "registering"
    BY DEF TypeOK, ChildInv, Parent
  <2> QED
    BY <1>a1, <1>a2, <1>a3, <1>a5, <1>a7, <2>1, <2>2, <2>3 DEF ChildInv, Parent
<1>10. OneJoiner'
  BY <1>a7 DEF OneJoiner
<1>11. JoinerIsWoken'
  <2> SUFFICES ASSUME NEW w \in Words, word'[w] = None, waiting'[w] # {}, ~closed'
               PROVE  \/ permits'[w] > 0
                      \/ \E u \in Threads : pc'[u] = "waking" /\ clear'[Subject(u)'] = w
    BY DEF JoinerIsWoken
  <2>1. ASSUME NEW u \in Threads, u # t, pc[u] = "waking", clear[Subject(u)] = w
        PROVE  pc'[u] = "waking" /\ clear'[Subject(u)'] = w
    BY <1>a7, <2>1, <1>s DEF ExitPoints
  <2> QED
    BY <1>a1, <1>a4, <1>a5, <1>a7, <2>1 DEF JoinerIsWoken
<1> QED
  BY <1>1, <1>2, <1>3, <1>4, <1>5, <1>6, <1>7, <1>8, <1>9, <1>10, <1>11

\* The joiner of an exited thread is woken.
LEMMA WakeJoinerKeeps ==
  ASSUME GInv, TypeOK', NEW t \in Threads, WakeJoiner(t)
  PROVE  GInv'
<1> USE DEF GInv, WInv, LInv, TInv
<1>a1. /\ pc[t] = "waking" /\ pc'[t] = then[t] /\ then' = then /\ pc[t] \in ExitPoints
       /\ then[t] \in {"top", "publishing", "notifying"}
  BY DEF WakeJoiner, Goto, TypeOK, ExitPoints
<1>a2. \A u \in Threads \ {t} : pc'[u] = pc[u]
  BY DEF WakeJoiner, Goto, TypeOK
<1>a3. /\ clear[Subject(t)] \in Words /\ status[Subject(t)] = "exited"
       /\ then[t] # "top" => Subject(t) = t
  BY <1>a1 DEF SubjectInv, Subject
<1>a4. UNCHANGED <<clear, status, groupExit, word, spawn, nextId, committer, owned>>
  BY DEF WakeJoiner, lifeVars, cloneVars
<1>a5. \A w \in Words : w # clear[Subject(t)] => permits'[w] = permits[w]
  BY DEF WakeJoiner, futexVars, TypeOK, Futex!Signal
<1>a6. waiting' = waiting /\ closed' = closed
  BY DEF WakeJoiner, futexVars, Futex!Signal
<1>a7. \A w \in Words : w = clear[Subject(t)] /\ ~closed /\ waiting[w] # {} => permits'[w] > 0
  BY WakeIsEnough DEF WakeJoiner
<1>s. ASSUME NEW u \in Threads, u # t, pc[u] \in ExitPoints \/ pc'[u] \in ExitPoints
      PROVE  /\ pc[u] \in ExitPoints /\ pc'[u] = pc[u] /\ Subject(u)' = Subject(u) /\ then'[u] = then[u]
             /\ Subject(u) \in Children /\ status[Subject(u)] = "exited" /\ clear[Subject(u)] \in Words
             /\ then[u] = "top" => pc[Subject(u)] = "none"
  <2>1. pc[u] \in ExitPoints /\ pc'[u] = pc[u] /\ then'[u] = then[u]
    BY <1>s, <1>a1, <1>a2, PlainPoints DEF ExitPoints
  <2>2. Subject(u)' = Subject(u)
    BY <2>1, <1>a4 DEF Subject
  <2> QED
    BY <2>1, <2>2 DEF SubjectInv
<1>1. RootInv'
  BY <1>a1, <1>a2, Constants
     DEF RootInv, RunPoints, ClonePoints, ExitPoints, ChildPoints, OwnerPoints
<1>2. EndInv'
  BY <1>a1, <1>a2, <1>a3, <1>a4, Constants
     DEF EndInv, Alive, RunPoints, ClonePoints, ExitPoints, ChildPoints,
         OwnerPoints
<1>3. SubjectInv'
  <2> SUFFICES ASSUME NEW u \in Threads, pc'[u] \in ExitPoints
               PROVE  /\ Subject(u)' \in Children
                      /\ status'[Subject(u)'] = "exited"
                      /\ clear'[Subject(u)'] \in Words
                      /\ then'[u] = "top" => pc'[Subject(u)'] = "none"
    BY DEF SubjectInv
  <2>1. CASE u # t
    <3>1. /\ pc[u] \in ExitPoints /\ Subject(u)' = Subject(u) /\ then'[u] = then[u]
          /\ Subject(u) \in Threads /\ Subject(u) \in Children
          /\ status[Subject(u)] = "exited" /\ clear[Subject(u)] \in Words
          /\ then[u] = "top" => pc[Subject(u)] = "none"
      BY <1>s, <2>1, Constants
    <3>2. status'[Subject(u)] = "exited"
      BY <1>a4, <3>1 DEF Alive
    <3>3. clear'[Subject(u)] \in Words
      BY <1>a4, <3>1 DEF Alive
    <3>4. then[u] = "top" => pc'[Subject(u)] = "none"
      BY <1>a1, <1>a2, <3>1 DEF Alive
    <3> QED
      BY <3>1, <3>2, <3>3, <3>4
  <2>2. CASE u = t
    BY <1>a1, <2>2 DEF SubjectInv, Subject, ExitPoints
  <2> QED
    BY <2>1, <2>2
<1>4. ChildInv'
  <2>1. ASSUME NEW u \in Threads
        PROVE  Parent(u)'
    <3>0. Parent(u)
      BY DEF ChildInv
    <3>7. pc[u] \in {"registering", "launching", "owning"} => spawn[u].child \in Threads
      BY <3>0, Constants DEF Parent
    <3>1. /\ committer' = u <=> pc'[u] = "registering"
          /\ pc'[u] \in {"registering", "launching", "owning"} => spawn'[u].child \in Children
      BY <1>a1, <1>a2, <1>a4, <3>0 DEF Parent
    <3>2. Holds(u)' => spawn'[u].child \in 2 .. nextId' - 1
      BY <1>a1, <1>a2, <1>a4, <3>0 DEF Parent, Holds, ExitPoints
    <3>3. pc'[u] = "registering" => status'[spawn'[u].child] = "none"
      BY <1>a1, <1>a2, <1>a4, <3>0, <3>7 DEF Parent
    <3>4. pc'[u] = "launching" => status'[spawn'[u].child] \in {"running", "exit_requested"}
      BY <1>a1, <1>a2, <1>a4, <3>0, <3>7 DEF Parent, Alive
    <3>5. pc'[u] = "launching" => pc'[spawn'[u].child] = "none"
      BY <1>a1, <1>a2, <1>a4, <3>0, <3>7 DEF Parent
    <3>6. pc'[u] = "owning" => status'[spawn'[u].child] # "none"
      BY <1>a1, <1>a2, <1>a4, <3>0, <3>7 DEF Parent
    <3> QED
      BY <3>1, <3>2, <3>3, <3>4, <3>5, <3>6 DEF Parent, Alive
  <2>2. OneParent'
    BY <1>a1, <1>a2, <1>a4 DEF ChildInv, Parent, OneParent, Holds, ExitPoints
  <2>3. \A c \in Children : c >= nextId' => status'[c] = "none"
    BY <1>a4 DEF ChildInv, EndInv, Alive
  <2>4. \A c \in owned' : status'[c] # "none"
    BY <1>a4 DEF ChildInv, Parent, TypeOK
  <2> QED
    BY <2>1, <2>2, <2>3, <2>4 DEF ChildInv
<1>5. GroupExitIsFinal'
  BY <1>a4 DEF GroupExitIsFinal, Running
<1>6. ReservedInv'
  <2> SUFFICES ASSUME NEW u \in Threads, pc'[u] \in Committing
               PROVE  /\ \A w \in Words : w = spawn'[u].word => Reserved(u, w)'
                      /\ pc'[u] = "registering" =>
                           \A x \in Words : word'[x] = spawn'[u].child => x = spawn'[u].word
    BY DEF ReservedInv
  <2>1. ASSUME NEW w \in Words, w = spawn'[u].word
        PROVE  Reserved(u, w)'
    <3>1. waiting'[w] = {}
      BY <1>a1, <1>a2, <1>a4, <1>a6, <2>1 DEF ReservedInv, Reserved, Committing
    <3>2. ASSUME NEW c \in Threads, Alive(c)'
          PROVE  clear'[c] # w
      BY <1>a1, <1>a2, <1>a4, <2>1, <3>2 DEF ReservedInv, Reserved, Committing, Alive
    <3>3. ASSUME NEW v \in Threads, pc'[v] \in Committing, spawn'[v].word = w
          PROVE  u = v
      BY <1>a1, <1>a2, <1>a4, <2>1, <3>3 DEF ReservedInv, Reserved, Committing
    <3>4. /\ pc'[u] = "spawning" => word'[w] = None
          /\ pc'[u] = "registering" => word'[w] = spawn'[u].child /\ spawn'[u].saved = None
      BY <1>a1, <1>a2, <1>a4, <2>1 DEF ReservedInv, Reserved, Committing
    <3> QED
      BY <3>1, <3>2, <3>3, <3>4 DEF Reserved
  <2>2. ASSUME pc'[u] = "registering", NEW x \in Words, word'[x] = spawn'[u].child
        PROVE  x = spawn'[u].word
    BY <1>a1, <1>a2, <1>a4, <2>2 DEF ReservedInv, Committing
  <2> QED
    BY <2>1, <2>2
<1>7. ClearingInv'
  <2> SUFFICES ASSUME NEW u \in Threads, pc'[u] = "clearing"
               PROVE  word'[clear'[Subject(u)']] = Subject(u)'
    BY DEF ClearingInv
  <2>1. CASE u # t
    <3>1. pc[u] = "clearing" /\ word[clear[Subject(u)]] = Subject(u)
      BY <1>s, <2>1 DEF ClearingInv, ExitPoints
    <3>2. /\ pc[u] \in ExitPoints /\ Subject(u)' = Subject(u) /\ Subject(u) \in Threads
          /\ Subject(u) \in Children /\ status[Subject(u)] = "exited" /\ clear[Subject(u)] \in Words
      BY <1>s, <2>1, <3>1, Constants DEF ExitPoints
    <3> QED
      BY <1>a4, <2>1, <3>1, <3>2 DEF Alive
  <2>2. CASE u = t
    BY <1>a1, <2>2 DEF Subject, ExitPoints, WordNamesLiveThread, Alive
  <2> QED
    BY <2>1, <2>2
<1>8. WordNamesLiveThread'
  BY <1>a4 DEF WordNamesLiveThread
<1>9. NoIdOfUncreatedThread'
  <2> SUFFICES ASSUME NEW w \in Words
               PROVE  \/ word'[w] = None
                      \/ status'[word'[w]] # "none"
                      \/ committer' # None /\ spawn'[committer'].child = word'[w]
    BY DEF NoIdOfUncreatedThread
  <2>1. word[w] = None \/ word[w] \in Children
    BY DEF TypeOK
  <2>2. \/ word[w] = None
        \/ status[word[w]] # "none"
        \/ committer # None /\ spawn[committer].child = word[w]
    BY DEF NoIdOfUncreatedThread
  <2>3. committer # None => committer \in Threads /\ pc[committer] = "registering"
    BY DEF TypeOK, ChildInv, Parent
  <2> QED
    BY <1>a4, <2>1, <2>2, <2>3 DEF ChildInv, Parent
<1>10. OneJoiner'
  BY <1>a6 DEF OneJoiner
<1>11. JoinerIsWoken'
  <2> SUFFICES ASSUME NEW w \in Words, word'[w] = None, waiting'[w] # {}, ~closed'
               PROVE  \/ permits'[w] > 0
                      \/ \E u \in Threads : pc'[u] = "waking" /\ clear'[Subject(u)'] = w
    BY DEF JoinerIsWoken
  <2>1. ASSUME NEW u \in Threads, u # t, pc[u] = "waking", clear[Subject(u)] = w
        PROVE  pc'[u] = "waking" /\ clear'[Subject(u)'] = w
    BY <1>a4, <2>1, <1>s DEF ExitPoints
  <2> QED
    BY <1>a4, <1>a5, <1>a6, <1>a7, <2>1 DEF JoinerIsWoken
<1> QED
  BY <1>1, <1>2, <1>3, <1>4, <1>5, <1>6, <1>7, <1>8, <1>9, <1>10, <1>11

-----------------------------------------------------------------------------
(* The invariant.                                                           *)

\* The invariant holds at first.
LEMMA InitGInv == Init => GInv
<1> SUFFICES ASSUME Init
             PROVE  GInv
  OBVIOUS
<1>1. TypeOK
  BY InitTypeOK
<1>2. /\ status[Root] = "running" /\ pc[Root] = "top"
      /\ \A c \in Children : status[c] = "none" /\ pc[c] = "none"
      /\ \A t \in Threads : /\ pc[t] \in {"top", "none"} /\ then[t] = "top"
                            /\ clear[t] = NoWord
      /\ \A w \in Words : word[w] = None /\ waiting[w] = {}
      /\ nextId = 2 /\ committer = None /\ owned = {} /\ ~groupExit
  BY Constants DEF Init, Futex!Init
<1>3. RootInv
  BY <1>2, Constants DEF RootInv, RunPoints, OwnerPoints
<1>4. EndInv
  BY <1>2 DEF EndInv
<1>5. SubjectInv
  BY <1>2 DEF SubjectInv, ExitPoints
<1>6. ChildInv
  BY <1>2, Constants DEF ChildInv, Parent, OneParent, Holds, ExitPoints
<1>7. GroupExitIsFinal /\ ReservedInv /\ ClearingInv
  BY <1>2 DEF GroupExitIsFinal, ReservedInv, ClearingInv, Committing
<1>8. WordNamesLiveThread /\ NoIdOfUncreatedThread /\ OneJoiner /\ JoinerIsWoken
  BY <1>2, Constants DEF WordNamesLiveThread, NoIdOfUncreatedThread, OneJoiner,
                         JoinerIsWoken
<1> QED
  BY <1>1, <1>3, <1>4, <1>5, <1>6, <1>7, <1>8 DEF GInv, WInv, LInv, TInv

\* It depends on these variables only.
LEMMA StutterGInv ==
  ASSUME GInv, UNCHANGED <<lifeVars, word, futexVars, pc, then, cloneVars>>, TypeOK'
  PROVE  GInv'
<1> USE DEF GInv, WInv, LInv, TInv, lifeVars, futexVars, cloneVars
<1>1. RootInv' /\ EndInv' /\ GroupExitIsFinal'
  BY DEF RootInv, EndInv, GroupExitIsFinal, Running
<1>2. SubjectInv' /\ ClearingInv'
  BY DEF SubjectInv, ClearingInv, Subject
<1>3. ChildInv'
  BY DEF ChildInv, Parent, OneParent, Holds, Alive
<1>4. ReservedInv'
  BY DEF ReservedInv, Reserved, Alive
<1>5. WordNamesLiveThread' /\ NoIdOfUncreatedThread' /\ OneJoiner'
  BY DEF WordNamesLiveThread, NoIdOfUncreatedThread, OneJoiner
<1>6. JoinerIsWoken'
  BY DEF JoinerIsWoken, Subject
<1> QED
  BY <1>1, <1>2, <1>3, <1>4, <1>5, <1>6

\* Every step keeps it.
LEMMA GInvStep ==
  ASSUME GInv, [Next]_vars
  PROVE  GInv'
<1>0. TypeOK'
  BY TypeStep DEF GInv, WInv, LInv, TInv
<1>1. CASE UNCHANGED vars
  BY <1>0, <1>1, StutterGInv DEF vars
<1>2. CASE Next
  <2>1. CASE Rest
    BY <1>0, <2>1, StutterGInv DEF Rest
  <2>2. ASSUME NEW t \in Threads, Walk(t)
        PROVE  GInv'
    BY <1>0, <2>2, WalkLife, WalkWords DEF GInv, WInv, LInv, TInv
  <2>3. ASSUME NEW t \in Threads, Special(t)
        PROVE  GInv'
    BY <1>0, <2>3, SetTidKeeps, CompleteKeeps, ClearChildTidKeeps, WakeJoinerKeeps,
       LeaveCloneKeeps, EnterCloneKeeps, BeginCommitKeeps, RegisterChildKeeps,
       RollBackCommitKeeps, StartHostThreadKeeps, FailToSpawnKeeps, OwnChildKeeps
       DEF Special
  <2>4. Rest \/ \E t \in Threads : Walk(t) \/ Special(t)
    BY <1>2, Kinds DEF GInv, WInv, LInv, TInv
  <2> QED
    BY <2>1, <2>2, <2>3, <2>4
<1> QED
  BY <1>1, <1>2

\* It always holds.
LEMMA Invariance == SafetySpec => []GInv
<1>1. Init => GInv
  BY InitGInv
<1>2. GInv /\ [Next]_vars => GInv'
  BY GInvStep
<1> QED
  BY <1>1, <1>2, PTL DEF SafetySpec

-----------------------------------------------------------------------------
(* What GuestThreads.tla states.                                            *)

\* Every variable keeps its type.
THEOREM TypeCorrect == SafetySpec => []TypeOK
<1>1. GInv => TypeOK
  BY DEF GInv, WInv, LInv, TInv
<1> QED
  BY <1>1, Invariance, PTL

\* Once the exit of the group was requested nobody runs and no clone brings a
\* running thread into being (RequestExitGroup, RegisterChild).
THEOREM GroupExitStays == SafetySpec => []GroupExitIsFinal
<1>1. GInv => GroupExitIsFinal
  BY DEF GInv, WInv, LInv
<1> QED
  BY <1>1, Invariance, PTL

\* However a child's host thread ended, its guest thread has exited
\* (RunChildBody, PublishFailure).
THEOREM EndedThreadsHaveExited == SafetySpec => []EndedMeansExited
<1>1. GInv => EndedMeansExited
  BY DEF GInv, WInv, LInv, EndInv, EndedMeansExited
<1> QED
  BY <1>1, Invariance, PTL

\* The word that a thread's exit will clear holds its id as long as it is alive
\* (Commit, CompleteExit).
THEOREM WordsNameTheLiving == SafetySpec => []WordNamesLiveThread
<1>1. GInv => WordNamesLiveThread
  BY DEF GInv, WInv
<1> QED
  BY <1>1, Invariance, PTL

\* No word keeps the id of a thread that was not created (Commit, RollBack).
THEOREM NoWordNamesNobody == SafetySpec => []NoIdOfUncreatedThread
<1>1. GInv => NoIdOfUncreatedThread
  BY DEF GInv, WInv
<1> QED
  BY <1>1, Invariance, PTL

\* Nobody sleeps on for a thread that has gone: there is a permit, or the wake is
\* about to be issued (CompleteExit, FutexTable::Wait).
THEOREM JoinersAreWoken == SafetySpec => []JoinerIsWoken
<1>1. GInv => JoinerIsWoken
  BY DEF GInv
<1> QED
  BY <1>1, Invariance, PTL

=============================================================================
