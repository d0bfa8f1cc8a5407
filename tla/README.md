# OGPlay: a verification companion

OGPlay runs old 32-bit Android games on a desktop. It loads the APK, interprets its
DEX code (DexVM), runs its ARM libraries on a JIT (Dynarmic), and offers both the parts
of Bionic, JNI, EGL/GLES, OpenSL ES and the Android framework they call. This directory
holds TLA+ models of the parts of that program where several actors meet, TLC instances
that check them, and proofs checked by TLAPS.

Paths below are relative to `src/`, the repository; most code is under `src/src/`.
`PROJECT.json` has, for every definition, the source lines it translates.

## 1. Inventory

### Components with state that several actors share

**Futex table** (`src/cpu/futex.cpp`). One queue per guest word: a mutex, a condition
variable, the registered waiters, a count of wake tokens; one sticky interrupt flag for
the whole table. Operations: `Wait`, `Wake`, `WakeAll`, `NotifyWaiters`, `InterruptAll`.
Called by the futex syscalls and by thread exit; it reads, through a predicate of its
caller, the pending signals of `GuestSignalRuntime`, which has another mutex. Hard: a
wake, a deadline, a signal and an interrupt race; the interrupt flag and the predicate
are read outside any common lock. Right when: no wake is lost, nobody is released who
should not be, a signal or an interrupt ends a wait.

**Guest thread lifecycle and clone** (`src/runtime/syscall/guest_thread_lifecycle.cpp`,
`syscall_thread_lifecycle.cpp`, `src/runtime/execution/guest_clone_thread_runtime.cpp`,
`guest_thread_runner.cpp`, `src/cpu/thread_group.cpp`). A record per guest thread
(running, exit_requested, exited, clear_child_tid), the committer of clones, a host
thread per clone child, and their outcomes. Operations: clone, exit, exit_group,
set_tid_address, the runner's slices, failure handling. Four mutexes, none held across
another's operation. Hard: exit_group against a clone under way, roll-back of a half-made
clone, failures of a host thread. Right when: an ended host thread leaves no guest thread
alive, joiners are woken, words name only threads that exist.

**Session drain** (`src/runtime/integration/android_guest_call_session.cpp`). At the end
of a session the owner closes the futex table, tells each worker to exit and joins it.
Hard: workers exit by themselves meanwhile. Right when: the drain ends and joins all;
the code joins nobody when a worker exits between the two.

**Java monitors** (`src/runtime/dexvm/vm_monitors.cpp`) and the **VM execution lock**
(`src/runtime/dexvm/interpreter_context.cpp`). The lock serialises bytecode: recursive,
served by ticket, given up whole when its owner blocks. The table has a mutex and a
condition variable for all objects; per object an owner, a recursion and a wait set.
Operations: enter, exit, wait, notify, notifyAll, interrupt, the end of a thread, and
shutdown. Hard: a wait crosses two locks and a monitor; notify, deadline, interrupt and
shutdown meet. Right when: monitors are exclusive and balanced, a notify reaches a
waiter, everybody who waits for the lock gets it, shutdown frees everybody.

**Java threads** (`src/runtime/dexvm/vm_threads.cpp`). Records of threads on host threads,
with one mutex and one condition variable, over the execution lock and the interrupt flags
of the monitor table. Operations: start, the body and its end, join, sleep, yield,
interrupt, the host's `Yield`, uncaught failure, `nativeExit`, `Shutdown`. Hard: a flag of
one mutex is waited for under another; a start races the shutdown. Right when: nobody
sleeps through what it waits for, and after `Shutdown` no thread of the VM is left.

**Guest signals** (`src/runtime/syscall/syscall_signal.cpp`). Per process the actions; per
thread a mask, pending bits, handler frames, the mask a `sigsuspend` replaced, and the
futex wait a handler may restart. Operations: sigaction, sigprocmask, kill and its
relatives, sigsuspend, delivery at a slice's boundary, the return of a handler,
inheritance by a clone, retirement. Hard: what ends a `sigsuspend` is decided at the next
delivery, by then another thread may have changed action or status; handlers nest. Right
when: the guest gets its mask back, no stale wait is restarted, an unblocked signal and an
exit are noticed.

**Save sandbox** (`src/runtime/vfs/sandbox_store.cpp`, `vfs_sandbox.cpp`, `vfs.cpp`).
The overlay that holds a game's saves: an index over a host directory with files, their
tombstones over a read-only base layer, a byte quota; in memory, nodes that may be dirty,
unlinked or replaced while open. Hard: crashes between host calls, and quota arithmetic
by increments. Right when: the index is what is on the host, what was flushed is there
in the next session, and the next session starts.

**CPU execution budget** (`src/cpu/execution_budget.cpp`, used by `src/cpu/dynarmic.cpp`).
Tickets, lanes and a token bucket that fills with the clock; a thread asks for a lease
before each slice. Hard: cancelling a queued ticket, the rounding of accrual, refunds,
draining. Right when: the counters are exact, the rate holds, every wait ends.

**Address space** (`src/memory/address_space.cpp`). A ledger of mapped guest pages and
protections under a mutex, host pages committed behind them, two page tables that generated
code reads without the mutex, a generation that tickets of prevalidated writes carry,
ranges of protected owners, observers that drop translations. Operations: map, map
anywhere, replace, unmap, protect, owners, preflight, restore of a snapshot. Hard: a host
page holds several guest pages; commits and decommits fail half way; a restore prepares
its replacement without the mutex. Right when: the tables show only what is backed and
allowed, nothing stays committed for nobody, a current ticket is right, a payload stays.

**Frame service and readback** (`src/runtime/boundary/services/frame_service.cpp`,
`src/gles/angle_readback.cpp`). A pipeline with two pixel buffers and a collector thread
takes the pixels of a presented frame from the GPU; the service installs, resets and joins
pipelines, and counts epochs so that a late readback is dropped. Hard: GL thread, host
thread and collector, each under another mutex; stopping while `glReadPixels` runs. Right
when: a buffer has one owner, frames keep their order, a call returns.

**Audio pump** (`src/session/audio_output_pump.cpp`), **session control**
(`src/agent/mcp_session_control.cpp`, `src/frontend/game/run_game.cpp`), **library locks**
(`src/frontend/library/locks.cpp`). Each is a worker or a queue beside the frame loop.
Hard: a stop against a late completion; commands against stale snapshots; two lock files.
Not modelled yet.

### Components without such state

The interpreter, JNI tables, class library, loaders, codecs, renderers, input mappers and
front ends are sequential functions of their input, bindings to external libraries, or
user interface. They are listed, with the reason each is left out, in `PROJECT.json`.

### How they meet

    guest code --futex syscalls--> Futex table <--wake of clear_child_tid-- Lifecycle
        |  \--clone, exit--> Committer, Lifecycle --Spawn--> host thread per child
        |  \--signals--> GuestSignalRuntime --NotifyWaiters--> Futex table
        |                      ^--status, inherit, retire-- Lifecycle, clone runtime
        |--each slice--> Execution budget (DynarmicCpu::Run)
        |--loads, stores--> page tables of AddressSpace --changes--> cached translations
        |--eglSwapBuffers--> FrameService --> readback pipeline --collector--> FrameService
        |--file calls--> VFS --overlay--> SandboxStore --host calls--> directory
    owner --QuiesceNativeWorkers--> InterruptAll, RequestExit, Join
    bytecode --enter/wait/notify--> Monitor table --park--> VM execution lock
        \--start/join/sleep/interrupt--> VmThreadRuntime --park--> VM execution lock
    host --Yield, Shutdown--> VmThreadRuntime --Shutdown--> Monitor table
    host --software frames, close--> FrameService

`GuestThreads` composes with the futex table through `AbstractFutex`, the promise that
`Futex` is shown to keep. `VmMonitors` extends `ExecutionLock`; `VmThreads` keeps of the lock
what `VmMonitors` shows of it. `GuestSignals` keeps of a futex wait that its predicate is
looked at again after `NotifyWaiters`, which `Futex` shows (`SignalEndsWait`).

## 2. Modules

| module | what it is | models |
|---|---|---|
| `Futex` | detailed specification | `FutexTable` |
| `AbstractFutex` | its promise: permits and waiters | |
| `FutexProofs` | invariant, safety refinement | |
| `GuestThreads` | detailed specification, uses `AbstractFutex` | lifecycle, clone, runner, drain |
| `GuestThreadsProofs` | invariants | |
| `ExecutionLock` | operators of the lock | `VmExecutionLock` |
| `VmMonitors` | detailed specification over `ExecutionLock` | `VmMonitorTable` |
| `VmMonitorsProofs` | invariants | |
| `Sandbox` | detailed specification with crash points | `SandboxStore`, overlay of the VFS |
| `AbstractSandbox` | its promise: seen and durable contents | |
| `SandboxProofs` | invariants, refinement | |
| `ExecutionBudget` | detailed specification | `ExecutionBudget`, `DynarmicCpu::Run` |
| `TokenBucket` | its promise: credit, leases, lanes | |
| `VmThreads` | detailed specification | `VmThreadRuntime` |
| `VmThreadsProofs` | invariants | |
| `GuestSignals` | detailed specification | `GuestSignalRuntime`, the runner's boundary |
| `GuestSignalsProofs` | invariants | |
| `AddressSpace` | detailed specification | `AddressSpace` |
| `CpuProofs` | `ExecutionBudget`: invariant, refinement; `AddressSpace`: invariants | |
| `FrameReadback` | detailed specification | `FrameService`, `AsyncAngleReadback` |
| `FrameReadbackProofs` | invariants, the order of frames | |
| `MC*` | instances for TLC | |

Operators whose comment calls them a mutant or a faulty variant are wrong forms of the
definition next to them. Each property has one: with the variant in place of the
definition, TLC refutes the property, so the property depends on that piece of code.

### Futex

A step lies between two points where another thread can act. A queue's mutex is held
from the value comparison to the park or the return; a waiter inside that region still
reads two things that others change, `interrupted` and its own pending signals, so it
looks (`FindReady`), then decides (`LeaveInterrupted`, `TakeToken`), as the code evaluates
its predicate twice. A waiter on the condition variable is `asleep`; notification,
spurious wake-ups and deadlines take it off, `Resume` gets the mutex back. A `Sweeper` is
a thread in `WakeAll`, `NotifyWaiters` or `InterruptAll`, which visit the queues one by
one. `size_t` arithmetic wraps at `SizeMax`. The guest's stores and its signals are
environment actions; the queues a sweep will visit are those known when it began.

`DiscardRace` says whether `sigaction(SIG_IGN)` may clear a pending signal between the
two evaluations. It may, in the code; the finding below is what follows. With it, tokens
wrap and nothing else can be said, so the other runs and the proofs exclude it.

### GuestThreads

A step is one critical section, one guest memory access or one futex call. Thread 1 is
the owner's; 2 to `LastThread` are the ids the clone runtime hands out. `pc` is where a
thread's host thread is, `spawn` the clone it makes, `committer` the holder of the
committer's mutex, `then` where a thread goes once the word of an exit has been cleared
and woken. Host failures (`HostException`, `StopUnexpectedly`, `FailToSpawn`) may occur
where the code has a handler for them. `BeginTeardown`, `InterruptBlockingWaits`,
`ListWorkers`, `RequestWorkerExit`, `BeginJoin`, `JoinWorker`, `EndDrain` are the drain,
in order. Guest words hold 0 or a thread's id; a word is reused only for a new clone.

`DrainEnds` promises that a drain which has begun ends with every listed worker joined
(`AllJoined`), with one exception that it names, `Overtaken`: a worker that was listed as
running has exited when its turn comes, the request throws, and the drain is left without
asking the workers after it and without joining anyone. The code does this against
`integration/MODULE.md:231`. The owner may then begin another drain, as `Stop` does. So the
property shows that nothing else ends a drain early, and that none gets stuck; it does not
show that no join is skipped.

Left out: a clone with two addresses for the child's id, of which the second cannot be
written, so that the first is taken back (EFAULT); the end of a child that could not be
started is one step, although the code retires it, requests its exit and completes it one
after the other; Java threads and the signals' state, which `VmThreads` and `GuestSignals` have.

### VmMonitors and ExecutionLock

`ExecutionLock` has no specification of its own: it gives the lock's operations as
actions on `holder`, `depth` and `queue`, one per critical section, which `VmMonitors`
combines with its own. Bytecode runs only while its thread holds the lock. `Enter` on a
contended monitor and `Wait` give the lock up whole (`Park`, with the depth in `resume`),
park on the table's condition variable, queue for the lock, then try the monitor again.
`outcome` is what a `Wait` has decided to return: it decides before it owns the monitor
again, and leaves the wait set after, as the code does. `NotifyForGc` is the collector's
notification. `held` counts enters minus exits and is only read by properties.

Left out: lifecycle scopes with a real-time deadline, in which a park ends by an internal
error; the advance of the guest clock for timed parks; `entry_waiters`, read by
diagnostics only; `TryAcquire`, used by diagnostics only.

### Sandbox

The VFS mutex makes an operation atomic for the game but not for a crash. Each operation
has a trail of host states, one per host call (`WriteTrail`, `TombstoneTrail`,
`DirectoryTrail`), and `Crash` leaves any point of any trail that the game could begin
(`CrashPoints`). `Attach` is the next session: `Load` of the store, then the overlay over the
base layer. A file's content is its size. A failed flush (quota, host conflict) leaves the
state the code leaves. The tree of paths has any depth (`Ancestors`). `Careless` lets the
game create files below directories that do not exist, which `open(O_CREAT)` does not
refuse, and directories where the base layer has a file.

Two variables are there for the properties only. `resurfaces` says that a base file was
renamed while its new name could not be saved, so that the next session shows it under the
old one; `overlooked` says that a directory was deleted above one that was made only as a
parent. In both cases the code may leave a directory that the next session refuses (see the
disagreements below), and `NextSessionStarts` excepts them.

Left out: `meta.toml`, the escaping of names, the limit on the number of entries, host
I/O errors, directory handles, mappings, lazily read contents, a second descriptor of a
node.

### ExecutionBudget

An action is one critical section of the budget's mutex, or a step of `DynarmicCpu::Run`
around it. `elapsed` stands for `now() - last_ns`, capped at a second because the code
fills the bucket then. `Attempt` is one turn of the loop in `Acquire`: refuse, admit or
stay queued; each turn refills. `RequestHalt` comes from any thread at any time; whether a
slice that ended by an external halt also consumes the stored flag depends on what the
JIT reports, so `Release` leaves it or clears it.

### VmThreads

The runtime's mutex makes a critical section one step, with the notification behind it;
where the code looks at other state between two lines, or notifies later, there is a step
of its own: `PollPark` reads the interrupt flag, `WaitForChange` begins to wait,
`RaiseInterrupt` sets a flag without the mutex, `AnnounceFailure`, `ExitNotifies` and
`ShutdownNotifies` notify after it was given back. The execution lock is `holder`: one
owner, and everybody who asks gets it, which is what `VmMonitors` shows of
`ExecutionLock`. `Object.wait` and contended monitors are the point `monitor`, a park that
may end at any time and does end after `Monitors().Shutdown()`. The root is the host's
thread: it runs bytecode like the others, waits for them (`HostYield` and the `yield_*`
points) and shuts them down (`stopping`, `reaping`, `reaped`, `discarding`, `down`).

Left out: native threads that attach, `WaitForHostProgress` and the deadlines of lifecycle
scopes, texts of failures, the reuse of swept handles.

### GuestSignals

One mutex guards all of it, so a step is one critical section. A thread runs `slice`s; at
the `boundary` between two of them `Deliver` is one of six cases (nothing pending, exit
requested, ignored, fatal, handled, nested too deeply). A syscall is made inside a slice and
ends at the boundary. Sending is two steps, the pending bit and the sweep of the futex
table; a clone is two, the child's record and the mask it inherits. `wanted` is the mask
the guest program asked for. `deserted` marks a thread whose `sigsuspend` ended by a
signal that nobody handled, and the child that inherits its mask. Deliveries after that put
the old mask back, perhaps over one the guest has asked for meanwhile or into a handler's
frame; the mark goes at the first one that finds all masks in order. `kept` marks a thread
whose interrupted futex wait such a signal left remembered, until the next delivery drops it.
The three are read by properties only.

Left out: `nanosleep`, the alternate stack, a clone whose launch fails, contexts that the
guest edits, registers and stacks, real-time signals.

### AddressSpace

The ledger's mutex is held while `phase` is not `free`. A mapping or an unmapping is a call
of several steps: each commit or decommit of a host page is one (`Commit`, `CommitFails`,
`Release`, `DecommitThrows`), because generated code reads the tables meanwhile; then the
ledger and the tables change at once (`PublishMapping`, `FinishUnmapping`). `Protect` is
one step. A restore prepares its replacement without the mutex between `BeginRestore` and
`Restore` or `RefuseRestore`. `PublishMappingChange` tells the observers after the mutex
was given back; any number of calls may be on the way there. `refused` remembers that the
host once refused to take a page back. The code does not recover from that: what it says
afterwards is `TablesAreBacked`, and the other properties speak of the time before.

A restore changes ledger, backing and tables in one step: the old reservation lives until the
tables are new, so generated code that reads an old entry meanwhile finds it backed.

Left out: the bytes of a page, atomics, fault records, unsubscribing, taking a snapshot,
calls that are refused.

### FrameReadback

The processes are the GL thread (the boundary admits one at a time), the host thread and a
collector per pipeline; a step is a critical section of the service's or a pipeline's
mutex, or a use of a GL buffer between them. Pixels are the number of the frame they show.
`Present` follows the code through the capture of the epoch, the creation and installation
of a pipeline, the reservation of a slot and the queue; `Reset` retires the pipeline, then
`Stop` and `Join` end it outside the mutex. `Over` says that a pipeline was stopped or has
failed. A readback carries the epoch its pipeline was born in and is published only if
that is still the service's.

Errors that leave the same state behind are one: a wait for the fence that fails is a mapping
that fails (`Copy`), and at the bound on frames `Enqueue` leaves as it does when its context is
not current (`Reserve`).

Left out: `TakeLatestFrame` and `RecycleFrame`, which take the frame and give its memory
back, GPU statistics, tracing, the synchronous path.

## 3. What is checked

With two workers each passing run ends within about three minutes on a two-core machine.

| run | instance | distinct states | checks |
|---|---|---|---|
| `futex` | 2 threads, 1 word of 2 values, 1 sweeper, wakes of 1 or 2 | 131,744 | `TokensCovered`, `SignalEndsWait`, `ImplementsPromise` |
| `guest_threads` | root and 2 children, 1 word, host failures | 180,685 | `GroupExitIsFinal`, `EndedMeansExited`, `WordNamesLiveThread`, `NoIdOfUncreatedThread`, `JoinerIsWoken`, `DrainEnds` |
| `vm_monitors` | 2 threads, 1 object, recursion 2, lock depth 2 | 146,296 | `MonitorMatchesEnters`, `ParkedWaiterIsReachable`, `LockIsGranted`, `ShutdownReleasesParked` |
| `vm_threads` | root and 2 Java threads, one of them interruptible | 359,237 | `NoSleepThroughProgress`, `EndReachesMonitors`, `NoneLeftRunning`, `ShutdownReturns` |
| `guest_signals` | root and a child, signals 9, 10, 17, 2 handlers, 2 nested frames, 5 syscalls | 129,359 | `CallersMask`, `RestartIsFresh`, `SignalIsTaken`, `ExitEndsThread` |
| `sandbox` | a directory, a base file in it, a name beside it; sizes 0 and 1; quota 1; 3 nodes | 265,837 | `IndexMatchesDisk`, `QuotaAccounting`, `CleanStateIsDurable`, `NextSessionStarts`, `Implements` |
| `address_space` | a guard page and 3 pages, host pages of two, 3 protections, 1 owner, 1 snapshot, 3 changes | 1,877,176 | `TablesAreBacked`, `NoIdleBacking`, `TicketHolds`, `PayloadStays`, `StaleIsAnnounced` |
| `frame_readback` | 2 pipelines, 4 frames, 2 resets | 263,186 | `SlotHasOneOwner`, `NoUseAfterDelete`, `NothingIsReplaced`, `FramesInOrder`, `CallsReturn` |
| `execution_budget` | 2 CPUs, 1 lane, 4 ticks in 5 units of time, capacity 4, slice 3 | 155,508 | `AdmissionIsExact`, `KeepsRate`, `EveryWaitEnds`, `TypeOK` |

Every module defines `TypeOK`. It is a property of a run only for the budget, where the
unsigned counters make it a statement about the code; it is proved for every component.

Why these bounds are enough to meet the hard cases: two waiters are what it takes for one
to take what was meant for the other, and one sweeper is a pass that others overtake;
a wake of two exceeds, equals or undercuts the waiters. Two clone children are a sibling
that fails or exits while the other is cloned, joined or drained; the ids run out, which
the code must survive too. With two Java threads one is parked while the other notifies,
interrupts, dies or shuts down, recursion 2 is a depth to be restored, and depth 2 a
nested call that blocks. In the sandbox, a directory with a base file in it to hide, a name
to rename to, a quota that one file fills and three nodes (one named, one replaced and open,
one new) let every operation fail as well as succeed. It takes a third level for a directory
that nobody has an entry for; the proofs are about trees of any depth. In the budget, the
rate does not divide the second, so that every refill rounds, and one lane is contended by
two.

Two Java threads beside the root are a joiner and its target while the host waits or shuts
down, and one of them starts the other during the shutdown; one interruptible thread is
enough because an interrupt concerns one flag. Two guest threads are a sender and a
receiver, or a parent and the child that inherits; signal 9 cannot be blocked, 10 is
fatal or handled, 17 is ignored by default; five syscalls install a handler, block,
suspend, send and return. With a guard page first, the three
others share host pages unevenly: one host page holds two of them, one holds the third. Three
changes of the mapping and two calls between change and announcement let a restore, an
owner and an unmapping overlap. Two pipelines are the retired one, whose collector is
still at work, and its successor; four frames are more than the two buffers hold.

Deadlock is checked for `futex` and `execution_budget`. The others may stop: guest threads
all exit, Java threads all end, the bounds on syscalls, frames and changes are used up,
and in the sandbox a directory that does not open leaves nothing to do. Where they may
stop, the liveness properties say who must not be left behind.

### Disagreements the runs show

Three runs expect a violation. Each checks one statement that a document or a comment of
the repository makes and that the code does not keep; `PROJECT.json` quotes it.

* `futex_discard`: a signal discarded between two evaluations of the predicate lets a
  waiter take a token that does not exist; the count wraps (`cpu/futex.cpp:75`).
* `sandbox_parentless`: a file created in a deleted directory lies below a tombstone, and
  no later session starts (`vfs/vfs.cpp:546`).
* `vm_threads_lost_interrupt`: `Interrupt` sets its flag and notifies without the mutex of
  the wait; a joiner that has looked and not yet begun to wait sleeps on, interrupted
  (`dexvm/vm_threads.cpp:516`).

More statements of the documents are not kept. The models take the step in question, and
the properties above are stated so that they hold with it; there is no run of its own.

* A thread that begins to wait after a `WakeAll` may take the token issued to one that
  waited before (`cpu/futex.cpp:67`, against `cpu/MODULE.md:68`); `AbstractFutex` allows it.
* An exit request between `RunChildBody`'s look at the status and the runner's makes the
  child fail instead of exiting (`RejectThread`; `guest_thread_runner.cpp:263`, against
  `execution/MODULE.md:34`).
* A worker that exits between the drain's list and its request ends the drain by an
  exception before anyone is joined (`RequestWorkerExit`;
  `android_guest_call_session.cpp:1478`, against `integration/MODULE.md:231`: no join may be
  skipped because one child fails). Hence `Overtaken` in `DrainEnds`.
* A waiter that has timed out or was interrupted stays in the wait set until it has the
  monitor; a notify may be spent on it and lost (`vm_monitors.cpp:380`, against
  `vm_monitors.h:23`). It takes three threads to miss it.
* A crash between the two halves of a write over a tombstone, or of a removal, leaves file
  and tombstone, and the next session refuses to start (`sandbox_store.cpp:710` and `:747`,
  against the comment at `:365`). `NextSessionStarts` excepts exactly this state.
* A rename whose flush throws has moved the name all the same, and its source gets no
  tombstone (`RenameUnsaved`; `vfs_sandbox.cpp:461`). A base file is then back in the next
  session, perhaps in a directory that was deleted meanwhile; once it is saved there, no
  later session starts (against `docs/design/sandbox/01-scope.md:30`: the next start sees
  what the last exit left). Hence `resurfaces`.
* Host directories made only as parents have no entry (`sandbox_store.cpp:282`), so the
  deletion of a directory above one does not see it (`:735`); the next session does, and
  refuses to start (`:387`). It takes a base file deleted two directories down, and then a
  file or directory at the place of the upper one that comes and goes. Hence `overlooked`.
* A directory made where a base file was deleted takes the file's tombstone away, and the
  next session has both (`vfs_sandbox.cpp:321`, `:618`). Only a `Careless` game does it.
* A refused decommit leaves `UnmapLocked` by an exception (`address_space.cpp:628`) before
  the generation is raised (`:300`): a ticket stays current although its pages are gone
  (`memory/MODULE.md:26`). Hence `refused`.
* A `sigsuspend` ended by a signal that is ignored at delivery returns to the guest with
  its temporary mask (`syscall_signal.cpp:498`), although `rt_sigsuspend` is to restore the
  old one (`tests/runtime/syscall_signal_tests.cpp:454`). Hence `deserted`. On the same path
  (`:500`) a futex wait to be restarted stays remembered over a slice. Hence `kept`.

### Fairness

*Futex.* Host threads run (weak fairness on a waiter's steps), and a thread that queues
on a mutex which is released again and again gets it (strong fairness on `Resume` and on
a sweep's visits): the mutex is a `std::mutex` and its critical sections are short. No
fairness on calls, wakes, stores, signals, deadlines.

*GuestThreads.* Host threads run, and every slice ends, because `DynarmicCpu::Run` is
given a number of ticks. Guest code need not exit, wake or clone, and the owner need not
drain: `DrainEnds` begins where the drain has begun.

*VmMonitors.* Host threads run, and a holder of the lock reaches a safe point
(`dexvm/MODULE.md`: every 1024 ticks of bytecode the lock is offered to those who wait).
Bytecode need not leave a monitor, time need not pass, nobody need notify.

*ExecutionBudget.* Time passes; `Acquire` polls every 2 ms; the JIT stops when its ticks
are used up. A thread need not ask.

*VmThreads.* Host threads run, bytecode reaches its safe points, and the lock is granted.
Bytecode need not return, no monitor need become free, no deadline need pass.

*GuestSignals.* Host threads run and a slice ends (`kPollTicks`). The guest need not make a
syscall, nobody need send; a futex wait need not end.

*FrameReadback.* A call of the GL thread or the host goes on, collectors run, the GPU
finishes what it was given. Nobody has to present.

*Sandbox*, *AddressSpace.* Safety only: nothing there happens by itself.

## 4. What is proved

Every proof is checked by TLAPS down to its leaves, for all values of the constants that
the modules' assumptions admit.

**`FutexProofs`**: any finite set of threads, any words, values, sweepers and counts.

* `Invariance`: `Spec` without the discard race keeps `IInv`. `TokensCovered` alone is not
  inductive: that a waiter which decides to leave by a signal leaves enough others awake
  needs to know that it decides only after its predicate was true (`DecidingWasReady`),
  that no one else can change the queue meanwhile (`HolderMatchesPc`), who is registered
  (`RegisteredMatchesPc`) and who sleeps (`AsleepAreParked`). The counting rests on one
  lemma, that the awake are the registered minus the sleepers.
* `TypeCorrect`, `NoWakeIsLost` follow.
* `Implements`: each step is a step of `AbstractFutex` or changes nothing it sees. It uses
  the invariant, since `GiveUp` is allowed only without an outstanding permit.

Assumption: `~DiscardRace`. With it, `futex_discard` is a counterexample.

**`CpuProofs`**, about `ExecutionBudget`: any finite set of threads, any lanes, rate,
clock, bucket.

* `BudgetInvariant`: `BInv` = types, leases of at least one tick that are not overrun
  (`TicksInv`), and exact counters (`AdmissionIsExact`). The types need the second part,
  since a refund of an overrun lease would exceed the bucket; the decrement of `active`
  needs the third. The queue's part rests on lemmas about taking an element out of a
  sequence without repetitions.
* `TypeCorrect`, `AdmissionCorrect` follow.
* `RateIsKept`: with a rate, the budget implements `TokenBucket`. The mapping counts
  tokens, the kept fraction and the time not yet accounted for in one unit, so that a
  refill changes nothing but the fraction it drops when the bucket is full, and an
  attempt loses less than a tick.

**`CpuProofs`**, about `AddressSpace` (whose specification is `MemorySpec`, so that the
module can extend both): any number of guest pages, any layout on host pages, any protections,
owners and snapshots; the only assumption is `AddressSpaceAssumption`.

* `LedgerConsistent`: `AInv` = types, tables that agree with the ledger (`TablesInv`) and
  backing of what is mapped or being mapped (`BackingInv`). `TablesAreBacked` alone is not
  inductive: a host page may be given back only because none of its pages is mapped any
  more, which the tables do not say.
* `MemoryTypeCorrect` and `TablesBacked` follow.
* `NothingIdle`, `TicketsHold` and `OwnersKeepTheirRanges` each need a part of their own,
  which speaks of the call under way: what is committed beside the ledger belongs to the
  call that holds the mutex (`IdleInv`), an unmapping under way will end the generation of a
  ticket (`TicketInv`), and a call works on exactly one owner's entry or on pages of nobody
  (`EntryInv`). What `StaleCodeIsAnnounced` states is inductive with the types. The four
  hold until a decommit is refused; `RefusalLasts` says that there is no way back, so that
  the induction is one over the states before.

**`GuestThreadsProofs`**: any number of clone children (`LastThread`), any words, with and
without failures of the host; the specification without fairness.

* `Invariance`: `GInv` is built in layers. Below are the types and where each host thread
  can be; then how far an exit has come (`EndInv`, `SubjectInv`), who has a child in hand
  that nobody else knows of (`ChildInv`), and that an exit of the group spares nobody
  (`GroupExitIsFinal`). Above that come the words: a word that a clone has reserved is
  nobody else's (`ReservedInv`), a word about to be cleared belongs to the thread whose exit
  clears it (`ClearingInv`), and the two properties about words. On top are the joiners.
* Three facts carry it. Two host threads never complete the same exit (lemma `Subjects`):
  a child that could not be started has no host thread of its own. `RegisterChild` finds
  its parent running, under the mutex that a group's exit takes, so an exit under way
  cannot miss the child. A clone takes a word that no thread alive will clear and nobody
  waits for, and this stays so until the child is there.
* Most of the actions only walk a thread along its own points. Lemma `Kinds` says that each
  step is one of those (`Walk`), leaves everything the invariant speaks of alone (`Rest`),
  or is one of twelve special steps, each of which has a lemma of its own.
* `TypeCorrect`, `GroupExitStays`, `EndedThreadsHaveExited`, `WordsNameTheLiving`,
  `NoWordNamesNobody`, `JoinersAreWoken` follow.

Assumption: `GuestThreadsAssumption` (there is a child, `NoWord` is no word).

**`VmMonitorsProofs`**: any threads, any objects, any depth of the lock and of recursion.

* `MInvHolds`: `MonitorMatchesEnters` is not inductive. What a waiter comes back with was
  put aside before the monitor was given up, so the invariant relates `saved` to the enters
  of a thread at every point of a `Wait` (`Keeps`, `KeepsAll`). `KeepsAll` ends with the
  shutdown, which gives a monitor to several threads; what still holds then (`Matches`:
  nobody owns a monitor more often than it has entered it) keeps the recursion above zero.
  A step of one thread leaves the others' part alone (`Undisturbed`), so that each action is
  looked at for its own thread only.
* `TypeCorrect`, `MonitorsMatchEnters`, `WaitersAreReachable` follow. The last rests on
  lemmas about taking the first occurrence of an element out of a sequence.

Assumption: `VmMonitorsAssumption` (bounds of at least one, at least one object).

**`VmThreadsProofs`**: any set of Java threads, of which any may be interrupted.

* `VInvHolds`: `NoSleepThroughProgress` needs that a thread between its look and its wait
  has looked at what still holds (`PolledInv`). The mutex gives that for statuses and the
  shutdown, of which the property speaks; it does not for the interrupt flag, which is set
  without the mutex and is the third of the disagreements above. `NoneLeftRunning` needs that the host joins every
  thread that was ever started, also one whose start raced the shutdown, and that behind
  the joins they are all dead (`ReapInv`). `EndReachesMonitors` needs that everything that
  ends a thread comes after `shutting_down` (`EndInv`).
* `TypeCorrect`, `NobodySleepsThroughProgress`, `TheEndReachesMonitors`,
  `ShutdownLeavesNoneRunning` follow.

Assumption: `VmThreadsAssumption` (the root is no Java thread).

**`GuestSignalsProofs`**: any threads, any standard signals, any handlers, any nesting.

* `SInv`: `CallersMask` speaks of the mask while guest code runs, the invariant
  (`MaskFound`) of every point between: the mask the guest asked for is in force, in the
  local of `Suspend`, or in what the next delivery or the frames will put back. Frames hold
  it at any depth (`Honest`). A child inherits the mask before it runs and has neither
  frames nor a wait until then (`UnbornInv`). A delivery that ends the exception of `deserted`
  finds the masks in order, which is what the invariant then needs (`Settled`). What is
  remembered of a futex wait is a part of its own (`WaitInv`).
* `TypeCorrect`, `CallersMaskKept`, `RestartsAreFresh` follow.

Assumption: `GuestSignalsAssumption` (the standard signals without 18 to 22; a handler's
mask is one of the modelled signals).

**`FrameReadbackProofs`**: any number of pipelines, slots, frames and resets.

* `RInv` goes from types and points (`PInv`) to the owners of buffers (`QueueInv`,
  `OwnerInv`: exactly one of free list, GL thread, queue and collector while the pipeline
  lives), and from there to the numbers of the frames: none is ahead of the count
  (`BoundInv`), what can yet be published under the present epoch is in the pipeline that is
  installed (`FlightInv`), and what a pipeline has in flight is sorted (`OrderInv`).
* `FramesAppearInOrder` is an action property. It needs `FloorInv`: nothing that can
  yet be published under the present epoch is older than what is shown or what the host is
  about to show. The sorting of the
  queue rests on lemmas about `Append` and `Tail`.
* `TypeCorrect`, `SlotsHaveOneOwner`, `BuffersOutliveTheirUse`, `NoPipelineIsReplaced`
  follow from the first parts.

Assumption: `FrameReadbackAssumption` (`None` is neither a pipeline nor a slot).

**`SandboxProofs`**: any finite tree of paths, any base layer, sizes, quota and enough nodes.

* `SInvHolds`: `IndexMatchesDisk` needs that what is on the host has its directories there,
  at every crash point (`DiskOK`), and that a directory without an entry has one below it
  (`StoreInv`), or the removal of a directory would leave a part of it behind. `QuotaAccounting`
  needs that a node which will be saved somewhere has that name and nobody else has it
  (`NodeInv`): otherwise an orphan's bytes would stay in the sum. `CleanStateIsDurable` is
  inductive beside these (`CleanInv`).
* The sums over all files are folds. What a fold adds up to is proved once (`SumStep`,
  `SumChange`): the provers have no induction to apply, but among the sets for which a
  statement fails there is a smallest one, by a theorem of the library, and that leads to a
  contradiction. Each operation then has one lemma that it keeps `SInv`, over lemmas that
  say what its trail does to the host (`WriteTrailStates`, `DirectoryTrailStates`,
  `TombstoneTrailStates`), which the crash points share.
* `TypeCorrect`, `IndexIsTheHost`, `QuotaIsExact`, `CleanIsDurable` follow, for every game.
* `NextSessionCanStart`: below a tombstone nothing is live (`CoversHost`). This is not
  inductive either: the next session shows the base files that no tombstone hides, so none
  may be left below one (`CoversBase`), and the directories of the session must be there
  for the store too (`LiveDirectories`, `BaseSeen`). Two of the three exceptions came out of
  this proof: without them a step could not be proved, and TLC then found the traces that
  the disagreements above describe.
* `PromiseKept`: each step is a step of `AbstractSandbox` or changes nothing it sees, and
  a crash at any point of any trail loses no more than `Stop` allows (`CrashLoses`).

Assumptions: `SandboxAssumption`; for the last two `~Careless`. Without that,
`sandbox_parentless` is a counterexample to the first, and the directory made where a base
file was deleted, which the next session shows again, is one to the second.

**Only model-checked**: liveness (`SignalEndsWait`, the fairness part of
`ImplementsPromise`, `DrainEnds`, `LockIsGranted`, `ShutdownReleasesParked`, `ShutdownReturns`,
`SignalIsTaken`, `ExitEndsThread`, `CallsReturn`, `EveryWaitEnds`), which is out of the
prover's reach, as are `ENABLED` and what a recursion over data computes. Every invariant
and every action property that a run checks is proved.

## 5. Hazards

`PROJECT.json` lists what is hard to test in this code at its line, with the properties
that would catch it. Those without a property are the work list: they concern a component
without a model yet, or need a composition.

## 6. Plan

Written so far, in this order: futex table; guest threads over its promise; execution lock
and monitors; sandbox; execution budget; Java threads; frame readback; address space; guest
signals; the proofs about futex table, budget, address space, guest signals, Java threads,
monitors, frame readback, guest threads and the sandbox.

Next, in this order:

1. `SessionControl`: a bounded queue, the frame loop's permitted steps, suspend and resume.
2. `AudioPump`: no sample is advanced twice; a failure reaches its owner.
3. `LibraryLocks`: running lease, import and removal over the host's file locks.
4. `SandboxOpen`: creation of a sandbox and `meta.toml` under crashes.
5. A composition of `GuestThreads`, `GuestSignals` and the futex table, for threads parked
   while the group exits and for a child that is sent a signal before it has its mask.

Each of them is to get its invariants proved with it. Of what there is, the safety part is
proved.

## 7. Not modelled

*Left to the plan*: session control, audio pump, library locks, the creation of a sandbox.
They have the kind of state this project is about, and no property here covers them.

*Sequential code without state that several actors share*: the interpreter and the class
library of the DexVM, JNI tables, loaders and parsers, decoders and mixers, the view tree,
input mapping, preferences and assets. What is hard there is what each instruction or
conversion computes, which tests of the repository compare with references; a model would
repeat the program line by line. Class initialisation by several threads and the
collector's roots would be worth a model of their own.

*Bindings to code that is not in the repository*: GLES to ANGLE, the JIT's translation and
caches, video decoding, SQLite, the host's windows, audio and files. Their behaviour would
have to be assumed.

*User interface*: launcher, dashboard, command line, web pages, HTTP encoding.

What is left out of a modelled component is said in its section above, and with its
reason in `PROJECT.json`.
