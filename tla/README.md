# A TLA+ model of the OShub kernel

This directory holds a verification development for the ucore-style teaching
kernel of this repository. `src/lab1` to `src/lab8` are successive states of the
same RISC-V kernel; `src/lab8` is the last one and contains the process, memory,
scheduling, synchronisation and file-system code of the earlier labs in their
final form, so the modules translate `src/lab8/kern` (paths below are relative to
it).

## 1. The system and its parts

| part | code | what it does | modules |
|---|---|---|---|
| processes | `process/proc.c` | fork, exit, wait, kill, yield, sleep, the idle and init threads | `Process` |
| process tree | `process/proc.c` | pointers between parents, children and siblings | `ProcTree`, `ChildLists` |
| pids | `process/proc.c` (`get_pid`) | unused pids | `GetPid`, `PidPool` |
| scheduler | `schedule/sched.c`, `schedule/default_sched.c` | run queue, round robin, wakeup | `Process` |
| timers | `schedule/sched.c` | sleeping for a number of ticks | `Timer`, `TicksLeft` |
| traps, system calls | `trap/trap.c`, `syscall/syscall.c` | timer interrupt, end of a trap, dispatch | `Process` (control flow) |
| synchronisation | `sync/sem.c`, `sync/wait.c`, `sync/monitor.c` | semaphores, wait queues, monitors | `Semaphore`, `Monitor` |
| philosophers | `sync/check_sync.c` | the clients of the above | `PhilSema`, `PhilMonitor` |
| page frames | `mm/default_pmm.c`, `libs/list.h` | first-fit allocator | `DefaultPmm`, `FirstFit` |
| page tables, address spaces | `mm/pmm.c`, `mm/vmm.c` | mapping, copying, reference counts | planned |
| program loading | `process/proc.c` (`do_execve`, `load_icode`) | new address space for a process | planned |
| kernel heap | `mm/kmalloc.c` | SLOB allocator | planned |
| stride scheduler | `schedule/default_sched_stride.c`, `libs/skew_heap.h` | priority scheduling (not selected by `sched_init`) | planned |
| files | `fs/file.c`, `fs/fs.c`, `fs/sysfile.c` | descriptor tables, open counts | planned |
| VFS, SFS | `fs/vfs/*`, `fs/sfs/*` | inodes, devices, paths; block map, free map | planned |
| devices | `fs/devs/*` | stdin ring buffer, stdout, disk | planned (stdin) |
| other allocators | lab2 `best_fit_pmm.c`, `buddy_pmm.c` | lab2 only | planned last |
| boot, drivers, libraries | `init`, `driver`, `debug`, `libs` | hardware, printing, strings | not modelled: no state a property is about |

There is one CPU. A system call runs with interrupts off from the trap to
`schedule()` or to the return to user mode, and the kernel is not preemptive: a
switch happens only inside `schedule()`. Timer interrupts are taken in user mode
and while one of the two kernel threads (idle, init) runs. These three facts give
the grain of the actions: a handler is one action up to the next point where
another process, or the timer, can come in.

How the parts meet: `do_sleep` uses the timers, `down` and `do_wait` sleep and are
woken with `wakeup_proc`, `do_fork` takes a pid and links the child into the tree.
`Process` contains the abstract form of the timers, the tree and the pids; `Timer`,
`ProcTree` and `GetPid` are the code of those three, each shown to implement the
abstract form. `PhilMonitor` instantiates `Monitor`, which instantiates
`Semaphore`; `PhilSema` instantiates `Semaphore`.

## 2. The modules

In a module, `X_bug` (or `X_off`) next to a definition `X` is a plausible mistake
in the code behind `X`. Nothing uses it; putting it in the place of `X` makes one
of the properties fail, which shows that the property depends on that code. The
pairs are listed under `mutants` in `PROJECT.json`, the lines behind every
definition under `map`.

**Process.** The variables are the fields of `proc_struct` (`state`, `wait_state`,
`parent`, `time_slice`, `need_resched`, PF_EXITING as `exiting`), `current`, the run
queue as a sequence, the ticks left per sleeper, and for each process the place
where it goes on (`at`): in user mode, at the end of `trap()`, after the
`schedule()` of `do_wait` or `do_sleep`, or dead. `switching` says that `current`
has called `schedule()` and not left it, so that a tick can come in between.
`sys_exit`, `sys_fork`, `sys_wait`, `sys_kill`, `sys_yield` and `sys_sleep` are
chosen freely by user processes; `sys_noop` stands for a call that fails or changes
nothing modelled here (among them a `fork` without memory). `user_main`, a kernel
thread that calls `execve` at once, starts as a user process. Waiting for the
keyboard and for kernel semaphores is not part of this module.

**ProcTree, ChildLists.** `parent`, `cptr`, `optr`, `yptr` as functions; `do_fork`,
`do_exit` and `do_wait` change them in the order of the assignments in the code.
`ChildLists` has one list of children per process, newest first, which is what
`Process` uses.

**GetPid, PidPool.** `get_pid` with its two static variables, one action per turn
of the loop over `proc_list`, and the two callers that change the list. `PidPool`:
some unused pid is returned.

**Timer, TicksLeft.** The list in which each timer holds the ticks after its
predecessor; `add_timer`, `del_timer`, `run_timer_list`, and the processes that
sleep, are killed while asleep, and resume. `TicksLeft` counts each sleeper's ticks
separately.

**Semaphore, Monitor.** Operations for other modules. `up` hands the permit to the
first waiter without raising `value`. The monitor's operations are cut at their
semaphore operations.

**PhilSema, PhilMonitor.** The programs of `check_sync.c`. Any philosopher that is
not blocked may take the next step. In the kernel, which switches only in
`schedule()`, a subset of these interleavings is possible; the properties hold for
all of them. (`init_main` has the call of `check_sync` commented out; lab8 keeps the
code as the test of the synchronisation primitives.)

**DefaultPmm, FirstFit.** The free list with its `next` and `prev` pointers, the
fields `property` and `nr_free`, the flag PG_property, and the blocks that callers
hold. Callers free what they were given, as a whole. A failed assertion of
`default_free_pages` stops the kernel (`panic`). How much callers ask for is bounded
in `Next`, by `MaxUsed`; the operations themselves have the conditions of the code
and no other. `FirstFit` has the set of free pages only.

## 3. What is checked

| run | instance | states | shows |
|---|---|---|---|
| `process` | 3 user pids, slice 1, sleeps of 1 tick, symmetric pids | 884,828 | the invariants below and `ZombieOnlyReaped` |
| `process_live` | 2 user pids, slices and sleeps of up to 2 ticks | 74,677 | `NoStarvation`, `SleeperWakes`, `KilledSleeperExits` |
| `process_kill` | as `process_live` | | `KilledExits` fails (section 5) |
| `get_pid` | MAX_PROCESS 6, MAX_PID 8 | 4,881 | the pid is unused, the scan ends, `get_pid` implements `PidPool` |
| `proc_tree` | init and 4 processes | 2,769 | the pointers implement `ChildLists` and stay valid |
| `timer` | 4 processes, sleeps of up to 4 ticks | 23,312 | the list implements `TicksLeft`; no assertion fails |
| `phil_sema` | 4 philosophers, 2 meals | 200,912 | exclusion, no lost permit, nobody forgotten, all finish |
| `phil_monitor` | 4 philosophers, 2 meals | 217,584 | the same, and the monitor is handed over correctly |
| `pmm` | 8 pages, at most 4 in use, blocks of 1 to 3 | 172,796 | the list is sorted, merged and counted, no assertion fails; it implements `FirstFit`, so no page is given out twice |
| `pmm_full` | 6 pages, all may be in use, blocks of 1, 2 and 4 | | `NoDoubleAlloc` fails (section 5) |

The properties of `Process`:

- `RunQueueExact`: the run queue holds exactly the RUNNABLE processes other than
  the current one and idle, once each. The assertions of `RR_enqueue` and
  `RR_dequeue` depend on it.
- `NoLostChildExit`: a parent asleep in `do_wait` has a child to wait for and no
  zombie among the children it waits for. Zombies that init inherits count.
- `TreeConsistent`: `parent` and the lists of children say the same, and nobody's
  parent is dead.
- `TimerOwned`: a timer belongs to a process still inside `do_sleep`.
- `ShutdownClean`: the assertions at the end of `init_main`.
- `ZombieOnlyReaped`: a zombie changes only when its parent reaps it.

The properties of `PhilMonitor` that are not those of `PhilSema`:

- `OneInMonitor`: one philosopher at most is active in the monitor. This is where the
  signaller's wait in `next` matters.
- `SignalledMayEat`: a philosopher that returns from `cond_wait` has been given the
  forks, so the `if` around `cond_wait` need not be a loop. It holds because the grant
  comes before the signal and only the philosopher itself takes its EATING back; it
  does not depend on the wait in `next`.

A philosopher never waits on a condition while a signaller waits in `next`: whoever
was woken leaves the monitor at once. So `Successor` chooses `next` only on the way
out of the monitor, never in `cond_wait`, with these clients.

**Bounds.** Three user processes are the fewest with a process that exits, its
child, and a third process that kills or waits at the same time, and with an orphan
that is a zombie when init inherits it. Slices and sleeps of one tick keep that run small; the liveness runs use
two, so that a slice can be interrupted in its middle. With `MAX_PID` 8 and at most
five processes in the list pids wrap around and the scan restarts. Four timers allow
equal deadlines in front of, behind and next to a timer that is deleted. Four
philosophers are the fewest with two that are not neighbours; the second meal lets
one overtake. In `pmm` the bound `MaxUsed` on the pages in use is an assumption about the load:
it keeps the block at the end of memory free, which is the normal case on a machine
with memory to spare. What happens without it is the subject of `pmm_full`.

**Fairness.** `WF(Kernel)`: code in the kernel runs on until it returns or calls
`schedule()`. `SF(run_timer_list)`: the clock ticks for ever, and a tick that comes
while interrupts are off stays pending until they are on again; strong fairness,
because interrupts go on and off. No fairness is assumed of user programs. For the
philosophers, weak fairness of each one is what `NoStarvation` gives. `get_pid` is a
loop in the kernel: weak fairness of its turns.

## 4. What is proved

The theorems hold for every value of the constants that satisfies the named
assumptions of the modules (`ProcessAssumption`, `GetPidAssumption`,
`PhilAssumption`).

- `ProcessProofs`: `TypeCorrect`, `RunQueueCorrect`, `TimerCorrect`, all from
  `SchedInvariant`. `RunQueueExact` is not inductive: one has to know that the
  process on the CPU is RUNNABLE outside `schedule()` (`CurrentRunnable`), that a
  process is SLEEPING exactly when `wait_state` is set (`SleepReason`: what
  `wakeup_proc` is called on is not in the queue), which program points go with which
  states (`Where`: a killed sleeper is RUNNABLE and still in `do_sleep`), and that
  `do_exit` finds a parent (`HasParent`). `TimerOwned` needs `Where`, and the timer's
  wakeups in the proof of `RunQueueExact` need `TimerOwned`. `SchedInv` is the
  conjunction, with one lemma per group of actions.
- `GetPidProofs`: `PidIsUnique`, `GapIsUnused` and `ImplementsPool`. The invariant
  says for the part of the list that the scan has passed that none of its pids is
  `last_pid` or lies between `last_pid` and `next_safe`.
- `PhilSemaProofs`: `Exclusion` and `PermitsKept`, from `PhilInv`: who waits in which
  queue (`Queues`), at most one philosopher is in the critical section (`Holder`),
  where a philosopher in each state is and whether it has a permit it has not used
  yet (`Place`), what `phi_test_sema` has read is still true when it acts
  (`Granting`), and no two neighbours are EATING (`Apart`). The exclusion of the
  section and the handing over of permits depend on each other, so they are proved
  together.
- `SeqLemmas`: facts about sequences as sets of elements (append, concatenation,
  head and tail, removal), used by the three others.

Only model-checked: all liveness (temporal reasoning under fairness is out of the
prover's reach); `ProcTree`, `Timer` and `DefaultPmm`, whose operators are recursive
functions over data (no induction over data is available); `TreeConsistent`,
`NoLostChildExit`, `ShutdownClean` and `ZombieOnlyReaped` (planned, section 7);
`PhilMonitor`.

## 5. Where the code and what is said about it disagree

- **A kill can be lost** (`process_kill`). `do_kill` of a RUNNABLE process sets
  PF_EXITING and relies on `trap()` to act on it. `trap()` tests the flag before
  `schedule()`, not after: a process that is killed while it is switched out there
  returns to user mode, and may block in `do_wait` before its next trap ends.
  Nothing wakes it, and a second `do_kill` returns `-E_KILLED` at once.
  `KilledSleeperExits`, which holds, is what the code does guarantee.
- **The free list can lose its shape** (`pmm_full`). `default_free_pages` adds a
  block behind the last free one and goes on with its loop, which meets the new
  block and links it to itself. When the block is taken out later it stays in the
  list, and its pages are given out twice. It takes a free list that ends below a
  block in use.

## 6. What is not modelled

Contents of memory and files, registers and the trap frame, printing, the console,
and error codes other than through the branch they cause. `try_down`, the queue
operations that only the keyboard uses have no caller in the modelled parts, and
`monitor_free` releases memory after the philosophers have finished. The remaining components of section 1 are marked "planned".

## 7. Plan

1. Address spaces: areas, page tables and page reference counts (`vmm.c`, `pmm.c`);
   `fork`, `execve` with its error paths, and `exit` as a composition with them.
   Abstract specification: a function from pages to the spaces that map them.
   Properties: no frame is freed while mapped, none is lost when all processes are
   gone.
2. Stdin with its wait queue and several readers; file tables with open counts over
   `fork`, `dup`, `close` and `exit`; VFS inode counts; SFS block map, free map and
   sizes (`sfs_io_nolock` against a file as a function from offsets to bytes).
3. The SLOB allocator; the stride scheduler with arithmetic modulo 2^w; lab2's
   buddy and best-fit allocators.
4. Proofs: the tree (`TreeConsistent`, with the fact that every set of processes has
   one whose parent is outside it), then `NoLostChildExit`, `ShutdownClean` and
   `ZombieOnlyReaped` on top of `SchedInv`; exclusion in `PhilMonitor`; reference
   counts.
