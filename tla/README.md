# TLA+ models of the PKE kernel's process and file layers

This directory holds TLA+ models of the kernel under `src/`. TLC checks them.
The models cover the process pool with its address spaces and the ELF loader
(`process.c`, `elf.c`, `syscall.c`). They also cover the file layer
(`file.c`, `vfs.c`, `rfs.c`, `dev.c`, `hostfs.c`). `PROJECT.json` lists, in
machine-readable form:

- the components;
- every run, with the properties it checks;
- the mutants that show each passing property can fail;
- the source lines each definition models;
- the findings and the hazards.

## The system

**Process pool** (`process.c`). The kernel has a fixed array `procs[NPROC]`.
- `alloc_process` takes the first FREE slot. It allocates a trapframe, a page
  table, a kernel stack, a user stack, a `mapped_info` page and a
  `files_struct` page. It also records the STACK, CONTEXT and SYSTEM regions.
- `do_fork` allocates a child. It shares the parent's CODE frames without a
  reference count and copies its DATA pages.
- `free_process`, called on exit, only marks the slot ZOMBIE.
- `do_wait` is the parent's reap. It frees the kernel stack, the STACK,
  CONTEXT and DATA pages, the `mapped_info` page and the page table. CODE is
  only unmapped.
- `realloc_process` is used by exec. It frees in the same way, then rebuilds
  the stack, context and system skeleton.
- The heap syscalls map pages at a global cursor `g_ufree_page`. These pages
  are not recorded in `mapped_info`.

**ELF loader** (`elf.c`).
- `elf_load` walks the program headers and maps one page per LOAD segment.
  It classifies each segment as CODE (R|X) or DATA (R|W).
- `load_bincode_from_host_elf` starts the first process.
- `load_shell_bincode_from_host_elf` is exec. It captures the argument
  strings, calls `realloc_process`, copies the strings to the new stack, and
  then loads the new program.

**Scheduler** (`sched.c`, not in this repository). It is a FIFO ready queue.
- `schedule` runs the head of the queue.
- With an empty queue, `schedule` shuts the machine down if every process is
  FREE or ZOMBIE, and panics otherwise.

**Files**. The layers are:
- `fs_init` runs `dev_init`, which registers `ramdisk0` in `vdev_list`, and
  then `rfs_init -> rfs_mount -> vfs_mount`, which formats the disk with
  `rfs_do_mount`. `Files` has one operator per function (`dev_init`,
  `vfs_mount`, `rfs_init`), and `FsInit` composes them in one step. The
  disk is an array of blocks. Blocks are read through `ramdisk0_output`.
- The struct types `struct file`, `struct files_struct` and
  `struct vfs_dev_t` appear in the type invariant as `Entry`, `FilesStruct`
  and `VfsDev`. Each keeps only the fields the model uses.
- Each process gets a `files_struct` from `files_create`. It holds copies of
  the host fds open at that moment.
- `do_open` goes through `vfs_open`. A path without `:` goes to `host_open`.
  A path `dev:/name` goes to `vfs_get_root` and then `rfs_lookup`.
- `sys_user_read` and `sys_user_write` loop over the user buffer. They cut
  it into pieces at page boundaries and hand each piece to `do_read` or
  `do_write`. `do_read`, `do_write` and `do_close` are stubs that return -1.

**How the parts interact.** Every syscall runs to completion on one hart, and
the timer interrupt only switches processes between syscalls. The models
therefore make each syscall one atomic action. Processes interact in these
ways:
- through the shared page pool;
- through CODE frames that fork shares;
- through the parent pointers that `do_wait` follows;
- through the ready queue;
- through the global host fd table.

## Modules

| module | models | state | actions |
|---|---|---|---|
| `Proc` | the process pool, address spaces, the ELF loader and the scheduler interface | `procs` (one record per slot: status, parent, trapframe, page table, kstack, `mapped_info` page, `files_struct` page, `mapped_info` as a sequence of regions, the page table as a set of `<<va, pa>>` pairs, `total_mem_count`); `current`; `ready`; `free`; `ufree`; `panicked`; and the history variables `forked`, `argvStale`, `dfree`, `codeFrames` | `Boot`, `Fork`, `Exit`, `Yield`, `Wait`, `Exec`, `AllocatePage`, `FreePage` |
| `Files` | the device list, the RAM disk, per-process file tables, the open path, and the read, write and close syscalls (EXTENDS `SysIO`) | `vdev`, `disk`, `spike` (host fd slots in use), `pfiles`, `panicked`, `lastIO` (arguments and result of the last read, write or close, and the bytes the file layer moved), and the history variable `oob` | `FsInit`, `Create` (the `files_create` of `alloc_process`), `Open`, `Read`, `Write`, `Close` |
| `SysIO` | the loop of `sys_user_read` / `sys_user_write`, as operators | none | `Piece` (one page-bounded piece), the RECURSIVE `RwLoop` (the whole loop), and the C conversions `ToU` and `ToSigned` at the widths `IntBits` and `UBits` |
| `ProcLifecycle` | what the pool promises (spec 4.2), without pages, segments or queue order | `status`, `parent`, `running`, `halted` | `Start`, `Spawn`, `Exit`, `Yield`, `Reap`, `Halt`, and `Dispatch` for the scheduler |
| `Shell` | the user programs `sh.c`, `createproc.c` and `cat.c` running on `Proc` (EXTENDS `Proc`) with the file layer (`F == INSTANCE Files`) | `Proc`'s and `Files`' variables (sharing `panicked`), plus `pc` (the point each slot's program is at), `cmd` (the command line the shell and its child hold), `ncmd` (lines read), `cpn` (createproc's loop counter), `catfd` and `catn` (cat's `fd` and `n`) | `ShFsInit`, `ShBoot`, `ShGetline`, `ShFork`, `ShWait`, `ChildParse`, `ChildRun`, `CatOpen`, `CatRead`, `CatWrite`, `CatClose`, `CatExit`, `CpFork`, `CpExit`, `Spin`, `Timer` |
| `MC_Proc`, `MC_Files`, `MC_Shell` | constants for TLC | | |

The helpers have the names of the functions they translate:
- `alloc_process`, `free_process`, `realloc_process`, `elf_load`;
- `do_fork`, `do_wait`, `do_exec` and `switch_to`. The syscall actions
  `Fork`, `Wait` and `Exec` are the `sys_user_*` wrappers that call them for
  the current process;
- `rfs_do_mount`, `rfs_lookup`, `vfs_open`, `host_open`, `files_create`.

Every guard, early return and panic of the code is present. A panic sets
`panicked`, and no action is enabled after that.

Inputs are drawn from constant sets. `sys_user_free_page` frees whatever
address the program passes, with no check. `FreePage` therefore ranges over
the constant `FreeVAs`:
- `proc_main` passes the heap pages that `naive_malloc` returned
  (`MCFreeHeap`). The repository's own programs never call `naive_free`, so
  its five memory invariants are stated for programs that free only their
  heap pages.
- `proc_free` passes the program's text address (`MCFreeCode`), and shows
  what an unchecked address does.
- What `user_vm_unmap` (`vmm.c`, not in this repository) does with an address
  that has no mapping is not modelled. `lookup_pa` of such an address is 0.

The data is abstracted as follows:
- Pages are the integers `1..NPAGES`. `alloc_page` takes the lowest free page.
  Free pages are interchangeable, so this choice loses no behaviour of the
  properties.
- Virtual addresses are model values, plus the tuples `<<"tf", page>>` (the
  trapframe, mapped at its own address) and `<<"heap", k>>`.
- ELF headers are reduced to type, flags, address and the three checks that
  `elf_load` makes.
- Disk blocks are records. Paths are reduced to what `get_device` and
  `rfs_lookup` tell apart.

A VIEW hides the dead fields of FREE slots.

**Refinement.** `Proc` defines `Lifecycle == INSTANCE ProcLifecycle WITH ...`.
The mapping takes each slot's `status` and `parent`, `current` as the running
process, and `panicked # "none"` as `halted`. `LifecycleRefined ==
Lifecycle!Spec` is checked as a property. Under this mapping:
- `Fork` is `Spawn`, or `Halt` when the pool or the page pool is exhausted.
- `Exit` and `Yield` are the abstract `Exit` and `Yield`, each followed by
  `Dispatch`.
- `Wait` is `Reap`.
- `Exec` and the heap calls are stuttering steps, or `Halt` when they panic.

**Composition.** In `Shell`, each step of a program is the syscall it makes,
as the `Proc` action of that syscall. The step also includes the user code
that runs up to the next syscall:
- `mysh` reads a line; `exit` ends the shell, and any other line goes on to
  `fork`.
- The child runs `parsecmd`, whose `execcmd` calls `naive_malloc`, which is
  `AllocatePage`. It then runs `runcmd`. An empty line, or a line with a
  parse error, exits. Anything else is `exec`.
- The parent calls `wait(-1)` once, whatever it returns.
- `createproc` forks `nproc = 2` children. Each child spins and exits, and the
  parent exits after the loop.
- `cat` with no argument exits. Otherwise it opens its argument, a host
  path, with `F!OpenPath`. It exits if the fd is negative. Otherwise it
  reads with `F!ReadCall`, writes `n` bytes to fd 1 with `F!WriteCall`,
  closes with `F!Close`, and exits.
- `fs_init` (`ShFsInit`) runs before the first process is loaded.
  `alloc_process`, at boot and in `fork`, gives the new slot a fresh
  `files_struct` from `F!files_create` (`NewFiles`).
- `Timer` is the timer interrupt. It is `Yield` of the running program.

## Runs

| run | checks | result |
|---|---|---|
| `proc_main` (with `naive_free` of heap pages only) | `TypeOK`, `NoUseAfterFree`, `OnlyCodeShared`, `MappedInfoMatchesPageTable`, `NoDoubleFree`, `RunnableHaveCode`, `LifecycleRefined` | passes: about 520k distinct states, about 2 min. The pool refines the abstract lifecycle. exec tears down the old image before it opens the new program. A failed exec (missing program, or a host file that is not an ELF) therefore always stops the kernel, and never leaves a READY or RUNNING process without code. |
| `proc_orphan` | `ReapOnlyOwnChildren` (action property) | violated: a process reusing a reaped parent's slot reaps that parent's child |
| `proc_argv` | `ExecArgsFromLivePages` | violated: exec reads argv from pages it freed |
| `proc_leak` | `NoLeakedPages` | violated: the `files_struct` page is never freed |
| `proc_free` | `OnlyCodeShared` | violated: after `fork`, the parent frees its text page with `naive_free`. The frame its child still runs returns to the pool, and the next `naive_malloc` maps it as a writable heap page. |
| `shell_main` | `ShTypeOK`, `ReadyEventuallyRuns` (liveness), `ReapOnlyOwnChildren`, `SessionEnds` (liveness) | passes: about 17k distinct states, about 1.5 min. Under timer fairness every READY process runs, and the session ends with `schedule` shutting the machine down. With the repository's own programs, the stale parent pointers behind `proc_orphan` are never followed. |
| `shell_reap` | `ShellReapsBeforeNextCommand` | violated: `wait(-1)` returns -2 before the child exits, and the shell reads the next line; its zombies then fill the pool and `fork` panics |
| `shell_fdleak` | `HostFdsReleased` | violated: `cat` closes its file, but `do_close` is a stub, so the host fd slot stays taken after `cat` exits. Each `cat` of a session uses up one slot for good. Once they are gone, `cat` of an existing file fails and `do_open` writes `ofile[-1]`. |
| `files_main` | `TypeOK`, `HostEntriesAreOpen` | passes: about 35k distinct states, 10 s. Every FD_HOST entry of a process's table names a host fd that is still open, across `files_create` and `do_open` by two processes and the read, write and close syscalls. |
| `files_nfile` | `NFileCountsEntries` | violated: a failed host open writes `ofile[-1]` and counts it |
| `files_rfslookup` | `RfsLookupReturns` | violated: `rfs_lookup` uses a block number as a pointer |
| `files_ioret` | `ReturnCountsTransferred` | violated: when `do_read` fails with -1, `i += r` makes `i` equal -1. The test `i < count` reads -1 as a huge unsigned value and ends the loop. `read` then returns `count`, and `cat` writes `count` bytes it never read. |

An exec of a program the host cannot open panics the kernel (`elf.c:225`).
Spec 4.4 says this failure is fatal. Spec 7 calls it reportable, and `sh.c`
prints "exec failed". The code follows 4.4, so no run states the contrary. The
`Shell` model reaches the panic with the command `missing`.

Every property of a passing run has a mutant in `PROJECT.json`. A mutant is a
plausible bug in the definition that translates the code, and TLC finds the
property violated once the mutant is in place. The findings section of
`PROJECT.json` says what each violation means for the code.

## Bounds

**`MC_Proc`**
- `NPROC = 3`. This is enough for a grandchild, which the orphan trace needs,
  and for a full pool.
- `NPAGES = 19`. This is the smallest pool that lets three processes be alive
  at once: the text-only program takes 7 pages at boot, and each fork takes
  6 more. A smaller pool hides the three-process interleavings.
- Page exhaustion is still reached by exec and fork, and panics, as in the
  code.
- `MaxHeap = 1` heap page. One heap page is enough to show that it is not
  recorded in `mapped_info`.
- There are three host files. One has text and data (the shell, `cat`). One
  has text only plus a non-LOAD header (`createproc`). The third is not an
  ELF file, so `elf_init` rejects it. Together with `NoImage` (a path the
  host cannot open), exec reaches both of its failures after the old image
  is gone.
- The violation runs use `NPAGES = 16` or `20` only to shorten their search.

**`MC_Shell`**
- `NPROC = 4`. With four slots, a `createproc` started by the shell can fork
  both of its children. With one unreaped child, the pool fills.
- `NPAGES = 30`. This is enough for the shell, a child and `createproc`'s two
  children to be alive together. A long enough session still runs out of
  pages and panics, as the code does.
- `MaxCmds = 2` command lines, then `exit`. Two lines are the fewest for a
  child that `wait` missed to still be alive at the next `fork`. Three lines
  take 10 minutes with the liveness check.
- `MaxHeap = 2`, one `naive_malloc` page per command.
- The commands are `cat`, `createproc`, an empty line, and a program the host
  cannot open. `cat`'s argument is a host file that exists, one that does
  not, or none.
- `MAX_FILES = 4`. Three slots are taken by the standard streams, so the
  second `cat` of an existing file already finds the table full.
  `RAMDISK0_BLOCK = 16` is enough for `rfs_do_mount`'s 13 blocks, and `cat`
  never reads the disk.
- `MAXBUF = 12` at `CatBufVA = 21`, with `PGSIZE = 8`, so `cat`'s buffer
  starts mid-page and spans two pages. It fits the 8-bit `int` of the model,
  as 512 fits a 32-bit one.

**`MC_Files`**
- Two processes.
- `MAX_FILES = 5`. Three slots are taken by stdin, stdout and stderr, so two
  host opens succeed before the table is full.
- `MAX_DEV = 2`. The code has 10; every slot after the first is NULL, so one
  NULL slot shows every behaviour.
- One host file that exists and one that does not.
- Two device names, and the paths `/`, `/f` and `f` on each.
- `MaxNFile = 7`. It bounds `nfile`, which failed opens increment without
  limit.
- `PGSIZE = 8`, `IntBits = 8` (the width of `int`) and `UBits = 12` (the
  width of `uint64` and `ssize_t`). TLC's integers are 32-bit, so the widths
  are scaled down. What matters is kept: an `int` is narrower than a `uint64`,
  and every count fits in an `int`.
- Buffers at 16 (page-aligned), 21 and 29 (mid-page). Counts 0, 2, 5 and 12.
  These give an empty call, a piece inside one page, a piece cut at the page
  end, and a buffer that spans two pages.

## Fairness

`Proc` and `Files` carry no fairness, because their runs check safety only.
`Shell`'s `Fairness` has three parts:
- **Weak fairness of `ShFsInit` and `ShBoot`.** The kernel's start-up runs
  `fs_init` and loads the shell unconditionally.
- **Weak fairness of `Timer(p)`.** The timer interrupt fires while a process
  runs, so the running process is eventually preempted.
- **Strong fairness of `Step(p)`.** A time slice is long enough for one
  syscall, so a process that runs again and again makes its next syscall.
  `Step(p)` is enabled only while `p` runs, and preemption disables it, so
  weak fairness would not be enough here.

The input is finite: after `MaxCmds` lines the user types `exit`. Fairness of
`getline` is therefore the assumption that the user keeps typing.

`SessionEnds` relies on the same finite input: the session ends because the
user eventually types `exit`. What it checks is everything after that. Every
program must reach `exit`, including `createproc`'s spinning children. No
process may be left in the ready queue. The last `exit` must find the pool
FREE or ZOMBIE, so that `schedule` shuts the machine down.

`ReadyEventuallyRuns` excludes runs in which the kernel stops on an error of
its own. Those errors are running out of pages or slots, and a program that
cannot be loaded. A `schedule` panic, which means a READY process is missing
from the queue, counts as a violation.

`CHECK_DEADLOCK FALSE` is set because the real machine stops: after a panic,
and when `schedule` finds the ready queue empty.

## Not modelled

- The string handling of the user programs: `gettoken`, `peek`,
  `nulterminate` and the argument lists. A command line is reduced to the
  kind that `runcmd` tells apart.
- Device paths as `cat`'s argument in `Shell`. Every open of a RAM-disk path
  panics, and the `files_*` runs show how.
- `do_getinfo`'s report. `MemReported` says what it prints, but no run
  checks it.
- Byte-level I/O: `sys_user_print`, `getline`, `host_read` and `host_write`.
- Trap entry and return (`strap.c`, outside `src/`).
- The contents of pages.
- Where the RAM disk lies in memory. This depends on the page order of
  `pmm.c`, which is not in this repository.
- An open of a path on an unregistered device. `vfs_get_root` dereferences
  the NULL `vdev_list` entry before its own check (`vfs.c:59`), and
  `Files` follows this as the `null_vdev` panic. No run checks it, because
  the twelve runs went to other findings.
- `naive_free` of a stack, data, trapframe or trap-section address. The
  later teardown of that region depends on `user_vm_unmap`'s treatment of an
  invalid page-table entry, and `vmm.c` is not in this repository.
- The read/write loop's split at page boundaries. `do_read` and `do_write`
  are stubs that return -1, so only the first piece is ever handed over.

## Plan for later work

In order of importance:
1. **The `files_struct` page in the composition.** `NewFiles` and `Proc`'s
   `alloc_process` both stand for `files_create`'s page. Tie them together so
   that the composition counts the leaked page.
2. **A shell that retries `wait`.** Check `ShellReapsBeforeNextCommand`
   against a corrected `mysh` that loops while `wait` returns -2. Also check
   the liveness property that every child is eventually reaped.
3. **`elf_load` against a reference.** Check `elf_load` over every header
   list of bounded length, including bad images and the search for a slot at
   vaddr 0.
