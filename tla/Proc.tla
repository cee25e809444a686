-------------------------------- MODULE Proc --------------------------------
(***************************************************************************)
(* The process pool and address-space lifecycle of the PKE kernel:        *)
(*   src/kernel/process.c  alloc_process, free_process, realloc_process,   *)
(*                         do_fork, do_wait, do_exec                       *)
(*   src/kernel/elf.c      elf_load, load_bincode_from_host_elf,           *)
(*                         load_shell_bincode_from_host_elf                *)
(*   src/kernel/syscall.c  the syscalls that reach them                    *)
(*                                                                         *)
(* Physical pages are the integers 1..NPAGES; the frame allocator (pmm.c,  *)
(* not in this repository) hands out the smallest free page.  A page       *)
(* table is the set of its <<va, pa>> leaf mappings.  Every segment        *)
(* records one page (npages = 1 everywhere in the code).  Syscalls run     *)
(* atomically: the kernel has one hart and no syscall here blocks.         *)
(***************************************************************************)
EXTENDS Integers, Sequences, SequencesExt, FiniteSets

CONSTANTS
  NPROC,      \* size of procs[] (config.h)
  NPAGES,     \* physical pages available to the kernel (model bound)
  MaxHeap,    \* values g_ufree_page may take (model bound)
  Images,     \* executable files the host can open
  NoImage,    \* a path that spike_file_open cannot open
  NULL,       \* the null process pointer
  StackVA,    \* USER_STACK_TOP - PGSIZE
  TrapSecVA,  \* trap_sec_start, the S-mode trap vector (kernel text)
  FreeVAs     \* the addresses user programs pass to naive_free

ASSUME NPROC \in Nat \ {0} /\ NPAGES \in Nat /\ MaxHeap \in Nat

VARIABLES
  procs,      \* procs[NPROC], the process pool
  current,    \* the running process, or NULL
  ready,      \* the ready queue of sched.c
  free,       \* the free physical pages
  ufree,      \* g_ufree_page, as an index of the heap virtual pages
  panicked,   \* "none" or the site of the kernel panic that stopped it
  \* history variables, used only by the properties
  forked,     \* <<p, c>>: the living p forked the living c
  argvStale,  \* an exec copied its arguments from a page it had freed
  dfree,      \* some page was freed while it was already free
  codeFrames  \* pages ever loaded as CODE (never freed, by design)

vars == <<procs, current, ready, free, ufree, panicked,
          forked, argvStale, dfree, codeFrames>>

Slots == 0 .. NPROC - 1        \* procs[i].pid = i
Pages == 1 .. NPAGES
NoPage == 0
TrapSecPA == -1                \* trap_sec_start: kernel text, not a pool page
TfVA(pg) == <<"tf", pg>>       \* the trapframe is mapped at its own address
HeapVA(k) == <<"heap", k>>     \* USER_FREE_ADDRESS_START + k * PGSIZE
HeapVAs == {HeapVA(k) : k \in 0 .. MaxHeap - 1}

Status == {"FREE", "READY", "RUNNING", "BLOCKED", "ZOMBIE"}
Kinds == {"STACK", "CONTEXT", "SYSTEM", "CODE", "DATA"}
Region(va, kind) == [va |-> va, kind |-> kind]

(***************************************************************************)
(* An image is its ELF header's magic check and its program headers.  A    *)
(* header's sizes are abstracted to the three checks elf_load makes.       *)
(***************************************************************************)
Phdr(type, flags, va) ==
  [type |-> type, flags |-> flags, va |-> va,
   memsz_lt_filesz |-> FALSE, wraps |-> FALSE, big |-> FALSE]

-----------------------------------------------------------------------------
(* Helpers on pages and page tables.                                       *)

\* k successive alloc_page() calls when F is free: the k smallest pages of F
AllocFrom(F, k) ==
  SubSeq(SelectSeq([n \in 1 .. NPAGES |-> n], LAMBDA n : n \in F), 1, k)

\* lookup_pa(pagetable, va): 0 when va has no valid mapping
LookupPA(m, va) ==
  IF \E e \in m : e[1] = va
  THEN CHOOSE pa \in {e[2] : e \in {x \in m : x[1] = va}} : TRUE
  ELSE NoPage

\* freeing the pages of list L, in order, frees a page that is free already
DoubleFree(L) ==
  \E i \in DOMAIN L : L[i] \in free \/ \E j \in DOMAIN L : j # i /\ L[j] = L[i]

\* the pages user_vm_unmap(..., 1) frees while tearing down mapped_info
\* (process.c:186-203 and 349-366: STACK, CONTEXT and DATA are freed,
\* CODE is only unmapped, SYSTEM is left alone)
\* Faulty variant of FreedRegionPages: the SYSTEM (trap vector) region freed.
FreedRegionPagesWithSystem(p) ==
  LET owned(r) == r.kind \in {"STACK", "CONTEXT", "DATA", "SYSTEM"}
  IN  [k \in 1 .. Len(SelectSeq(p.mapped_info, owned)) |->
         LookupPA(p.pt_map, SelectSeq(p.mapped_info, owned)[k].va)]

\* Faulty variant of FreedRegionPages: CODE grouped with the freed kinds.
FreedRegionPagesWithCode(p) ==
  LET owned(r) == r.kind \in {"STACK", "CONTEXT", "DATA", "CODE"}
  IN  [k \in 1 .. Len(SelectSeq(p.mapped_info, owned)) |->
         LookupPA(p.pt_map, SelectSeq(p.mapped_info, owned)[k].va)]

FreedRegionPages(p) ==
  LET owned(r) == r.kind \in {"STACK", "CONTEXT", "DATA"}
  IN  [k \in 1 .. Len(SelectSeq(p.mapped_info, owned)) |->
         LookupPA(p.pt_map, SelectSeq(p.mapped_info, owned)[k].va)]

UnmappedVAs(p) ==
  {r.va : r \in {p.mapped_info[k] : k \in DOMAIN p.mapped_info}}
    \ {TrapSecVA}

\* mapped_info[0..2] and the page table alloc_process builds
BaseInfo(tf) ==
  <<Region(StackVA, "STACK"), Region(TfVA(tf), "CONTEXT"),
    Region(TrapSecVA, "SYSTEM")>>
BaseMap(tf, stk) ==
  {<<StackVA, stk>>, <<TfVA(tf), tf>>, <<TrapSecVA, TrapSecPA>>}

-----------------------------------------------------------------------------
(* alloc_process (process.c:100-166) on the chosen FREE slot p, with the   *)
(* pages pg = trapframe, pagetable, kstack, user stack, mapped_info,       *)
(* files_struct, in the order the code allocates them.                     *)
alloc_process(p, pg) ==
  [p EXCEPT !.total_mem_count = 0,
            !.trapframe = pg[1], !.pagetable = pg[2], !.kstack = pg[3],
            !.info_page = pg[5], !.mapped_info = BaseInfo(pg[1]),
            !.pt_map = BaseMap(pg[1], pg[4]), !.pfiles = pg[6]]

\* elf_init (elf.c:49-59): the ELF header's magic is checked; the header
\* of an image is whole, so the short read (EL_EIO) does not occur
elf_init(img) == IF img.magic THEN "EL_OK" ELSE "EL_NOTELF"

\* elf_alloc_mb (elf.c:23-35): the next page of avail, mapped at va; an
\* empty avail is the panic, which the callers rule out beforehand
elf_alloc_mb(m, va, avail) == [pa |-> Head(avail), map |-> m \cup {<<va, Head(avail)>>}]

\* elf_load (elf.c:64-103): the loop over the program headers, with the
\* pages avail for elf_alloc_mb.  Every error status makes the caller panic.
RECURSIVE elf_load(_, _, _, _)
elf_load(ph, info, m, avail) ==
  IF ph = <<>> THEN [st |-> "EL_OK", info |-> info, map |-> m, used |-> {}]
  ELSE LET h == Head(ph) IN
    IF h.type # "LOAD" THEN elf_load(Tail(ph), info, m, avail)
    ELSE IF h.memsz_lt_filesz \/ h.wraps
      THEN [st |-> "EL_ERR", info |-> info, map |-> m, used |-> {}]
    \* kassert(size < PGSIZE), or a segment neither R|X nor R|W
    ELSE IF h.big \/ h.flags \notin {"RX", "RW"}
      THEN [st |-> "PANIC", info |-> info, map |-> m, used |-> {}]
    ELSE LET mb == elf_alloc_mb(m, h.va, avail)
             kind == IF h.flags = "RX" THEN "CODE" ELSE "DATA"
             r == elf_load(Tail(ph), Append(info, Region(h.va, kind)),
                           mb.map, Tail(avail))
         IN  [r EXCEPT !.used = @ \cup {mb.pa}]

LoadedCode(info, m) ==
  {LookupPA(m, info[k].va) : k \in {j \in DOMAIN info : info[j].kind = "CODE"}}

\* insert_to_ready_queue (sched.c, not in this repository)
Enqueue(q, p) == IF \E k \in DOMAIN q : q[k] = p THEN q ELSE Append(q, p)

\* switch_to (process.c:51-80): proc becomes current; the rest sets the
\* trap vector, the trapframe's kernel fields and sstatus/sepc, and returns
\* to user mode, none of which the model keeps.
switch_to(proc) == current' = proc

\* schedule() (sched.c, not in this repository) after the caller left the
\* pool as P and the queue as q: run the head, or stop the machine.
Schedule(P, q) ==
  IF q = <<>>
  THEN /\ procs' = P /\ ready' = q /\ current' = NULL
       /\ panicked' = IF \E i \in Slots : P[i].status \notin {"FREE", "ZOMBIE"}
                      THEN "schedule" ELSE panicked
  ELSE /\ procs' = [P EXCEPT ![Head(q)].status = "RUNNING"]
       /\ ready' = Tail(q) /\ switch_to(Head(q))
       /\ UNCHANGED panicked

\* the pages user code can address: everything but the trapframe and trap vector
UserPages(p) ==
  {e[2] : e \in {x \in procs[p].pt_map :
                   x[1] \notin {TrapSecVA, TfVA(procs[p].trapframe)}}}

\* do_fork's loop (process.c:267-317) over the parent's mapped_info, adding
\* to the child ch; avail holds the pages alloc_page() returns for DATA.
\* Faulty variant of AddRegion: the mapping without its mapped_info record.
AddRegionUnrecorded(ch, va, kind, pa) ==
  [ch EXCEPT !.pt_map = @ \cup {<<va, pa>>}]

AddRegion(ch, va, kind, pa) ==
  [ch EXCEPT !.pt_map = @ \cup {<<va, pa>>},
             !.mapped_info = Append(@, Region(va, kind))]

\* Faulty variant of CopyRegions: DATA mapped to the parent's frame, as CODE is.
RECURSIVE CopyRegionsSharingData(_, _, _, _)
CopyRegionsSharingData(regs, pm, ch, avail) ==
  IF regs = <<>> THEN ch
  ELSE LET r == Head(regs) IN
    IF r.kind \in {"CODE", "DATA"}
    THEN CopyRegionsSharingData(Tail(regs), pm,
           AddRegion(ch, r.va, r.kind, LookupPA(pm, r.va)), avail)
    ELSE CopyRegionsSharingData(Tail(regs), pm, ch, avail)

RECURSIVE CopyRegions(_, _, _, _)
CopyRegions(regs, pm, ch, avail) ==
  IF regs = <<>> THEN ch
  ELSE LET r == Head(regs) IN
    CASE r.kind = "CODE" ->
           CopyRegions(Tail(regs), pm, AddRegion(ch, r.va, "CODE", LookupPA(pm, r.va)), avail)
      [] r.kind = "DATA" ->
           CopyRegions(Tail(regs), pm, AddRegion(ch, r.va, "DATA", Head(avail)), Tail(avail))
      \* CONTEXT and STACK copy page contents only; SYSTEM is already mapped
      [] OTHER -> CopyRegions(Tail(regs), pm, ch, avail)

-----------------------------------------------------------------------------
Init ==
  /\ procs = [i \in Slots |->                       \* init_proc_pool
               [status |-> "FREE", parent |-> NULL, trapframe |-> NoPage,
                pagetable |-> NoPage, kstack |-> NoPage, info_page |-> NoPage,
                mapped_info |-> <<>>, pt_map |-> {}, pfiles |-> NoPage,
                total_mem_count |-> 0]]
  /\ current = NULL
  /\ ready = <<>>
  /\ free = Pages
  /\ ufree = 0
  /\ panicked = "none"
  /\ forked = {}
  /\ argvStale = FALSE
  /\ dfree = FALSE
  /\ codeFrames = {}

Running(p) == panicked = "none" /\ current = p

\* alloc_page() with fewer than need free pages: allocator exhaustion is
\* fatal (spec 7), so the kernel stops before the step completes.
OutOfPages(F, need) ==
  /\ Cardinality(F) < need
  /\ panicked' = "alloc_page"
  /\ UNCHANGED <<procs, current, ready, free, ufree, forked, argvStale, dfree, codeFrames>>

(* The first user process: alloc_process, load_bincode_from_host_elf       *)
(* (elf.c:134-167), insert_to_ready_queue and schedule.                    *)
BootImage(img) ==
  /\ panicked = "none" /\ current = NULL /\ ready = <<>>
  /\ \A i \in Slots : procs[i].status = "FREE"
  /\
       LET pg == AllocFrom(free, 6 + Len(img.phdrs))
           p0 == alloc_process(procs[0], pg)
           r  == elf_load(img.phdrs, p0.mapped_info, p0.pt_map,
                          SubSeq(pg, 7, Len(pg)))
       IN  /\ Cardinality(free) >= 6 + Len(img.phdrs)      \* NPAGES covers boot
           /\ UNCHANGED <<ufree, forked, argvStale, dfree>>
           /\ IF elf_init(img) # "EL_OK" \/ r.st # "EL_OK"
              THEN /\ panicked' = "elf"
                   /\ UNCHANGED <<procs, current, ready, free, codeFrames>>
              ELSE /\ Schedule([procs EXCEPT ![0] =
                                  [p0 EXCEPT !.status = "READY",
                                             !.mapped_info = r.info,
                                             !.pt_map = r.map]], <<0>>)
                   /\ free' = free \ (ToSet(SubSeq(pg, 1, 6)) \cup r.used)
                   /\ codeFrames' = codeFrames \cup LoadedCode(r.info, r.map)

Boot == \E img \in Images : BootImage(img)

\* do_fork (process.c:262-329): a child in the first FREE slot, with its
\* own copies of the parent's context and data, sharing its code.
do_fork(p) ==
  /\ LET FreeSlots == {i \in Slots : procs[i].status = "FREE"}
         par == procs[p]
         nData == Len(SelectSeq(par.mapped_info, LAMBDA r : r.kind = "DATA"))
     IN  IF FreeSlots = {}
         THEN /\ panicked' = "alloc_process"        \* process.c:107-110
              /\ UNCHANGED <<procs, current, ready, free, forked, ufree, argvStale,
                              dfree, codeFrames>>
         ELSE LET c  == Min(FreeSlots)
                  pg == AllocFrom(free, 6 + nData)
                  ch == CopyRegions(par.mapped_info, par.pt_map,
                                    alloc_process(procs[c], pg),
                                    SubSeq(pg, 7, Len(pg)))
              IN  \/ OutOfPages(free, 6 + nData)
                  \/ /\ Cardinality(free) >= 6 + nData
                     /\ UNCHANGED <<ufree, argvStale, dfree, codeFrames>>
                     /\ procs' = [procs EXCEPT ![c] =
                                    [ch EXCEPT !.status = "READY", !.parent = p,
                                      !.total_mem_count = Len(ch.mapped_info)]]
                     /\ ready' = Enqueue(ready, c)
                     /\ free' = free \ ToSet(pg)
                     /\ forked' = {e \in forked : c \notin {e[1], e[2]}} \cup {<<p, c>>}
                     /\ UNCHANGED <<current, panicked>>

\* sys_user_fork (syscall.c:67-70): do_fork of the current process
Fork(p) == Running(p) /\ do_fork(p)

\* Faulty variant of free_process: the record is released at once.
free_processToFree(P, p) == [P EXCEPT ![p].status = "FREE"]

(* free_process (process.c:171-179): only marks the record; its pages are *)
(* reclaimed by the parent's do_wait.                                     *)
free_process(P, p) == [P EXCEPT ![p].status = "ZOMBIE"]

(* sys_user_exit (syscall.c:35-41): free_process, then schedule()          *)
Exit(p) ==
  /\ Running(p)
  /\ Schedule(free_process(procs, p), ready)
  /\ UNCHANGED <<free, ufree, forked, argvStale, dfree, codeFrames>>

\* Faulty variant of Yield: the caller is marked READY but not queued.
YieldNoEnqueue(p) ==
  /\ Running(p)
  /\ Schedule([procs EXCEPT ![p].status = "READY"], ready)
  /\ UNCHANGED <<free, ufree, forked, argvStale, dfree, codeFrames>>

(* sys_user_yield, and the timer preemption of strap.c                     *)
Yield(p) ==
  /\ Running(p)
  /\ Schedule([procs EXCEPT ![p].status = "READY"], Enqueue(ready, p))
  /\ UNCHANGED <<free, ufree, forked, argvStale, dfree, codeFrames>>

\* Faulty variant of Wait: the parent pointer is not compared.
WaitAnyZombie(p, pid) ==
  /\ Running(p)
  /\ LET kids == {i \in Slots : procs[i].status # "FREE" /\ (pid <= 0 \/ pid = i)}
         zs   == {i \in kids : procs[i].status = "ZOMBIE"}
     IN  /\ zs # {}
         /\ LET i == Min(zs)
                c == procs[i]
                L == <<c.kstack>> \o FreedRegionPages(c) \o <<c.info_page, c.pagetable>>
            IN  /\ procs' = [procs EXCEPT ![i] =
                               [c EXCEPT !.status = "FREE", !.parent = NULL,
                                         !.total_mem_count = 0,
                                         !.pt_map = {e \in @ : e[1] \notin UnmappedVAs(c)}]]
                /\ free' = free \cup ToSet(L)
                /\ dfree' = dfree \/ DoubleFree(L)
                /\ forked' = {e \in forked : e[2] # i}
  /\ UNCHANGED <<current, ready, ufree, panicked, argvStale, codeFrames>>

(* do_wait (process.c:331-384): reap the first ZOMBIE child matching pid. *)
(* When none matches it returns -1 or -2 and changes nothing, a           *)
(* stuttering step.                                                        *)
do_wait(p, pid) ==
  /\ LET kids == {i \in Slots : procs[i].parent = p /\ (pid <= 0 \/ pid = i)}
         zs   == {i \in kids : procs[i].status = "ZOMBIE"}
     IN  /\ zs # {}
         /\ LET i == Min(zs)
                c == procs[i]
                L == <<c.kstack>> \o FreedRegionPages(c) \o <<c.info_page, c.pagetable>>
            IN  /\ procs' = [procs EXCEPT ![i] =
                               [c EXCEPT !.status = "FREE", !.parent = NULL,
                                         !.total_mem_count = 0,
                                         !.pt_map = {e \in @ : e[1] \notin UnmappedVAs(c)}]]
                /\ free' = free \cup ToSet(L)
                /\ dfree' = dfree \/ DoubleFree(L)
                /\ forked' = {e \in forked : e[2] # i}
  /\ UNCHANGED <<current, ready, ufree, panicked, argvStale, codeFrames>>

\* sys_user_wait (syscall.c:88-90): do_wait for the current process
Wait(p, pid) == Running(p) /\ do_wait(p, pid)

(* realloc_process (process.c:184-253), step 1: the pages it frees, in    *)
(* order: the STACK, CONTEXT and DATA regions, then the page table.        *)
ReallocFrees(c) == FreedRegionPages(c) \o <<c.pagetable>>

(* realloc_process, step 2: the record rebuilt on the pages pg = new       *)
(* trapframe, page table and user stack.  kstack, the mapped_info page    *)
(* and files_struct are kept; status and parent are left alone.           *)
realloc_process(c, pg) ==
  [c EXCEPT !.trapframe = pg[1], !.pagetable = pg[2],
            !.mapped_info = BaseInfo(pg[1]), !.pt_map = BaseMap(pg[1], pg[3]),
            !.total_mem_count = 3]

\* Faulty variant of exec_failure: the failure returns to the caller.
exec_failureReturns(img) == "none"

\* load_shell_bincode_from_host_elf (elf.c:223-229): a program that
\* spike_file_open cannot open, or whose header elf_init rejects, panics.
exec_failure(img) == IF img = NoImage THEN "exec_open" ELSE "elf"

(* sys_user_exec -> do_exec -> load_shell_bincode_from_host_elf           *)
(* (elf.c:172-241).  The argument strings are located by their physical  *)
(* addresses before realloc_process tears the old image down, and copied  *)
(* to the new stack after it.  Then the program is opened and loaded;     *)
(* every failure panics.                                                   *)
ExecImage(p, img) ==
  /\ Running(p)
  /\
       LET L   == ReallocFrees(procs[p])
           F   == free \cup ToSet(L)
           pg  == AllocFrom(F, 3)
           c1  == realloc_process(procs[p], pg)
           F1  == F \ ToSet(pg)
           nph == IF img = NoImage THEN 0 ELSE Len(img.phdrs)
           r   == elf_load(IF img = NoImage THEN <<>> ELSE img.phdrs,
                           c1.mapped_info, c1.pt_map, AllocFrom(F1, nph))
       IN  \/ OutOfPages(F, 3 + nph)
           \/ /\ Cardinality(F) >= 3 + nph
              /\ UNCHANGED <<current, ready, ufree, forked>>
              \* the strings may lie in any page the user can address
              /\ argvStale' = (argvStale \/ UserPages(p) \cap ToSet(L) # {})
              /\ dfree' = (dfree \/ DoubleFree(L))
              /\ IF img = NoImage \/ elf_init(img) # "EL_OK"
                 THEN /\ procs' = [procs EXCEPT ![p] = c1]
                      /\ free' = F1
                      /\ panicked' = exec_failure(img)
                      /\ UNCHANGED codeFrames
                 ELSE /\ procs' = [procs EXCEPT ![p] =
                                     [c1 EXCEPT !.mapped_info = r.info, !.pt_map = r.map]]
                      /\ free' = F1 \ r.used
                      /\ panicked' = IF r.st = "EL_OK" THEN "none" ELSE "elf"
                      /\ codeFrames' = codeFrames \cup LoadedCode(r.info, r.map)

\* do_exec (process.c:386-389): load the program argv[0] names, which
\* may be any image, or no program at all
do_exec(p) == \E img \in Images \cup {NoImage} : ExecImage(p, img)

\* sys_user_exec (syscall.c:107-110): do_exec; its result is ignored
Exec(p) == Running(p) /\ do_exec(p)

(* sys_user_allocate_page (syscall.c:46-54): map a fresh page at the      *)
(* global heap cursor.  It is not recorded in mapped_info.                 *)
AllocatePage(p) ==
  /\ Running(p)
  /\ ufree < MaxHeap
  /\ \/ OutOfPages(free, 1)
     \/ /\ free # {}
        /\ LET pa == Min(free) IN
             /\ procs' = [procs EXCEPT ![p].pt_map = @ \cup {<<HeapVA(ufree), pa>>}]
             /\ free' = free \ {pa}
        /\ ufree' = ufree + 1
        /\ UNCHANGED <<current, ready, panicked, forked, argvStale, dfree, codeFrames>>

\* Faulty variant of FreePage: the page is freed but stays mapped.
FreePageStillMapped(p) ==
  /\ Running(p)
  /\ \E va \in FreeVAs, e \in procs[p].pt_map :
       /\ e[1] = va
       /\ UNCHANGED procs
       /\ free' = free \cup {e[2]}
       /\ dfree' = (dfree \/ e[2] \in free)
  /\ UNCHANGED <<current, ready, ufree, panicked, forked, argvStale, codeFrames>>

(* sys_user_free_page (syscall.c:59-62): user_vm_unmap(pagetable, va,     *)
(* PGSIZE, 1) on whatever va the program passes, with no check that it is *)
(* a heap page: the page mapped at va is unmapped and freed, and          *)
(* mapped_info is left as it was.  What user_vm_unmap (vmm.c, not in this *)
(* repository) does with a va that has no mapping is not modelled.        *)
FreePage(p) ==
  /\ Running(p)
  /\ \E va \in FreeVAs, e \in procs[p].pt_map :
       /\ e[1] = va
       /\ procs' = [procs EXCEPT ![p].pt_map = @ \ {e}]
       /\ free' = free \cup {e[2]}
       /\ dfree' = (dfree \/ e[2] \in free)
  /\ UNCHANGED <<current, ready, ufree, panicked, forked, argvStale, codeFrames>>

Next ==
  \/ Boot
  \/ \E p \in Slots :
       \/ Fork(p) \/ Exit(p) \/ Yield(p) \/ Exec(p)
       \/ AllocatePage(p) \/ FreePage(p)
       \/ \E pid \in {-1} \cup Slots : Wait(p, pid)

Spec == Init /\ [][Next]_vars

(* Only status and parent of a FREE slot are ever read again (do_wait     *)
(* compares every slot's parent); alloc_process overwrites the rest.  TLC  *)
(* identifies states that differ only in those dead fields.               *)
View ==
  <<[i \in Slots |-> IF procs[i].status = "FREE"
                     THEN [status |-> "FREE", parent |-> procs[i].parent]
                     ELSE procs[i]],
    current, ready, free, ufree, panicked, forked, argvStale, dfree, codeFrames>>

-----------------------------------------------------------------------------
(* Invariants and properties.                                              *)

Live(i) == procs[i].status # "FREE"
RegionVAs(i) == {procs[i].mapped_info[k].va : k \in DOMAIN procs[i].mapped_info}
CodePages(i) ==
  {e[2] : e \in {x \in procs[i].pt_map :
     \E k \in DOMAIN procs[i].mapped_info :
        procs[i].mapped_info[k] = Region(x[1], "CODE")}}
\* every pool page a process holds: its kernel pages and its mapped pages
HeldPages(i) ==
  ({procs[i].trapframe, procs[i].pagetable, procs[i].kstack,
    procs[i].info_page, procs[i].pfiles}
     \cup {e[2] : e \in procs[i].pt_map}) \ {TrapSecPA}

TypeOK ==
  /\ DOMAIN procs = Slots
  /\ \A i \in Slots :
       /\ procs[i].status \in Status
       /\ procs[i].parent \in Slots \cup {NULL}
       /\ {procs[i].trapframe, procs[i].pagetable, procs[i].kstack,
           procs[i].info_page, procs[i].pfiles} \subseteq Pages \cup {NoPage}
       /\ procs[i].total_mem_count \in Nat
       /\ \A k \in DOMAIN procs[i].mapped_info :
            procs[i].mapped_info[k].kind \in Kinds
       /\ \A e \in procs[i].pt_map : e[2] \in Pages \cup {TrapSecPA}
  /\ current \in Slots \cup {NULL}
  /\ ready \in Seq(Slots)
  /\ free \subseteq Pages
  /\ ufree \in 0 .. MaxHeap
  /\ panicked \in {"none", "elf", "schedule", "alloc_process", "alloc_page", "exec_open"}

(* No live process (ZOMBIEs included: do_wait reclaims them) holds a page  *)
(* that is on the free list: not through its trapframe, page table,        *)
(* kernel stack, mapped_info or files_struct, nor through a page-table     *)
(* mapping.  Fork shares CODE frames without a reference count, and        *)
(* do_wait and realloc_process must never free one a sibling still maps.   *)
NoUseAfterFree ==
  \A i \in Slots : Live(i) => HeldPages(i) \cap free = {}

(* Two live processes share a page only when it is a CODE frame of both:   *)
(* do_fork copies DATA and the stack into fresh pages, and only CODE is    *)
(* aliased; a write through a shared DATA page would leak into the other.  *)
OnlyCodeShared ==
  \A i, j \in Slots :
    (i # j /\ Live(i) /\ Live(j)) =>
      HeldPages(i) \cap HeldPages(j) \subseteq CodePages(i) \cap CodePages(j)

(* The segment table of every live process describes exactly its page     *)
(* table, apart from the naive_malloc heap pages that syscall.c maps       *)
(* without a record: each region once, each mapped page by one region.     *)
(* do_wait and realloc_process unmap and free only what mapped_info names. *)
MappedInfoMatchesPageTable ==
  \A i \in Slots : Live(i) =>
    /\ RegionVAs(i) = {e[1] : e \in procs[i].pt_map} \ HeapVAs
    /\ Cardinality(RegionVAs(i)) = Len(procs[i].mapped_info)
    /\ \A e, f \in procs[i].pt_map : e[1] = f[1] => e = f

(* No handler frees a page that is already free (do_wait's kstack, region *)
(* and table frees; realloc_process's; sys_user_free_page).               *)
NoDoubleFree == ~dfree

(* do_wait reaps only a process that the caller itself forked.  parent is *)
(* a pointer to a pool slot; do_wait does not clear the parent pointers   *)
(* of the reaped process's own children.                                  *)
ReapOnlyOwnChildren ==
  [][\A i \in Slots :
       (procs[i].status = "ZOMBIE" /\ procs'[i].status = "FREE")
         => <<current, i>> \in forked]_vars

(* exec copies the argument strings from pages the process still owns:    *)
(* the spec (4.4) requires them captured before the old image is freed.   *)
ExecArgsFromLivePages == ~argvStale

(* do_getinfo (process.c:391-427) reports MEM = total_mem_count * 4 KiB.  *)
MemReported(i) == procs[i].total_mem_count * 4

(* Every allocated page is held by a live process, except CODE frames,    *)
(* which the design leaves unreclaimed: reaping and exec release all      *)
(* the other pages a process was given.                                   *)
NoLeakedPages ==
  \A pg \in Pages \ free :
    pg \in codeFrames \/ \E i \in Slots : Live(i) /\ pg \in HeldPages(i)

(* A process the scheduler may run has a program to run: while the kernel *)
(* has not stopped, every READY or RUNNING process has a CODE region that *)
(* its page table maps (every program of Images has a text segment).      *)
(* exec tears the old image down (elf.c:187) before it opens and checks   *)
(* the new program (elf.c:223-232); this says each failure after that     *)
(* point stops the kernel instead of returning to a process without code. *)
RunnableHaveCode ==
  panicked = "none" =>
    \A i \in Slots :
      procs[i].status \in {"READY", "RUNNING"} =>
        \E k \in DOMAIN procs[i].mapped_info :
          /\ procs[i].mapped_info[k].kind = "CODE"
          /\ \E e \in procs[i].pt_map : e[1] = procs[i].mapped_info[k].va

-----------------------------------------------------------------------------
(* The abstract lifecycle (ProcLifecycle) seen through the pool: a slot's  *)
(* status and parent pointer, the running process, and whether the kernel *)
(* has panicked.                                                           *)
Lifecycle == INSTANCE ProcLifecycle
               WITH status  <- [i \in Slots |-> procs[i].status],
                    parent  <- [i \in Slots |-> procs[i].parent],
                    running <- current,
                    halted  <- (panicked # "none")

(* Every step of the pool is a step of the process lifecycle of spec 4.2: *)
(* fork hands out only a FREE record, as the caller's child; exit turns   *)
(* the caller into a ZOMBIE; do_wait frees only a ZOMBIE child of the     *)
(* caller; schedule runs only a READY process; exec and the heap calls    *)
(* leave the lifecycle alone.                                             *)
LifecycleRefined == Lifecycle!Spec
=============================================================================
