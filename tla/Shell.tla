-------------------------------- MODULE Shell --------------------------------
(***************************************************************************)
(* The user programs of the repository running on the process pool:       *)
(*   src/user/sh.c          mysh: read a line, fork, the child runs it      *)
(*                          (runcmd), the parent calls wait(-1) once        *)
(*   src/user/createproc.c  fork nproc spinning children, then exit         *)
(*   src/user/cat.c         open, read, write and close a file, then exit   *)
(* Each process is at a point of its program (pc); a step is the syscall   *)
(* that point makes, as the Proc action of that syscall, together with the *)
(* user code up to the next syscall.  The timer may preempt the running    *)
(* process between any two syscalls.                                       *)
(*                                                                         *)
(* The file layer is Files, instantiated on the pool's slots: fs_init runs *)
(* before the first process is loaded, alloc_process (at boot and in       *)
(* fork) gives the new process a files_struct from files_create, and cat's *)
(* file calls are the Files actions of those syscalls.  Both share the     *)
(* kernel's panicked.                                                      *)
(***************************************************************************)
EXTENDS Proc

CONSTANTS
  ShImage,   \* the shell's executable, loaded at boot
  Progs,     \* program name -> its executable on the host
  MaxCmds,   \* command lines the user types before "exit" (model bound)
  NForks,    \* createproc's nproc when it is given no argument
  \* the file layer (see Files)
  MAX_FILES, MAX_DEV, RAMDISK0_BLOCK, RamDisk0, DevNames, HostNames, HostFiles,
  PGSIZE, IntBits, UBits,
  CatBufVA,  \* the address of cat's stack buffer buf
  MAXBUF     \* its size, the count cat passes to read

VARIABLES
  pc,        \* slot -> the point its program is at, "none" when it runs none
  cmd,       \* slot -> the command line it holds (the shell, and its child)
  ncmd,      \* command lines read so far
  cpn,       \* slot -> createproc's loop counter i
  catfd,     \* slot -> cat's fd, the result of its open
  catn,      \* slot -> cat's n, the result of its read
  \* the variables of Files
  vdev, disk, spike, pfiles, oob, lastIO

shellVars == <<pc, cmd, ncmd, cpn, catfd, catn>>
fileVars == <<vdev, disk, spike, pfiles, oob, lastIO>>
allVars == <<vars, shellVars, fileVars>>

F == INSTANCE Files WITH Procs <- Slots, MaxNFile <- MAX_FILES,
                         BufVAs <- {CatBufVA}, Counts <- {MAXBUF}

\* an empty line or a syntax error (runcmd exits without exec), a program
\* of the host, and a name the host cannot open
Cmds == {"empty", "missing"} \cup DOMAIN Progs
NoCmd == "-"
PCs == {"none", "getline", "fork", "wait", "parse", "run", "cp", "spin",
        "cat", "cat_read", "cat_write", "cat_close", "cat_exit"}

ImageOf(c) == IF c = "missing" THEN NoImage ELSE Progs[c]
\* the first point of the program exec starts
EntryOf(c) == IF c = "cat" THEN "cat" ELSE "cp"

\* the slot do_fork's alloc_process takes (process.c:104-106)
ChildSlot == Min({i \in Slots : procs[i].status = "FREE"})

\* the kernel stopped during the step; the programs' state no longer matters
Halts == panicked' # "none" /\ UNCHANGED <<shellVars, fileVars>>

\* alloc_process's files_struct for the slot it takes (process.c:161)
NewFiles(i) ==
  /\ pfiles' = [pfiles EXCEPT ![i] = F!files_create]
  /\ UNCHANGED <<vdev, disk, spike, oob, lastIO>>

ShInit ==
  /\ Init
  /\ pc = [i \in Slots |-> "none"]
  /\ cmd = [i \in Slots |-> NoCmd]
  /\ ncmd = 0
  /\ cpn = [i \in Slots |-> 0]
  /\ catfd = [i \in Slots |-> -1]
  /\ catn = [i \in Slots |-> 0]
  /\ F!Init

\* fs_init, called by the kernel's start-up before the first process
ShFsInit ==
  /\ F!FsInit
  /\ UNCHANGED <<vars, shellVars>>

\* load_bincode_from_host_elf of the shell: it starts at mysh's loop
ShBoot ==
  /\ F!Booted
  /\ BootImage(ShImage)
  /\ \/ Halts
     \/ /\ panicked' = "none"
        /\ pc' = [pc EXCEPT ![0] = "getline"]
        /\ NewFiles(0)
        /\ UNCHANGED <<cmd, ncmd, cpn, catfd, catn>>

\* Faulty variant of ShGetline: the shell leaves its loop without exiting.
ShGetlineNoExit(p) ==
  /\ Running(p) /\ pc[p] = "getline"
  /\ \/ /\ UNCHANGED vars
        /\ pc' = [pc EXCEPT ![p] = "none"]
        /\ cmd' = [cmd EXCEPT ![p] = NoCmd]
        /\ UNCHANGED <<ncmd, cpn, catfd, catn, fileVars>>
     \/ /\ ncmd < MaxCmds
        /\ \E c \in Cmds : cmd' = [cmd EXCEPT ![p] = c]
        /\ ncmd' = ncmd + 1
        /\ pc' = [pc EXCEPT ![p] = "fork"]
        /\ UNCHANGED <<vars, cpn, catfd, catn, fileVars>>

(* mysh (sh.c:233-238): getlineu, then isExit.  "exit" leaves the loop,  *)
(* and the shell's main exits; any other line goes on to fork.           *)
ShGetline(p) ==
  /\ Running(p) /\ pc[p] = "getline"
  /\ \/ /\ Exit(p)
        /\ pc' = [pc EXCEPT ![p] = "none"]
        /\ cmd' = [cmd EXCEPT ![p] = NoCmd]
        /\ UNCHANGED <<ncmd, cpn, catfd, catn, fileVars>>
     \/ /\ ncmd < MaxCmds
        /\ \E c \in Cmds : cmd' = [cmd EXCEPT ![p] = c]
        /\ ncmd' = ncmd + 1
        /\ pc' = [pc EXCEPT ![p] = "fork"]
        /\ UNCHANGED <<vars, cpn, catfd, catn, fileVars>>

(* mysh (sh.c:240-243): fork(); the child goes on in runcmd(parsecmd(buf))*)
(* with its copy of the line, the parent to wait.                         *)
ShFork(p) ==
  /\ Running(p) /\ pc[p] = "fork"
  /\ Fork(p)
  /\ \/ Halts
     \/ /\ panicked' = "none"
        /\ pc' = [pc EXCEPT ![p] = "wait", ![ChildSlot] = "parse"]
        /\ cmd' = [cmd EXCEPT ![ChildSlot] = cmd[p]]
        /\ NewFiles(ChildSlot)
        /\ UNCHANGED <<ncmd, cpn, catfd, catn>>

(* mysh (sh.c:244): wait(-1), once, whatever it returns: a ZOMBIE child  *)
(* is reaped; with none yet (-2) or no child (-1) nothing changes.       *)
ShWait(p) ==
  /\ Running(p) /\ pc[p] = "wait"
  /\ \/ Wait(p, -1)
     \/ /\ ~\E i \in Slots : procs[i].parent = p /\ procs[i].status = "ZOMBIE"
        /\ UNCHANGED vars
  /\ pc' = [pc EXCEPT ![p] = "getline"]
  /\ UNCHANGED <<cmd, ncmd, cpn, catfd, catn, fileVars>>

(* parsecmd -> parseexec -> execcmd (sh.c:73-80, 144-197): the command   *)
(* structure is a naive_malloc page.                                      *)
ChildParse(p) ==
  /\ Running(p) /\ pc[p] = "parse"
  /\ AllocatePage(p)
  /\ \/ Halts
     \/ /\ panicked' = "none"
        /\ pc' = [pc EXCEPT ![p] = "run"]
        /\ UNCHANGED <<cmd, ncmd, cpn, catfd, catn, fileVars>>

(* runcmd (sh.c:38-63): with no argv[0] (or after a parse panic, sh.c:65 *)
(* -68) the child exits; otherwise it execs the program, which starts at  *)
(* its main.                                                              *)
ChildRun(p) ==
  /\ Running(p) /\ pc[p] = "run"
  /\ \/ /\ cmd[p] = "empty"
        /\ Exit(p)
        /\ pc' = [pc EXCEPT ![p] = "none"]
        /\ cmd' = [cmd EXCEPT ![p] = NoCmd]
        /\ UNCHANGED <<ncmd, cpn, catfd, catn, fileVars>>
     \/ /\ cmd[p] # "empty"
        /\ ExecImage(p, ImageOf(cmd[p]))
        /\ \/ Halts
           \/ /\ panicked' = "none"
              /\ pc' = [pc EXCEPT ![p] = EntryOf(cmd[p])]
              /\ cmd' = [cmd EXCEPT ![p] = NoCmd]
              /\ cpn' = [cpn EXCEPT ![p] = 0]
              /\ UNCHANGED <<ncmd, catfd, catn, fileVars>>

(* cat's main (cat.c:4-18), given one argument, a host path, or none:    *)
(* with argc <= 1 it exits; otherwise it opens the file read-only, and    *)
(* exits when open returns a negative fd.                                 *)
CatOpen(p) ==
  /\ Running(p) /\ pc[p] = "cat"
  /\ \/ /\ Exit(p)
        /\ pc' = [pc EXCEPT ![p] = "none"]
        /\ UNCHANGED <<cmd, ncmd, cpn, catfd, catn, fileVars>>
     \/ \E a \in HostNames :
          LET path == [kind |-> "host", name |-> a]
              fd   == F!vfs_open(path).ret
          IN  /\ F!OpenPath(p, path, 0)
              /\ catfd' = [catfd EXCEPT ![p] = fd]
              /\ pc' = [pc EXCEPT ![p] = IF fd < 0 THEN "cat_exit" ELSE "cat_read"]
              /\ UNCHANGED <<vars, cmd, ncmd, cpn, catn>>

\* cat.c:20: n = read(fd, buf, MAXBUF), the result taken as an int
CatRead(p) ==
  /\ Running(p) /\ pc[p] = "cat_read"
  /\ F!ReadCall(p, CatBufVA, MAXBUF)
  /\ catn' = [catn EXCEPT ![p] = F!ToSigned(lastIO'.ret, IntBits)]
  /\ pc' = [pc EXCEPT ![p] = "cat_write"]
  /\ UNCHANGED <<vars, cmd, ncmd, cpn, catfd>>

\* cat.c:21: write(1, buf, n), with n passed as a uint64
CatWrite(p) ==
  /\ Running(p) /\ pc[p] = "cat_write"
  /\ F!WriteCall(p, CatBufVA, F!ToU(catn[p]))
  /\ pc' = [pc EXCEPT ![p] = "cat_close"]
  /\ UNCHANGED <<vars, cmd, ncmd, cpn, catfd, catn>>

\* cat.c:22: close(fd); with its one argument the loop then ends
CatClose(p) ==
  /\ Running(p) /\ pc[p] = "cat_close"
  /\ F!Close(p)
  /\ pc' = [pc EXCEPT ![p] = "cat_exit"]
  /\ UNCHANGED <<vars, cmd, ncmd, cpn, catfd, catn>>

\* cat.c:17 and 24: exit(0)
CatExit(p) ==
  /\ Running(p) /\ pc[p] = "cat_exit"
  /\ Exit(p)
  /\ pc' = [pc EXCEPT ![p] = "none"]
  /\ UNCHANGED <<cmd, ncmd, cpn, catfd, catn, fileVars>>

(* createproc's loop (createproc.c:15-21): fork a child that spins.       *)
CpFork(p) ==
  /\ Running(p) /\ pc[p] = "cp" /\ cpn[p] < NForks
  /\ Fork(p)
  /\ \/ Halts
     \/ /\ panicked' = "none"
        /\ pc' = [pc EXCEPT ![ChildSlot] = "spin"]
        /\ cpn' = [cpn EXCEPT ![p] = @ + 1]
        /\ NewFiles(ChildSlot)
        /\ UNCHANGED <<cmd, ncmd, catfd, catn>>

(* createproc.c:22: after the loop, exit(0)                               *)
CpExit(p) ==
  /\ Running(p) /\ pc[p] = "cp" /\ cpn[p] = NForks
  /\ Exit(p)
  /\ pc' = [pc EXCEPT ![p] = "none"]
  /\ UNCHANGED <<cmd, ncmd, cpn, catfd, catn, fileVars>>

\* Faulty variant of Spin: the child's busy loop never ends.
SpinForever(p) ==
  /\ Running(p) /\ pc[p] = "spin"
  /\ UNCHANGED allVars

(* createproc.c:17-20: the child spins, then exit(0)                      *)
Spin(p) ==
  /\ Running(p) /\ pc[p] = "spin"
  /\ Exit(p)
  /\ pc' = [pc EXCEPT ![p] = "none"]
  /\ UNCHANGED <<cmd, ncmd, cpn, catfd, catn, fileVars>>

\* the timer interrupt preempts the running program (strap.c)
Timer(p) ==
  /\ Yield(p)
  /\ UNCHANGED <<shellVars, fileVars>>

Step(p) ==
  \/ ShGetline(p) \/ ShFork(p) \/ ShWait(p) \/ ChildParse(p) \/ ChildRun(p)
  \/ CatOpen(p) \/ CatRead(p) \/ CatWrite(p) \/ CatClose(p) \/ CatExit(p)
  \/ CpFork(p) \/ CpExit(p) \/ Spin(p)

ShNext == ShFsInit \/ ShBoot \/ \E p \in Slots : Step(p) \/ Timer(p)

(* The timer fires while a process runs, so a running process is          *)
(* preempted eventually; a time slice is long enough for one syscall, so a *)
(* process that is run again and again makes its next syscall.  The       *)
(* kernel's start-up runs fs_init and loads the shell unconditionally.    *)
Fairness ==
  /\ WF_allVars(ShFsInit) /\ WF_allVars(ShBoot)
  /\ \A p \in Slots : WF_allVars(Timer(p)) /\ SF_allVars(Step(p))

ShSpec == ShInit /\ [][ShNext]_allVars /\ Fairness

\* the points at which cat holds an open fd
CatPCs == {"cat_read", "cat_write", "cat_close"}

-----------------------------------------------------------------------------
(* Invariants and properties.                                              *)

ShTypeOK ==
  /\ pc \in [Slots -> PCs]
  /\ cmd \in [Slots -> Cmds \cup {NoCmd}]
  /\ ncmd \in 0 .. MaxCmds
  /\ cpn \in [Slots -> 0 .. NForks]
  /\ catfd \in [Slots -> {-1} \cup F!FdIdx]
  /\ catn \in [Slots -> -(2 ^ (IntBits - 1)) .. 2 ^ (IntBits - 1) - 1]
  \* a slot runs a program exactly while it is READY or RUNNING
  /\ panicked = "none" =>
       \A i \in Slots : (pc[i] # "none") <=> procs[i].status \in {"READY", "RUNNING"}

\* the kernel stopped on an error of its own: out of pages or pool slots,
\* or a program it cannot load (not schedule finding no process to run
\* while one is still READY)
Stopped == panicked \notin {"none", "schedule"}

(* The ready queue loses no process: with the timer preempting the        *)
(* running program (sys_user_yield's insert_to_ready_queue then schedule), *)
(* every process that becomes READY, forked or preempted, eventually       *)
(* runs, unless the kernel stops on an error first.                       *)
ReadyEventuallyRuns ==
  \A i \in Slots : procs[i].status = "READY" ~> (procs[i].status = "RUNNING" \/ Stopped)

(* The session ends: the user's last line makes the shell exit, cat and   *)
(* createproc and its spinning children each reach exit(0), and schedule  *)
(* then finds every process FREE or ZOMBIE and shuts the machine down     *)
(* (current = NULL, with the shell, slot 0, a ZOMBIE nobody reaps),       *)
(* unless the kernel panics first.  No program is left running, or        *)
(* waiting to run, for ever.                                              *)
SessionEnds ==
  <>((current = NULL /\ procs[0].status = "ZOMBIE") \/ panicked # "none")

(* mysh runs one command at a time: when it reads the next line, the      *)
(* child it forked for the previous one has been reaped, so the pool      *)
(* holds no process of the shell (spec 4.2: do_wait's "no zombie yet"     *)
(* means the caller should block or retry).                               *)
ShellReapsBeforeNextCommand ==
  \A p \in Slots :
    pc[p] = "getline" =>
      ~\E i \in Slots : procs[i].parent = p /\ procs[i].status # "FREE"

(* A host fd stays in use only while a program holds it: the standard     *)
(* streams, and the fd a running cat has opened and not yet closed.       *)
(* cat's close(fd) (cat.c:22) gives the slot back to the spike fd table,  *)
(* so a session can cat files for as long as it likes.                    *)
HostFdsReleased ==
  spike \subseteq F!HostStd \cup {catfd[i] : i \in {j \in Slots : pc[j] \in CatPCs}}
====
