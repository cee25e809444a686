-------------------------------- MODULE Files --------------------------------
(* The file layer of the PKE kernel: the device list and RAM disk set up  *)
(* by fs_init (dev.c, rfs.c), the per-process open-file table created by  *)
(* files_create, and the open path do_open -> vfs_open -> vfs_lookup ->    *)
(* get_device -> vfs_get_root -> rfs_get_root / rfs_lookup, or host_open   *)
(* for a path without a device prefix (file.c, vfs.c, rfs.c, hostfs.c).    *)
(* The read, write and close syscalls go to do_read, do_write and        *)
(* do_close, stubs that return -1; their loop is SysIO's.  Syscalls run   *)
(* atomically on one hart.                                                *)
EXTENDS Integers, Sequences, SequencesExt, FiniteSets, SysIO

CONSTANTS
  Procs,          \* the processes that may call sys_user_open
  MAX_FILES,      \* entries of files_struct.ofile (and of the spike fd table)
  MAX_DEV,        \* entries of vdev_list
  RAMDISK0_BLOCK, \* blocks of RAM disk 0
  RamDisk0,       \* the device name "ramdisk0"
  DevNames,       \* device names a path may carry before its ':'
  HostNames,      \* names of host paths (no ':')
  HostFiles,      \* the host paths that exist
  MaxNFile,       \* bound on nfile, to keep the state space finite
  BufVAs,         \* user buffer addresses a program passes to read / write
  Counts,         \* byte counts it passes
  NULL

ASSUME /\ MAX_FILES >= 3 /\ MAX_DEV >= 1 /\ RamDisk0 \in DevNames
       /\ HostFiles \subseteq HostNames /\ MaxNFile \in Nat

VARIABLES
  vdev,      \* vdev_list: index -> NULL or [name, fs]
  disk,      \* RAM disk 0: block number -> block content
  spike,     \* the host fd slots in use (spike_fds / spike_files)
  pfiles,    \* process -> NULL or its files_struct [ofile, nfile]
  panicked,  \* "none", or why the kernel stopped
  oob,       \* ghost: do_open wrote a file entry outside ofile[]
  lastIO     \* the last read, write or close: its arguments and result

vars == <<vdev, disk, spike, pfiles, panicked, oob, lastIO>>

\* rfs.h, vfs.h
RFS_BLKN_SUPER == 0
RFS_BLKN_INODE == 1
RFS_BLKN_BITMAP == 11
RFS_BLKN_FREE == 12
RFS_MAX_INODE_NUM == 10
RFS_NDIRECT == 10
RFS_MAGIC == 12345
DirEntSize == 32                       \* sizeof(struct rfs_direntry)
T_FREE == 0
T_DIR == 2
T_FILE == 3
MASK_FILEMODE == 3
FdIdx == 0 .. MAX_FILES - 1
DevIdx == 0 .. MAX_DEV - 1
Blocks == 0 .. RAMDISK0_BLOCK - 1
HostStd == {0, 1, 2}                   \* stdin, stdout, stderr

\* Paths as get_device tells them apart: no ':' (host), or device:sub,
\* where sub is "/", "/f" (abs) or "f" (not abs).
SubPaths == [abs : BOOLEAN, name : {"", "f"}] \ {[abs |-> FALSE, name |-> ""]}
Paths == [kind : {"host"}, name : HostNames]
           \cup [kind : {"dev"}, dev : DevNames, sub : SubPaths]

DInode(type, size, nlinks, nblk, addr0) ==
  [kind |-> "dinode", type |-> type, size |-> size, nlinks |-> nlinks,
   blocks |-> nblk, addr0 |-> addr0]

\* rfs_w1block -> ramdisk0_input: write one block, panicking out of range.
ramdisk0_input(d, blkno, v) ==
  IF blkno \in Blocks THEN [d EXCEPT ![blkno] = v] ELSE d

\* rfs_do_mount (rfs.c:32-131): the blocks it writes, in order: the
\* superblock, the bitmap with the root directory's block marked, nine free
\* inodes, the root inode (ino 0, kept at block RFS_BLKN_INODE) and the root
\* directory block holding the entry "/".
rfs_do_mount(d) ==
  LET d1 == ramdisk0_input(d, RFS_BLKN_SUPER,
              [kind |-> "super", magic |-> RFS_MAGIC,
               size |-> 1 + RFS_MAX_INODE_NUM + 1 + RFS_MAX_INODE_NUM * RFS_NDIRECT,
               nblocks |-> RFS_MAX_INODE_NUM * RFS_NDIRECT,
               ninodes |-> RFS_MAX_INODE_NUM])
      d2 == ramdisk0_input(d1, RFS_BLKN_BITMAP, [kind |-> "bitmap", used |-> {0}])
      d3 == [b \in Blocks |->
               IF b \in RFS_BLKN_INODE + 1 .. RFS_BLKN_INODE + RFS_MAX_INODE_NUM - 1
               THEN DInode(T_FREE, 0, 0, 0, 0) ELSE d2[b]]
      d4 == ramdisk0_input(d3, RFS_BLKN_INODE,
                           DInode(T_DIR, DirEntSize, 1, 1, RFS_BLKN_FREE))
  IN  ramdisk0_input(d4, RFS_BLKN_FREE,
                     [kind |-> "dirent", inum |-> RFS_BLKN_INODE, name |-> "/"])

\* rfs_create_inode (rfs.c:185-207) with rfs_get_ops (rfs.c:324-332): an
\* in-memory inode copied from the disk inode din; a type that is neither a
\* directory nor a file panics.
rfs_create_inode(din, ino) ==
  IF din.kind = "dinode" /\ din.type \in {T_DIR, T_FILE}
  THEN [out |-> "ok", node |-> [din EXCEPT !.kind = "inode"] @@ [inum |-> ino]]
  ELSE [out |-> "bad_type", node |-> NULL]

\* rfs_r1block -> ramdisk0_output (rfs.c:132-135, dev.c:28-34): the block
\* blkno of the disk d (rfs only reads RFS_BLKN_INODE, inside the range).
ramdisk0_output(d, blkno) == d[blkno]

\* rfs_get_root -> rfs_load_dinode (rfs.c:151-179): the block read is
\* always RFS_BLKN_INODE, whatever inode number is asked for.
rfs_get_root == rfs_create_inode(ramdisk0_output(disk, RFS_BLKN_INODE), RFS_BLKN_INODE)

\* The scan of vdev_list in vfs_mount / vfs_get_root (vfs.c:32-36): the
\* index at which it stops.  vdev_list[i]->devname is read before the NULL
\* test, and a scan that matches nothing stops at the last index.
FindDev(v, name) ==
  LET stop == {i \in DevIdx : v[i] = NULL \/ v[i].name = name}
  IN  IF stop = {} THEN MAX_DEV - 1 ELSE Min(stop)

\* vfs_get_root (vfs.c:53-71); a NULL entry is dereferenced ("null_vdev").
vfs_get_root(name) ==
  LET k == FindDev(vdev, name)
  IN  IF vdev[k] = NULL THEN [out |-> "null_vdev", node |-> NULL]
      ELSE IF vdev[k].fs = NULL THEN [out |-> "null_fs", node |-> NULL]
      ELSE rfs_get_root

\* rfs_lookup (rfs.c:249-294): a path of "/" alone or not starting with
\* "/" panics.  The block number dnode->addrs[i] is used as
\* the address of the directory entries, so the first block read faults
\* ("bad_dirent"); only an empty directory answers 1 (not found).
rfs_lookup(node, sub) ==
  IF sub.abs /\ sub.name = "" THEN [out |-> "no_name", ret |-> 0]
  ELSE IF ~sub.abs THEN [out |-> "not_abs", ret |-> 0]
  ELSE IF node.blocks > 0 THEN [out |-> "bad_dirent", ret |-> 0]
  ELSE [out |-> "ok", ret |-> 1]

\* vfs_lookup with get_device (vfs.c:123-163): -1 for a host path, else
\* the result of vop_lookup on the device's root directory.
vfs_lookup(path) ==
  IF path.kind = "host" THEN [out |-> "ok", ret |-> -1]
  ELSE LET r == vfs_get_root(path.dev)
       IN  IF r.out # "ok" THEN [out |-> r.out, ret |-> 0]
           ELSE IF ~path.sub.abs THEN [out |-> "lookup_path", ret |-> 0]
           ELSE IF r.node.type # T_DIR THEN [out |-> "null_vop", ret |-> 0]
           ELSE rfs_lookup(r.node, path.sub)

\* host_open, mutated: the dup scan runs one slot past the table.
host_openPastEnd(name) ==
  LET freeFds == (0 .. MAX_FILES) \ spike
  IN  IF name \notin HostFiles \/ freeFds = {} THEN [kfd |-> -1, spike |-> spike]
      ELSE [kfd |-> Min(freeFds), spike |-> spike \cup {Min(freeFds)}]

\* host_open (hostfs.c:7-17): -1 when the host has no such file, or when
\* spike_file_dup finds no free fd slot; else the lowest free slot, now in
\* use.  The spike table is outside this repository: a slot's index is
\* taken to be its kfd, as files_create's check i != kfd expects.
host_open(name) ==
  LET freeFds == FdIdx \ spike
  IN  IF name \notin HostFiles \/ freeFds = {} THEN [kfd |-> -1, spike |-> spike]
      ELSE [kfd |-> Min(freeFds), spike |-> spike \cup {Min(freeFds)}]

\* vfs_open (vfs.c:76-110): the host fd for a host path; otherwise 0 with
\* *inode_store set to the local `node`, which rfs_lookup only assigns when
\* it finds the name ("uninit" when it answered 1).
vfs_open(path) ==
  LET lk == vfs_lookup(path)
  IN  IF lk.out # "ok" THEN [out |-> lk.out, ret |-> 0, spike |-> spike]
      ELSE IF lk.ret = -1
      THEN LET h == host_open(path.name)
           IN  [out |-> "ok", ret |-> h.kfd, spike |-> h.spike]
      ELSE [out |-> "ok", ret |-> 0, node |-> "uninit", spike |-> spike]

NoneEntry == [status |-> "FD_NONE", fd |-> -1]

\* files_create (file.c:111-139), mutated: the kfd == -1 test dropped.
files_createAll ==
  [ofile |-> [i \in FdIdx |-> [status |-> "FD_HOST", fd |-> i]],
   nfile |-> MAX_FILES]

\* files_create (file.c:111-139): the host fds open at creation are copied
\* in as FD_HOST entries and counted in nfile; every other entry is FD_NONE.
files_create ==
  [ofile |-> [i \in FdIdx |-> IF i \in spike THEN [status |-> "FD_HOST", fd |-> i]
                                               ELSE NoneEntry],
   nfile |-> Cardinality(spike \cap FdIdx)]

\* no read, write or close has run yet
NoIO == [call |-> "none", buf |-> 0, cnt |-> 0, ret |-> 0, moved |-> 0]

Init ==
  /\ vdev = [i \in DevIdx |-> NULL]
  /\ disk = [b \in Blocks |-> "garbage"]
  /\ spike = HostStd
  /\ pfiles = [p \in Procs |-> NULL]
  /\ panicked = "none"
  /\ oob = FALSE
  /\ lastIO = NoIO

Booted == vdev[0] # NULL

\* dev_init (dev.c:45-89): init_ramdisk0 allocates the disk's pages (left
\* as garbage), dev_init_ramdisk0 registers ramdisk0 in vdev_list[0].
dev_init(v) == [v EXCEPT ![0] = [name |-> RamDisk0, fs |-> NULL]]

\* vfs_mount (vfs.c:28-48): the device entry found by the scan gets the
\* file system the mount function made; its result is ignored.
vfs_mount(v, devname) ==
  LET k == FindDev(v, devname) IN [v EXCEPT ![k].fs = "rfs"]

\* rfs_init -> rfs_mount (rfs.c:14-22): mount rfs on "ramdisk0".
rfs_init(v) == vfs_mount(v, RamDisk0)

\* fs_init (file.c:16-19): dev_init then rfs_init, whose rfs_do_mount
\* formats the disk.
FsInit ==
  /\ ~Booted
  /\ vdev' = rfs_init(dev_init(vdev))
  /\ disk' = rfs_do_mount([b \in Blocks |-> "garbage"])
  /\ UNCHANGED <<spike, pfiles, panicked, oob, lastIO>>

(* alloc_process (process.c:161) gives the slot a fresh files_struct;     *)
(* the one the slot had before is dropped.                                *)
Create(p) ==
  /\ Booted /\ panicked = "none"
  /\ pfiles' = [pfiles EXCEPT ![p] = files_create]
  /\ UNCHANGED <<vdev, disk, spike, panicked, oob, lastIO>>

(* sys_user_open -> do_open (file.c:28-86) by process p.  A non-zero     *)
(* vfs_open result is taken as a host fd and written to ofile[fd], -1    *)
(* included; 0 means a RAM-disk inode, for which a free entry is sought  *)
(* and vop_fstat is called on the node.                                   *)
OpenPath(p, path, mode) ==
  /\ Booted /\ panicked = "none" /\ pfiles[p] # NULL
  /\ LET r  == vfs_open(path)
         pf == pfiles[p]
         fd == r.ret
         freeFd == {i \in FdIdx : pf.ofile[i].status = "FD_NONE"}
     IN  \/ /\ mode = MASK_FILEMODE
            /\ panicked' = "open_flags"
            /\ UNCHANGED <<pfiles, spike, oob>>
         \/ /\ mode # MASK_FILEMODE /\ r.out # "ok"
            /\ panicked' = r.out
            /\ UNCHANGED <<pfiles, spike, oob>>
         \/ /\ mode # MASK_FILEMODE /\ r.out = "ok" /\ fd # 0
            /\ spike' = r.spike
            /\ pfiles' = [pfiles EXCEPT ![p] =
                 [ofile |-> IF fd \in FdIdx
                            THEN [pf.ofile EXCEPT ![fd] = [status |-> "FD_HOST", fd |-> fd]]
                            ELSE pf.ofile,
                  nfile |-> pf.nfile + 1]]
            /\ oob' = (oob \/ fd \notin FdIdx)
            /\ UNCHANGED panicked
         \/ /\ mode # MASK_FILEMODE /\ r.out = "ok" /\ fd = 0
            /\ panicked' = IF freeFd = {} THEN "no_file_entry" ELSE "bad_inode"
            /\ UNCHANGED <<pfiles, spike, oob>>
  /\ UNCHANGED <<vdev, disk, lastIO>>

\* sys_user_open with any path and flags, while nfile is under its bound
Open(p) ==
  /\ pfiles[p] # NULL /\ pfiles[p].nfile < MaxNFile
  /\ \E path \in Paths, mode \in 0 .. 3 : OpenPath(p, path, mode)

\* a process of the pool, running: the syscalls below act for it
Live(p) == Booted /\ panicked = "none" /\ pfiles[p] # NULL

(* sys_user_read (syscall.c:123-134) by process p: the whole loop, which   *)
(* ignores the fd and the open-file table.                                *)
ReadCall(p, b, c) ==
  /\ Live(p)
  /\ lastIO' = [call |-> "read", buf |-> b, cnt |-> c]
                @@ RwLoop("read", b, c, 0, [ret |-> 0, moved |-> 0])
  /\ UNCHANGED <<vdev, disk, spike, pfiles, panicked, oob>>

\* sys_user_write (syscall.c:139-150)
WriteCall(p, b, c) ==
  /\ Live(p)
  /\ lastIO' = [call |-> "write", buf |-> b, cnt |-> c]
                @@ RwLoop("write", b, c, 0, [ret |-> 0, moved |-> 0])
  /\ UNCHANGED <<vdev, disk, spike, pfiles, panicked, oob>>

\* read and write with any of the buffers and counts
Read(p) == \E b \in BufVAs, c \in Counts : ReadCall(p, b, c)
Write(p) == \E b \in BufVAs, c \in Counts : WriteCall(p, b, c)

(* sys_user_close (syscall.c:155-157): do_close's result; the host fd and *)
(* the table entry stay as they are.                                      *)
Close(p) ==
  /\ Live(p)
  /\ lastIO' = [NoIO EXCEPT !.call = "close", !.ret = do_close]
  /\ UNCHANGED <<vdev, disk, spike, pfiles, panicked, oob>>

Next ==
  \/ FsInit
  \/ \E p \in Procs : Create(p) \/ Open(p) \/ Read(p) \/ Write(p) \/ Close(p)

Spec == Init /\ [][Next]_vars
\* struct file: its status and fd (the offset, access bits, reference count
\* and inode of an FD_OPENED file are not kept)
Entry == [status : {"FD_HOST", "FD_NONE", "FD_OPENED"}, fd : {-1} \cup FdIdx]

\* struct files_struct: the ofile table and its count nfile (cwd is unused)
FilesStruct == [ofile : [FdIdx -> Entry], nfile : 0 .. MaxNFile]

\* struct vfs_dev_t: the device name and the file system mounted on it
VfsDev == [name : DevNames, fs : {NULL, "rfs"}]

TypeOK ==
  /\ vdev \in [DevIdx -> {NULL} \cup VfsDev]
  /\ spike \subseteq FdIdx
  /\ pfiles \in [Procs -> {NULL} \cup FilesStruct]
  /\ panicked \in {"none", "open_flags", "null_vdev", "null_fs", "bad_type", "no_name",
                   "not_abs", "lookup_path", "null_vop", "bad_dirent", "no_file_entry",
                   "bad_inode"}
  /\ oob \in BOOLEAN
  /\ lastIO.call \in {"none", "read", "write", "close"}
  /\ lastIO.ret \in -(2 ^ (UBits - 1)) .. 2 ^ (UBits - 1) - 1

(* Every FD_HOST entry of every process's table, whether copied in by    *)
(* files_create or written by do_open, names a host fd that is open.     *)
HostEntriesAreOpen ==
  \A p \in Procs : pfiles[p] # NULL =>
    \A i \in FdIdx : pfiles[p].ofile[i].status = "FD_HOST" =>
                       pfiles[p].ofile[i].fd \in spike

(* nfile, which do_open increments on every open, counts the entries of  *)
(* ofile[] that are in use.                                               *)
NFileCountsEntries ==
  \A p \in Procs : pfiles[p] # NULL =>
    pfiles[p].nfile = Cardinality({i \in FdIdx : pfiles[p].ofile[i].status # "FD_NONE"})

(* rfs_lookup answers 0 (found) or 1 (not found) for a name under the     *)
(* root directory, as its header comment says, instead of faulting.       *)
RfsLookupReturns == panicked # "bad_dirent"

(* A read or write tells the program how many bytes were transferred, or *)
(* that it failed (a negative result): the count cat uses as its data    *)
(* length (cat.c:20-21) is the count the file layer moved.               *)
ReturnCountsTransferred ==
  lastIO.call \in {"read", "write"} => (lastIO.ret = lastIO.moved \/ lastIO.ret < 0)
====
