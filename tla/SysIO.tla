-------------------------------- MODULE SysIO --------------------------------
(***************************************************************************)
(* The loop of the read and write system calls (src/kernel/syscall.c) over *)
(* the file operations of src/kernel/file.c, as operators: the whole loop  *)
(* runs inside one syscall, so the module Files takes its result in one    *)
(* step.                                                                    *)
(*                                                                         *)
(* sys_user_read and sys_user_write split the user buffer at page         *)
(* boundaries and hand each piece to do_read / do_write.  Their counter i  *)
(* is an int, the device result r and the sizes are uint64; C converts    *)
(* between them modulo 2^width.  The widths are constants: the model keeps *)
(* the conversions (an int is narrower than a uint64) at widths TLC can    *)
(* represent.                                                              *)
(***************************************************************************)
EXTENDS Integers

CONSTANTS
  PGSIZE,     \* page size
  IntBits,    \* width of int
  UBits       \* width of uint64 and ssize_t

ASSUME PGSIZE \in Nat \ {0} /\ IntBits \in Nat \ {0} /\ UBits >= IntBits

\* C's conversions: to an unsigned, and to a signed, integer of w bits
ToU(x) == x % (2 ^ UBits)
ToSigned(x, w) ==
  LET m == x % (2 ^ w) IN IF m >= 2 ^ (w - 1) THEN m - 2 ^ w ELSE m

\* the file operations of file.c: none is implemented yet
do_read(len) == -1
do_write(len) == -1
do_close == -1

\* the piece of the buffer buf of cnt bytes that starts at byte k
Piece(buf, cnt, k) ==
  LET addr == ToU(buf + ToU(k))
      off  == addr % PGSIZE
      rest == ToU(cnt - ToU(k))
  IN  [addr |-> addr, len |-> IF rest < PGSIZE - off THEN rest ELSE PGSIZE - off]

(* The loop of sys_user_read (op = "read") or sys_user_write from counter *)
(* k on, with acc what it has done so far: the value returned and the     *)
(* bytes the file layer moved.                                            *)
(* while (i < count) compares i as a uint64; i += r wraps to an int; a    *)
(* result shorter than the piece returns i, a finished loop count.        *)
RECURSIVE RwLoop(_, _, _, _, _)
RwLoop(op, buf, cnt, k, acc) ==
  IF ~(ToU(k) < cnt)
  THEN [acc EXCEPT !.ret = ToSigned(cnt, UBits)]
  ELSE LET p    == Piece(buf, cnt, k)
           res  == IF op = "read" THEN do_read(p.len) ELSE do_write(p.len)
           r    == ToU(res)
           k2   == ToSigned(ToU(k) + r, IntBits)
           acc2 == [acc EXCEPT !.moved = @ + (IF res >= 0 THEN res ELSE 0)]
       IN  IF r < p.len THEN [acc2 EXCEPT !.ret = k2]
           ELSE RwLoop(op, buf, cnt, k2, acc2)
====
