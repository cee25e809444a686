------------------------------- MODULE MC_Shell -------------------------------
(* Model of Shell for TLC: the shell, cat and createproc on a small pool. *)
EXTENDS Shell

CONSTANTS CodeVA, DataVA,  \* the link addresses of the user programs
          hello, missing  \* a host file that exists, and one that does not

\* app_shell and cat: a text and a data segment
MCShImage == [magic |-> TRUE,
              phdrs |-> <<Phdr("LOAD", "RX", CodeVA), Phdr("LOAD", "RW", DataVA)>>]
\* createproc: text only, and a non-LOAD header
MCCpImage == [magic |-> TRUE,
              phdrs |-> <<Phdr("LOAD", "RX", CodeVA), Phdr("NOTE", "RW", DataVA)>>]

MCProgs == [c \in {"cat", "createproc"} |->
              IF c = "cat" THEN MCShImage ELSE MCCpImage]
MCHostNames == {hello, missing}
MCHostFiles == {hello}
=============================================================================
