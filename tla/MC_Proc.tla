------------------------------- MODULE MC_Proc -------------------------------
(* Model of Proc for TLC: three pool slots, two programs.                 *)
EXTENDS Proc

CONSTANTS CodeVA, DataVA   \* the link addresses of the user programs

\* a program with a text and a data segment (app_shell, cat)
ShellImage == [magic |-> TRUE,
               phdrs |-> <<Phdr("LOAD", "RX", CodeVA), Phdr("LOAD", "RW", DataVA)>>]
\* a program with text only, and a non-LOAD header (createproc)
TextImage  == [magic |-> TRUE,
               phdrs |-> <<Phdr("LOAD", "RX", CodeVA), Phdr("NOTE", "RW", DataVA)>>]

\* a host file that is not an ELF executable
NotElfImage == [magic |-> FALSE, phdrs |-> <<>>]

MCImages == {ShellImage, TextImage, NotElfImage}

\* naive_free given the heap pages naive_malloc returned (the programs of
\* this repository never call it)
MCFreeHeap == HeapVAs
\* naive_free given the address of the program's text
MCFreeCode == {CodeVA}
=============================================================================
