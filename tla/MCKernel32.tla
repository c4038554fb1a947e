------------------------------ MODULE MCKernel32 -------------------------------
(* Small instances of Kernel32 for TLC. *)
EXTENDS Kernel32

\* One DLL that can be loaded, with a function the executable imports too.
OneProxy == [dll \in {"ddraw.dll"} |-> {"DirectDrawCreate", "DirectDrawEnumerateA"}]

\* The second import has no implementation.
TwoImports == {<<"ddraw.dll", "DirectDrawCreate">>, <<"winspool.drv", "OpenPrinterA">>}

\* A file of one unit that may be missing, and a path for a directory.
OneFile == [path \in {"master.dat"} |-> 1]
================================================================================
