------------------------------ MODULE MCGuestCalls ------------------------------
(* Small instances of GuestCalls for TLC. *)
EXTENDS GuestCalls

CONSTANTS s1, s2, word

\* DefWindowProcA, and QueryPerformanceCounter, which returns 0 and so leaves its
\* argument on the guest's stack (FEKernel32DLL.m:169).
DefWindowProc == [declared |-> 4, returned |-> 4]
QueryPerformanceCounter == [declared |-> 1, returned |-> 0]

WithCounter == {DefWindowProc, QueryPerformanceCounter}
================================================================================
