------------------------------- MODULE MCHugeAlloc -------------------------------
(* An instance of HugeAlloc for TLC: classes of 4 to 32 bytes instead of 64    *)
(* bytes to 8 MB.                                                              *)
EXTENDS HugeAlloc

FourClasses == <<4, 8, 16, 32>>
ClassSizes == [c \in 0 .. 3 |-> FourClasses[c + 1]]
================================================================================
