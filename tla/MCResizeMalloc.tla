--------------------------- MODULE MCResizeMalloc ---------------------------
(* ResizeMalloc with small words: a page of 8, types of 16, 32 and 64      *)
(* values, and sizes on both sides of every boundary.                      *)
EXTENDS ResizeMalloc

MCModulus == [i16 |-> 16, i32 |-> 32, i64 |-> 64]

(* Zero, a page and its neighbours, and the ends of the types.             *)
SizesOf(t) ==
  {0, 1, 7, 8, 9} \cup {Modulus[t] - 9, Modulus[t] - 8, Modulus[t] - 1}
    \cup {Dynamic}

(* A call instruction.                                                     *)
Call(n, ext, s, a) == [name |-> n, external |-> ext, sig |-> s, args |-> a]

(* Every allocation function as the pass expects it to be declared.        *)
RealCalls ==
  UNION {{Call(n, TRUE, Proto[n], [i \in 1..Len(Proto[n]) |->
             IF i = SizeArg[n] THEN v ELSE w]) :
             v \in SizesOf(SizeType), w \in IF n = "calloc" THEN {0, 3, Dynamic} ELSE {1}} :
         n \in Allocators}

(* Declared with a single parameter, as K&R code may.                      *)
OddCalls ==
  {Call(n, TRUE, CreatedType(Proto[n]), <<v>>) :
     n \in {"calloc", "HeapAlloc", "VirtualAlloc"}, v \in {1, Dynamic}}

(* Calls that are no allocations, and an internal function named malloc.   *)
OtherCalls ==
  {Call("free", TRUE, <<"ptr">>, <<Dynamic>>),
   Call("malloc", FALSE, <<SizeType>>, <<7>>)}

MCFunctions ==
  {<<c>> : c \in RealCalls \cup OddCalls \cup OtherCalls}
    \cup {<<c, d>> : c \in {x \in RealCalls : x.name \in {"malloc", "calloc"}},
                     d \in RealCalls \cup OddCalls \cup OtherCalls}
=============================================================================
