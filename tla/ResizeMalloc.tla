---------------------------- MODULE ResizeMalloc ----------------------------
(***************************************************************************)
(* ResizeMallocPass::run on one function: collect the calls that are       *)
(* recognised as memory allocations, then enlarge their constant sizes to  *)
(* the next multiple of a page (src/lib/passes/resize-malloc).             *)
(***************************************************************************)
EXTENDS Integers, Sequences

CONSTANTS
  Page,       \* 0x2000
  Word,       \* 2^64, the arithmetic the pass computes in
  Modulus,    \* Modulus[t]: number of values of integer type t
  SizeType,   \* the integer type that create_type gives ir_types::Size
  Dynamic,    \* stands for an argument that is not a constant
  Functions   \* the functions the pass is run on: sequences of calls

IntTypes == {"i16", "i32", "i64"}

(* The real widths are powers of two of at least 2^16.                     *)
ASSUME PageAssumption == Page \in Nat \ {0}
ASSUME WidthAssumption ==
  /\ SizeType \in IntTypes
  /\ Modulus \in [IntTypes -> Nat \ {0}]
  /\ \A t \in IntTypes : \E k \in 1..Modulus[t] : Modulus[t] = Page * k
  /\ Word \in Nat \ {0} /\ \E k \in 1..Word : Word = Page * k
  /\ \A t \in IntTypes : Modulus[t] <= Word
ASSUME DynamicAssumption == Dynamic \notin Nat

Types == IntTypes \cup {"ptr"}

(* A call: the name and linkage of its callee ("" for an indirect call),   *)
(* the callee's parameter types, and the arguments.                        *)
CallInst ==
  [name : STRING, external : BOOLEAN, sig : Seq(Types),
   args : Seq(Nat \cup {Dynamic})]

ASSUME FunctionsAssumption ==
  \A f \in Functions :
    /\ f \in Seq(CallInst)
    /\ \A i \in 1..Len(f) : Len(f[i].args) = Len(f[i].sig)

VARIABLES
  optnone,  \* is the function marked optnone?
  given,    \* the calls of the function, before the pass
  code,     \* and as they are now
  phase,    \* "collect", "rewrite", "done" or "abort"
  pos,      \* the call that collecting has come to
  work      \* memAllocCalls: indices of the recognised calls

vars == <<optnone, given, code, phase, pos, work>>

(* The allocation functions, with the parameter types the pass asks for... *)
Proto ==
  [malloc             |-> <<SizeType>>,
   CoTaskMemAlloc     |-> <<SizeType>>,
   _Znwm              |-> <<SizeType>>,
   MSVCNew            |-> <<SizeType>>,   \* ??2@YAPEAX_K@Z
   calloc             |-> <<SizeType, SizeType>>,
   mmap               |-> <<"ptr", SizeType, "i32", "i32", "i32", SizeType>>,
   VirtualAlloc       |-> <<"ptr", SizeType, "i32", "i32">>,
   VirtualAllocEx     |-> <<"ptr", "ptr", SizeType, "i32", "i32">>,
   VirtualAllocExNuma |-> <<"ptr", SizeType, "i32", "i32", "i32">>,
   HeapAlloc          |-> <<"ptr", "i32", SizeType>>,
   GlobalAlloc        |-> <<"ptr", SizeType>>,
   LocalAlloc         |-> <<"ptr", SizeType>>]

(* Mutant: the positions of all but calloc are one too far.                *)
SizeArgTooFar ==
  [malloc |-> 2, CoTaskMemAlloc |-> 2, _Znwm |-> 2, MSVCNew |-> 2,
   calloc |-> 2, mmap |-> 3, LocalAlloc |-> 3, GlobalAlloc |-> 3,
   VirtualAlloc |-> 3,
   VirtualAllocEx |-> 4, VirtualAllocExNuma |-> 4, HeapAlloc |-> 4]

(* ... and the position of the size among their arguments.                 *)
SizeArg ==
  [malloc |-> 1, CoTaskMemAlloc |-> 1, _Znwm |-> 1, MSVCNew |-> 1,
   calloc |-> 2, mmap |-> 2, LocalAlloc |-> 2, GlobalAlloc |-> 2,
   VirtualAlloc |-> 2,
   VirtualAllocEx |-> 3, VirtualAllocExNuma |-> 3, HeapAlloc |-> 3]

Allocators == DOMAIN Proto

(* create_type<R(Args...)>: the parameter list is a fold over the comma    *)
(* operator, whose value is the type of the last parameter alone.          *)
CreatedType(params) == <<params[Len(params)]>>

(* is_mem_alloc, not None.                                                 *)
Recognised(c) ==
  /\ c.name \in Allocators
  /\ c.external
  /\ c.sig = CreatedType(Proto[c.name])

Init ==
  /\ optnone \in BOOLEAN
  /\ given \in Functions /\ code = given
  /\ phase = "collect" /\ pos = 1 /\ work = <<>>

(* optnone functions are left alone.                                       *)
Skip ==
  /\ phase = "collect" /\ pos = 1 /\ optnone
  /\ phase' = "done"
  /\ UNCHANGED <<optnone, given, code, pos, work>>

(* Mutant: the call after the recognised one is remembered.                *)
CollectNext ==
  /\ phase = "collect" /\ ~ optnone /\ pos <= Len(code)
  /\ work' = IF Recognised(code[pos]) THEN Append(work, pos + 1) ELSE work
  /\ pos' = pos + 1
  /\ UNCHANGED <<optnone, given, code, phase>>

(* Remember the next call if it is recognised.                             *)
Collect ==
  /\ phase = "collect" /\ ~ optnone /\ pos <= Len(code)
  /\ work' = IF Recognised(code[pos]) THEN Append(work, pos) ELSE work
  /\ pos' = pos + 1
  /\ UNCHANGED <<optnone, given, code, phase>>

EndCollect ==
  /\ phase = "collect" /\ ~ optnone /\ pos > Len(code)
  /\ phase' = "rewrite"
  /\ UNCHANGED <<optnone, given, code, pos, work>>

(* The arguments the pass looks at, up to the first that is not constant.  *)
Inspected(c) ==
  IF c.name = "calloc"
  THEN IF c.args[1] = Dynamic THEN {1} ELSE {1, SizeArg[c.name]}
  ELSE {SizeArg[c.name]}

(* getArgOperand asserts that the call has the argument.                   *)
MissingArgument(c) == \E i \in Inspected(c) : i > Len(c.args)

(* What the call allocates, as far as the pass can tell.                   *)
MemSize(c) ==
  IF \E i \in Inspected(c) : c.args[i] = Dynamic THEN 0
  ELSE IF c.name = "calloc" THEN (c.args[1] * c.args[SizeArg[c.name]]) % Word
  ELSE c.args[SizeArg[c.name]]

(* Mutant: the remainder is added instead of completed to a page.          *)
EnlargedByRemainder(n) == (n + (n % Page)) % Word

(* Mutant: the size is rounded down.                                       *)
RoundedDown(n) == n - (n % Page)

(* The next multiple of a page, in 64 bits.                                *)
Enlarged(n) == (n + (Page - (n % Page))) % Word

(* ConstantInt::get of that size in the type of the argument.              *)
NewSize(c) ==
  Enlarged(MemSize(c)) % Modulus[c.sig[SizeArg[c.name]]]

Resized(c) ==
  IF MemSize(c) = 0 THEN c
  ELSE IF c.name = "calloc"
       THEN [c EXCEPT !.args = [@ EXCEPT ![1] = 1,
                                         ![SizeArg["calloc"]] = NewSize(c)]]
       ELSE [c EXCEPT !.args = [@ EXCEPT ![SizeArg[c.name]] = NewSize(c)]]

Rewrite ==
  /\ phase = "rewrite" /\ work # <<>>
  /\ LET i == Head(work) IN
       IF MissingArgument(code[i])
       THEN phase' = "abort" /\ UNCHANGED <<code, work>>
       ELSE /\ code' = [code EXCEPT ![i] = Resized(code[i])]
            /\ work' = Tail(work)
            /\ UNCHANGED phase
  /\ UNCHANGED <<optnone, given, pos>>

EndRewrite ==
  /\ phase = "rewrite" /\ work = <<>>
  /\ phase' = "done"
  /\ UNCHANGED <<optnone, given, code, pos, work>>

Terminated == phase \in {"done", "abort"} /\ UNCHANGED vars

Next ==
  Skip \/ Collect \/ EndCollect \/ Rewrite \/ EndRewrite \/ Terminated

Spec == Init /\ [][Next]_vars

-----------------------------------------------------------------------------
TypeOK ==
  /\ optnone \in BOOLEAN
  /\ given \in Seq(CallInst) /\ code \in Seq(CallInst)
  /\ Len(code) = Len(given)
  /\ phase \in {"collect", "rewrite", "done", "abort"}
  /\ pos \in 1..(Len(code) + 1)
  /\ work \in Seq(1..Len(code))

(* resize-malloc.cpp:293 "Adjust the memory size to be a multiple of 8KB": *)
(* whatever the width of the size argument, and even where the sum or the  *)
(* truncation wraps around, a size that was changed is such a multiple.    *)
SizesArePages ==
  \A i \in DOMAIN code : code[i].args # given[i].args =>
    code[i].args[SizeArg[code[i].name]] % Page = 0

(* Unless the request is within a page of the largest value of its type, a *)
(* changed size is larger than what was asked for, by at most a page.      *)
EnoughIsAllocated ==
  \A i \in DOMAIN code :
    LET asked == MemSize(given[i])
        got == code[i].args[SizeArg[code[i].name]]
    IN  /\ code[i].args # given[i].args
        /\ asked + Page < Modulus[code[i].sig[SizeArg[code[i].name]]]
        => asked < got /\ got <= asked + Page

(* A function that declares the allocators as the pass expects them never  *)
(* makes the pass ask a call for an argument that it does not have.        *)
ExpectedPrototypesNeverAbort ==
  (\A i \in DOMAIN given :
      given[i].name \in Allocators => given[i].sig = Proto[given[i].name])
  => phase # "abort"

(* What the code says and does not do.                                     *)

(* resize-malloc.cpp:271 "Special handling for calloc() since it uses two  *)
(* arguments": the size of a calloc with constant arguments is enlarged.   *)
CallocIsResized ==
  phase = "done" /\ ~ optnone =>
    \A i \in DOMAIN given :
      /\ given[i].name = "calloc" /\ given[i].external
      /\ given[i].sig = Proto["calloc"]
      /\ Dynamic \notin {given[i].args[1], given[i].args[2]}
      /\ MemSize(given[i]) > 0
      => code[i].args[1] = 1 /\ code[i].args[2] = NewSize(given[i])

=============================================================================
