------------------------- MODULE ResizeMallocProofs -------------------------
(***************************************************************************)
(* Proofs about ResizeMalloc for every page size, every word and type      *)
(* width that are multiples of a page, and every function.                 *)
(***************************************************************************)
EXTENDS ResizeMalloc, TLAPS

(* The sizes that are whole pages.                                         *)
IsPages(n) == n \in Nat /\ \E k \in Nat : n = Page * k

LEMMA PagesRemainder == ASSUME NEW n, IsPages(n) PROVE n % Page = 0
BY PageAssumption DEF IsPages

LEMMA Division ==
  ASSUME NEW n \in Nat, NEW d \in Nat \ {0}
  PROVE  /\ n = d * (n \div d) + (n % d)
         /\ n \div d \in Nat /\ n % d \in 0..(d - 1)
OBVIOUS

(* Before wrapping around, enlarging gives the next page, and more than    *)
(* what was asked for.                                                     *)
LEMMA NextPage ==
  ASSUME NEW n \in Nat
  PROVE  /\ IsPages(n + (Page - (n % Page)))
         /\ n < n + (Page - (n % Page))
         /\ n + (Page - (n % Page)) <= n + Page
<1> DEFINE q == n \div Page
           r == n % Page
<1>1. n = Page * q + r /\ q \in Nat /\ r \in Nat /\ r < Page
  BY PageAssumption, Division
<1> HIDE DEF q, r
<1>2. n + (Page - r) = Page * (q + 1)
  BY <1>1, PageAssumption
<1>3. q + 1 \in Nat /\ n + (Page - r) \in Nat
  BY <1>1, PageAssumption
<1>4. IsPages(n + (Page - r))
  BY <1>2, <1>3 DEF IsPages
<1>5. n < n + (Page - r) /\ n + (Page - r) <= n + Page
  BY <1>1, PageAssumption
<1> QED
  BY <1>4, <1>5 DEF r

(* Wrapping around at a multiple of a page keeps whole pages whole.        *)
LEMMA WrappedPages ==
  ASSUME NEW n, IsPages(n), NEW m \in Nat \ {0}, IsPages(m)
  PROVE  IsPages(n % m)
<1>1. PICK a \in Nat : n = Page * a
  BY DEF IsPages
<1>2. PICK b \in Nat : m = Page * b
  BY DEF IsPages
<1>3. n \in Nat
  BY DEF IsPages
<1>4. /\ n = m * (n \div m) + (n % m)
      /\ n \div m \in Nat /\ n % m \in 0..(m - 1)
  BY <1>3, Division
<1> DEFINE q == n \div m
           k == a - b * q
<1>5. q \in Nat /\ k \in Int
  BY <1>4
<1>6. n % m = Page * a - Page * b * q
  BY <1>1, <1>2, <1>4
<1>7. n % m = Page * k
  BY <1>5, <1>6, PageAssumption
<1>8. n % m \in Nat
  BY <1>4
<1>9. k \in Nat
  BY <1>5, <1>7, <1>8, PageAssumption
<1> QED
  BY <1>7, <1>8, <1>9 DEF IsPages

(* Whatever size the pass writes, it is whole pages.                       *)
LEMMA NewSizeIsPages ==
  ASSUME NEW c, MemSize(c) \in Nat, c.sig[SizeArg[c.name]] \in IntTypes
  PROVE  IsPages(NewSize(c))
<1> DEFINE m == Modulus[c.sig[SizeArg[c.name]]]
<1>1. m \in Nat \ {0} /\ IsPages(m)
  BY WidthAssumption DEF IsPages
<1>2. Word \in Nat \ {0} /\ IsPages(Word)
  BY WidthAssumption DEF IsPages
<1>3. IsPages(Enlarged(MemSize(c)))
  BY <1>2, NextPage, WrappedPages DEF Enlarged
<1> HIDE DEF m
<1>4. IsPages(Enlarged(MemSize(c)) % m)
  BY <1>1, <1>3, WrappedPages
<1> QED
  BY <1>4 DEF NewSize, m
-----------------------------------------------------------------------------
(* The calls keep everything but the values of their arguments, and those  *)
(* that were collected stay recognised.                                    *)
Kept ==
  \A i \in 1..Len(code) :
    /\ code[i].name = given[i].name /\ code[i].external = given[i].external
    /\ code[i].sig = given[i].sig
    /\ Len(code[i].args) = Len(code[i].sig)

Collected == \A j \in 1..Len(work) : Recognised(code[work[j]])

ResizeInv == TypeOK /\ Kept /\ Collected /\ SizesArePages

(* The last parameter decides alone what is recognised, so a recognised    *)
(* call has a single argument; where the pass finds the size it looks for, *)
(* that argument is the size.                                              *)
LEMMA RecognisedShape ==
  ASSUME NEW c \in CallInst, Recognised(c), Len(c.args) = Len(c.sig),
         ~ MissingArgument(c), MemSize(c) # 0
  PROVE  /\ c.name \in {"malloc", "CoTaskMemAlloc", "_Znwm", "MSVCNew"}
         /\ SizeArg[c.name] = 1 /\ c.sig = <<SizeType>> /\ Len(c.args) = 1
         /\ MemSize(c) = c.args[1] /\ c.args[1] \in Nat
<1>1. Len(c.sig) = 1
  BY DEF Recognised, CreatedType
<1>2. \A i \in Inspected(c) : i <= 1 /\ c.args[i] # Dynamic
  <2>1. \A i \in Inspected(c) : i \in Nat
    BY DEF Inspected, SizeArg, Recognised, Allocators, Proto
  <2> QED
    BY <1>1, <2>1 DEF MissingArgument, MemSize
<1>3. c.name # "calloc"
  BY <1>2 DEF Inspected, SizeArg
<1>4. SizeArg[c.name] <= 1 /\ c.args[SizeArg[c.name]] # Dynamic
  BY <1>2, <1>3 DEF Inspected
<1>5. c.name \in {"malloc", "CoTaskMemAlloc", "_Znwm", "MSVCNew"}
  BY <1>3, <1>4 DEF SizeArg, Recognised, Allocators, Proto
<1>6. SizeArg[c.name] = 1
  BY <1>5 DEF SizeArg
<1>7. c.sig = <<SizeType>>
  <2>1. Proto[c.name] = <<SizeType>>
    BY <1>5 DEF Proto
  <2>2. CreatedType(<<SizeType>>) = <<SizeType>>
    BY DEF CreatedType
  <2>3. c.sig = CreatedType(Proto[c.name])
    BY DEF Recognised
  <2> QED
    BY <2>1, <2>2, <2>3
<1>8. MemSize(c) = c.args[1]
  BY <1>2, <1>3, <1>6 DEF MemSize, Inspected
<1>9. c.args \in Seq(Nat \cup {Dynamic})
  BY DEF CallInst
<1> QED
  BY <1>1, <1>4, <1>5, <1>6, <1>7, <1>8, <1>9

(* Resizing such a call changes its argument to whole pages, and nothing   *)
(* else of it.                                                             *)
LEMMA ResizedCall ==
  ASSUME NEW c \in CallInst, Recognised(c), Len(c.args) = Len(c.sig),
         ~ MissingArgument(c), MemSize(c) # 0
  PROVE  /\ Resized(c) = [c EXCEPT !.args = <<NewSize(c)>>]
         /\ Resized(c) \in CallInst
         /\ NewSize(c) \in Nat /\ NewSize(c) % Page = 0
<1>1. /\ c.name # "calloc" /\ SizeArg[c.name] = 1 /\ c.sig = <<SizeType>>
      /\ Len(c.args) = 1 /\ MemSize(c) \in Nat
  BY RecognisedShape
<1>2. c.sig[SizeArg[c.name]] \in IntTypes
  BY <1>1, WidthAssumption
<1>3. IsPages(NewSize(c))
  BY <1>1, <1>2, NewSizeIsPages
<1>4. NewSize(c) \in Nat /\ NewSize(c) % Page = 0
  BY <1>3, PagesRemainder DEF IsPages
<1>5. c.args \in Seq(Nat \cup {Dynamic})
  BY DEF CallInst
<1>6. [c.args EXCEPT ![1] = NewSize(c)] = <<NewSize(c)>>
  BY <1>1, <1>5
<1>7. Resized(c) = [c EXCEPT !.args = [c.args EXCEPT ![1] = NewSize(c)]]
  BY <1>1 DEF Resized
<1>8. <<NewSize(c)>> \in Seq(Nat \cup {Dynamic})
  BY <1>4
<1>9. Resized(c) \in CallInst
  BY <1>6, <1>7, <1>8 DEF CallInst
<1> QED
  BY <1>4, <1>6, <1>7, <1>9
-----------------------------------------------------------------------------
(* Before the pass has done anything, no argument differs from the given.  *)
LEMMA ResizeInvInit == Init => ResizeInv
<1> SUFFICES ASSUME Init PROVE ResizeInv
  OBVIOUS
<1>1. /\ given \in Seq(CallInst) /\ code = given
      /\ \A i \in 1..Len(given) : Len(given[i].args) = Len(given[i].sig)
  BY FunctionsAssumption DEF Init
<1>2. TypeOK
  BY <1>1 DEF Init, TypeOK
<1>3. Kept /\ Collected /\ SizesArePages
  BY <1>1 DEF Init, Kept, Collected, SizesArePages
<1> QED
  BY <1>2, <1>3 DEF ResizeInv

(* Collecting appends a recognised call, rewriting takes the first one off *)
(* and gives it a size of whole pages; the other calls are left alone.     *)
LEMMA ResizeInvStep == ResizeInv /\ [Next]_vars => ResizeInv'
<1> SUFFICES ASSUME ResizeInv, [Next]_vars PROVE ResizeInv'
  OBVIOUS
<1> USE DEF ResizeInv
<1>0. /\ optnone \in BOOLEAN /\ given \in Seq(CallInst)
      /\ code \in Seq(CallInst) /\ Len(code) = Len(given) /\ Len(code) \in Nat
      /\ pos \in 1..(Len(code) + 1) /\ work \in Seq(1..Len(code))
      /\ phase \in {"collect", "rewrite", "done", "abort"}
  BY DEF TypeOK
<1>1. CASE Skip
  BY <1>1 DEF Skip, TypeOK, Kept, Collected, SizesArePages
<1>2. CASE Collect
  <2>1. TypeOK'
    <3>1. pos \in 1..Len(code) /\ pos' = pos + 1
      BY <1>0, <1>2 DEF Collect
    <3>2. work' \in Seq(1..Len(code))
      <4>1. Append(work, pos) \in Seq(1..Len(code))
        BY <1>0, <3>1
      <4> QED
        BY <1>0, <1>2, <4>1 DEF Collect
    <3>3. UNCHANGED <<optnone, given, code, phase>>
      BY <1>2 DEF Collect
    <3> QED
      BY <1>0, <3>1, <3>2, <3>3 DEF TypeOK
  <2>2. Collected'
    <3>1. CASE Recognised(code[pos])
      <4>1. work' = Append(work, pos) /\ code' = code
        BY <1>2, <3>1 DEF Collect
      <4>2. /\ Len(work') = Len(work) + 1 /\ work'[Len(work) + 1] = pos
            /\ \A j \in 1..Len(work) : work'[j] = work[j]
        BY <1>0, <4>1
      <4> QED
        BY <1>0, <3>1, <4>1, <4>2 DEF Collected
    <3>2. CASE ~ Recognised(code[pos])
      BY <1>2, <3>2 DEF Collect, Collected
    <3> QED
      BY <3>1, <3>2
  <2> QED
    BY <1>2, <2>1, <2>2 DEF Collect, Kept, SizesArePages
<1>3. CASE EndCollect
  BY <1>3 DEF EndCollect, TypeOK, Kept, Collected, SizesArePages
<1>4. CASE Rewrite
  <2> DEFINE i == Head(work)
             c == code[i]
  <2>1. /\ i \in 1..Len(code) /\ Recognised(c) /\ c \in CallInst
        /\ Len(c.args) = Len(c.sig)
    BY <1>0, <1>4 DEF Rewrite, Collected, Kept
  <2>2. CASE MissingArgument(c)
    BY <1>4, <2>2 DEF Rewrite, TypeOK, Kept, Collected, SizesArePages
  <2>3. CASE ~ MissingArgument(c)
    <3>1. /\ code' = [code EXCEPT ![i] = Resized(c)] /\ work' = Tail(work)
          /\ UNCHANGED <<optnone, given, phase, pos>>
      BY <1>4, <2>3 DEF Rewrite
    <3>2. /\ Resized(c) \in CallInst /\ Resized(c).name = c.name
          /\ Resized(c).external = c.external /\ Resized(c).sig = c.sig
          /\ Len(Resized(c).args) = Len(c.args)
          /\ Resized(c).args # c.args
               => Resized(c).args[SizeArg[c.name]] % Page = 0
      <4>1. CASE MemSize(c) = 0
        BY <2>1, <4>1 DEF Resized
      <4>2. CASE MemSize(c) # 0
        <5>1. /\ Resized(c) = [c EXCEPT !.args = <<NewSize(c)>>]
              /\ Resized(c) \in CallInst /\ NewSize(c) % Page = 0
          BY <2>1, <2>3, <4>2, ResizedCall
        <5>2. SizeArg[c.name] = 1 /\ Len(c.args) = 1
          BY <2>1, <2>3, <4>2, RecognisedShape
        <5> QED
          BY <2>1, <5>1, <5>2 DEF CallInst
      <4> QED
        BY <4>1, <4>2
    <3> HIDE DEF i, c
    <3>3. /\ code' \in Seq(CallInst) /\ Len(code') = Len(code)
          /\ \A k \in 1..Len(code) :
               code'[k] = IF k = i THEN Resized(c) ELSE code[k]
      BY <1>0, <2>1, <3>1, <3>2
    <3>4. /\ work' \in Seq(1..Len(code)) /\ Len(work') = Len(work) - 1
          /\ \A j \in 1..Len(work') : work'[j] = work[j + 1] /\ j + 1 \in 1..Len(work)
      BY <1>0, <1>4, <3>1 DEF Rewrite
    <3>5. TypeOK'
      BY <1>0, <3>1, <3>3, <3>4 DEF TypeOK
    <3>6. c = code[i]
      BY DEF c
    <3>7. Kept'
      BY <2>1, <3>1, <3>2, <3>3, <3>6 DEF Kept
    <3>8. \A k \in 1..Len(code) : Recognised(code[k]) => Recognised(code'[k])
      BY <3>2, <3>3, <3>6 DEF Recognised
    <3>9. Collected'
      <4> SUFFICES ASSUME NEW j \in 1..Len(work') PROVE Recognised(code'[work'[j]])
        BY DEF Collected
      <4>1. work'[j] = work[j + 1] /\ j + 1 \in 1..Len(work)
        BY <3>4
      <4>2. work[j + 1] \in 1..Len(code) /\ Recognised(code[work[j + 1]])
        BY <1>0, <4>1 DEF Collected
      <4> QED
        BY <3>8, <4>1, <4>2
    <3>10. SizesArePages'
      <4>0. DOMAIN code' = 1..Len(code) /\ given' = given
        BY <1>0, <3>1, <3>3
      <4> SUFFICES ASSUME NEW k \in 1..Len(code), code'[k].args # given[k].args
                   PROVE  code'[k].args[SizeArg[code'[k].name]] % Page = 0
        BY <4>0 DEF SizesArePages
      <4>1. code[k].args # given[k].args
              => code[k].args[SizeArg[code[k].name]] % Page = 0
        <5>1. SizesArePages /\ code \in Seq(CallInst)
          BY <1>0
        <5>2. k \in DOMAIN code
          BY <5>1
        <5> QED
          BY <5>1, <5>2, Zenon DEF SizesArePages
      <4>2. CASE k = i
        <5>1. /\ code'[k] = Resized(c) /\ code[k] = c
              /\ code'[k].name = c.name
          BY <3>2, <3>3, <3>6, <4>2
        <5>2. CASE Resized(c).args = c.args
          BY <4>1, <5>1, <5>2
        <5>3. CASE Resized(c).args # c.args
          BY <3>2, <5>1, <5>3
        <5> QED
          BY <5>2, <5>3
      <4>3. CASE k # i
        BY <3>3, <4>1, <4>3
      <4> QED
        BY <4>2, <4>3
    <3> QED
      BY <3>5, <3>7, <3>9, <3>10
  <2> QED
    BY <2>2, <2>3
<1>5. CASE EndRewrite
  BY <1>5 DEF EndRewrite, TypeOK, Kept, Collected, SizesArePages
<1>6. CASE UNCHANGED vars
  BY <1>6 DEF vars, TypeOK, Kept, Collected, SizesArePages
<1> QED
  BY <1>1, <1>2, <1>3, <1>4, <1>5, <1>6 DEF Next, Terminated

(* Everything the pass holds has its type, whatever the function.          *)
THEOREM ResizeTypeCorrect == Spec => []TypeOK
<1>1. ResizeInv => TypeOK
  BY DEF ResizeInv
<1> QED
  BY ResizeInvInit, ResizeInvStep, <1>1, PTL DEF Spec

(* A size that the pass has changed is a multiple of a page, for every     *)
(* page size, word and width that are multiples of it.                     *)
THEOREM SizesStayPages == Spec => []SizesArePages
<1>1. ResizeInv => SizesArePages
  BY DEF ResizeInv
<1> QED
  BY ResizeInvInit, ResizeInvStep, <1>1, PTL DEF Spec
-----------------------------------------------------------------------------
(* A call that is left to do is as it was given, and is there once; what   *)
(* has been done is the given call resized.                                *)
Untouched ==
  /\ given \in Functions
  /\ phase = "collect" =>
       code = given /\ \A j \in 1..Len(work) : work[j] < pos
  /\ \A j, k \in 1..Len(work) : j # k => work[j] # work[k]
  /\ \A j \in 1..Len(work) : code[work[j]] = given[work[j]]

ResizedOnce ==
  \A i \in 1..Len(code) :
    \/ code[i] = given[i]
    \/ /\ Recognised(given[i]) /\ ~ MissingArgument(given[i])
       /\ code[i] = Resized(given[i])

OnceInv == Untouched /\ ResizedOnce

(* No call has been collected, every call is as given.                     *)
LEMMA OnceInvInit == Init => OnceInv
BY DEF Init, OnceInv, Untouched, ResizedOnce

(* Collecting goes past a call once; rewriting takes it off the list.      *)
LEMMA OnceInvStep == ResizeInv /\ OnceInv /\ [Next]_vars => OnceInv'
<1> SUFFICES ASSUME ResizeInv, OnceInv, [Next]_vars PROVE OnceInv'
  OBVIOUS
<1> USE DEF OnceInv
<1>0. /\ code \in Seq(CallInst) /\ Len(code) \in Nat
      /\ pos \in 1..(Len(code) + 1) /\ work \in Seq(1..Len(code))
      /\ Len(work) \in Nat
  BY DEF ResizeInv, TypeOK
<1>1. CASE Skip \/ EndCollect \/ EndRewrite
  BY <1>1 DEF Skip, EndCollect, EndRewrite, Untouched, ResizedOnce
<1>2. CASE Collect
  <2>1. /\ UNCHANGED <<given, code, phase>> /\ pos' = pos + 1
        /\ phase = "collect" /\ code = given /\ pos \in 1..Len(code)
        /\ \A j \in 1..Len(work) : work[j] < pos /\ work[j] \in 1..Len(code)
    BY <1>0, <1>2 DEF Collect, Untouched
  <2>2. CASE work' = work
    BY <1>0, <2>1, <2>2 DEF Untouched, ResizedOnce
  <2>3. CASE work' = Append(work, pos)
    <3>1. /\ Len(work') = Len(work) + 1 /\ work'[Len(work) + 1] = pos
          /\ \A j \in 1..Len(work) : work'[j] = work[j]
      BY <1>0, <2>3
    <3>2. \A j \in 1..Len(work') : j = Len(work) + 1 \/ j \in 1..Len(work)
      BY <1>0, <3>1
    <3>3. \A j \in 1..Len(work') : work'[j] < pos'
      BY <1>0, <2>1, <3>1, <3>2
    <3>4. \A j, k \in 1..Len(work') : j # k => work'[j] # work'[k]
      <4> SUFFICES ASSUME NEW j \in 1..Len(work'), NEW k \in 1..Len(work'),
                          j # k
                   PROVE  work'[j] # work'[k]
        OBVIOUS
      <4>1. CASE j \in 1..Len(work) /\ k \in 1..Len(work)
        BY <3>1, <4>1, Zenon DEF Untouched
      <4>2. CASE j = Len(work) + 1 \/ k = Len(work) + 1
        BY <1>0, <2>1, <3>1, <3>2, <4>2
      <4> QED
        BY <3>2, <4>1, <4>2
    <3> QED
      BY <2>1, <3>3, <3>4 DEF Untouched, ResizedOnce
  <2> QED
    BY <1>2, <2>2, <2>3 DEF Collect
<1>3. CASE Rewrite
  <2> DEFINE i == Head(work)
             c == code[i]
  <2>1. /\ i \in 1..Len(code) /\ i = work[1] /\ 1 \in 1..Len(work)
        /\ Recognised(c) /\ c = given[i]
    BY <1>0, <1>3 DEF Rewrite, ResizeInv, Collected, Untouched
  <2>2. CASE MissingArgument(c)
    BY <1>3, <2>2 DEF Rewrite, Untouched, ResizedOnce
  <2>3. CASE ~ MissingArgument(c)
    <3>1. /\ code' = [code EXCEPT ![i] = Resized(c)] /\ work' = Tail(work)
          /\ UNCHANGED <<given, phase>> /\ phase = "rewrite"
      BY <1>3, <2>3 DEF Rewrite
    <3> HIDE DEF i, c
    <3>2. /\ Len(code') = Len(code)
          /\ \A k \in 1..Len(code) :
               code'[k] = IF k = i THEN Resized(c) ELSE code[k]
      BY <1>0, <2>1, <3>1
    <3>3. \A j \in 1..Len(work') :
            work'[j] = work[j + 1] /\ j + 1 \in 1..Len(work) /\ j + 1 # 1
      BY <1>0, <2>1, <3>1
    <3>4. \A j \in 1..Len(work') :
            work'[j] # i /\ work'[j] \in 1..Len(code)
      <4>1. \A j \in 1..Len(work') : work[j + 1] # work[1]
        BY <2>1, <3>3, Zenon DEF Untouched
      <4>2. ASSUME NEW j \in 1..Len(work')
            PROVE  work'[j] # i /\ work'[j] \in 1..Len(code)
        <5>1. work'[j] = work[j + 1] /\ j + 1 \in 1..Len(work)
          BY <3>3
        <5>2. work[j + 1] # work[1]
          BY <4>1
        <5>3. work[j + 1] \in 1..Len(code)
          BY <1>0, <5>1
        <5> QED
          BY <2>1, <5>1, <5>2, <5>3
      <4> QED
        BY <4>2
    <3>5. \A j \in 1..Len(work') : code'[work'[j]] = given'[work'[j]]
      BY <3>1, <3>2, <3>3, <3>4 DEF Untouched
    <3>6. \A j, k \in 1..Len(work') : j # k => work'[j] # work'[k]
      <4> SUFFICES ASSUME NEW j \in 1..Len(work'), NEW k \in 1..Len(work'),
                          j # k
                   PROVE  work'[j] # work'[k]
        OBVIOUS
      <4>1. j + 1 # k + 1
        OBVIOUS
      <4> QED
        BY <3>3, <4>1 DEF Untouched
    <3>7. ResizedOnce'
      BY <2>1, <2>3, <3>1, <3>2 DEF ResizedOnce, Recognised, MissingArgument,
                                    Inspected
    <3> QED
      BY <3>1, <3>5, <3>6, <3>7 DEF Untouched
  <2> QED
    BY <2>2, <2>3
<1>4. CASE UNCHANGED vars
  BY <1>4 DEF vars, Untouched, ResizedOnce
<1> QED
  BY <1>1, <1>2, <1>3, <1>4 DEF Next, Terminated

(* Where nothing wraps around, the new size is the next page.              *)
LEMMA NewSizeExceeds ==
  ASSUME NEW c, MemSize(c) \in Nat, c.sig[SizeArg[c.name]] \in IntTypes,
         MemSize(c) + Page < Modulus[c.sig[SizeArg[c.name]]]
  PROVE  MemSize(c) < NewSize(c) /\ NewSize(c) <= MemSize(c) + Page
<1> DEFINE n == MemSize(c)
           m == Modulus[c.sig[SizeArg[c.name]]]
           p == n + (Page - (n % Page))
<1>1. m \in Nat \ {0} /\ m <= Word /\ Word \in Nat \ {0}
  BY WidthAssumption
<1>2. p \in Nat /\ n < p /\ p <= n + Page
  BY NextPage DEF IsPages
<1> HIDE DEF p, m
<1>3. p < m /\ p < Word
  BY <1>1, <1>2, PageAssumption DEF m
<1>4. p % Word = p /\ p % m = p
  BY <1>1, <1>2, <1>3
<1>5. NewSize(c) = p
  BY <1>4 DEF NewSize, Enlarged, p, m
<1> QED
  BY <1>2, <1>5

(* For every function and every width, a size that was changed is larger   *)
(* than what was asked for, by at most a page, unless the request is       *)
(* within a page of the largest value of its type.                         *)
THEOREM EnoughStaysAllocated == Spec => []EnoughIsAllocated
<1>1. ResizeInv /\ OnceInv => EnoughIsAllocated
  <2> SUFFICES ASSUME ResizeInv, OnceInv, NEW i \in DOMAIN code,
                      code[i].args # given[i].args,
                      MemSize(given[i]) + Page
                        < Modulus[code[i].sig[SizeArg[code[i].name]]]
               PROVE  LET got == code[i].args[SizeArg[code[i].name]]
                      IN  /\ MemSize(given[i]) < got
                          /\ got <= MemSize(given[i]) + Page
    BY DEF EnoughIsAllocated
  <2> DEFINE g == given[i]
  <2>1. /\ i \in 1..Len(code) /\ g \in CallInst
        /\ code[i].name = g.name /\ code[i].sig = g.sig
        /\ Len(g.args) = Len(g.sig)
    <3>1. /\ given \in Seq(CallInst) /\ code \in Seq(CallInst)
          /\ Len(code) = Len(given)
      BY DEF ResizeInv, TypeOK
    <3>2. i \in 1..Len(code) /\ g \in CallInst
      BY <3>1
    <3>3. code[i].name = g.name /\ code[i].sig = g.sig
      BY <3>2 DEF ResizeInv, Kept
    <3>4. Len(g.args) = Len(g.sig)
      <4>1. given \in Functions /\ i \in 1..Len(given)
        BY <3>1, <3>2 DEF OnceInv, Untouched
      <4> QED
        BY <4>1, FunctionsAssumption
    <3> QED
      BY <3>2, <3>3, <3>4
  <2>2. Recognised(g) /\ ~ MissingArgument(g) /\ code[i] = Resized(g)
    BY <2>1 DEF OnceInv, ResizedOnce
  <2>3. MemSize(g) # 0
    BY <2>2 DEF Resized
  <2> HIDE DEF g
  <2>4. /\ SizeArg[g.name] = 1 /\ g.sig = <<SizeType>>
        /\ MemSize(g) \in Nat
    BY <2>1, <2>2, <2>3, RecognisedShape
  <2>5. code[i] = [g EXCEPT !.args = <<NewSize(g)>>]
    BY <2>1, <2>2, <2>3, ResizedCall
  <2>6. code[i].args[SizeArg[code[i].name]] = NewSize(g)
    BY <2>1, <2>4, <2>5 DEF CallInst
  <2>7. g.sig[SizeArg[g.name]] \in IntTypes
    BY <2>4, WidthAssumption
  <2>8. MemSize(g) < NewSize(g) /\ NewSize(g) <= MemSize(g) + Page
    BY <2>1, <2>4, <2>7, NewSizeExceeds DEF g
  <2> QED
    BY <2>6, <2>8 DEF g
<1> QED
  BY ResizeInvInit, ResizeInvStep, OnceInvInit, OnceInvStep, <1>1, PTL
     DEF Spec
-----------------------------------------------------------------------------
(* What is recognised has one parameter; the allocators that are expected  *)
(* to have one have their size there.                                      *)
LEMMA ExpectedCallHasItsSize ==
  ASSUME NEW c \in CallInst, Recognised(c), Len(c.args) = Len(c.sig),
         c.sig = Proto[c.name]
  PROVE  ~ MissingArgument(c)
<1>1. Len(c.sig) = 1
  BY DEF Recognised, CreatedType
<1>2. c.name \in {"malloc", "CoTaskMemAlloc", "_Znwm", "MSVCNew"}
  BY <1>1 DEF Recognised, Allocators, Proto
<1>3. Inspected(c) = {1}
  BY <1>2 DEF Inspected, SizeArg
<1> QED
  BY <1>1, <1>3 DEF MissingArgument

(* A function that declares the allocators as the pass expects them never  *)
(* makes the pass ask for an argument that is not there.                   *)
THEOREM ExpectedPrototypesStaySafe == Spec => []ExpectedPrototypesNeverAbort
<1>1. Init => ExpectedPrototypesNeverAbort
  BY DEF Init, ExpectedPrototypesNeverAbort
<1>2. ResizeInv /\ ExpectedPrototypesNeverAbort /\ [Next]_vars
        => ExpectedPrototypesNeverAbort'
  <2> SUFFICES ASSUME ResizeInv, ExpectedPrototypesNeverAbort, [Next]_vars,
                      \A i \in DOMAIN given' : given'[i].name \in Allocators
                        => given'[i].sig = Proto[given'[i].name]
               PROVE  phase' # "abort"
    BY DEF ExpectedPrototypesNeverAbort
  <2>1. given' = given
    BY DEF Next, vars, Skip, Collect, EndCollect, Rewrite, EndRewrite, Terminated
  <2>2. phase # "abort"
    BY <2>1 DEF ExpectedPrototypesNeverAbort
  <2>3. CASE Rewrite
    <3> DEFINE i == Head(work)
    <3>1. /\ i \in 1..Len(code) /\ Recognised(code[i]) /\ code[i] \in CallInst
          /\ Len(code[i].args) = Len(code[i].sig)
          /\ code[i].name = given[i].name /\ code[i].sig = given[i].sig
          /\ i \in DOMAIN given
      BY <2>3 DEF Rewrite, ResizeInv, TypeOK, Collected, Kept
    <3>2. code[i].sig = Proto[code[i].name]
      BY <2>1, <3>1 DEF Recognised
    <3>3. ~ MissingArgument(code[i])
      BY <3>1, <3>2, ExpectedCallHasItsSize
    <3> QED
      BY <2>2, <2>3, <3>3 DEF Rewrite
  <2> QED
    BY <2>2, <2>3 DEF Next, vars, Skip, Collect, EndCollect, EndRewrite,
                      Terminated
<1> QED
  BY ResizeInvInit, ResizeInvStep, <1>1, <1>2, PTL DEF Spec
=============================================================================
