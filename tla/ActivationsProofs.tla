-------------------------- MODULE ActivationsProofs --------------------------
(***************************************************************************)
(* Proofs about Activations, for every set of functions, every module that *)
(* LLVM's verifier lets pass, every pipeline and every bound.              *)
(***************************************************************************)
EXTENDS Activations, SelectionProofs, FiniteSetTheorems

-----------------------------------------------------------------------------
(* What a block puts, and how it ends: all that the lines depend on.       *)

Kept == Terminators \cup {"puts"}
Lines == {"enter", "leave", "ret", "go"}
LineOf(x) ==
  IF x.kind = "puts" THEN IF x.ref[1] = "enter" THEN "enter" ELSE "leave"
                     ELSE IF x.kind = "ret" THEN "ret" ELSE "go"
LinesMap(S) == [x \in S |-> IF x.kind \in Kept THEN <<LineOf(x)>> ELSE <<>>]
LinesOf(B) == FlatMap(LinesMap(ToSet(B)), B)

LEMMA LinesMapType ==
  ASSUME NEW S
  PROVE  /\ LinesMap(S) \in SeqMaps(S, Lines)
         /\ \A x \in S : LinesMap(S)[x] = IF x.kind \in Kept THEN <<LineOf(x)>> ELSE <<>>
<1>1. \A x \in S : LineOf(x) \in Lines
  BY DEF LineOf, Lines
<1>2. \A x \in S : (IF x.kind \in Kept THEN <<LineOf(x)>> ELSE <<>>) \in Seq(Lines)
  BY <1>1
<1> QED
  BY <1>2 DEF LinesMap, SeqMaps

LEMMA LinesIn ==
  ASSUME NEW S, NEW B \in Seq(S)
  PROVE  /\ LinesOf(B) = FlatMap(LinesMap(S), B)
         /\ LinesOf(B) \in Seq(Lines)
<1>1. \A i \in DOMAIN B : B[i] \in ToSet(B) /\ B[i] \in S
  BY DEF ToSet
<1>2. ASSUME NEW i \in DOMAIN B
      PROVE  LinesMap(ToSet(B))[B[i]] = LinesMap(S)[B[i]]
  <2>1. \A x \in ToSet(B) : LinesMap(ToSet(B))[x]
          = IF x.kind \in Kept THEN <<LineOf(x)>> ELSE <<>>
    BY LinesMapType
  <2>2. \A x \in S : LinesMap(S)[x] = IF x.kind \in Kept THEN <<LineOf(x)>> ELSE <<>>
    BY LinesMapType
  <2>3. B[i] \in ToSet(B) /\ B[i] \in S
    BY <1>1
  <2>4. LinesMap(ToSet(B))[B[i]]
          = IF B[i].kind \in Kept THEN <<LineOf(B[i])>> ELSE <<>>
    BY <2>1, <2>3
  <2>5. LinesMap(S)[B[i]] = IF B[i].kind \in Kept THEN <<LineOf(B[i])>> ELSE <<>>
    BY <2>2, <2>3
  <2> QED
    BY <2>4, <2>5
<1>3. Parts(LinesMap(ToSet(B)), B) = Parts(LinesMap(S), B)
  BY <1>2 DEF Parts
<1>4. LinesOf(B) = FlatMap(LinesMap(S), B)
  BY <1>3 DEF LinesOf, FlatMap
<1> QED
  BY <1>4, LinesMapType, FlatMapType

LEMMA LinesEmpty == LinesOf(<<>>) = <<>>
BY FlatMapEmpty DEF LinesOf

LEMMA LinesOne ==
  ASSUME NEW S, NEW x \in S
  PROVE  LinesOf(<<x>>) = IF x.kind \in Kept THEN <<LineOf(x)>> ELSE <<>>
<1>1. <<x>> \in Seq(S)
  OBVIOUS
<1>2. LinesOf(<<x>>) = FlatMap(LinesMap(S), <<x>>)
  BY <1>1, LinesIn
<1>3. FlatMap(LinesMap(S), <<x>>) = LinesMap(S)[x]
  BY LinesMapType, FlatMapOne
<1> QED
  BY <1>2, <1>3, LinesMapType

LEMMA LinesConcat ==
  ASSUME NEW S, NEW B \in Seq(S), NEW C \in Seq(S)
  PROVE  LinesOf(B \o C) = LinesOf(B) \o LinesOf(C)
<1>1. B \o C \in Seq(S)
  OBVIOUS
<1>2. FlatMap(LinesMap(S), B \o C) = FlatMap(LinesMap(S), B) \o FlatMap(LinesMap(S), C)
  BY LinesMapType, FlatMapConcat
<1> QED
  BY <1>1, <1>2, LinesIn

LEMMA LinesAppend ==
  ASSUME NEW S, NEW B \in Seq(S), NEW x \in S
  PROVE  LinesOf(Append(B, x))
           = LinesOf(B) \o IF x.kind \in Kept THEN <<LineOf(x)>> ELSE <<>>
<1>1. Append(B, x) = B \o <<x>> /\ <<x>> \in Seq(S)
  BY AppendIsConcat
<1>2. LinesOf(B \o <<x>>) = LinesOf(B) \o LinesOf(<<x>>)
  BY <1>1, LinesConcat
<1>3. LinesOf(<<x>>) = IF x.kind \in Kept THEN <<LineOf(x)>> ELSE <<>>
  BY LinesOne
<1> QED
  BY <1>1, <1>2, <1>3

LEMMA LinesNone ==
  ASSUME NEW S, NEW B \in Seq(S), \A i \in DOMAIN B : B[i].kind \notin Kept
  PROVE  LinesOf(B) = <<>>
<1> DEFINE ps == Parts(LinesMap(S), B)
<1>1. /\ ps \in Seq(Seq(Lines)) /\ Len(ps) = Len(B)
      /\ \A i \in DOMAIN B : ps[i] = LinesMap(S)[B[i]]
  BY LinesMapType, FlatMapParts
<1>2. \A i \in DOMAIN B : B[i] \in S
  OBVIOUS
<1>3. \A i \in DOMAIN B : ps[i] = <<>>
  BY <1>1, <1>2, LinesMapType
<1> HIDE DEF ps
<1>4. DOMAIN ps = DOMAIN B
  BY <1>1
<1>5. FlattenSeq(ps) = <<>>
  BY <1>1, <1>3, <1>4, FlattenNothing
<1> QED
  BY <1>5, LinesIn DEF ps, FlatMap

(* Blocks that put the same and end alike, instruction by instruction.     *)
LEMMA LinesSame ==
  ASSUME NEW S, NEW B \in Seq(S), NEW C \in Seq(S), Len(B) = Len(C),
         \A i \in DOMAIN B : B[i].kind = C[i].kind /\ B[i].ref = C[i].ref
  PROVE  LinesOf(B) = LinesOf(C)
<1>1. DOMAIN B = DOMAIN C
  OBVIOUS
<1>2. \A i \in DOMAIN B : B[i] \in S /\ C[i] \in S
  BY <1>1
<1>3. \A i \in DOMAIN B : LineOf(B[i]) = LineOf(C[i])
  BY DEF LineOf
<1>4. ASSUME NEW i \in DOMAIN B
      PROVE  LinesMap(S)[B[i]] = LinesMap(S)[C[i]]
  <2>1. LinesMap(S)[B[i]] = IF B[i].kind \in Kept THEN <<LineOf(B[i])>> ELSE <<>>
    BY <1>2, LinesMapType
  <2>2. LinesMap(S)[C[i]] = IF C[i].kind \in Kept THEN <<LineOf(C[i])>> ELSE <<>>
    BY <1>2, LinesMapType
  <2>3. LineOf(B[i]) = LineOf(C[i]) /\ B[i].kind = C[i].kind
    BY <1>3
  <2> QED
    BY <2>1, <2>2, <2>3
<1>5. Parts(LinesMap(S), B) = Parts(LinesMap(S), C)
  BY <1>1, <1>4 DEF Parts
<1> QED
  BY <1>5, LinesIn DEF FlatMap

LEMMA LinesFlatten ==
  ASSUME NEW S, NEW ss \in Seq(Seq(S))
  PROVE  LinesOf(FlattenSeq(ss)) = FlattenSeq([i \in DOMAIN ss |-> LinesOf(ss[i])])
<1> DEFINE Each(tt) == [i \in DOMAIN tt |-> LinesOf(tt[i])]
           P == {tt \in Seq(Seq(S)) : LinesOf(FlattenSeq(tt)) = FlattenSeq(Each(tt))}
<1>1. <<>> \in P
  <2>1. Each(<<>>) = <<>>
    OBVIOUS
  <2> QED
    BY <2>1, FlattenEmpty, LinesEmpty
<1>2. ASSUME NEW tt \in P, NEW s \in Seq(S)
      PROVE  Append(tt, s) \in P
  <2>1. /\ tt \in Seq(Seq(S)) /\ Append(tt, s) \in Seq(Seq(S))
        /\ LinesOf(FlattenSeq(tt)) = FlattenSeq(Each(tt))
    OBVIOUS
  <2>2. FlattenSeq(Append(tt, s)) = FlattenSeq(tt) \o s /\ FlattenSeq(tt) \in Seq(S)
    BY <2>1, FlattenAppend, FlattenType
  <2>3. LinesOf(FlattenSeq(Append(tt, s))) = LinesOf(FlattenSeq(tt)) \o LinesOf(s)
    BY <2>2, LinesConcat
  <2>4. Each(tt) \in Seq(Seq(Lines)) /\ LinesOf(s) \in Seq(Lines)
    <3>1. ASSUME NEW i \in 1..Len(tt) PROVE LinesOf(tt[i]) \in Seq(Lines)
      <4>1. tt[i] \in Seq(S)
        BY <2>1
      <4> QED
        BY <4>1, LinesIn
    <3>2. DOMAIN tt = 1..Len(tt) /\ Len(tt) \in Nat
      BY <2>1
    <3>3. Each(tt) \in [1..Len(tt) -> Seq(Lines)]
      BY <3>1, <3>2
    <3> QED
      BY <3>2, <3>3, IsSequence, LinesIn
  <2>5. Each(Append(tt, s)) = Append(Each(tt), LinesOf(s))
    <3> DEFINE u == Append(tt, s)
               v == Each(u)
               w == Append(Each(tt), LinesOf(s))
    <3>1. /\ u \in Seq(Seq(S)) /\ Len(u) = Len(tt) + 1 /\ Len(tt) \in Nat
          /\ \A i \in 1..Len(tt) : u[i] = tt[i]
          /\ u[Len(tt) + 1] = s
      BY <2>1
    <3>2. Len(Each(tt)) = Len(tt)
      BY <2>1, <2>4
    <3>3. /\ w \in Seq(Seq(Lines)) /\ Len(w) = Len(tt) + 1
          /\ \A i \in 1..Len(tt) : w[i] = LinesOf(tt[i])
          /\ w[Len(tt) + 1] = LinesOf(s)
      BY <2>1, <2>4, <3>2
    <3>4. DOMAIN u = 1..(Len(tt) + 1)
      BY <3>1
    <3>5. v = [i \in 1..(Len(tt) + 1) |-> LinesOf(u[i])]
      BY <3>4
    <3>6. DOMAIN w = 1..(Len(tt) + 1)
      BY <3>3
    <3> HIDE DEF u, w, Each
    <3>7. ASSUME NEW i \in 1..(Len(tt) + 1) PROVE w[i] = LinesOf(u[i])
      <4>1. i = Len(tt) + 1 \/ i \in 1..Len(tt)
        BY <3>1
      <4>2. CASE i = Len(tt) + 1
        BY <3>1, <3>3, <4>2
      <4>3. CASE i \in 1..Len(tt)
        <5>1. u[i] = tt[i] /\ w[i] = LinesOf(tt[i])
          BY <3>1, <3>3, <4>3
        <5> QED
          BY <5>1
      <4> QED
        BY <4>1, <4>2, <4>3
    <3>8. w = [i \in 1..(Len(tt) + 1) |-> w[i]]
      BY <3>3, <3>6
    <3> QED
      BY <3>5, <3>7, <3>8 DEF u, w
  <2> HIDE DEF Each
  <2>6. FlattenSeq(Each(Append(tt, s))) = FlattenSeq(Each(tt)) \o LinesOf(s)
    BY <2>4, <2>5, FlattenAppend
  <2> QED
    BY <2>1, <2>3, <2>6
<1>3. P \in SUBSET Seq(Seq(S))
  OBVIOUS
<1> HIDE DEF P
<1>4. P = Seq(Seq(S))
  BY <1>1, <1>2, <1>3, SequenceInduction
<1> QED
  BY <1>4 DEF P

LEMMA LinesSelect ==
  ASSUME NEW S, NEW B \in Seq(S), NEW T,
         \A i \in DOMAIN B : B[i].kind \in Kept => B[i] \in T
  PROVE  LinesOf(Select(B, T)) = LinesOf(B)
<1> DEFINE P == {C \in Seq(S) : (\A i \in DOMAIN C : C[i].kind \in Kept => C[i] \in T)
                                 => LinesOf(Select(C, T)) = LinesOf(C)}
<1>1. <<>> \in P
  BY SelectEmpty
<1>2. ASSUME NEW C \in P, NEW x \in S
      PROVE  Append(C, x) \in P
  <2>1. C \in Seq(S) /\ Append(C, x) \in Seq(S)
    OBVIOUS
  <2> SUFFICES ASSUME \A i \in DOMAIN Append(C, x) :
                        Append(C, x)[i].kind \in Kept => Append(C, x)[i] \in T
               PROVE  LinesOf(Select(Append(C, x), T)) = LinesOf(Append(C, x))
    BY <2>1
  <2>2. /\ \A i \in DOMAIN C : i \in DOMAIN Append(C, x) /\ Append(C, x)[i] = C[i]
        /\ Len(C) + 1 \in DOMAIN Append(C, x) /\ Append(C, x)[Len(C) + 1] = x
    BY <2>1
  <2>3. (\A i \in DOMAIN C : C[i].kind \in Kept => C[i] \in T) /\ (x.kind \in Kept => x \in T)
    BY <2>2
  <2>4. LinesOf(Select(C, T)) = LinesOf(C)
    BY <2>3
  <2>5. Select(Append(C, x), T) = IF x \in T THEN Append(Select(C, T), x) ELSE Select(C, T)
    BY <2>1, SelectAppend
  <2>6. Select(C, T) \in Seq(S)
    BY <2>1, SelectType
  <2>7. LinesOf(Append(C, x)) = LinesOf(C) \o IF x.kind \in Kept THEN <<LineOf(x)>> ELSE <<>>
    BY <2>1, LinesAppend
  <2>8. CASE x \in T
    BY <2>4, <2>5, <2>6, <2>7, <2>8, LinesAppend
  <2>9. CASE x \notin T
    <3>1. x.kind \notin Kept
      BY <2>3, <2>9
    <3>2. LinesOf(C) \in Seq(Lines)
      BY <2>1, LinesIn
    <3>3. LinesOf(Append(C, x)) = LinesOf(C)
      BY <2>7, <3>1, <3>2, ConcatEmptySeq
    <3> QED
      BY <2>4, <2>5, <2>9, <3>3
  <2> QED
    BY <2>8, <2>9
<1>3. P \in SUBSET Seq(S)
  OBVIOUS
<1> HIDE DEF P
<1>4. P = Seq(S)
  BY <1>1, <1>2, <1>3, SequenceInduction
<1> QED
  BY <1>4 DEF P

-----------------------------------------------------------------------------
(* What the passes make of a block: loads, stores and slots are put into   *)
(* it, operands change, and what is erased neither puts nor ends.          *)

SlotIds == {<<"slot", n>> : n \in Nat}
IsNew(x) == x.kind \in {"load", "store", "point"} \/ (x.kind = "alloca" /\ x.id \in SlotIds)
Alike(x, y) == x.id = y.id /\ x.kind = y.kind /\ x.blocks = y.blocks /\ x.ref = y.ref
IsBlock(B) == B # <<>> /\ B \in Seq(ToSet(B))

Derived(B, C) ==
  /\ IsBlock(C)
  /\ Last(C).kind = Last(B).kind
  /\ LinesOf(C) = LinesOf(B)
  /\ \A x \in ToSet(C) : IsNew(x) \/ \E y \in ToSet(B) : Alike(x, y)

LEMMA SeqOfOwn ==
  ASSUME NEW S, NEW s \in Seq(S)
  PROVE  s \in Seq(ToSet(s)) /\ ToSet(s) \subseteq S
<1>1. /\ DOMAIN s = 1..Len(s) /\ Len(s) \in Nat
      /\ \A i \in 1..Len(s) : s[i] \in S
      /\ s = [i \in 1..Len(s) |-> s[i]]
  OBVIOUS
<1>2. s \in [1..Len(s) -> ToSet(s)]
  BY <1>1 DEF ToSet
<1>3. s \in Seq(ToSet(s))
  BY <1>1, <1>2, IsSequence
<1> QED
  BY <1>1, <1>3 DEF ToSet

LEMMA SeqWidens ==
  ASSUME NEW S, NEW T, S \subseteq T, NEW s \in Seq(S)
  PROVE  s \in Seq(T)
OBVIOUS

LEMMA LastOf ==
  ASSUME NEW S, NEW B \in Seq(S), B # <<>>
  PROVE  /\ Len(B) \in DOMAIN B /\ Last(B) \in S /\ Last(B) \in ToSet(B)
         /\ \E C \in Seq(S) : B = Append(C, Last(B)) /\ Len(B) = Len(C) + 1
<1>1. Len(B) \in DOMAIN B /\ Last(B) = B[Len(B)] /\ Last(B) \in S
  BY DEF Last
<1>2. Last(B) \in ToSet(B)
  BY <1>1 DEF ToSet
<1> DEFINE C == SubSeq(B, 1, Len(B) - 1)
           D == SubSeq(B, Len(B), Len(B))
<1>3. /\ C \in Seq(S) /\ D \in Seq(S) /\ B = C \o D
      /\ Len(C) = Len(B) - 1 /\ Len(D) = Len(B) - Len(B) + 1
      /\ \A k \in 1..(Len(B) - Len(B) + 1) : D[k] = B[Len(B) + k - 1]
  <2>1. PICK n : n = Len(B)
    OBVIOUS
  <2>2. n \in 1..(Len(B) + 1)
    BY <1>1, <2>1
  <2>3. /\ SubSeq(B, 1, n - 1) \in Seq(S) /\ SubSeq(B, n, Len(B)) \in Seq(S)
        /\ B = SubSeq(B, 1, n - 1) \o SubSeq(B, n, Len(B))
        /\ Len(SubSeq(B, 1, n - 1)) = n - 1 /\ Len(SubSeq(B, n, Len(B))) = Len(B) - n + 1
        /\ \A k \in 1..(Len(B) - n + 1) : SubSeq(B, n, Len(B))[k] = B[n + k - 1]
    BY <2>2, CutBefore
  <2> QED
    BY <2>1, <2>3
<1> HIDE DEF C, D
<1>4. Len(B) \in Nat /\ Len(D) = 1 /\ D[1] = B[Len(B)] /\ Len(B) = Len(C) + 1
  BY <1>1, <1>3
<1>5. D = <<Last(B)>>
  BY <1>1, <1>3, <1>4
<1>6. B = Append(C, Last(B))
  BY <1>1, <1>3, <1>5, AppendIsConcat
<1> QED
  BY <1>1, <1>2, <1>3, <1>4, <1>6

LEMMA LastOfAppend ==
  ASSUME NEW S, NEW B \in Seq(S), NEW x \in S
  PROVE  Append(B, x) # <<>> /\ Last(Append(B, x)) = x
BY DEF Last

LEMMA AlikeTrans ==
  ASSUME NEW x, NEW y, NEW z, Alike(x, y)
  PROVE  (Alike(y, z) => Alike(x, z)) /\ (IsNew(y) => IsNew(x))
BY DEF Alike, IsNew

LEMMA DerivedTrans ==
  ASSUME NEW A, NEW B, NEW C, Derived(A, B), Derived(B, C)
  PROVE  Derived(A, C)
<1>1. ASSUME NEW x \in ToSet(C)
      PROVE  IsNew(x) \/ \E y \in ToSet(A) : Alike(x, y)
  <2>1. IsNew(x) \/ \E y \in ToSet(B) : Alike(x, y)
    BY DEF Derived
  <2>2. CASE \E y \in ToSet(B) : Alike(x, y)
    <3>1. PICK y \in ToSet(B) : Alike(x, y)
      BY <2>2
    <3>2. IsNew(y) \/ \E z \in ToSet(A) : Alike(y, z)
      BY DEF Derived
    <3> QED
      BY <3>1, <3>2, AlikeTrans
  <2> QED
    BY <2>1, <2>2
<1> QED
  BY <1>1 DEF Derived

LEMMA DerivedSelf ==
  ASSUME NEW B, IsBlock(B)
  PROVE  Derived(B, B)
BY DEF Derived, Alike

(* Before each instruction something new is put.                           *)
Spread(B, ss) == FlattenSeq([i \in DOMAIN B |-> Append(ss[i], B[i])])

LEMMA DerivedSpread ==
  ASSUME NEW N, NEW B, IsBlock(B), NEW ss \in [DOMAIN B -> Seq(N)], \A x \in N : IsNew(x)
  PROVE  Derived(B, Spread(B, ss))
<1> DEFINE S == ToSet(B) \cup N
           T == [i \in DOMAIN B |-> Append(ss[i], B[i])]
           L == [i \in DOMAIN T |-> LinesOf(T[i])]
           C == Spread(B, ss)
<1>1. /\ B \in Seq(S) /\ B # <<>> /\ DOMAIN B = 1..Len(B) /\ Len(B) \in Nat
      /\ \A i \in DOMAIN B : B[i] \in S /\ ss[i] \in Seq(S) /\ ss[i] \in Seq(N)
                             /\ B[i] \in ToSet(B)
  <2>1. B \in Seq(ToSet(B)) /\ B # <<>>
    BY DEF IsBlock
  <2>2. ToSet(B) \subseteq S /\ N \subseteq S
    OBVIOUS
  <2>3. B \in Seq(S)
    BY <2>1, <2>2, SeqWidens
  <2>4. \A i \in DOMAIN B : ss[i] \in Seq(N)
    OBVIOUS
  <2>5. \A i \in DOMAIN B : ss[i] \in Seq(S)
    BY <2>2, <2>4, SeqWidens
  <2>6. \A i \in DOMAIN B : B[i] \in ToSet(B)
    BY DEF ToSet
  <2> QED
    BY <2>1, <2>2, <2>3, <2>4, <2>5, <2>6
<1> HIDE DEF S
<1>2. T \in Seq(Seq(S)) /\ Len(T) = Len(B) /\ DOMAIN T = DOMAIN B
  <2>1. T \in [1..Len(B) -> Seq(S)]
    BY <1>1
  <2>2. T \in Seq(Seq(S)) /\ Len(T) = Len(B)
    BY <1>1, <2>1, IsSequence
  <2> QED
    BY <2>2
<1>3. C = FlattenSeq(T) /\ C \in Seq(S)
  BY <1>2, FlattenType DEF Spread
<1>4. \A i \in DOMAIN B : T[i] = Append(ss[i], B[i])
  OBVIOUS
<1> HIDE DEF T, C
<1>5. C # <<>> /\ Last(C) = Last(B)
  <2>1. T # <<>>
    BY <1>1, <1>2
  <2>2. /\ Len(T) \in DOMAIN T
        /\ \E U \in Seq(Seq(S)) : T = Append(U, Last(T)) /\ Len(T) = Len(U) + 1
    BY <1>2, <2>1, LastOf
  <2>3. PICK U \in Seq(Seq(S)) : T = Append(U, Last(T))
    BY <2>2
  <2>4. Last(T) = Append(ss[Len(B)], Last(B)) /\ ss[Len(B)] \in Seq(S) /\ Last(B) \in S
    BY <1>1, <1>2, <1>4, <2>2 DEF Last
  <2>5. Last(T) \in Seq(S)
    BY <2>4
  <2>6. C = FlattenSeq(U) \o Last(T) /\ FlattenSeq(U) \in Seq(S)
    BY <1>3, <2>3, <2>5, FlattenAppend, FlattenType
  <2> DEFINE w == FlattenSeq(U)
             t == ss[Len(B)]
             l == Last(B)
  <2>7. C = w \o Append(t, l) /\ w \in Seq(S) /\ t \in Seq(S) /\ l \in S
    BY <2>4, <2>6
  <2> HIDE DEF w, t, l
  <2>8. C = Append(w \o t, l) /\ w \o t \in Seq(S)
    BY <2>7, AppendConcat
  <2>9. C # <<>> /\ Last(C) = l
    BY <2>7, <2>8, LastOfAppend
  <2> QED
    BY <2>9 DEF l
<1>6. ASSUME NEW x \in ToSet(C)
      PROVE  IsNew(x) \/ \E y \in ToSet(B) : Alike(x, y)
  <2>0. ToSet(C) = UNION {ToSet(T[j]) : j \in DOMAIN T}
    BY <1>2, <1>3, FlattenElements
  <2>1. PICK k \in DOMAIN B : x \in ToSet(T[k])
    BY <1>2, <2>0
  <2>2. ss[k] \in Seq(S) /\ <<B[k]>> \in Seq(S) /\ B[k] \in S
    <3>1. ss[k] \in Seq(S) /\ B[k] \in S
      BY <1>1
    <3> QED
      BY <3>1
  <2>5. T[k] = ss[k] \o <<B[k]>>
    <3>1. T[k] = Append(ss[k], B[k])
      BY <1>4
    <3> QED
      BY <2>2, <3>1, AppendIsConcat
  <2>6. ToSet(ss[k] \o <<B[k]>>) = ToSet(ss[k]) \cup ToSet(<<B[k]>>)
    <3>1. PICK u : u = <<B[k]>>
      OBVIOUS
    <3>2. u \in Seq(S) /\ ss[k] \in Seq(S)
      BY <2>2, <3>1
    <3>3. ToSet(ss[k] \o u) = ToSet(ss[k]) \cup ToSet(u)
      BY <3>2, ToSetConcat
    <3> QED
      BY <3>1, <3>3
  <2>3. ToSet(T[k]) = ToSet(ss[k]) \cup {B[k]}
    BY <2>5, <2>6, ToSetOne
  <2>4. ToSet(ss[k]) \subseteq N
    BY SeqOfOwn
  <2> QED
    BY <1>1, <2>1, <2>3, <2>4 DEF Alike
<1>7. LinesOf(C) = LinesOf(B)
  <2>1. LinesOf(C) = FlattenSeq(L)
    BY <1>2, <1>3, LinesFlatten
  <2>2. ASSUME NEW i \in DOMAIN B
        PROVE  LinesOf(T[i]) = LinesMap(S)[B[i]]
    <3>1. LinesOf(T[i]) = LinesOf(ss[i]) \o IF B[i].kind \in Kept THEN <<LineOf(B[i])>> ELSE <<>>
      BY <1>1, <1>4, LinesAppend, ZenonT(30)
    <3>2. \A j \in DOMAIN ss[i] : ss[i][j].kind \notin Kept
      <4>1. \A j \in DOMAIN ss[i] : IsNew(ss[i][j])
        BY <1>1
      <4> QED
        BY <4>1 DEF IsNew, Kept, Terminators
    <3>3. LinesOf(ss[i]) = <<>>
      BY <1>1, <3>2, LinesNone
    <3>4. LinesMap(S)[B[i]] = IF B[i].kind \in Kept THEN <<LineOf(B[i])>> ELSE <<>>
      BY <1>1, LinesMapType
    <3>5. LinesMap(S)[B[i]] \in Seq(Lines)
      BY <1>1, LinesMapType DEF SeqMaps
    <3> QED
      BY <3>1, <3>3, <3>4, <3>5, ConcatEmptySeq
  <2>3. L = Parts(LinesMap(S), B)
    BY <1>2, <2>2 DEF Parts
  <2> QED
    BY <1>1, <2>1, <2>3, LinesIn DEF FlatMap
<1>8. IsBlock(C)
  BY <1>3, <1>5, SeqOfOwn DEF IsBlock
<1> QED
  BY <1>5, <1>6, <1>7, <1>8 DEF Derived, C

(* Operands change.                                                        *)
LEMMA DerivedRename ==
  ASSUME NEW S, NEW B, IsBlock(B), NEW C \in Seq(S), Len(C) = Len(B),
         \A i \in DOMAIN B : Alike(C[i], B[i])
  PROVE  Derived(B, C)
<1> DEFINE U == S \cup ToSet(B)
<1>1. /\ B \in Seq(ToSet(B)) /\ B # <<>> /\ ToSet(B) \subseteq U /\ S \subseteq U
  BY DEF IsBlock
<1>2. B \in Seq(U) /\ C \in Seq(U)
  BY <1>1, SeqWidens
<1> HIDE DEF U
<1>3. DOMAIN C = DOMAIN B /\ C # <<>> /\ Len(B) \in DOMAIN B
  BY <1>1, <1>2
<1>4. LinesOf(C) = LinesOf(B)
  BY <1>2, LinesSame DEF Alike
<1>5. Last(C).kind = Last(B).kind
  BY <1>3 DEF Last, Alike
<1>6. \A x \in ToSet(C) : \E y \in ToSet(B) : Alike(x, y)
  BY <1>3 DEF ToSet
<1>7. IsBlock(C)
  BY <1>3, SeqOfOwn DEF IsBlock
<1> QED
  BY <1>4, <1>5, <1>6, <1>7 DEF Derived

(* What neither puts nor ends may go.                                      *)
LEMMA DerivedSelect ==
  ASSUME NEW B, IsBlock(B), Last(B).kind \in Kept, NEW T,
         \A x \in ToSet(B) : x.kind \in Kept => x \in T
  PROVE  Derived(B, Select(B, T)) /\ ToSet(Select(B, T)) = ToSet(B) \cap T
<1> DEFINE S == ToSet(B)
<1>1. B \in Seq(S) /\ B # <<>>
  BY DEF IsBlock
<1>2. /\ Select(B, T) \in Seq(S) /\ ToSet(Select(B, T)) = ToSet(B) \cap T
  BY <1>1, SelectType, SelectElements
<1>3. \A i \in DOMAIN B : B[i].kind \in Kept => B[i] \in T
  BY DEF ToSet
<1>4. LinesOf(Select(B, T)) = LinesOf(B)
  BY <1>1, <1>3, LinesSelect
<1>5. Last(B) \in T /\ Last(B) \in S
  BY <1>1, LastOf
<1>6. Select(B, T) # <<>> /\ Last(Select(B, T)) = Last(B)
  <2>1. PICK C \in Seq(S) : B = Append(C, Last(B))
    BY <1>1, LastOf
  <2>2. Select(B, T) = Append(Select(C, T), Last(B)) /\ Select(C, T) \in Seq(S)
    BY <1>5, <2>1, SelectAppend, SelectType
  <2> QED
    BY <1>5, <2>2, LastOfAppend
<1>7. IsBlock(Select(B, T))
  BY <1>2, <1>6, SeqOfOwn DEF IsBlock
<1> QED
  BY <1>2, <1>4, <1>6, <1>7 DEF Derived, Alike

(* One instruction is put somewhere before the last.                       *)
LEMMA InsertBlock ==
  ASSUME NEW B, IsBlock(B), NEW i \in 1..Len(B), NEW x
  PROVE  /\ IsBlock(InsertAt(B, i, x)) /\ ToSet(InsertAt(B, i, x)) = ToSet(B) \cup {x}
         /\ Last(InsertAt(B, i, x)) = Last(B)
         /\ LinesOf(InsertAt(B, i, x))
              = (LinesOf(SubSeq(B, 1, i - 1))
                   \o IF x.kind \in Kept THEN <<LineOf(x)>> ELSE <<>>)
                  \o LinesOf(SubSeq(B, i, Len(B)))
         /\ LinesOf(B) = LinesOf(SubSeq(B, 1, i - 1)) \o LinesOf(SubSeq(B, i, Len(B)))
<1> DEFINE S == ToSet(B) \cup {x}
           u == SubSeq(B, 1, i - 1)
           v == SubSeq(B, i, Len(B))
           C == InsertAt(B, i, x)
<1>1. B \in Seq(S) /\ B # <<>> /\ x \in S
  <2>1. B \in Seq(ToSet(B)) /\ B # <<>> /\ ToSet(B) \subseteq S
    BY DEF IsBlock
  <2> QED
    BY <2>1, SeqWidens
<1> HIDE DEF S
<1>2. i \in 1..(Len(B) + 1) /\ Len(B) \in Nat
  BY <1>1
<1>3. u \in Seq(S) /\ v \in Seq(S) /\ B = u \o v
  BY <1>1, <1>2, CutBefore
<1>4. C = u \o <<x>> \o v
  BY DEF InsertAt
<1>5. /\ C \in Seq(S) /\ Len(C) = Len(B) + 1 /\ Inserted(B, i, x, C)
      /\ ToSet(C) = ToSet(B) \cup {x}
  BY <1>1, <1>2, InsertType, InsertElements
<1> HIDE DEF u, v, C
<1>6. u \o <<x>> \in Seq(S) /\ <<x>> \in Seq(S)
  BY <1>1, <1>3
<1>7. LinesOf(C) = LinesOf(u \o <<x>>) \o LinesOf(v)
  BY <1>3, <1>4, <1>6, LinesConcat
<1>8. LinesOf(u \o <<x>>) = LinesOf(u) \o IF x.kind \in Kept THEN <<LineOf(x)>> ELSE <<>>
  <2>1. LinesOf(u \o <<x>>) = LinesOf(u) \o LinesOf(<<x>>)
    BY <1>3, <1>6, LinesConcat
  <2>2. LinesOf(<<x>>) = IF x.kind \in Kept THEN <<LineOf(x)>> ELSE <<>>
    BY <1>1, LinesOne
  <2> QED
    BY <2>1, <2>2
<1>9. LinesOf(B) = LinesOf(u) \o LinesOf(v)
  BY <1>3, LinesConcat
<1>10. Last(C) = Last(B)
  BY <1>2, <1>5 DEF Inserted, Last
<1>11. C # <<>> /\ C \in Seq(ToSet(C))
  BY <1>2, <1>5, SeqOfOwn
<1> QED
  BY <1>5, <1>7, <1>8, <1>9, <1>10, <1>11 DEF IsBlock, u, v, C

LEMMA DerivedInsert ==
  ASSUME NEW B, IsBlock(B), NEW i \in 1..Len(B), NEW x, IsNew(x)
  PROVE  Derived(B, InsertAt(B, i, x))
<1> DEFINE u == LinesOf(SubSeq(B, 1, i - 1))
           v == LinesOf(SubSeq(B, i, Len(B)))
           C == InsertAt(B, i, x)
<1>1. x.kind \notin Kept
  BY DEF IsNew, Kept, Terminators
<1>2. /\ IsBlock(C) /\ ToSet(C) = ToSet(B) \cup {x} /\ Last(C) = Last(B)
      /\ LinesOf(C) = (u \o <<>>) \o v /\ LinesOf(B) = u \o v
  BY <1>1, InsertBlock
<1>3. u \in Seq(Lines)
  <2>1. SubSeq(B, 1, i - 1) \in Seq(ToSet(B))
    <3>1. B \in Seq(ToSet(B)) /\ i \in 1..(Len(B) + 1)
      BY DEF IsBlock
    <3> QED
      BY <3>1, CutBefore
  <2> QED
    BY <2>1, LinesIn
<1> HIDE DEF u, v, C
<1>4. u \o <<>> = u
  BY <1>3, ConcatEmptySeq
<1>5. \A y \in ToSet(C) : IsNew(y) \/ \E z \in ToSet(B) : Alike(y, z)
  BY <1>2 DEF Alike
<1>6. Derived(B, C)
  BY <1>2, <1>4, <1>5 DEF Derived
<1> QED
  BY <1>6 DEF C

-----------------------------------------------------------------------------
(* Bodies, and what each step of the passes makes of them.                 *)

IsCode(A) == A # <<>> /\ A \in Seq(Seq(InstsOf(A))) /\ \A b \in DOMAIN A : IsBlock(A[b])
AllDerived(A, C) ==
  /\ IsCode(C) /\ DOMAIN C = DOMAIN A
  /\ \A b \in DOMAIN A : Derived(A[b], C[b])

LEMMA CodeIs ==
  ASSUME NEW A, IsCode(A), NEW C, DOMAIN C = DOMAIN A, C = [b \in DOMAIN A |-> C[b]],
         \A b \in DOMAIN A : IsBlock(C[b])
  PROVE  IsCode(C)
<1>1. /\ DOMAIN A = 1..Len(A) /\ Len(A) \in Nat /\ Len(A) # 0
  BY DEF IsCode
<1>2. ASSUME NEW b \in DOMAIN A PROVE C[b] \in Seq(InstsOf(C))
  <2>1. C[b] \in Seq(ToSet(C[b])) /\ ToSet(C[b]) \subseteq InstsOf(C)
    BY DEF IsBlock, InstsOf
  <2> QED
    BY <2>1, SeqWidens
<1>3. C \in [1..Len(A) -> Seq(InstsOf(C))]
  BY <1>1, <1>2
<1>4. C \in Seq(Seq(InstsOf(C))) /\ Len(C) = Len(A)
  BY <1>1, <1>3, IsSequence
<1>5. C # <<>>
  BY <1>1, <1>4
<1> QED
  BY <1>4, <1>5 DEF IsCode

LEMMA AllDerivedIs ==
  ASSUME NEW A, IsCode(A), NEW C, DOMAIN C = DOMAIN A, C = [b \in DOMAIN A |-> C[b]],
         \A b \in DOMAIN A : Derived(A[b], C[b])
  PROVE  AllDerived(A, C)
<1>1. \A b \in DOMAIN A : IsBlock(C[b])
  BY DEF Derived
<1> QED
  BY <1>1, CodeIs DEF AllDerived

LEMMA AllDerivedTrans ==
  ASSUME NEW A, NEW B, NEW C, AllDerived(A, B), AllDerived(B, C)
  PROVE  AllDerived(A, C)
<1>1. ASSUME NEW b \in DOMAIN A PROVE Derived(A[b], C[b])
  <2>1. Derived(A[b], B[b]) /\ Derived(B[b], C[b])
    BY DEF AllDerived
  <2> QED
    BY <2>1, DerivedTrans
<1> QED
  BY <1>1 DEF AllDerived

LEMMA AllDerivedSelf ==
  ASSUME NEW A, IsCode(A)
  PROVE  AllDerived(A, A)
<1>1. \A b \in DOMAIN A : Derived(A[b], A[b])
  BY DerivedSelf DEF IsCode
<1> QED
  BY <1>1 DEF AllDerived

(* One block changes.                                                      *)
LEMMA OneDerived ==
  ASSUME NEW A, IsCode(A), NEW b \in DOMAIN A, NEW B, Derived(A[b], B)
  PROVE  AllDerived(A, [A EXCEPT ![b] = B])
<1> DEFINE C == [A EXCEPT ![b] = B]
<1>1. A \in Seq(Seq(InstsOf(A)))
  BY DEF IsCode
<1>2. DOMAIN C = DOMAIN A /\ C = [a \in DOMAIN A |-> C[a]]
  BY <1>1
<1>3. \A a \in DOMAIN A : C[a] = IF a = b THEN B ELSE A[a]
  BY <1>1
<1> HIDE DEF C
<1>4. ASSUME NEW a \in DOMAIN A PROVE Derived(A[a], C[a])
  <2>1. CASE a = b
    BY <1>3, <2>1
  <2>2. CASE a # b
    BY <1>3, <2>2, DerivedSelf DEF IsCode
  <2> QED
    BY <2>1, <2>2
<1> QED
  BY <1>2, <1>4, AllDerivedIs DEF C

AllNew(s) == s \in Seq(ToSet(s)) /\ \A x \in ToSet(s) : IsNew(x)

LEMMA WhenNew ==
  ASSUME NEW c \in BOOLEAN, NEW x, c => IsNew(x)
  PROVE  AllNew(When(c, x))
<1>1. CASE c
  <2>1. When(c, x) = <<x>>
    BY <1>1 DEF When
  <2>2. <<x>> \in Seq({x}) /\ ToSet(<<x>>) = {x}
    BY ToSetOne
  <2> QED
    BY <1>1, <2>1, <2>2 DEF AllNew
<1>2. CASE ~ c
  <2>1. When(c, x) = <<>>
    BY <1>2 DEF When
  <2>2. <<>> \in Seq(ToSet(<<>>)) /\ ToSet(<<>>) = {}
    BY ToSetEmpty
  <2> QED
    BY <2>1, <2>2 DEF AllNew
<1> QED
  BY <1>1, <1>2

LEMMA ConcatNew ==
  ASSUME NEW s, NEW t, AllNew(s), AllNew(t)
  PROVE  AllNew(s \o t)
<1> DEFINE S == ToSet(s) \cup ToSet(t)
<1>1. s \in Seq(S) /\ t \in Seq(S)
  <2>1. s \in Seq(ToSet(s)) /\ t \in Seq(ToSet(t)) /\ ToSet(s) \subseteq S /\ ToSet(t) \subseteq S
    BY DEF AllNew
  <2> QED
    BY <2>1, SeqWidens
<1>2. ToSet(s \o t) = S
  BY <1>1, ToSetConcat
<1>3. s \o t \in Seq(S)
  BY <1>1
<1>4. \A x \in S : IsNew(x)
  BY DEF AllNew
<1> QED
  BY <1>2, <1>3, <1>4 DEF AllNew

LEMMA MapNew ==
  ASSUME NEW n \in Nat, NEW s, s = [i \in 1..n |-> s[i]], \A i \in 1..n : IsNew(s[i])
  PROVE  AllNew(s)
<1>1. DOMAIN s = 1..n
  OBVIOUS
<1>2. ToSet(s) = {s[i] : i \in 1..n}
  BY <1>1 DEF ToSet
<1>3. s \in [1..n -> ToSet(s)]
  BY <1>2
<1>4. s \in Seq(ToSet(s))
  BY <1>3, IsSequence
<1> QED
  BY <1>2, <1>4 DEF AllNew

LEMMA PutBeforeDerived ==
  ASSUME NEW A, IsCode(A), NEW new, \A q \in Places(A) : AllNew(new[q])
  PROVE  AllDerived(A, PutBefore(A, new))
<1> DEFINE C == PutBefore(A, new)
<1>1. DOMAIN C = DOMAIN A /\ C = [b \in DOMAIN A |-> C[b]]
  BY DEF PutBefore
<1>2. ASSUME NEW b \in DOMAIN A PROVE Derived(A[b], C[b])
  <2> DEFINE ss == [i \in DOMAIN A[b] |-> new[<<b, i>>]]
             N == UNION {ToSet(ss[i]) : i \in DOMAIN A[b]}
  <2>1. \A i \in DOMAIN A[b] : <<b, i>> \in Places(A)
    BY DEF Places
  <2>2. \A i \in DOMAIN A[b] : AllNew(ss[i])
    BY <2>1
  <2>3. C[b] = Spread(A[b], ss)
    BY DEF PutBefore, Spread
  <2>4. DOMAIN ss = DOMAIN A[b] /\ ss = [i \in DOMAIN A[b] |-> ss[i]]
    OBVIOUS
  <2> HIDE DEF ss
  <2>5. ASSUME NEW i \in DOMAIN A[b] PROVE ss[i] \in Seq(N)
    <3>1. ss[i] \in Seq(ToSet(ss[i])) /\ ToSet(ss[i]) \subseteq N
      BY <2>2 DEF AllNew
    <3> QED
      BY <3>1, SeqWidens
  <2>6. \A x \in N : IsNew(x)
    BY <2>2 DEF AllNew
  <2> HIDE DEF N
  <2>7. ss \in [DOMAIN A[b] -> Seq(N)]
    BY <2>4, <2>5
  <2>8. IsBlock(A[b])
    BY DEF IsCode
  <2> QED
    BY <2>3, <2>6, <2>7, <2>8, DerivedSpread
<1> HIDE DEF C
<1> QED
  BY <1>1, <1>2, AllDerivedIs DEF C

(* Operands change.                                                        *)
Renamed(A, C) ==
  /\ DOMAIN C = DOMAIN A /\ C = [b \in DOMAIN A |-> C[b]]
  /\ \A b \in DOMAIN A :
       /\ C[b] = [i \in DOMAIN A[b] |-> C[b][i]] /\ DOMAIN C[b] = DOMAIN A[b]
       /\ \A i \in DOMAIN A[b] : Alike(C[b][i], A[b][i])

LEMMA RenamedDerived ==
  ASSUME NEW A, IsCode(A), NEW C, Renamed(A, C)
  PROVE  AllDerived(A, C)
<1>1. ASSUME NEW b \in DOMAIN A PROVE Derived(A[b], C[b])
  <2> DEFINE S == {C[b][i] : i \in DOMAIN A[b]}
             D == C[b]
  <2>1. IsBlock(A[b]) /\ DOMAIN A[b] = 1..Len(A[b]) /\ Len(A[b]) \in Nat
    BY DEF IsCode, IsBlock
  <2>2. /\ D = [i \in DOMAIN A[b] |-> D[i]]
        /\ \A i \in DOMAIN A[b] : Alike(D[i], A[b][i])
    BY DEF Renamed
  <2>3. D \in [1..Len(A[b]) -> S]
    BY <2>1, <2>2
  <2> HIDE DEF S, D
  <2>4. D \in Seq(S) /\ Len(D) = Len(A[b])
    BY <2>1, <2>3, IsSequence
  <2>5. Derived(A[b], D)
    BY <2>1, <2>2, <2>4, DerivedRename
  <2> QED
    BY <2>5 DEF D
<1> QED
  BY <1>1, AllDerivedIs DEF Renamed

LEMMA WithArgsAlike ==
  ASSUME NEW x, NEW args
  PROVE  Alike(WithArgs(x, args), x)
BY DEF Alike, WithArgs, Inst

LEMMA ReloadingDerived ==
  ASSUME NEW A, IsCode(A), NEW id, NEW slot
  PROVE  AllDerived(A, Reloading(A, id, slot))
<1> DEFINE C == Reloading(A, id, slot)
<1>1. DOMAIN C = DOMAIN A /\ C = [b \in DOMAIN A |-> C[b]]
  BY DEF Reloading
<1>2. ASSUME NEW b \in DOMAIN A
      PROVE  /\ C[b] = [i \in DOMAIN A[b] |-> C[b][i]] /\ DOMAIN C[b] = DOMAIN A[b]
             /\ \A i \in DOMAIN A[b] : Alike(C[b][i], A[b][i])
  <2>1. C[b] = [i \in DOMAIN A[b] |-> C[b][i]] /\ DOMAIN C[b] = DOMAIN A[b]
    BY DEF Reloading
  <2>2. ASSUME NEW i \in DOMAIN A[b] PROVE Alike(C[b][i], A[b][i])
    <3> DEFINE x == A[b][i]
    <3>1. C[b][i] = WithArgs(x, [k \in DOMAIN x.args |->
            IF x.args[k] # Reg(id) THEN x.args[k]
            ELSE Reg(Reload(slot, x.id, ReadAt(A, <<b, i>>, k)[1]).id)])
      BY DEF Reloading
    <3> QED
      BY <3>1, WithArgsAlike
  <2> QED
    BY <2>1, <2>2
<1> HIDE DEF C
<1>3. Renamed(A, C)
  BY <1>1, <1>2 DEF Renamed
<1> QED
  BY <1>3, RenamedDerived DEF C

LEMMA SetArgDerived ==
  ASSUME NEW A, IsCode(A), NEW p, NEW k, NEW arg
  PROVE  AllDerived(A, SetArg(A, p, k, arg))
<1> DEFINE C == SetArg(A, p, k, arg)
<1>1. A \in Seq(Seq(InstsOf(A))) /\ A = [b \in DOMAIN A |-> A[b]]
  BY DEF IsCode
<1>2. DOMAIN C = DOMAIN A /\ C = [b \in DOMAIN A |-> C[b]]
  BY <1>1 DEF SetArg
<1>3. ASSUME NEW b \in DOMAIN A
      PROVE  /\ C[b] = [i \in DOMAIN A[b] |-> C[b][i]] /\ DOMAIN C[b] = DOMAIN A[b]
             /\ \A i \in DOMAIN A[b] : Alike(C[b][i], A[b][i])
  <2>1. A[b] = [i \in DOMAIN A[b] |-> A[b][i]]
    BY <1>1
  <2>2. CASE b # p[1]
    <3>1. C[b] = A[b]
      BY <1>1, <2>2 DEF SetArg
    <3> QED
      BY <2>1, <3>1 DEF Alike
  <2>3. CASE b = p[1]
    <3> DEFINE w == WithArgs(A[b][p[2]], [A[b][p[2]].args EXCEPT ![k] = arg])
    <3>1. C[b] = [A[b] EXCEPT ![p[2]] = w]
      BY <1>1, <2>3 DEF SetArg
    <3>2. Alike(w, A[b][p[2]])
      BY WithArgsAlike
    <3> HIDE DEF w
    <3>3. \A i \in DOMAIN A[b] : C[b][i] = IF i = p[2] THEN w ELSE A[b][i]
      BY <2>1, <3>1
    <3>4. C[b] = [i \in DOMAIN A[b] |-> C[b][i]] /\ DOMAIN C[b] = DOMAIN A[b]
      BY <2>1, <3>1
    <3>5. \A i \in DOMAIN A[b] : Alike(A[b][i], A[b][i])
      BY DEF Alike
    <3> QED
      BY <3>2, <3>3, <3>4, <3>5
  <2> QED
    BY <2>2, <2>3
<1> HIDE DEF C
<1>4. Renamed(A, C)
  BY <1>2, <1>3 DEF Renamed
<1> QED
  BY <1>4, RenamedDerived DEF C

(* Something goes that neither puts nor ends a block.                      *)
LEMMA EraseDerived ==
  ASSUME NEW A, IsCode(A), NEW id,
         \A b \in DOMAIN A : /\ Last(A[b]).kind \in Kept
                             /\ \A x \in ToSet(A[b]) : x.kind \in Kept => x.id # id
  PROVE  AllDerived(A, Erase(A, id))
<1> DEFINE C == Erase(A, id)
<1>1. DOMAIN C = DOMAIN A /\ C = [b \in DOMAIN A |-> C[b]]
  BY DEF Erase
<1>2. ASSUME NEW b \in DOMAIN A PROVE Derived(A[b], C[b])
  <2> DEFINE T == {x \in ToSet(A[b]) : x.id # id}
  <2>1. C[b] = Select(A[b], T)
    BY DEF Erase
  <2>2. IsBlock(A[b])
    BY DEF IsCode
  <2>3. \A x \in ToSet(A[b]) : x.kind \in Kept => x \in T
    OBVIOUS
  <2> HIDE DEF T
  <2> QED
    BY <2>1, <2>2, <2>3, DerivedSelect
<1> HIDE DEF C
<1> QED
  BY <1>1, <1>2, AllDerivedIs DEF C

-----------------------------------------------------------------------------
(* The demotion of an operand, a register and a PHI node.                  *)

LEMMA NewKinds ==
  ASSUME NEW id, NEW arg, NEW slot, NEW u, NEW b
  PROVE  /\ IsNew(Load(id, slot)) /\ IsNew(Store(id, arg, slot)) /\ IsNew(Reload(slot, u, b))
         /\ slot \in SlotIds => IsNew(Alloca(slot))
BY DEF IsNew, Load, Store, Reload, Alloca, Inst

LEMMA RenamedPlaces ==
  ASSUME NEW A, NEW C, DOMAIN C = DOMAIN A, \A b \in DOMAIN A : DOMAIN C[b] = DOMAIN A[b]
  PROVE  Places(C) = Places(A)
BY DEF Places

LEMMA FlattenCode ==
  ASSUME NEW A, IsCode(A)
  PROVE  FlattenSeq(A) \in Seq(InstsOf(A))
BY FlattenType DEF IsCode

LEMMA ReloadsNew ==
  ASSUME NEW A, IsCode(A), NEW q, NEW id, NEW slot
  PROVE  AllNew(ReloadsAt(A, q, id, slot))
<1> DEFINE users == {p \in UsersOf(A, id) :
                       \E k \in DOMAIN InstAt(A, p).args :
                         InstAt(A, p).args[k] = Reg(id) /\ ReadAt(A, p, k) = q}
           list == Select(FlattenSeq(A), {InstAt(A, p) : p \in users})
           s == ReloadsAt(A, q, id, slot)
<1>1. list \in Seq(InstsOf(A))
  BY FlattenCode, SelectType
<1>2. s = [i \in DOMAIN list |-> Reload(slot, list[i].id, q[1])]
  BY DEF ReloadsAt
<1> HIDE DEF list, s
<1>3. DOMAIN list = 1..Len(list) /\ Len(list) \in Nat
  BY <1>1
<1>4. s = [i \in 1..Len(list) |-> s[i]]
  BY <1>2, <1>3
<1>5. \A i \in 1..Len(list) : IsNew(s[i])
  BY <1>2, <1>3, NewKinds
<1>6. AllNew(s)
  BY <1>3, <1>4, <1>5, MapNew
<1> QED
  BY <1>6 DEF s

LEMMA StoresNew ==
  ASSUME NEW S, NEW A, NEW q, NEW x, x.blocks \in Seq(S), NEW slot
  PROVE  AllNew(StoresAt(A, q, x, slot))
<1> DEFINE edges == [k \in DOMAIN x.blocks |-> k]
           list == Select(edges, {k \in DOMAIN x.blocks :
                               q = <<x.blocks[k], Len(A[x.blocks[k]])>>})
           s == StoresAt(A, q, x, slot)
<1>1. DOMAIN x.blocks = 1..Len(x.blocks) /\ Len(x.blocks) \in Nat
  OBVIOUS
<1>2. edges \in [1..Len(x.blocks) -> Nat]
  BY <1>1
<1>3. edges \in Seq(Nat)
  BY <1>1, <1>2, IsSequence
<1> HIDE DEF edges
<1>4. list \in Seq(Nat)
  BY <1>3, SelectType
<1>5. s = [i \in DOMAIN list |-> Store(<<"store", slot, list[i]>>, x.args[list[i]], slot)]
  BY DEF StoresAt, edges
<1> HIDE DEF list, s
<1>6. DOMAIN list = 1..Len(list) /\ Len(list) \in Nat
  BY <1>4
<1>7. s = [i \in 1..Len(list) |-> s[i]]
  BY <1>5, <1>6
<1>8. \A i \in 1..Len(list) : IsNew(s[i])
  BY <1>5, <1>6, NewKinds
<1>9. AllNew(s)
  BY <1>6, <1>7, <1>8, MapNew
<1> QED
  BY <1>9 DEF s

LEMMA DemoteImmediateDerived ==
  ASSUME NEW A, IsCode(A), NEW use, NEW slot \in SlotIds
  PROVE  AllDerived(A, DemoteImmediate(A, use, slot))
<1> DEFINE p == PlaceOf(A, use[1])
           x == InstAt(A, p)
           k == use[2]
           at == ReadAt(A, p, k)
           load == Reload(slot, use[1], at[1])
           C == SetArg(A, p, k, Reg(load.id))
           new == [q \in Places(A) |->
                     When(AtPoint(A, q, point), Alloca(slot))
                       \o When(AfterPoint(A, q, point), Store(<<"store", slot>>, x.args[k], slot))
                       \o When(q = at, load)]
<1>1. DemoteImmediate(A, use, slot) = PutBefore(C, new)
  BY DEF DemoteImmediate
<1>2. AllDerived(A, C)
  BY SetArgDerived
<1>3. Places(C) = Places(A)
  <2>1. A \in Seq(Seq(InstsOf(A)))
    BY DEF IsCode
  <2>2. DOMAIN C = DOMAIN A /\ \A b \in DOMAIN A : DOMAIN C[b] = DOMAIN A[b]
    BY <2>1 DEF SetArg
  <2> HIDE DEF C
  <2> QED
    BY <2>2, RenamedPlaces
<1>4. IsNew(load) /\ IsNew(Alloca(slot)) /\ IsNew(Store(<<"store", slot>>, x.args[k], slot))
  BY NewKinds
<1> HIDE DEF load, at, x, k, p, C
<1>5. ASSUME NEW q \in Places(A) PROVE AllNew(new[q])
  <2>1. /\ AtPoint(A, q, point) \in BOOLEAN /\ AfterPoint(A, q, point) \in BOOLEAN
        /\ (q = at) \in BOOLEAN
    BY DEF AtPoint, AfterPoint
  <2>2. /\ AllNew(When(AtPoint(A, q, point), Alloca(slot)))
        /\ AllNew(When(AfterPoint(A, q, point), Store(<<"store", slot>>, x.args[k], slot)))
        /\ AllNew(When(q = at, load))
    BY <1>4, <2>1, WhenNew
  <2>3. new[q] = When(AtPoint(A, q, point), Alloca(slot))
                   \o When(AfterPoint(A, q, point), Store(<<"store", slot>>, x.args[k], slot))
                   \o When(q = at, load)
    OBVIOUS
  <2> QED
    BY <2>2, <2>3, ConcatNew
<1> HIDE DEF new
<1>6. IsCode(C)
  BY <1>2 DEF AllDerived
<1>7. AllDerived(C, PutBefore(C, new))
  BY <1>3, <1>5, <1>6, PutBeforeDerived
<1> QED
  BY <1>1, <1>2, <1>7, AllDerivedTrans

LEMMA DemoteRegDerived ==
  ASSUME NEW A, IsCode(A), NEW id, NEW pt, NEW slot \in SlotIds
  PROVE  AllDerived(A, DemoteRegToStack(A, id, pt, slot))
<1> DEFINE p == PlaceOf(A, id)
           set == FirstInsertionPoint(A, p[1], p[2] + 1)
           C == Reloading(A, id, slot)
           new == [q \in Places(A) |->
                     When(AtPoint(A, q, pt), Alloca(slot))
                       \o When(q = set, Store(<<"store", slot>>, Reg(id), slot))
                       \o ReloadsAt(A, q, id, slot)]
<1>1. DemoteRegToStack(A, id, pt, slot) = PutBefore(C, new)
  BY DEF DemoteRegToStack
<1>2. AllDerived(A, C)
  BY ReloadingDerived
<1>3. Places(C) = Places(A)
  <2>1. DOMAIN C = DOMAIN A /\ \A b \in DOMAIN A : DOMAIN C[b] = DOMAIN A[b]
    BY DEF Reloading
  <2> HIDE DEF C
  <2> QED
    BY <2>1, RenamedPlaces
<1>4. IsNew(Alloca(slot)) /\ IsNew(Store(<<"store", slot>>, Reg(id), slot))
  BY NewKinds
<1> HIDE DEF set, p, C
<1>5. ASSUME NEW q \in Places(A) PROVE AllNew(new[q])
  <2>1. AtPoint(A, q, pt) \in BOOLEAN /\ (q = set) \in BOOLEAN
    BY DEF AtPoint
  <2>2. /\ AllNew(When(AtPoint(A, q, pt), Alloca(slot)))
        /\ AllNew(When(q = set, Store(<<"store", slot>>, Reg(id), slot)))
        /\ AllNew(ReloadsAt(A, q, id, slot))
    BY <1>4, <2>1, WhenNew, ReloadsNew
  <2>3. new[q] = When(AtPoint(A, q, pt), Alloca(slot))
                   \o When(q = set, Store(<<"store", slot>>, Reg(id), slot))
                   \o ReloadsAt(A, q, id, slot)
    OBVIOUS
  <2> QED
    BY <2>2, <2>3, ConcatNew
<1> HIDE DEF new
<1>6. IsCode(C)
  BY <1>2 DEF AllDerived
<1>7. AllDerived(C, PutBefore(C, new))
  BY <1>3, <1>5, <1>6, PutBeforeDerived
<1> QED
  BY <1>1, <1>2, <1>7, AllDerivedTrans

LEMMA DemotePhiDerived ==
  ASSUME NEW A, IsCode(A), NEW S, NEW x, x.blocks \in Seq(S), NEW pt, NEW slot \in SlotIds,
         \A b \in DOMAIN A : /\ Last(A[b]).kind \in Kept
                             /\ \A y \in ToSet(A[b]) : y.kind \in Kept => y.id # x.id
  PROVE  AllDerived(A, DemotePHIToStack(A, x, pt, slot))
<1> DEFINE p == PlaceOf(A, x.id)
           rest == Erase(A, x.id)
           first == FirstInsertionPoint(rest, p[1], p[2])
           new == [q \in Places(rest) |->
                     When(AtPoint(rest, q, pt), Alloca(slot))
                       \o When(q = first, Load(x.id, slot))
                       \o StoresAt(rest, q, x, slot)]
<1>1. DemotePHIToStack(A, x, pt, slot)
        = IF UsersOf(A, x.id) = {} THEN rest ELSE PutBefore(rest, new)
  BY DEF DemotePHIToStack
<1>2. AllDerived(A, rest)
  BY EraseDerived
<1>3. IsNew(Alloca(slot)) /\ IsNew(Load(x.id, slot))
  BY NewKinds
<1> HIDE DEF first, p, rest
<1>4. ASSUME NEW q \in Places(rest) PROVE AllNew(new[q])
  <2>1. AtPoint(rest, q, pt) \in BOOLEAN /\ (q = first) \in BOOLEAN
    BY DEF AtPoint
  <2>2. /\ AllNew(When(AtPoint(rest, q, pt), Alloca(slot)))
        /\ AllNew(When(q = first, Load(x.id, slot)))
        /\ AllNew(StoresAt(rest, q, x, slot))
    BY <1>3, <2>1, WhenNew, StoresNew
  <2>3. new[q] = When(AtPoint(rest, q, pt), Alloca(slot))
                   \o When(q = first, Load(x.id, slot)) \o StoresAt(rest, q, x, slot)
    OBVIOUS
  <2> QED
    BY <2>2, <2>3, ConcatNew
<1> HIDE DEF new
<1>5. IsCode(rest)
  BY <1>2 DEF AllDerived
<1>6. AllDerived(rest, PutBefore(rest, new))
  BY <1>4, <1>5, PutBeforeDerived
<1>7. AllDerived(A, PutBefore(rest, new))
  BY <1>2, <1>6, AllDerivedTrans
<1> QED
  BY <1>1, <1>2, <1>7

-----------------------------------------------------------------------------
(* The front of the entry block.                                           *)

LEMMA LeadingAre ==
  ASSUME NEW B, IsBlock(B), Last(B).kind # "alloca"
  PROVE  /\ LeadingAllocas(B) \in Nat /\ LeadingAllocas(B) + 1 \in 1..Len(B)
         /\ \A i \in 1..LeadingAllocas(B) : B[i].kind = "alloca"
<1> DEFINE E == {i \in DOMAIN B : B[i].kind # "alloca"}
<1>1. DOMAIN B = 1..Len(B) /\ Len(B) \in Nat /\ Len(B) # 0
  BY DEF IsBlock
<1>2. Len(B) \in E
  BY <1>1 DEF Last
<1>3. E \in SUBSET Nat /\ E # {}
  BY <1>1, <1>2
<1>4. Min(E) \in E /\ \A k \in E : Min(E) <= k
  BY <1>3, MinOfSet
<1>5. LeadingAllocas(B) = Min(E) - 1
  BY DEF LeadingAllocas
<1>6. Min(E) \in 1..Len(B) /\ \A i \in 1..Len(B) : B[i].kind # "alloca" => Min(E) <= i
  BY <1>1, <1>4
<1> HIDE DEF E
<1> QED
  BY <1>1, <1>5, <1>6

LEMMA AfterAllocasDerived ==
  ASSUME NEW B, IsBlock(B), Last(B).kind # "alloca", NEW x, IsNew(x)
  PROVE  Derived(B, AfterAllocas(B, x))
BY LeadingAre, DerivedInsert DEF AfterAllocas

-----------------------------------------------------------------------------
(* What the code of f, given as src, is at any time.                       *)

Erasable(src) ==
  {x.id : x \in {y \in InstsOf(src) : y.kind \notin Terminators}} \cup SlotIds

InstOK(src, f, x) ==
  /\ x.kind \in {"br", "invoke", "phi"} => x.blocks \in Seq(DOMAIN src)
  /\ x.kind \in {"br", "invoke"} => 1 \notin ToSet(x.blocks)
  /\ x.kind = "invoke" => Len(x.blocks) = 2
  /\ x.kind \in {"call", "invoke"} => x.ref \subseteq Fns
  /\ x.kind = "puts" => x.ref \in {<<"enter", f>>, <<"leave", f>>}
  /\ x.kind \in Kept => x.id \notin Erasable(src)
  /\ x.kind \in {"phi", "alloca"} => x.id \in Erasable(src)

BodyOK(src, f, A) ==
  /\ IsCode(A) /\ DOMAIN A = DOMAIN src
  /\ \A b \in DOMAIN A :
       /\ Last(A[b]).kind \in Terminators
       /\ \A x \in ToSet(A[b]) : InstOK(src, f, x)

(* The lines of a block that ends with `kind` when puts was called for in  *)
(* its function or not.                                                    *)
LinesFor(n, b, kind) ==
  IF n = 0 THEN IF kind = "ret" THEN <<"ret">> ELSE <<"go">>
  ELSE IF b = 1 THEN IF kind = "ret" THEN <<"enter", "leave", "ret">> ELSE <<"enter", "go">>
  ELSE IF kind = "ret" THEN <<"leave", "ret">> ELSE <<"go">>

LinesOK(n, A) ==
  \A b \in DOMAIN A : LinesOf(A[b]) = LinesFor(n, b, Last(A[b]).kind)

LEMMA NewOK ==
  ASSUME NEW src, NEW f, NEW x, IsNew(x)
  PROVE  InstOK(src, f, x)
<1>1. x.kind \in {"load", "store", "point"} \/ (x.kind = "alloca" /\ x.id \in SlotIds)
  BY DEF IsNew
<1>2. x.kind \notin {"br", "invoke", "phi", "call", "puts"} /\ x.kind \notin Kept
  BY <1>1 DEF Kept, Terminators
<1>3. x.kind \in {"phi", "alloca"} => x.id \in Erasable(src)
  BY <1>1 DEF Erasable
<1> QED
  BY <1>2, <1>3 DEF InstOK

LEMMA AlikeOK ==
  ASSUME NEW src, NEW f, NEW x, NEW y, Alike(x, y), InstOK(src, f, y)
  PROVE  InstOK(src, f, x)
BY DEF InstOK, Alike

LEMMA DerivedOK ==
  ASSUME NEW src, NEW f, NEW A, NEW C, BodyOK(src, f, A), AllDerived(A, C)
  PROVE  BodyOK(src, f, C)
<1>1. IsCode(C) /\ DOMAIN C = DOMAIN A /\ DOMAIN A = DOMAIN src
  BY DEF AllDerived, BodyOK
<1>2. ASSUME NEW b \in DOMAIN C
      PROVE  /\ Last(C[b]).kind \in Terminators
             /\ \A x \in ToSet(C[b]) : InstOK(src, f, x)
  <2>1. Derived(A[b], C[b])
    BY <1>1 DEF AllDerived
  <2>2. /\ Last(A[b]).kind \in Terminators /\ \A x \in ToSet(A[b]) : InstOK(src, f, x)
    BY <1>1 DEF BodyOK
  <2>3. Last(C[b]).kind \in Terminators
    BY <2>1, <2>2 DEF Derived
  <2>4. ASSUME NEW x \in ToSet(C[b]) PROVE InstOK(src, f, x)
    <3>1. IsNew(x) \/ \E y \in ToSet(A[b]) : Alike(x, y)
      BY <2>1 DEF Derived
    <3> QED
      BY <2>2, <3>1, NewOK, AlikeOK
  <2> QED
    BY <2>3, <2>4
<1> QED
  BY <1>1, <1>2 DEF BodyOK

LEMMA DerivedLines ==
  ASSUME NEW n, NEW A, NEW C, LinesOK(n, A), AllDerived(A, C)
  PROVE  LinesOK(n, C)
BY DEF LinesOK, AllDerived, Derived

(* What may be erased.                                                     *)
LEMMA MayErase ==
  ASSUME NEW src, NEW f, NEW A, BodyOK(src, f, A), NEW id \in Erasable(src)
  PROVE  \A b \in DOMAIN A : /\ Last(A[b]).kind \in Kept
                             /\ \A x \in ToSet(A[b]) : x.kind \in Kept => x.id # id
BY DEF BodyOK, InstOK, Kept

LEMMA EntryIs ==
  ASSUME NEW src, NEW f, NEW A, BodyOK(src, f, A)
  PROVE  1 \in DOMAIN A /\ IsBlock(A[1]) /\ Last(A[1]).kind # "alloca"
<1>1. A # <<>> /\ A \in Seq(Seq(InstsOf(A))) /\ \A b \in DOMAIN A : IsBlock(A[b])
  BY DEF BodyOK, IsCode
<1>2. 1 \in DOMAIN A
  BY <1>1
<1> QED
  BY <1>1, <1>2 DEF BodyOK, Terminators

-----------------------------------------------------------------------------
(* function-name-trace.                                                    *)

LEMMA AllocasFirstDerived ==
  ASSUME NEW B, IsBlock(B), Last(B).kind \in Terminators
  PROVE  Derived(B, AllocasFirst(B))
<1> DEFINE S == ToSet(B)
           allocas == {x \in S : x.kind = "alloca"}
           s == Select(B, allocas)
           t == Select(B, S \ allocas)
<1>1. B \in Seq(S)
  BY DEF IsBlock
<1>2. s \in Seq(S) /\ ToSet(s) = S \cap allocas
  BY <1>1, SelectType, SelectElements
<1>3. Derived(B, t) /\ ToSet(t) = S \cap (S \ allocas)
  <2>1. \A x \in S : x.kind \in Kept => x \in S \ allocas
    BY DEF Kept, Terminators
  <2>2. Last(B).kind \in Kept
    BY DEF Kept
  <2> QED
    BY <2>1, <2>2, DerivedSelect
<1>4. AllocasFirst(B) = s \o t
  BY DEF AllocasFirst
<1>5. \A i \in DOMAIN s : s[i].kind \notin Kept
  <2>1. \A i \in DOMAIN s : s[i] \in allocas
    BY <1>2 DEF ToSet
  <2> QED
    BY <2>1 DEF Kept, Terminators
<1>6. t \in Seq(S) /\ t # <<>>
  <2>1. t \in Seq(ToSet(t)) /\ t # <<>> /\ ToSet(t) \subseteq S
    BY <1>3 DEF Derived, IsBlock
  <2> QED
    BY <2>1, SeqWidens
<1> HIDE DEF s, t, allocas
<1>7. LinesOf(s \o t) = LinesOf(t)
  <2>1. LinesOf(s \o t) = LinesOf(s) \o LinesOf(t)
    BY <1>2, <1>6, LinesConcat
  <2>2. LinesOf(s) = <<>>
    BY <1>2, <1>5, LinesNone
  <2>3. LinesOf(t) \in Seq(Lines)
    BY <1>6, LinesIn
  <2> QED
    BY <2>1, <2>2, <2>3, ConcatEmptySeq
<1>8. Last(s \o t) = Last(t) /\ s \o t # <<>> /\ s \o t \in Seq(S)
  <2>1. /\ s \o t \in Seq(S) /\ Len(s \o t) = Len(s) + Len(t)
        /\ \A i \in 1..(Len(s) + Len(t)) :
             (s \o t)[i] = IF i <= Len(s) THEN s[i] ELSE t[i - Len(s)]
    BY <1>2, <1>6, ConcatProperties
  <2>2. Len(s) \in Nat /\ Len(t) \in Nat /\ Len(t) # 0
    BY <1>2, <1>6
  <2>3. Last(s \o t) = t[Len(t)]
    BY <2>1, <2>2 DEF Last
  <2>4. s \o t # <<>>
    BY <2>1, <2>2
  <2> QED
    BY <2>1, <2>3, <2>4 DEF Last
<1>9. ToSet(s \o t) \subseteq S /\ IsBlock(s \o t)
  BY <1>8, SeqOfOwn DEF IsBlock
<1>10. \A x \in ToSet(s \o t) : \E y \in S : Alike(x, y)
  BY <1>9 DEF Alike
<1> QED
  BY <1>3, <1>4, <1>7, <1>8, <1>9, <1>10 DEF Derived

IsPuts(x, line) == x.kind = "puts" /\ x.ref = line

LEMMA PutsIs ==
  ASSUME NEW src, Given(src), NEW f, NEW id, NEW l \in {"enter", "leave"}
  PROVE  /\ IsPuts(PutsCall(id, f, <<l, f>>), <<l, f>>)
         /\ InstOK(src, f, PutsCall(id, f, <<l, f>>))
         /\ LineOf(PutsCall(id, f, <<l, f>>)) = l
<1> DEFINE x == PutsCall(id, f, <<l, f>>)
           n == <<"puts", id, traced[f], <<l, f>>[1]>>
<1>1. x.kind = "puts" /\ x.ref = <<l, f>> /\ x.id = n
  BY DEF PutsCall, Inst
<1>2. n[1] = "puts"
  OBVIOUS
<1> HIDE DEF n, x
<1>3. n \notin SlotIds
  BY <1>2 DEF SlotIds
<1>4. \A y \in InstsOf(src) : y.id # n
  BY <1>2 DEF Given, GivenInst, MadeIds
<1>5. n \notin Erasable(src)
  BY <1>3, <1>4 DEF Erasable
<1>6. InstOK(src, f, x)
  BY <1>1, <1>5 DEF InstOK
<1>7. x.ref[1] = l
  BY <1>1
<1>8. LineOf(x) = l
  BY <1>1, <1>7 DEF LineOf
<1> QED
  BY <1>1, <1>6, <1>8 DEF IsPuts, x

(* The line on entry comes before all else that counts.                    *)
LEMMA EntryLine ==
  ASSUME NEW B, IsBlock(B), Last(B).kind # "alloca", NEW x, x.kind = "puts"
  PROVE  /\ IsBlock(AfterAllocas(B, x)) /\ Last(AfterAllocas(B, x)) = Last(B)
         /\ ToSet(AfterAllocas(B, x)) = ToSet(B) \cup {x}
         /\ LinesOf(AfterAllocas(B, x)) = <<LineOf(x)>> \o LinesOf(B)
<1> DEFINE k == LeadingAllocas(B) + 1
           u == SubSeq(B, 1, k - 1)
           v == SubSeq(B, k, Len(B))
           C == InsertAt(B, k, x)
<1>1. k \in 1..Len(B) /\ \A i \in 1..(k - 1) : B[i].kind = "alloca"
  BY LeadingAre
<1>2. AfterAllocas(B, x) = C
  BY DEF AfterAllocas
<1> HIDE DEF k
<1>3. /\ IsBlock(C) /\ ToSet(C) = ToSet(B) \cup {x} /\ Last(C) = Last(B)
      /\ LinesOf(C) = (LinesOf(u) \o <<LineOf(x)>>) \o LinesOf(v)
      /\ LinesOf(B) = LinesOf(u) \o LinesOf(v)
  BY <1>1, InsertBlock DEF Kept
<1>4. /\ u \in Seq(ToSet(B)) /\ v \in Seq(ToSet(B)) /\ Len(u) = k - 1
      /\ \A i \in 1..(k - 1) : u[i] = B[i]
  <2>1. k \in 1..(Len(B) + 1) /\ B \in Seq(ToSet(B))
    BY <1>1 DEF IsBlock
  <2> QED
    BY <2>1, CutBefore
<1> HIDE DEF u, v, C
<1>5. LinesOf(u) = <<>>
  <2>1. DOMAIN u = 1..(k - 1)
    BY <1>4
  <2>2. \A i \in DOMAIN u : u[i].kind \notin Kept
    BY <1>1, <1>4, <2>1 DEF Kept, Terminators
  <2> QED
    BY <1>4, <2>2, LinesNone
<1>6. LinesOf(v) \in Seq(Lines) /\ LineOf(x) \in Lines
  <2>1. LinesOf(v) \in Seq(Lines)
    BY <1>4, LinesIn
  <2> QED
    BY <2>1 DEF LineOf, Lines
<1>7. <<>> \o <<LineOf(x)>> = <<LineOf(x)>> /\ <<>> \o LinesOf(v) = LinesOf(v)
  <2>1. <<LineOf(x)>> \in Seq(Lines)
    BY <1>6
  <2> QED
    BY <1>6, <2>1, ConcatEmptySeq
<1>8. LinesOf(C) = <<LineOf(x)>> \o LinesOf(v) /\ LinesOf(B) = LinesOf(v)
  BY <1>3, <1>5, <1>7
<1> QED
  BY <1>2, <1>3, <1>8

(* The line on return comes just before it.                                *)
LEMMA ReturnLine ==
  ASSUME NEW B, IsBlock(B), Last(B).kind = "ret", NEW x, x.kind = "puts",
         NEW s \in Seq(Lines), LinesOf(B) = Append(s, "ret")
  PROVE  /\ IsBlock(InsertAt(B, Len(B), x)) /\ Last(InsertAt(B, Len(B), x)) = Last(B)
         /\ ToSet(InsertAt(B, Len(B), x)) = ToSet(B) \cup {x}
         /\ LinesOf(InsertAt(B, Len(B), x)) = Append(Append(s, LineOf(x)), "ret")
<1> DEFINE u == SubSeq(B, 1, Len(B) - 1)
           v == SubSeq(B, Len(B), Len(B))
           C == InsertAt(B, Len(B), x)
<1>1. Len(B) \in 1..Len(B) /\ Len(B) \in 1..(Len(B) + 1) /\ B \in Seq(ToSet(B)) /\ B # <<>>
  BY DEF IsBlock
<1>2. /\ IsBlock(C) /\ ToSet(C) = ToSet(B) \cup {x} /\ Last(C) = Last(B)
      /\ LinesOf(C) = (LinesOf(u) \o <<LineOf(x)>>) \o LinesOf(v)
      /\ LinesOf(B) = LinesOf(u) \o LinesOf(v)
  BY <1>1, InsertBlock DEF Kept
<1>3. /\ u \in Seq(ToSet(B)) /\ v \in Seq(ToSet(B))
      /\ Len(v) = Len(B) - Len(B) + 1
      /\ \A i \in 1..(Len(B) - Len(B) + 1) : v[i] = B[Len(B) + i - 1]
  BY <1>1, CutBefore
<1> HIDE DEF u, v, C
<1>4. v = <<Last(B)>> /\ Last(B) \in ToSet(B)
  <2>1. Len(v) = 1 /\ v[1] = B[Len(B)]
    BY <1>1, <1>3
  <2> QED
    BY <1>1, <1>3, <2>1, LastOf DEF Last
<1>5. LinesOf(v) = <<"ret">>
  <2>1. LinesOf(v) = IF Last(B).kind \in Kept THEN <<LineOf(Last(B))>> ELSE <<>>
    BY <1>4, LinesOne
  <2> QED
    BY <2>1 DEF Kept, Terminators, LineOf
<1>6. LinesOf(u) \in Seq(Lines) /\ "ret" \in Lines /\ LineOf(x) \in Lines
  BY <1>3, LinesIn DEF Lines, LineOf
<1>7. LinesOf(u) \o <<"ret">> = Append(LinesOf(u), "ret")
  BY <1>6, AppendIsConcat
<1>8. LinesOf(u) = s
  <2> DEFINE w == LinesOf(u)
  <2>1. w \in Seq(Lines) /\ Append(w, "ret") = Append(s, "ret") /\ "ret" \in Lines
    BY <1>2, <1>5, <1>6, <1>7
  <2> HIDE DEF w
  <2>2. w = s
    BY <2>1, AppendProperties
  <2> QED
    BY <2>2 DEF w
<1>9. s \o <<LineOf(x)>> = Append(s, LineOf(x)) /\ Append(s, LineOf(x)) \in Seq(Lines)
  BY <1>6, AppendIsConcat
<1>10. Append(s, LineOf(x)) \o <<"ret">> = Append(Append(s, LineOf(x)), "ret")
  BY <1>6, <1>9, AppendIsConcat
<1> QED
  BY <1>2, <1>5, <1>8, <1>9, <1>10 DEF C

-----------------------------------------------------------------------------
(* The lines that puts is called for.                                      *)

LEMMA PutsOnEntryOK ==
  ASSUME NEW src, Given(src), NEW f, NEW A, BodyOK(src, f, A)
  PROVE  /\ BodyOK(src, f, PutsOnEntry(A, f, <<"enter", f>>))
         /\ DOMAIN PutsOnEntry(A, f, <<"enter", f>>) = DOMAIN A
         /\ \A b \in DOMAIN A :
              /\ Last(PutsOnEntry(A, f, <<"enter", f>>)[b]).kind = Last(A[b]).kind
              /\ LinesOf(PutsOnEntry(A, f, <<"enter", f>>)[b])
                   = IF b = 1 THEN <<"enter">> \o LinesOf(A[b]) ELSE LinesOf(A[b])
<1> DEFINE line == <<"enter", f>>
           entry == AllocasFirst(A[1])
           x == PutsCall(entry[LeadingAllocas(entry) + 1].id, f, line)
           B == AfterAllocas(entry, x)
           C == PutsOnEntry(A, f, line)
<1>1. /\ IsCode(A) /\ DOMAIN A = DOMAIN src /\ 1 \in DOMAIN A
      /\ \A b \in DOMAIN A : IsBlock(A[b])
      /\ Last(A[1]).kind \in Terminators
  BY EntryIs DEF BodyOK, IsCode
<1>2. Derived(A[1], entry)
  BY <1>1, AllocasFirstDerived
<1>3. /\ IsBlock(entry) /\ Last(entry).kind = Last(A[1]).kind
      /\ LinesOf(entry) = LinesOf(A[1])
  BY <1>2 DEF Derived
<1>4. x.kind = "puts" /\ InstOK(src, f, x) /\ LineOf(x) = "enter"
  BY PutsIs DEF IsPuts
<1>5. C = [A EXCEPT ![1] = B]
  BY DEF PutsOnEntry
<1> HIDE DEF x, C
<1>6. /\ IsBlock(B) /\ Last(B) = Last(entry) /\ ToSet(B) = ToSet(entry) \cup {x}
      /\ LinesOf(B) = <<"enter">> \o LinesOf(entry)
  <2>1. Last(entry).kind # "alloca"
    BY <1>1, <1>3 DEF Terminators
  <2> HIDE DEF entry
  <2> QED
    BY <1>3, <1>4, <2>1, EntryLine
<1>7. \A y \in ToSet(entry) : InstOK(src, f, y)
  <2>1. \A y \in ToSet(A[1]) : InstOK(src, f, y)
    BY <1>1 DEF BodyOK
  <2>2. \A y \in ToSet(entry) : IsNew(y) \/ \E z \in ToSet(A[1]) : Alike(y, z)
    BY <1>2 DEF Derived
  <2> HIDE DEF entry
  <2> QED
    BY <2>1, <2>2, NewOK, AlikeOK
<1> HIDE DEF entry, B
<1>8. /\ DOMAIN C = DOMAIN A /\ C = [b \in DOMAIN A |-> C[b]]
      /\ C[1] = B /\ \A b \in DOMAIN A : b # 1 => C[b] = A[b]
  <2>1. A = [b \in DOMAIN A |-> A[b]]
    BY <1>1 DEF IsCode
  <2> QED
    BY <1>1, <1>5, <2>1
<1>9. IsCode(C)
  <2>1. \A b \in DOMAIN A : IsBlock(C[b])
    BY <1>1, <1>6, <1>8
  <2> QED
    BY <1>1, <1>8, <2>1, CodeIs
<1>10. ASSUME NEW b \in DOMAIN A
       PROVE  /\ Last(C[b]).kind \in Terminators
              /\ \A y \in ToSet(C[b]) : InstOK(src, f, y)
  <2>1. CASE b = 1
    BY <1>1, <1>3, <1>4, <1>6, <1>7, <1>8, <2>1
  <2>2. CASE b # 1
    BY <1>8, <2>2 DEF BodyOK
  <2> QED
    BY <2>1, <2>2
<1>11. BodyOK(src, f, C)
  BY <1>1, <1>8, <1>9, <1>10 DEF BodyOK
<1>12. ASSUME NEW b \in DOMAIN A
       PROVE  /\ Last(C[b]).kind = Last(A[b]).kind
              /\ LinesOf(C[b]) = IF b = 1 THEN <<"enter">> \o LinesOf(A[b]) ELSE LinesOf(A[b])
  BY <1>3, <1>6, <1>8
<1> QED
  BY <1>8, <1>11, <1>12 DEF C

(* D is A with the lines before its returns.                               *)
Leaving(A, D) ==
  /\ DOMAIN D = DOMAIN A
  /\ \A b \in DOMAIN A :
       /\ Last(D[b]).kind = Last(A[b]).kind
       /\ Last(A[b]).kind # "ret" => LinesOf(D[b]) = LinesOf(A[b])
       /\ \A s \in Seq(Lines) :
            Last(A[b]).kind = "ret" /\ LinesOf(A[b]) = Append(s, "ret") =>
              LinesOf(D[b]) = Append(Append(s, "leave"), "ret")

LEMMA PutsBeforeReturnsOK ==
  ASSUME NEW src, Given(src), NEW f, NEW A, BodyOK(src, f, A)
  PROVE  /\ BodyOK(src, f, PutsBeforeReturns(A, f, <<"leave", f>>))
         /\ Leaving(A, PutsBeforeReturns(A, f, <<"leave", f>>))
<1> DEFINE line == <<"leave", f>>
           x(b) == PutsCall(Last(A[b]).id, f, line)
           C == PutsBeforeReturns(A, f, line)
<1>1. /\ IsCode(A) /\ DOMAIN A = DOMAIN src
      /\ \A b \in DOMAIN A : IsBlock(A[b]) /\ Last(A[b]).kind \in Terminators
  BY DEF BodyOK, IsCode
<1>2. \A b \in DOMAIN A : x(b).kind = "puts" /\ InstOK(src, f, x(b)) /\ LineOf(x(b)) = "leave"
  BY PutsIs DEF IsPuts
<1>3. C = [b \in DOMAIN A |-> IF Last(A[b]).kind = "ret"
                              THEN InsertAt(A[b], Len(A[b]), x(b)) ELSE A[b]]
  BY DEF PutsBeforeReturns
<1> HIDE DEF x, C
<1>4. /\ DOMAIN C = DOMAIN A /\ C = [b \in DOMAIN A |-> C[b]]
      /\ \A b \in DOMAIN A : C[b] = IF Last(A[b]).kind = "ret"
                                    THEN InsertAt(A[b], Len(A[b]), x(b)) ELSE A[b]
  BY <1>3
<1>5. ASSUME NEW b \in DOMAIN A
      PROVE  /\ IsBlock(C[b]) /\ Last(C[b]) = Last(A[b])
             /\ ToSet(C[b]) \subseteq ToSet(A[b]) \cup {x(b)}
  <2>1. Len(A[b]) \in 1..Len(A[b])
    BY <1>1 DEF IsBlock
  <2>2. IsBlock(InsertAt(A[b], Len(A[b]), x(b)))
        /\ ToSet(InsertAt(A[b], Len(A[b]), x(b))) = ToSet(A[b]) \cup {x(b)}
        /\ Last(InsertAt(A[b], Len(A[b]), x(b))) = Last(A[b])
    BY <1>1, <2>1, InsertBlock
  <2> QED
    BY <1>1, <1>4, <2>2
<1>6. IsCode(C)
  BY <1>1, <1>4, <1>5, CodeIs
<1>7. ASSUME NEW b \in DOMAIN A
      PROVE  /\ Last(C[b]).kind \in Terminators
             /\ \A y \in ToSet(C[b]) : InstOK(src, f, y)
  <2>1. \A y \in ToSet(A[b]) : InstOK(src, f, y)
    BY DEF BodyOK
  <2> QED
    BY <1>1, <1>2, <1>5, <2>1
<1>8. BodyOK(src, f, C)
  BY <1>1, <1>4, <1>6, <1>7 DEF BodyOK
<1>9. ASSUME NEW b \in DOMAIN A, Last(A[b]).kind # "ret"
      PROVE  LinesOf(C[b]) = LinesOf(A[b])
  BY <1>4, <1>9
<1>10. ASSUME NEW b \in DOMAIN A, Last(A[b]).kind = "ret",
              NEW s \in Seq(Lines), LinesOf(A[b]) = Append(s, "ret")
       PROVE  LinesOf(C[b]) = Append(Append(s, "leave"), "ret")
  <2>1. C[b] = InsertAt(A[b], Len(A[b]), x(b))
    BY <1>4, <1>10
  <2>2. LinesOf(InsertAt(A[b], Len(A[b]), x(b))) = Append(Append(s, LineOf(x(b))), "ret")
    BY <1>1, <1>2, <1>10, ReturnLine
  <2> QED
    BY <1>2, <2>1, <2>2
<1>11. Leaving(A, C)
  BY <1>4, <1>5, <1>9, <1>10 DEF Leaving
<1> QED
  BY <1>8, <1>11 DEF C

(* What a run of the pass makes of a function.                             *)
Trace(A, f) == PutsBeforeReturns(PutsOnEntry(A, f, <<"enter", f>>), f, <<"leave", f>>)

LEMMA PairIs ==
  ASSUME NEW S, NEW x \in S, NEW y \in S
  PROVE  Append(<<x>>, y) = <<x, y>>
<1> DEFINE u == Append(<<x>>, y)
           v == <<x, y>>
<1>1. u \in Seq(S) /\ Len(u) = 2 /\ u[1] = x /\ u[2] = y
  OBVIOUS
<1>2. v \in Seq(S) /\ Len(v) = 2 /\ v[1] = x /\ v[2] = y
  OBVIOUS
<1> HIDE DEF u, v
<1>3. u = v
  BY <1>1, <1>2
<1> QED
  BY <1>3 DEF u, v

LEMMA TraceOK ==
  ASSUME NEW src, Given(src), NEW f, NEW A, BodyOK(src, f, A)
  PROVE  BodyOK(src, f, Trace(A, f)) /\ (LinesOK(0, A) => LinesOK(1, Trace(A, f)))
<1> DEFINE C == PutsOnEntry(A, f, <<"enter", f>>)
           D == PutsBeforeReturns(C, f, <<"leave", f>>)
<1>1. /\ BodyOK(src, f, C) /\ DOMAIN C = DOMAIN A
      /\ \A b \in DOMAIN A :
           /\ Last(C[b]).kind = Last(A[b]).kind
           /\ LinesOf(C[b]) = IF b = 1 THEN <<"enter">> \o LinesOf(A[b]) ELSE LinesOf(A[b])
  BY PutsOnEntryOK
<1>2. Trace(A, f) = D
  BY DEF Trace
<1> HIDE DEF C
<1>3. /\ BodyOK(src, f, D) /\ DOMAIN D = DOMAIN C
      /\ \A b \in DOMAIN C :
              /\ Last(D[b]).kind = Last(C[b]).kind
              /\ Last(C[b]).kind # "ret" => LinesOf(D[b]) = LinesOf(C[b])
              /\ \A s \in Seq(Lines) :
                   Last(C[b]).kind = "ret" /\ LinesOf(C[b]) = Append(s, "ret") =>
                     LinesOf(D[b]) = Append(Append(s, "leave"), "ret")
  <2>1. BodyOK(src, f, C)
    BY <1>1
  <2>2. BodyOK(src, f, D) /\ Leaving(C, D)
    BY <2>1, PutsBeforeReturnsOK
  <2> HIDE DEF D
  <2> QED
    BY <2>2 DEF Leaving
<1> HIDE DEF D
<1>4. ASSUME LinesOK(0, A), NEW b \in DOMAIN A
      PROVE  LinesOf(D[b]) = LinesFor(1, b, Last(D[b]).kind)
  <2>1. LinesOf(A[b]) = IF Last(A[b]).kind = "ret" THEN <<"ret">> ELSE <<"go">>
    BY <1>4 DEF LinesOK, LinesFor
  <2>2. Last(D[b]).kind = Last(A[b]).kind /\ Last(C[b]).kind = Last(A[b]).kind
    BY <1>1, <1>3
  <2>3. CASE Last(A[b]).kind = "ret"
    <3> DEFINE s == IF b = 1 THEN <<"enter">> ELSE <<>>
    <3>1. LinesOf(C[b]) = Append(s, "ret")
      BY <1>1, <2>1, <2>3
    <3>2. s \in Seq(Lines)
      <4>1. <<"enter">> \in Seq(Lines) /\ <<>> \in Seq(Lines)
        BY DEF Lines
      <4> QED
        BY <4>1
    <3> HIDE DEF s
    <3>3. b \in DOMAIN C /\ Last(C[b]).kind = "ret"
      BY <1>1, <2>2, <2>3
    <3>4. LinesOf(D[b]) = Append(Append(s, "leave"), "ret")
      BY <1>3, <3>1, <3>2, <3>3
    <3> QED
      BY <2>2, <2>3, <3>4 DEF LinesFor, s
  <2>4. CASE Last(A[b]).kind # "ret"
    <3>1. LinesOf(D[b]) = IF b = 1 THEN <<"enter">> \o <<"go">> ELSE <<"go">>
      BY <1>1, <1>3, <2>1, <2>2, <2>4
    <3>2. <<"enter">> \o <<"go">> = <<"enter", "go">>
      <4>1. <<"enter">> \in Seq(Lines) /\ "go" \in Lines
        BY DEF Lines
      <4>3. Append(<<"enter">>, "go") = <<"enter", "go">>
        <5>1. "enter" \in Lines /\ "go" \in Lines
          BY DEF Lines
        <5> QED
          BY <5>1, PairIs
      <4>2. <<"enter">> \o <<"go">> = Append(<<"enter">>, "go")
        BY <4>1, AppendIsConcat
      <4> QED
        BY <4>2, <4>3
    <3>3. Last(D[b]).kind # "ret"
      BY <2>2, <2>4
    <3>4. LinesFor(1, b, Last(D[b]).kind) = IF b = 1 THEN <<"enter", "go">> ELSE <<"go">>
      BY <3>3 DEF LinesFor
    <3> DEFINE one == <<"enter", "go">>
               two == <<"enter">> \o <<"go">>
    <3>5. /\ LinesOf(D[b]) = IF b = 1 THEN two ELSE <<"go">>
          /\ LinesFor(1, b, Last(D[b]).kind) = IF b = 1 THEN one ELSE <<"go">>
          /\ two = one
      BY <3>1, <3>2, <3>4
    <3> HIDE DEF one, two
    <3> QED
      BY <3>5
  <2> QED
    BY <2>3, <2>4
<1>5. LinesOK(0, A) => LinesOK(1, D)
  BY <1>1, <1>3, <1>4 DEF LinesOK
<1> QED
  BY <1>2, <1>3, <1>5

-----------------------------------------------------------------------------
(* The code to begin with.                                                 *)

LEMMA PlaceIs ==
  ASSUME NEW src, NEW b \in DOMAIN src, NEW i \in DOMAIN src[b]
  PROVE  <<b, i>> \in Places(src) /\ InstAt(src, <<b, i>>) = src[b][i]
BY DEF Places, InstAt

LEMMA IsPlace ==
  ASSUME NEW src, NEW x \in InstsOf(src)
  PROVE  \E b \in DOMAIN src : \E i \in DOMAIN src[b] : x = src[b][i]
BY DEF InstsOf, ToSet

LEMMA GivenBlock ==
  ASSUME NEW src, Given(src), NEW b \in DOMAIN src
  PROVE  /\ IsBlock(src[b]) /\ Last(src[b]).kind \in Terminators
         /\ LinesOf(src[b]) = LinesFor(0, b, Last(src[b]).kind)
<1> DEFINE S == InstsOf(src)
           B == src[b]
<1>1. B \in Seq(S) /\ B # <<>>
  BY DEF Given
<1>2. IsBlock(B)
  BY <1>1, SeqOfOwn DEF IsBlock
<1>3. /\ Len(B) \in DOMAIN B /\ Last(B) = B[Len(B)]
      /\ \E C \in Seq(S) : B = Append(C, Last(B)) /\ Len(B) = Len(C) + 1
      /\ Last(B) \in S
  BY <1>1, LastOf DEF Last
<1>4. ASSUME NEW i \in DOMAIN B
      PROVE  B[i].kind \in Terminators <=> i = Len(B)
  <2>1. <<b, i>> \in Places(src) /\ InstAt(src, <<b, i>>) = B[i]
    BY PlaceIs
  <2>2. <<b, i>>[1] = b /\ <<b, i>>[2] = i
    OBVIOUS
  <2> QED
    BY <2>1, <2>2 DEF Given
<1>5. Last(B).kind \in Terminators
  BY <1>3, <1>4
<1>6. \A i \in DOMAIN B : B[i].kind # "puts"
  <2>1. \A i \in DOMAIN B : B[i] \in S
    BY <1>1
  <2> QED
    BY <2>1 DEF Given, GivenInst
<1>7. PICK C \in Seq(S) : B = Append(C, Last(B)) /\ Len(B) = Len(C) + 1
  BY <1>3
<1> HIDE DEF B, S
<1>8. ASSUME NEW i \in DOMAIN C PROVE C[i].kind \notin Kept
  <2>1. /\ i \in 1..Len(C) /\ Len(C) \in Nat /\ C[i] = B[i] /\ i \in DOMAIN B /\ i # Len(B)
    BY <1>7, <1>3
  <2> QED
    BY <1>4, <1>6, <2>1 DEF Kept
<1>9. LinesOf(B) = <<>> \o <<LineOf(Last(B))>>
  <2>1. LinesOf(C) = <<>>
    BY <1>7, <1>8, LinesNone
  <2>2. LinesOf(Append(C, Last(B)))
          = LinesOf(C) \o IF Last(B).kind \in Kept THEN <<LineOf(Last(B))>> ELSE <<>>
    BY <1>3, <1>7, LinesAppend
  <2> QED
    BY <1>5, <1>7, <2>1, <2>2 DEF Kept
<1>10. LinesOf(B) = <<LineOf(Last(B))>>
  <2>1. <<LineOf(Last(B))>> \in Seq(Lines)
    BY DEF LineOf, Lines
  <2> QED
    BY <1>9, <2>1, ConcatEmptySeq
<1>11. LineOf(Last(B)) = IF Last(B).kind = "ret" THEN "ret" ELSE "go"
  BY <1>5 DEF LineOf, Terminators
<1>12. LinesFor(0, b, Last(B).kind) = IF Last(B).kind = "ret" THEN <<"ret">> ELSE <<"go">>
  BY DEF LinesFor
<1> QED
  BY <1>2, <1>5, <1>10, <1>11, <1>12 DEF B

LEMMA GivenInstOK ==
  ASSUME NEW src, Given(src), NEW f, NEW x \in InstsOf(src)
  PROVE  InstOK(src, f, x)
<1>1. GivenInst(src, x)
  BY DEF Given
<1>2. x.id \notin SlotIds
  BY <1>1 DEF GivenInst, SlotIds, MadeIds
<1>3. ASSUME x.kind \in Kept
      PROVE  x.id \notin Erasable(src)
  <2>1. x.kind \in Terminators
    BY <1>1, <1>3 DEF GivenInst, Kept
  <2>2. ASSUME NEW y \in InstsOf(src), y.id = x.id
        PROVE  y.kind \in Terminators
    <3>1. PICK b \in DOMAIN src : \E i \in DOMAIN src[b] : x = src[b][i]
      BY IsPlace
    <3>2. PICK i \in DOMAIN src[b] : x = src[b][i]
      BY <3>1
    <3>3. PICK c \in DOMAIN src : \E j \in DOMAIN src[c] : y = src[c][j]
      BY IsPlace
    <3>4. PICK j \in DOMAIN src[c] : y = src[c][j]
      BY <3>3
    <3>5. /\ <<b, i>> \in Places(src) /\ InstAt(src, <<b, i>>) = x
          /\ <<c, j>> \in Places(src) /\ InstAt(src, <<c, j>>) = y
      BY <3>2, <3>4, PlaceIs
    <3>6. <<b, i>> = <<c, j>>
      BY <2>2, <3>5 DEF Given
    <3>7. x = y
      BY <3>5, <3>6
    <3> QED
      BY <2>1, <3>7
  <2> QED
    BY <1>2, <2>2 DEF Erasable
<1>4. x.kind \in {"phi", "alloca"} => x.id \in Erasable(src)
  BY DEF Erasable, Terminators
<1>5. x.kind # "puts"
  BY <1>1 DEF GivenInst
<1>6. /\ x.kind \in {"br", "invoke", "phi"} => x.blocks \in Seq(DOMAIN src)
      /\ x.kind \in {"br", "invoke"} => 1 \notin ToSet(x.blocks)
      /\ x.kind = "invoke" => Len(x.blocks) = 2
      /\ x.kind \in {"call", "invoke"} => x.ref \subseteq Fns
  BY <1>1 DEF GivenInst
<1> QED
  BY <1>3, <1>4, <1>5, <1>6 DEF InstOK

LEMMA GivenOK ==
  ASSUME NEW src, Given(src), NEW f
  PROVE  BodyOK(src, f, src) /\ LinesOK(0, src)
<1>1. \A b \in DOMAIN src : /\ IsBlock(src[b]) /\ Last(src[b]).kind \in Terminators
                            /\ LinesOf(src[b]) = LinesFor(0, b, Last(src[b]).kind)
  BY GivenBlock
<1>2. IsCode(src)
  BY <1>1 DEF IsCode, Given
<1>3. ASSUME NEW b \in DOMAIN src, NEW x \in ToSet(src[b])
      PROVE  InstOK(src, f, x)
  <2>1. x \in InstsOf(src)
    BY DEF InstsOf
  <2> QED
    BY <2>1, GivenInstOK
<1> QED
  BY <1>1, <1>2, <1>3 DEF BodyOK, LinesOK

-----------------------------------------------------------------------------
(* The pipeline.                                                           *)

CodeOK ==
  /\ source \in Modules /\ DOMAIN code = Fns
  /\ \A f \in Fns : BodyOK(source[f], f, code[f])

LinesKept ==
  /\ traced \in [Fns -> Nat]
  /\ \A f \in Fns : traced[f] <= 1 => LinesOK(traced[f], code[f])

MapsOK ==
  /\ \A f \in DOMAIN enteringMap : f \in Fns /\ enteringMap[f] = <<"enter", f>>
  /\ leavingMap = <<>>

StageOK ==
  /\ drStage \in {"idle", "immediates", "registers", "phis", "demoted", "globals"}
  /\ slotPass \in {"none", "demote-registers", "stack-to-global"}
  /\ drStage # "idle" => slotPass # "none" /\ drFn \in Fns
  /\ slotPass # "none" => passes # <<>>
  /\ slots \in Nat /\ demotedInstCount \in Nat /\ demotedPhiNodes \in Nat
  /\ statistics \in Nat \X Nat

ListsOK ==
  /\ drStage = "phis" =>
       /\ workList \in Seq(ToSet(workList))
       /\ \A x \in ToSet(workList) : /\ x.blocks \in Seq(DOMAIN source[drFn])
                                     /\ x.id \in Erasable(source[drFn])
  /\ drStage = "globals" => entryAllocas \in Seq(Erasable(source[drFn]))

Queued ==
  /\ passes \in Seq(PassNames) /\ next \in Seq(Fns)
  /\ unwinding \in BOOLEAN
  /\ passes # <<>> => stack = <<>> /\ unwinding = FALSE

PipelineInv == CodeOK /\ LinesKept /\ MapsOK /\ StageOK /\ ListsOK /\ Queued

LEMMA GivenModules ==
  ASSUME CodeOK
  PROVE  \A f \in Fns : Given(source[f])
BY ModulesAssumption DEF CodeOK

LEMMA SetToSeqIs ==
  ASSUME NEW S, IsFiniteSet(S)
  PROVE  /\ SetToSeq(S) \in Seq(S)
         /\ \A i, j \in DOMAIN SetToSeq(S) : SetToSeq(S)[i] = SetToSeq(S)[j] => i = j
<1>1. PICK n \in Nat : ExistsBijection(1..n, S)
  BY FS_NatBijection
<1>2. Cardinality(S) = n
  BY <1>1, FS_CountingElements
<1>3. PICK g \in Bijection(1..n, S) : TRUE
  BY <1>1 DEF ExistsBijection
<1>4. g \in [1..n -> S] /\ IsInjective(g)
  BY <1>3 DEF Bijection, Injection, IsInjective
<1> DEFINE s == SetToSeq(S)
<1>5. s \in [1..n -> S] /\ IsInjective(s)
  BY <1>2, <1>4 DEF SetToSeq
<1> HIDE DEF s
<1>6. s \in Seq(S)
  BY <1>5, IsSequence
<1>7. \A i, j \in DOMAIN s : s[i] = s[j] => i = j
  BY <1>5 DEF IsInjective
<1> QED
  BY <1>6, <1>7 DEF s

LEMMA InReverse ==
  ASSUME NEW A, IsCode(A), NEW places
  PROVE  /\ Len(InstsInReverse(A, places)) \in Nat
         /\ InstsInReverse(A, places) \in Seq(ToSet(InstsInReverse(A, places)))
         /\ \A x \in ToSet(InstsInReverse(A, places)) :
              x \in InstsOf(A) /\ \E p \in places : x = InstAt(A, p)
<1> DEFINE T == {InstAt(A, p) : p \in places}
           S == InstsOf(A)
           s == Select(FlattenSeq(A), T)
           w == Reverse(s)
<1>1. FlattenSeq(A) \in Seq(S)
  BY FlattenCode
<1> HIDE DEF S, T
<1>2. s \in Seq(S) /\ ToSet(s) = ToSet(FlattenSeq(A)) \cap T
  BY <1>1, SelectType, SelectElements
<1> HIDE DEF s
<1>3. \A i \in DOMAIN s : s[i] \in S /\ s[i] \in T
  BY <1>2 DEF ToSet
<1>4. w \in [1..Len(s) -> S] /\ Len(s) \in Nat /\ \A i \in 1..Len(s) : w[i] \in T
  BY <1>2, <1>3 DEF Reverse
<1> HIDE DEF w
<1>5. w \in Seq(S) /\ Len(w) = Len(s)
  BY <1>4, IsSequence
<1>6. w \in Seq(ToSet(w))
  BY <1>5, SeqOfOwn
<1>7. \A x \in ToSet(w) : x \in S /\ x \in T
  BY <1>4, <1>5 DEF ToSet
<1>8. w = InstsInReverse(A, places)
  BY DEF InstsInReverse, w, s, T
<1> QED
  BY <1>4, <1>5, <1>6, <1>7, <1>8 DEF T, S

LEMMA InitPipeline ==
  ASSUME Init
  PROVE  PipelineInv
<1>1. code \in Modules /\ source = code
  BY DEF Init
<1>2. DOMAIN code = Fns /\ \A f \in Fns : Given(code[f])
  BY <1>1, ModulesAssumption
<1>3. \A f \in Fns : BodyOK(code[f], f, code[f]) /\ LinesOK(0, code[f])
  BY <1>2, GivenOK
<1>4. CodeOK
  BY <1>1, <1>2, <1>3 DEF CodeOK
<1>5. LinesKept
  BY <1>2, <1>3 DEF LinesKept, Init, TraceInit
<1>6. MapsOK
  BY DEF MapsOK, Init, TraceInit
<1>7. StageOK
  BY DEF StageOK, Init, DrInit, SgInit
<1>8. ListsOK
  BY DEF ListsOK, Init, DrInit
<1>9. Queued
  <2>1. SetToSeq(Fns) \in Seq(Fns)
    BY ModulesAssumption, SetToSeqIs
  <2> QED
    BY <2>1, PipelinesAssumption DEF Queued, Init
<1> QED
  BY <1>4, <1>5, <1>6, <1>7, <1>8, <1>9 DEF PipelineInv

(* The code of one function changes.                                       *)
LEMMA OneBody ==
  ASSUME CodeOK, LinesKept, NEW f \in Fns, NEW A, AllDerived(code[f], A),
         code' = [code EXCEPT ![f] = A], UNCHANGED <<source, traced>>
  PROVE  CodeOK' /\ LinesKept'
<1>1. /\ DOMAIN code' = Fns /\ code'[f] = A
      /\ \A g \in Fns : g # f => code'[g] = code[g]
  BY DEF CodeOK
<1>2. BodyOK(source[f], f, A)
  BY DerivedOK DEF CodeOK
<1>3. traced[f] <= 1 => LinesOK(traced[f], A)
  BY DerivedLines DEF LinesKept
<1>4. CodeOK'
  BY <1>1, <1>2 DEF CodeOK
<1>5. LinesKept'
  BY <1>1, <1>3 DEF LinesKept
<1> QED
  BY <1>4, <1>5

LEMMA SameBodies ==
  ASSUME CodeOK, LinesKept, UNCHANGED <<code, source, traced>>
  PROVE  CodeOK' /\ LinesKept'
BY DEF CodeOK, LinesKept

LEMMA NewSlotIs ==
  ASSUME StageOK
  PROVE  NewSlot \in SlotIds
BY DEF NewSlot, SlotIds, StageOK

-----------------------------------------------------------------------------
(* The steps of the passes on slots.                                       *)

SlotInv == CodeOK /\ LinesKept /\ StageOK /\ ListsOK

LEMMA CodeOf ==
  ASSUME CodeOK, NEW f \in Fns
  PROVE  /\ BodyOK(source[f], f, code[f]) /\ IsCode(code[f]) /\ Given(source[f])
         /\ DOMAIN code[f] = DOMAIN source[f]
BY GivenModules DEF CodeOK, BodyOK

LEMMA StartKeeps ==
  ASSUME SlotInv, NEW f \in Fns, NEW c \in BOOLEAN, DrStart(f, c), UNCHANGED <<source, traced>>
  PROVE  CodeOK' /\ LinesKept'
<1> DEFINE A == code[f]
           cast == Inst(point', "point", <<<<"imm", 0>>>>, <<>>, {})
           C == [A EXCEPT ![1] = AfterAllocas(A[1], cast)]
<1>1. BodyOK(source[f], f, A) /\ IsCode(A) /\ 1 \in DOMAIN A /\ IsBlock(A[1])
      /\ Last(A[1]).kind # "alloca"
  BY CodeOf, EntryIs DEF SlotInv
<1>2. IsNew(cast)
  BY DEF IsNew, Inst
<1>3. code' = [code EXCEPT ![f] = C]
  BY DEF DrStart
<1> HIDE DEF cast
<1>4. Derived(A[1], AfterAllocas(A[1], cast))
  BY <1>1, <1>2, AfterAllocasDerived
<1>5. AllDerived(A, C)
  BY <1>1, <1>4, OneDerived
<1> HIDE DEF C
<1> QED
  BY <1>3, <1>5, OneBody DEF SlotInv

LEMMA DemoteKeeps ==
  ASSUME SlotInv, drFn \in Fns, NEW A, AllDerived(code[drFn], A),
         code' = [code EXCEPT ![drFn] = A], UNCHANGED <<source, traced>>
  PROVE  CodeOK' /\ LinesKept'
BY OneBody DEF SlotInv

LEMMA ImmediateKeeps ==
  ASSUME SlotInv, DrImmediate, UNCHANGED <<source, traced>>
  PROVE  CodeOK' /\ LinesKept'
<1>1. drStage = "immediates" /\ drFn \in Fns
  BY DEF DrImmediate, Demote, SlotInv, StageOK
<1> DEFINE A == DemoteImmediate(code[drFn], Head(workList), NewSlot)
<1>2. code' = [code EXCEPT ![drFn] = A]
  BY DEF DrImmediate, Demote
<1>3. IsCode(code[drFn]) /\ NewSlot \in SlotIds
  BY <1>1, CodeOf, NewSlotIs DEF SlotInv
<1>4. AllDerived(code[drFn], A)
  BY <1>3, DemoteImmediateDerived
<1> HIDE DEF A
<1> QED
  BY <1>1, <1>2, <1>4, DemoteKeeps

LEMMA RegisterKeeps ==
  ASSUME SlotInv, DrRegister, UNCHANGED <<source, traced>>
  PROVE  CodeOK' /\ LinesKept'
<1>1. drStage = "registers" /\ drFn \in Fns
  BY DEF DrRegister, Demote, SlotInv, StageOK
<1> DEFINE A == DemoteRegToStack(code[drFn], Head(workList).id, point, NewSlot)
<1>2. code' = [code EXCEPT ![drFn] = A]
  BY DEF DrRegister, Demote
<1>3. IsCode(code[drFn]) /\ NewSlot \in SlotIds
  BY <1>1, CodeOf, NewSlotIs DEF SlotInv
<1>4. AllDerived(code[drFn], A)
  BY <1>3, DemoteRegDerived
<1> HIDE DEF A
<1> QED
  BY <1>1, <1>2, <1>4, DemoteKeeps

LEMMA HeadOfList ==
  ASSUME NEW s, s \in Seq(ToSet(s)), s # <<>>
  PROVE  /\ Head(s) \in ToSet(s)
         /\ Tail(s) \in Seq(ToSet(Tail(s))) /\ ToSet(Tail(s)) \subseteq ToSet(s)
<1>1. Head(s) \in ToSet(s) /\ Tail(s) \in Seq(ToSet(s))
  OBVIOUS
<1> QED
  BY <1>1, SeqOfOwn

LEMMA PhiKeeps ==
  ASSUME SlotInv, DrPhi, UNCHANGED <<source, traced>>
  PROVE  CodeOK' /\ LinesKept' /\ ListsOK'
<1>1. drStage = "phis" /\ drFn \in Fns /\ workList # <<>>
  BY DEF DrPhi, Demote, SlotInv, StageOK
<1> DEFINE src == source[drFn]
           x == Head(workList)
           A == DemotePHIToStack(code[drFn], x, point, NewSlot)
<1>2. code' = [code EXCEPT ![drFn] = A]
  BY DEF DrPhi, Demote
<1>3. BodyOK(src, drFn, code[drFn]) /\ IsCode(code[drFn]) /\ NewSlot \in SlotIds
  BY <1>1, CodeOf, NewSlotIs DEF SlotInv
<1>4. /\ x \in ToSet(workList)
      /\ Tail(workList) \in Seq(ToSet(Tail(workList)))
      /\ ToSet(Tail(workList)) \subseteq ToSet(workList)
  BY <1>1, HeadOfList DEF SlotInv, ListsOK
<1>5. x.blocks \in Seq(DOMAIN src) /\ x.id \in Erasable(src)
  BY <1>1, <1>4 DEF SlotInv, ListsOK
<1> HIDE DEF x
<1>6. \A b \in DOMAIN code[drFn] :
        /\ Last(code[drFn][b]).kind \in Kept
        /\ \A y \in ToSet(code[drFn][b]) : y.kind \in Kept => y.id # x.id
  BY <1>3, <1>5, MayErase
<1>7. AllDerived(code[drFn], A)
  BY <1>3, <1>5, <1>6, DemotePhiDerived
<1> HIDE DEF A
<1>8. CodeOK' /\ LinesKept'
  BY <1>1, <1>2, <1>7, DemoteKeeps
<1>9. ListsOK'
  <2>1. drStage' = "phis" /\ workList' = Tail(workList) /\ UNCHANGED <<drFn, source>>
    BY <1>1 DEF DrPhi, Demote
  <2> QED
    BY <1>1, <1>4, <2>1 DEF SlotInv, ListsOK
<1> QED
  BY <1>8, <1>9

LEMMA FindPhisKeeps ==
  ASSUME SlotInv, DrFindPhis, UNCHANGED <<source, traced>>
  PROVE  ListsOK' /\ demotedPhiNodes' \in Nat
<1>1. drStage = "registers" /\ drFn \in Fns /\ drStage' = "phis" /\ drFn' = drFn
  BY DEF DrFindPhis, SlotInv, StageOK
<1> DEFINE A == code[drFn]
           places == {p \in Places(A) : InstAt(A, p).kind = "phi"}
           w == InstsInReverse(A, places)
<1>2. workList' = w /\ demotedPhiNodes' = Len(w)
  BY DEF DrFindPhis
<1>3. BodyOK(source[drFn], drFn, A) /\ IsCode(A)
  BY <1>1, CodeOf DEF SlotInv
<1>4. /\ Len(w) \in Nat /\ w \in Seq(ToSet(w))
      /\ \A x \in ToSet(w) : x \in InstsOf(A) /\ \E p \in places : x = InstAt(A, p)
  BY <1>3, InReverse
<1> HIDE DEF w
<1>5. ASSUME NEW x \in ToSet(w)
      PROVE  x.blocks \in Seq(DOMAIN source[drFn]) /\ x.id \in Erasable(source[drFn])
  <2>1. x.kind = "phi"
    BY <1>4
  <2>2. PICK b \in DOMAIN A : x \in ToSet(A[b])
    BY <1>4 DEF InstsOf
  <2>3. InstOK(source[drFn], drFn, x)
    BY <1>3, <2>2 DEF BodyOK
  <2> QED
    BY <2>1, <2>3 DEF InstOK
<1>6. ListsOK'
  <2>1. ListsOK' = (/\ w \in Seq(ToSet(w))
                    /\ \A x \in ToSet(w) : /\ x.blocks \in Seq(DOMAIN source[drFn])
                                           /\ x.id \in Erasable(source[drFn]))
    BY <1>1, <1>2 DEF ListsOK
  <2> QED
    BY <1>4, <1>5, <2>1
<1> QED
  BY <1>2, <1>4, <1>6

LEMMA FindEscapedKeeps ==
  ASSUME SlotInv, DrFindEscaped
  PROVE  demotedInstCount' \in Nat
<1>1. drFn \in Fns
  BY DEF DrFindEscaped, SlotInv, StageOK
<1>2. IsCode(code[drFn])
  BY <1>1, CodeOf DEF SlotInv
<1>3. Len(Escaped(code[drFn])) \in Nat
  BY <1>2, InReverse DEF Escaped
<1> QED
  BY <1>3 DEF DrFindEscaped

LEMMA CollectKeeps ==
  ASSUME SlotInv, SgCollect, UNCHANGED source
  PROVE  ListsOK'
<1>1. drFn \in Fns /\ drStage' = "globals" /\ drFn' = drFn
  BY DEF SgCollect, SlotInv, StageOK
<1> DEFINE B == code[drFn][1]
           E == Erasable(source[drFn])
           n == LeadingAllocas(B)
           s == [i \in 1..n |-> B[i].id]
<1>2. entryAllocas' = s
  BY DEF SgCollect, CollectEntryAllocas, FrontAllocas
<1>3. BodyOK(source[drFn], drFn, code[drFn])
  BY <1>1, CodeOf DEF SlotInv
<1>4. 1 \in DOMAIN code[drFn] /\ IsBlock(B) /\ Last(B).kind # "alloca"
  BY <1>3, EntryIs
<1>5. n \in Nat /\ n + 1 \in 1..Len(B) /\ \A i \in 1..n : B[i].kind = "alloca"
  BY <1>4, LeadingAre
<1>6. \A x \in ToSet(B) : InstOK(source[drFn], drFn, x)
  BY <1>3, <1>4 DEF BodyOK
<1> HIDE DEF B, n
<1>7. \A i \in 1..n : B[i].id \in E
  <2>1. B \in Seq(ToSet(B))
    BY <1>4 DEF IsBlock
  <2>2. Len(B) \in Nat /\ \A i \in 1..Len(B) : B[i] \in ToSet(B)
    BY <2>1
  <2>3. \A i \in 1..n : i \in 1..Len(B)
    BY <1>5, <2>2
  <2> QED
    BY <1>5, <1>6, <2>2, <2>3 DEF InstOK
<1> HIDE DEF E
<1>8. s \in Seq(E)
  BY <1>5, <1>7, IsSequence
<1> QED
  BY <1>1, <1>2, <1>8 DEF ListsOK, E

LEMMA ReplaceKeeps ==
  ASSUME SlotInv, SgReplace, UNCHANGED <<source, traced>>
  PROVE  CodeOK' /\ LinesKept' /\ ListsOK'
<1>1. drStage = "globals" /\ drFn \in Fns /\ entryAllocas # <<>>
  BY DEF SgReplace, SlotInv, StageOK
<1> DEFINE E == Erasable(source[drFn])
           slot == Head(entryAllocas)
           A == code[drFn]
           C == Erase(A, slot)
<1>2. code' = [code EXCEPT ![drFn] = C] /\ entryAllocas' = Tail(entryAllocas)
      /\ UNCHANGED <<drStage, drFn>>
  BY DEF SgReplace
<1>3. entryAllocas \in Seq(E)
  BY <1>1 DEF SlotInv, ListsOK
<1>4. slot \in E /\ Tail(entryAllocas) \in Seq(E)
  <2> HIDE DEF E
  <2> QED
    BY <1>1, <1>3
<1>5. BodyOK(source[drFn], drFn, A) /\ IsCode(A)
  BY <1>1, CodeOf DEF SlotInv
<1> HIDE DEF slot
<1>6. \A b \in DOMAIN A : /\ Last(A[b]).kind \in Kept
                          /\ \A y \in ToSet(A[b]) : y.kind \in Kept => y.id # slot
  BY <1>4, <1>5, MayErase
<1>7. AllDerived(A, C)
  BY <1>5, <1>6, EraseDerived
<1> HIDE DEF C
<1>8. CodeOK' /\ LinesKept'
  BY <1>1, <1>2, <1>7, DemoteKeeps
<1>9. ListsOK'
  BY <1>1, <1>2, <1>4 DEF ListsOK
<1> QED
  BY <1>8, <1>9

-----------------------------------------------------------------------------
(* All of them.                                                            *)

LEMMA SlotStepKeeps ==
  ASSUME SlotInv, SlotStep, UNCHANGED <<source, traced, passes>>
  PROVE  SlotInv'
<1>1. CASE SlotDemote
  <2>1. slotPass # "none" /\ slotPass' = slotPass /\ DrStep /\ statistics' = statistics
        /\ entryAllocas' = entryAllocas
    BY <1>1 DEF SlotDemote, sgVars
  <2>2. CASE DrImmediate
    <3>1. CodeOK' /\ LinesKept'
      BY <2>2, ImmediateKeeps
    <3>2. StageOK'
      BY <2>1, <2>2 DEF SlotInv, StageOK, DrImmediate, Demote
    <3>3. ListsOK'
      BY <2>2 DEF ListsOK, DrImmediate, Demote
    <3> QED
      BY <3>1, <3>2, <3>3 DEF SlotInv
  <2>3. CASE DrFindEscaped
    <3>1. CodeOK' /\ LinesKept'
      BY <2>3, SameBodies DEF DrFindEscaped, SlotInv
    <3>2. demotedInstCount' \in Nat
      BY <2>3, FindEscapedKeeps
    <3>3. StageOK'
      BY <2>1, <2>3, <3>2 DEF SlotInv, StageOK, DrFindEscaped
    <3>4. ListsOK'
      BY <2>3 DEF ListsOK, DrFindEscaped
    <3> QED
      BY <3>1, <3>3, <3>4 DEF SlotInv
  <2>4. CASE DrRegister
    <3>1. CodeOK' /\ LinesKept'
      BY <2>4, RegisterKeeps
    <3>2. StageOK'
      BY <2>1, <2>4 DEF SlotInv, StageOK, DrRegister, Demote
    <3>3. ListsOK'
      BY <2>4 DEF ListsOK, DrRegister, Demote
    <3> QED
      BY <3>1, <3>2, <3>3 DEF SlotInv
  <2>5. CASE DrFindPhis
    <3>1. CodeOK' /\ LinesKept'
      BY <2>5, SameBodies DEF DrFindPhis, SlotInv
    <3>2. ListsOK' /\ demotedPhiNodes' \in Nat
      BY <2>5, FindPhisKeeps
    <3>3. StageOK'
      BY <2>1, <2>5, <3>2 DEF SlotInv, StageOK, DrFindPhis
    <3> QED
      BY <3>1, <3>2, <3>3 DEF SlotInv
  <2>6. CASE DrPhi
    <3>1. CodeOK' /\ LinesKept' /\ ListsOK'
      BY <2>6, PhiKeeps
    <3>2. StageOK'
      BY <2>1, <2>6 DEF SlotInv, StageOK, DrPhi, Demote
    <3> QED
      BY <3>1, <3>2 DEF SlotInv
  <2>7. CASE DrEnd
    <3>1. CodeOK' /\ LinesKept'
      BY <2>7, SameBodies DEF DrEnd, SlotInv
    <3>2. StageOK' /\ ListsOK'
      BY <2>1, <2>7 DEF SlotInv, StageOK, ListsOK, DrEnd
    <3> QED
      BY <3>1, <3>2 DEF SlotInv
  <2> QED
    BY <2>1, <2>2, <2>3, <2>4, <2>5, <2>6, <2>7 DEF DrStep
<1>2. CASE DemoteRegistersReturns
  <2>1. CodeOK' /\ LinesKept'
    BY <1>2, SameBodies DEF DemoteRegistersReturns, SlotInv
  <2>2. StageOK' /\ ListsOK'
    BY <1>2 DEF SlotInv, StageOK, ListsOK, DemoteRegistersReturns
  <2> QED
    BY <2>1, <2>2 DEF SlotInv
<1>3. CASE SgCollect
  <2>1. CodeOK' /\ LinesKept'
    BY <1>3, SameBodies DEF SgCollect, SlotInv
  <2>2. ListsOK'
    BY <1>3, CollectKeeps
  <2>3. StageOK'
    BY <1>3 DEF SlotInv, StageOK, SgCollect
  <2> QED
    BY <2>1, <2>2, <2>3 DEF SlotInv
<1>4. CASE SgReplace
  <2>1. CodeOK' /\ LinesKept' /\ ListsOK'
    BY <1>4, ReplaceKeeps
  <2>2. StageOK'
    BY <1>4 DEF SlotInv, StageOK, SgReplace
  <2> QED
    BY <2>1, <2>2 DEF SlotInv
<1>5. CASE StackToGlobalReturns
  <2>1. CodeOK' /\ LinesKept'
    BY <1>5, SameBodies DEF StackToGlobalReturns, SlotInv
  <2>2. StageOK' /\ ListsOK'
    BY <1>5 DEF SlotInv, StageOK, ListsOK, StackToGlobalReturns
  <2> QED
    BY <2>1, <2>2 DEF SlotInv
<1> QED
  BY <1>1, <1>2, <1>3, <1>4, <1>5 DEF SlotStep

-----------------------------------------------------------------------------
(* The other steps of the pipeline, and those of the program.              *)

LEMMA TraceKeeps ==
  ASSUME CodeOK, LinesKept, MapsOK, NEW f \in Fns, TraceInstrument(f), UNCHANGED source
  PROVE  CodeOK' /\ LinesKept' /\ MapsOK'
<1> DEFINE entering == IF f \in DOMAIN enteringMap THEN enteringMap[f] ELSE <<"enter", f>>
           leaving == IF f \in DOMAIN leavingMap THEN leavingMap[f] ELSE <<"leave", f>>
           entered == TryEmplace(enteringMap, f, entering)
           A == code[f]
           C == Trace(A, f)
<1>1. entering = <<"enter", f>> /\ leaving = <<"leave", f>>
  BY DEF MapsOK
<1>2. code' = [code EXCEPT ![f] = PutsBeforeReturns(PutsOnEntry(A, f, entering), f, leaving)]
      /\ enteringMap' = TryEmplace(entered, f, leaving)
      /\ traced' = [traced EXCEPT ![f] = @ + 1] /\ leavingMap' = leavingMap
  BY DEF TraceInstrument
<1>3. code' = [code EXCEPT ![f] = C]
  BY <1>1, <1>2 DEF Trace
<1> HIDE DEF entering, leaving
<1>4. BodyOK(source[f], f, A) /\ Given(source[f])
  BY CodeOf
<1>5. BodyOK(source[f], f, C) /\ (LinesOK(0, A) => LinesOK(1, C))
  BY <1>4, TraceOK
<1> HIDE DEF C
<1>6. /\ DOMAIN code' = Fns /\ code'[f] = C
      /\ \A g \in Fns : g # f => code'[g] = code[g]
  BY <1>3 DEF CodeOK
<1>7. /\ traced' \in [Fns -> Nat] /\ traced'[f] = traced[f] + 1 /\ traced[f] \in Nat
      /\ \A g \in Fns : g # f => traced'[g] = traced[g]
  BY <1>2 DEF LinesKept
<1>8. CodeOK'
  BY <1>5, <1>6 DEF CodeOK
<1>9. ASSUME NEW g \in Fns, traced'[g] <= 1
      PROVE  LinesOK(traced'[g], code'[g])
  <2>1. CASE g = f
    <3>1. traced[f] = 0 /\ traced'[f] = 1
      BY <1>7, <1>9, <2>1
    <3>2. LinesOK(0, A)
      BY <3>1 DEF LinesKept
    <3> QED
      BY <1>5, <1>6, <2>1, <3>1, <3>2
  <2>2. CASE g # f
    BY <1>6, <1>7, <1>9, <2>2 DEF LinesKept
  <2> QED
    BY <2>1, <2>2
<1>10. LinesKept'
  BY <1>7, <1>9 DEF LinesKept
<1>11. DOMAIN entered = DOMAIN enteringMap \cup {f} /\ entered[f] = <<"enter", f>>
       /\ \A g \in DOMAIN enteringMap : entered[g] = enteringMap[g]
  <2>1. f \in DOMAIN enteringMap => enteringMap[f] = <<"enter", f>>
    BY DEF MapsOK
  <2> QED
    BY <1>1, <2>1 DEF TryEmplace
<1> HIDE DEF entered
<1>12. DOMAIN enteringMap' = DOMAIN enteringMap \cup {f}
       /\ \A g \in DOMAIN enteringMap' : enteringMap'[g] = entered[g]
  BY <1>2, <1>11 DEF TryEmplace
<1>13. MapsOK'
  BY <1>2, <1>11, <1>12 DEF MapsOK
<1> QED
  BY <1>8, <1>10, <1>13

LEMMA StartSlots ==
  ASSUME SlotInv, NEW f \in Fns, DemoteRegistersRun(f) \/ StackToGlobalRun(f),
         passes # <<>>, UNCHANGED <<source, traced, passes>>
  PROVE  SlotInv'
<1>1. CASE DemoteRegistersRun(f)
  <2>1. DrStart(f, FALSE) /\ slotPass' = "demote-registers" /\ statistics' = statistics
    BY <1>1 DEF DemoteRegistersRun
  <2>2. CodeOK' /\ LinesKept'
    BY <2>1, StartKeeps
  <2>3. StageOK' /\ ListsOK'
    BY <2>1 DEF DrStart, StageOK, ListsOK, SlotInv
  <2> QED
    BY <2>2, <2>3 DEF SlotInv
<1>2. CASE StackToGlobalRun(f)
  <2>1. DrStart(f, TRUE) /\ slotPass' = "stack-to-global" /\ statistics' = statistics
    BY <1>2 DEF StackToGlobalRun
  <2>2. CodeOK' /\ LinesKept'
    BY <2>1, StartKeeps
  <2>3. StageOK' /\ ListsOK'
    BY <2>1 DEF DrStart, StageOK, ListsOK, SlotInv
  <2> QED
    BY <2>2, <2>3 DEF SlotInv
<1> QED
  BY <1>1, <1>2

(* The passes are gone by the time the program runs.                       *)
LEMMA ExecuteIs ==
  ASSUME Execute, Queued
  PROVE  passes = <<>> /\ Compiled
<1>1. ASSUME Running PROVE passes = <<>>
  BY <1>1 DEF Running
<1>2. ASSUME Unwind PROVE passes = <<>>
  BY <1>2 DEF Unwind, Queued
<1> QED
  BY <1>1, <1>2 DEF Execute, Start, Compute, ExecAlloca, ExecLoad, ExecStore, ExecBranch,
     ExecCall, Throw, Unwind, Return, ExecPuts

LEMMA HeadNext ==
  ASSUME Queued, next # <<>>
  PROVE  Head(next) \in Fns /\ Tail(next) \in Seq(Fns)
BY DEF Queued

LEMMA SameSlots ==
  ASSUME SlotInv, UNCHANGED <<code, source, traced, slotVars>>,
         slotPass # "none" => passes' # <<>>
  PROVE  SlotInv'
<1>1. CodeOK' /\ LinesKept'
  BY SameBodies DEF SlotInv
<1>2. StageOK' /\ ListsOK'
  BY DEF SlotInv, StageOK, ListsOK, slotVars, drVars, sgVars
<1> QED
  BY <1>1, <1>2 DEF SlotInv

LEMMA StepPipeline ==
  ASSUME PipelineInv, [Next]_vars
  PROVE  PipelineInv'
<1>1. SlotInv /\ MapsOK /\ Queued
  BY DEF PipelineInv, SlotInv
<1>2. SUFFICES SlotInv' /\ MapsOK' /\ Queued'
  BY DEF PipelineInv, SlotInv
<1>3. CASE SkipFunction
  <2>1. SlotInv'
    BY <1>1, <1>3, SameSlots DEF SkipFunction, slotVars, traceVars, SlotInv, StageOK
  <2>2. MapsOK'
    BY <1>1, <1>3 DEF SkipFunction, traceVars, MapsOK
  <2>3. Queued'
    BY <1>1, <1>3, HeadNext DEF SkipFunction, runVars, Queued
  <2> QED
    BY <2>1, <2>2, <2>3
<1>4. CASE RunOnSlots
  <2>1. Head(next) \in Fns /\ Tail(next) \in Seq(Fns)
    BY <1>1, <1>4, HeadNext DEF RunOnSlots
  <2>2. (DemoteRegistersRun(Head(next)) \/ StackToGlobalRun(Head(next))) /\ passes # <<>>
        /\ UNCHANGED <<source, traced, passes>>
    BY <1>4 DEF RunOnSlots, Current, traceVars
  <2>3. SlotInv'
    BY <1>1, <2>1, <2>2, StartSlots
  <2>4. MapsOK'
    BY <1>1, <1>4 DEF RunOnSlots, traceVars, MapsOK
  <2>5. Queued'
    BY <1>1, <1>4, <2>1 DEF RunOnSlots, runVars, Queued
  <2> QED
    BY <2>3, <2>4, <2>5
<1>5. CASE StepOnSlots
  <2>1. SlotInv'
    BY <1>1, <1>5, SlotStepKeeps DEF StepOnSlots, traceVars
  <2>2. MapsOK' /\ Queued'
    BY <1>1, <1>5 DEF StepOnSlots, traceVars, runVars, MapsOK, Queued
  <2> QED
    BY <2>1, <2>2
<1>6. CASE RunTrace
  <2>1. Head(next) \in Fns /\ Tail(next) \in Seq(Fns)
    BY <1>1, <1>6, HeadNext DEF RunTrace
  <2>2. TraceInstrument(Head(next)) /\ UNCHANGED <<slotVars, source, passes, runVars>>
        /\ next' = Tail(next)
    BY <1>6 DEF RunTrace
  <2>3. CodeOK' /\ LinesKept' /\ MapsOK'
    BY <1>1, <2>1, <2>2, TraceKeeps DEF SlotInv
  <2>4. StageOK' /\ ListsOK'
    BY <1>1, <2>2 DEF SlotInv, StageOK, ListsOK, slotVars, drVars, sgVars
  <2>5. Queued'
    BY <1>1, <2>1, <2>2 DEF runVars, Queued
  <2> QED
    BY <2>3, <2>4, <2>5 DEF SlotInv
<1>7. CASE PassEnds
  <2>1. SlotInv'
    BY <1>1, <1>7, SameSlots DEF PassEnds, slotVars
  <2>2. MapsOK'
    BY <1>7 DEF PassEnds, TraceStart, MapsOK
  <2>3. SetToSeq(Fns) \in Seq(Fns)
    BY ModulesAssumption, SetToSeqIs
  <2>4. Queued'
    BY <1>1, <1>7, <2>3 DEF PassEnds, runVars, Queued
  <2> QED
    BY <2>1, <2>2, <2>4
<1>8. CASE Execute
  <2>1. passes = <<>> /\ Compiled
    BY <1>1, <1>8, ExecuteIs
  <2>2. SlotInv'
    BY <1>1, <2>1, SameSlots DEF Compiled, slotVars, traceVars, SlotInv, StageOK
  <2>3. MapsOK'
    BY <1>1, <2>1 DEF Compiled, traceVars, MapsOK
  <2>4. unwinding' \in BOOLEAN
    BY <1>1, <1>8 DEF Queued, Execute, Start, Compute, ExecAlloca, ExecLoad, ExecStore,
       ExecBranch, ExecCall, Throw, Unwind, Return, ExecPuts
  <2>5. Queued'
    BY <1>1, <2>1, <2>4 DEF Compiled, Queued
  <2> QED
    BY <2>2, <2>3, <2>5
<1>9. CASE UNCHANGED vars
  <2>1. SlotInv'
    BY <1>1, <1>9, SameSlots DEF vars, traceVars, SlotInv, StageOK
  <2>2. MapsOK' /\ Queued'
    BY <1>1, <1>9 DEF vars, traceVars, runVars, MapsOK, Queued
  <2> QED
    BY <2>1, <2>2
<1>10. CASE Done
  BY <1>9, <1>10 DEF Done
<1> QED
  BY <1>3, <1>4, <1>5, <1>6, <1>7, <1>8, <1>9, <1>10 DEF Next

-----------------------------------------------------------------------------
(* What is still put in a block from an instruction on.                    *)

RestOf(B, i) == LinesOf(SubSeq(B, i, Len(B)))
LineSeq(x) == IF x.kind \in Kept THEN <<LineOf(x)>> ELSE <<>>

LEMMA RestStep ==
  ASSUME NEW B, IsBlock(B), NEW i \in DOMAIN B
  PROVE  /\ RestOf(B, i) \in Seq(Lines) /\ RestOf(B, i + 1) \in Seq(Lines)
         /\ RestOf(B, i) = LineSeq(B[i]) \o RestOf(B, i + 1)
<1> DEFINE S == ToSet(B)
           t == SubSeq(B, i + 1, Len(B))
<1>1. B \in Seq(S) /\ i \in 1..Len(B) /\ Len(B) \in Nat /\ Len(B) \in i..Len(B) /\ B[i] \in S
  BY DEF IsBlock
<1> HIDE DEF S
<1>2. SubSeq(B, i, Len(B)) = <<B[i]>> \o t
  BY <1>1, SubSeqRecursiveFirst
<1>3. t \in Seq(S) /\ <<B[i]>> \in Seq(S)
  BY <1>1, CutAt
<1>4. RestOf(B, i) = LinesOf(<<B[i]>>) \o LinesOf(t)
  BY <1>2, <1>3, LinesConcat DEF RestOf
<1>5. LinesOf(<<B[i]>>) = LineSeq(B[i])
  BY <1>1, LinesOne DEF LineSeq
<1>6. SubSeq(B, i, Len(B)) \in Seq(S)
  BY <1>2, <1>3
<1>7. LinesOf(t) \in Seq(Lines) /\ RestOf(B, i) \in Seq(Lines)
  <2>1. LinesOf(t) \in Seq(Lines)
    BY <1>3, LinesIn
  <2>2. LinesOf(SubSeq(B, i, Len(B))) \in Seq(Lines)
    BY <1>6, LinesIn
  <2> QED
    BY <2>1, <2>2 DEF RestOf
<1> QED
  BY <1>4, <1>5, <1>7 DEF RestOf

LEMMA RestPasses ==
  ASSUME NEW B, IsBlock(B), NEW i \in DOMAIN B, B[i].kind \notin Kept
  PROVE  RestOf(B, i) = RestOf(B, i + 1)
<1> DEFINE r == RestOf(B, i + 1)
<1>1. r \in Seq(Lines) /\ RestOf(B, i) = <<>> \o r
  BY RestStep DEF LineSeq
<1> HIDE DEF r
<1>2. RestOf(B, i) = r
  BY <1>1, ConcatEmptySeq
<1> QED
  BY <1>2 DEF r

LEMMA RestWhole ==
  ASSUME NEW B, IsBlock(B)
  PROVE  RestOf(B, 1) = LinesOf(B)
<1>1. B \in Seq(ToSet(B))
  BY DEF IsBlock
<1>2. SubSeq(B, 1, Len(B)) = B
  BY <1>1, SubSeqFull
<1> QED
  BY <1>2 DEF RestOf

(* A block is entered after its PHI nodes, which put nothing.              *)
LEMMA RestNonPhi ==
  ASSUME NEW B, IsBlock(B), Last(B).kind \in Terminators
  PROVE  FirstNonPhi(B) \in DOMAIN B /\ RestOf(B, FirstNonPhi(B)) = LinesOf(B)
<1> DEFINE N == {i \in DOMAIN B : B[i].kind # "phi"}
           k == FirstNonPhi(B)
<1>1. DOMAIN B = 1..Len(B) /\ Len(B) \in Nat /\ Len(B) \in DOMAIN B /\ Last(B) = B[Len(B)]
  BY LastOf DEF IsBlock, Last
<1>2. N \in SUBSET Nat /\ Len(B) \in N
  BY <1>1 DEF Terminators
<1>3. k \in N /\ \A i \in N : k <= i
  <2> DEFINE M == N
  <2>1. k = Min(M) /\ M \in SUBSET Nat /\ M # {}
    BY <1>2 DEF FirstNonPhi
  <2> HIDE DEF M, k
  <2>2. k \in M /\ \A i \in M : k <= i
    BY <2>1, MinOfSet
  <2> QED
    BY <2>2 DEF M
<1> HIDE DEF k
<1>4. k \in 1..Len(B) /\ \A i \in 1..Len(B) : i < k => B[i].kind \notin Kept
  BY <1>1, <1>3 DEF Kept, Terminators
<1> DEFINE P == {n \in Nat : n < k => RestOf(B, n + 1) = LinesOf(B)}
<1>5. P = Nat
  <2>1. 0 \in P
    BY RestWhole
  <2>2. ASSUME NEW n \in P PROVE n + 1 \in P
    <3>1. SUFFICES ASSUME n + 1 < k PROVE RestOf(B, (n + 1) + 1) = LinesOf(B)
      OBVIOUS
    <3>2. n \in Nat /\ n < k /\ n + 1 \in 1..Len(B) /\ n + 1 \in DOMAIN B
      BY <1>1, <1>4, <3>1
    <3>3. RestOf(B, n + 1) = LinesOf(B)
      BY <3>2
    <3>4. B[n + 1].kind \notin Kept
      BY <1>4, <3>1, <3>2
    <3> QED
      BY <3>2, <3>3, <3>4, RestPasses
  <2>3. P \in SUBSET Nat
    OBVIOUS
  <2> HIDE DEF P
  <2> QED
    BY <2>1, <2>2, <2>3, SetInduction
<1>6. k - 1 \in Nat /\ k - 1 < k /\ (k - 1) + 1 = k
  BY <1>1, <1>4
<1>7. RestOf(B, k) = LinesOf(B)
  <2>1. k - 1 \in P
    BY <1>5, <1>6
  <2>2. RestOf(B, (k - 1) + 1) = LinesOf(B)
    BY <1>6, <2>1
  <2> QED
    BY <1>6, <2>2
<1> QED
  BY <1>1, <1>4, <1>7 DEF k

(* The lines that an activation has still to put in a block.               *)
RestsOf(n, entered) ==
  IF n = 0 THEN IF entered THEN {} ELSE {<<"ret">>, <<"go">>}
  ELSE IF entered THEN {<<"leave", "ret">>, <<"go">>}
  ELSE {<<"enter", "leave", "ret">>, <<"enter", "go">>, <<"ret">>}

LEMMA ConsIs ==
  ASSUME NEW l, NEW m, NEW r, NEW s \in Seq(Lines), l \in Lines, m \in Lines,
         r \in Seq(Lines), <<l>> \o r = <<m>> \o s
  PROVE  l = m /\ r = s
<1>1. <<l>> \in Seq(Lines) /\ <<m>> \in Seq(Lines) /\ Len(<<l>>) = 1 /\ Len(<<m>>) = 1
  OBVIOUS
<1> DEFINE u == <<l>>
           v == <<m>>
<1>2. u[1] = l /\ v[1] = m
  OBVIOUS
<1> HIDE DEF u, v
<1>3. /\ Len(u \o r) = 1 + Len(r) /\ Len(v \o s) = 1 + Len(s)
      /\ \A i \in 1..(1 + Len(r)) : (u \o r)[i] = IF i <= 1 THEN u[i] ELSE r[i - 1]
      /\ \A i \in 1..(1 + Len(s)) : (v \o s)[i] = IF i <= 1 THEN v[i] ELSE s[i - 1]
  BY <1>1, ConcatProperties DEF u, v
<1>4. u \o r = v \o s
  BY DEF u, v
<1>5. Len(r) \in Nat /\ Len(s) \in Nat /\ Len(r) = Len(s)
  BY <1>3, <1>4
<1>6. u[1] = v[1]
  BY <1>3, <1>4, <1>5
<1>7. ASSUME NEW i \in 1..Len(r) PROVE r[i] = s[i]
  <2>1. i + 1 \in 1..(1 + Len(r)) /\ ~ (i + 1 <= 1) /\ (i + 1) - 1 = i
    BY <1>5
  <2> QED
    BY <1>3, <1>4, <1>5, <2>1
<1>8. r = s
  BY <1>5, <1>7
<1> QED
  BY <1>2, <1>6, <1>8

LEMMA ConsEmpty ==
  ASSUME NEW l \in Lines
  PROVE  <<l>> = <<l>> \o <<>>
BY ConcatEmptySeq

LEMMA ConsPair ==
  ASSUME NEW l \in Lines, NEW m \in Lines
  PROVE  <<l, m>> = <<l>> \o <<m>> /\ <<l, m>> \in Seq(Lines)
BY PairIsConcat

LEMMA ConsTriple ==
  ASSUME NEW l \in Lines, NEW m \in Lines, NEW n \in Lines
  PROVE  <<l, m, n>> = <<l>> \o <<m, n>>
<1> DEFINE u == <<l, m, n>>
           a == <<l>>
           b == <<m, n>>
<1>1. u \in Seq(Lines) /\ Len(u) = 3 /\ u[1] = l /\ u[2] = m /\ u[3] = n
  OBVIOUS
<1>2. a \in Seq(Lines) /\ Len(a) = 1 /\ a[1] = l
  OBVIOUS
<1>3. b \in Seq(Lines) /\ Len(b) = 2 /\ b[1] = m /\ b[2] = n
  OBVIOUS
<1> HIDE DEF u, a, b
<1>4. a \o b \in Seq(Lines) /\ Len(a \o b) = 3 /\ (a \o b)[1] = l /\ (a \o b)[2] = m
      /\ (a \o b)[3] = n
  <2>1. a \o b \in Seq(Lines) /\ Len(a \o b) = 3
    BY <1>2, <1>3, ConcatProperties
  <2>2. (a \o b)[1] = a[1]
    BY <1>2, <1>3, <2>1, ConcatProperties
  <2>3. (a \o b)[2] = b[1]
    BY <1>2, <1>3, <2>1, ConcatProperties
  <2>4. (a \o b)[3] = b[2]
    BY <1>2, <1>3, <2>1, ConcatProperties
  <2> QED
    BY <1>2, <1>3, <2>1, <2>2, <2>3, <2>4
<1>5. u = a \o b
  <2>1. \A i \in 1..3 : i = 1 \/ i = 2 \/ i = 3
    OBVIOUS
  <2>2. \A i \in 1..Len(u) : u[i] = (a \o b)[i]
    BY <1>1, <1>4, <2>1
  <2>3. u \in Seq(Lines) /\ a \o b \in Seq(Lines) /\ Len(u) = Len(a \o b)
    BY <1>1, <1>4
  <2> QED
    BY <2>2, <2>3, SeqEqual
<1> QED
  BY <1>5 DEF u, a, b

(* What can come next, and what is left then.                              *)
LEMMA RestCases ==
  ASSUME NEW n \in 0..1, NEW e \in BOOLEAN, NEW l \in Lines, NEW r \in Seq(Lines),
         <<l>> \o r \in RestsOf(n, e)
  PROVE  /\ l = "enter" => n = 1 /\ ~ e /\ r \in RestsOf(1, TRUE)
         /\ l = "leave" => n = 1 /\ e /\ r \in RestsOf(1, FALSE)
         /\ l = "ret" => ~ e
         /\ l = "go" => (n = 0 /\ ~ e) \/ (n = 1 /\ e)
<1>0. /\ "enter" \in Lines /\ "leave" \in Lines /\ "ret" \in Lines /\ "go" \in Lines
      /\ <<>> \in Seq(Lines) /\ <<"ret">> \in Seq(Lines) /\ <<"go">> \in Seq(Lines)
  BY DEF Lines
<1>1. CASE <<l>> \o r = <<"ret">>
  <2>1. <<l>> \o r = <<"ret">> \o <<>>
    BY <1>0, <1>1, ConsEmpty
  <2>2. l = "ret"
    BY <1>0, <2>1, ConsIs
  <2>3. ~ e
    <3> DEFINE w == <<"ret">>
    <3>1. w # <<"leave", "ret">> /\ w # <<"go">>
      OBVIOUS
    <3>2. w \in RestsOf(n, e)
      BY <1>1
    <3> HIDE DEF w
    <3> QED
      BY <3>1, <3>2 DEF RestsOf
  <2> QED
    BY <2>2, <2>3
<1>2. CASE <<l>> \o r = <<"go">>
  <2>1. <<l>> \o r = <<"go">> \o <<>>
    BY <1>0, <1>2, ConsEmpty
  <2>2. l = "go"
    BY <1>0, <2>1, ConsIs
  <2>3. (n = 0 /\ ~ e) \/ (n = 1 /\ e)
    <3> DEFINE w == <<"go">>
    <3>1. w # <<"enter", "leave", "ret">> /\ w # <<"enter", "go">> /\ w # <<"ret">>
      OBVIOUS
    <3>2. w \in RestsOf(n, e)
      BY <1>2
    <3> HIDE DEF w
    <3> QED
      BY <3>1, <3>2 DEF RestsOf
  <2> QED
    BY <2>2, <2>3
<1>3. CASE <<l>> \o r = <<"leave", "ret">>
  <2>1. <<l>> \o r = <<"leave">> \o <<"ret">>
    <3>1. <<"leave", "ret">> = <<"leave">> \o <<"ret">>
      BY <1>0, ConsPair
    <3> QED
      BY <1>3, <3>1
  <2>2. l = "leave" /\ r = <<"ret">>
    BY <1>0, <2>1, ConsIs
  <2>3. n = 1 /\ e
    <3> DEFINE w == <<"leave", "ret">>
    <3>1. /\ w # <<"enter", "leave", "ret">> /\ w # <<"enter", "go">>
          /\ w # <<"ret">> /\ w # <<"go">>
      OBVIOUS
    <3>2. w \in RestsOf(n, e)
      BY <1>3
    <3> HIDE DEF w
    <3> QED
      BY <3>1, <3>2 DEF RestsOf
  <2>4. r \in RestsOf(1, FALSE)
    BY <2>2 DEF RestsOf
  <2> QED
    BY <2>2, <2>3, <2>4
<1>4. CASE <<l>> \o r = <<"enter", "leave", "ret">>
  <2>1. <<l>> \o r = <<"enter">> \o <<"leave", "ret">> /\ <<"leave", "ret">> \in Seq(Lines)
    <3>1. <<"enter", "leave", "ret">> = <<"enter">> \o <<"leave", "ret">>
      BY <1>0, ConsTriple
    <3>2. <<"leave", "ret">> \in Seq(Lines)
      BY <1>0, ConsPair
    <3> QED
      BY <1>4, <3>1, <3>2
  <2>2. l = "enter" /\ r = <<"leave", "ret">>
    BY <1>0, <2>1, ConsIs
  <2>3. n = 1 /\ ~ e
    <3> DEFINE w == <<"enter", "leave", "ret">>
    <3>1. w # <<"leave", "ret">> /\ w # <<"ret">> /\ w # <<"go">>
      OBVIOUS
    <3>2. w \in RestsOf(n, e)
      BY <1>4
    <3> HIDE DEF w
    <3> QED
      BY <3>1, <3>2 DEF RestsOf
  <2>4. r \in RestsOf(1, TRUE)
    BY <2>2 DEF RestsOf
  <2> QED
    BY <2>2, <2>3, <2>4
<1>5. CASE <<l>> \o r = <<"enter", "go">>
  <2>1. <<l>> \o r = <<"enter">> \o <<"go">>
    <3>1. <<"enter", "go">> = <<"enter">> \o <<"go">>
      BY <1>0, ConsPair
    <3> QED
      BY <1>5, <3>1
  <2>2. l = "enter" /\ r = <<"go">>
    BY <1>0, <2>1, ConsIs
  <2>3. n = 1 /\ ~ e
    <3> DEFINE w == <<"enter", "go">>
    <3>1. w # <<"leave", "ret">> /\ w # <<"ret">> /\ w # <<"go">>
      OBVIOUS
    <3>2. w \in RestsOf(n, e)
      BY <1>5
    <3> HIDE DEF w
    <3> QED
      BY <3>1, <3>2 DEF RestsOf
  <2>4. r \in RestsOf(1, TRUE)
    BY <2>2 DEF RestsOf
  <2> QED
    BY <2>2, <2>3, <2>4
<1>6. \/ <<l>> \o r = <<"ret">> \/ <<l>> \o r = <<"go">>
      \/ <<l>> \o r = <<"leave", "ret">> \/ <<l>> \o r = <<"enter", "leave", "ret">>
      \/ <<l>> \o r = <<"enter", "go">>
  <2> DEFINE w == <<l>> \o r
  <2>1. w \in RestsOf(n, e)
    OBVIOUS
  <2> HIDE DEF w
  <2>2. \/ w = <<"ret">> \/ w = <<"go">> \/ w = <<"leave", "ret">>
        \/ w = <<"enter", "leave", "ret">> \/ w = <<"enter", "go">>
    BY <2>1 DEF RestsOf
  <2> QED
    BY <2>2 DEF w
<1> QED
  BY <1>1, <1>2, <1>3, <1>4, <1>5, <1>6

(* A block other than the first is entered by an activation that has put   *)
(* its line, if it does.                                                   *)
LEMMA RestsEntered ==
  ASSUME NEW n \in 0..1, NEW e \in BOOLEAN, (n = 0 /\ ~ e) \/ (n = 1 /\ e),
         NEW b, b # 1, NEW kind
  PROVE  LinesFor(n, b, kind) \in RestsOf(n, e)
BY DEF LinesFor, RestsOf

LEMMA RestsBegin ==
  ASSUME NEW n \in 0..1, NEW kind
  PROVE  LinesFor(n, 1, kind) \in RestsOf(n, FALSE)
BY DEF LinesFor, RestsOf

-----------------------------------------------------------------------------
(* Activations.                                                            *)

Fields == {"fn", "act", "b", "i", "visits", "regs", "mem", "own", "ownMem",
           "entered", "reentered"}

At(fr) == code[fr.fn][fr.b][fr.i]

FrameOK(fr) ==
  /\ DOMAIN fr = Fields /\ fr.fn \in Fns /\ fr.entered \in BOOLEAN
  /\ fr.b \in DOMAIN code[fr.fn] /\ fr.i \in DOMAIN code[fr.fn][fr.b]
  /\ traced[fr.fn] <= 1 =>
       RestOf(code[fr.fn][fr.b], fr.i) \in RestsOf(traced[fr.fn], fr.entered)

AtCall(fr) == At(fr).kind \in {"call", "invoke"}

StackOK ==
  /\ stack \in Seq(ToSet(stack))
  /\ \A k \in 1..Len(stack) : FrameOK(stack[k])
  /\ \A k \in 1..Len(stack) : k < Len(stack) \/ unwinding => AtCall(stack[k])

CountsOK ==
  /\ acts \in 0..MaxActs /\ Len(stack) <= acts
  /\ unwound \in BOOLEAN /\ open \in Seq(Fns)

FrameInv == PipelineInv /\ StackOK /\ CountsOK

LEMMA BlockIs ==
  ASSUME PipelineInv, NEW fr, FrameOK(fr)
  PROVE  /\ IsBlock(code[fr.fn][fr.b]) /\ Last(code[fr.fn][fr.b]).kind \in Terminators
         /\ InstOK(source[fr.fn], fr.fn, At(fr))
         /\ DOMAIN code[fr.fn] = DOMAIN source[fr.fn]
         /\ At(fr).kind \notin Terminators => fr.i + 1 \in DOMAIN code[fr.fn][fr.b]
<1> DEFINE A == code[fr.fn]
           B == A[fr.b]
           src == source[fr.fn]
<1>1. fr.fn \in Fns /\ fr.b \in DOMAIN A /\ fr.i \in DOMAIN B
  BY DEF FrameOK
<1>2. BodyOK(src, fr.fn, A) /\ IsCode(A) /\ DOMAIN A = DOMAIN src
  BY <1>1, CodeOf DEF PipelineInv
<1>3. IsBlock(B) /\ Last(B).kind \in Terminators /\ \A x \in ToSet(B) : InstOK(src, fr.fn, x)
  BY <1>1, <1>2 DEF BodyOK, IsCode
<1>4. At(fr) = B[fr.i]
  BY DEF At
<1>5. B[fr.i] \in ToSet(B)
  BY <1>1 DEF ToSet
<1>6. DOMAIN B = 1..Len(B) /\ Len(B) \in Nat /\ Last(B) = B[Len(B)]
  BY <1>3 DEF IsBlock, Last
<1>7. ASSUME At(fr).kind \notin Terminators PROVE fr.i + 1 \in DOMAIN B
  <2>1. fr.i # Len(B)
    BY <1>3, <1>4, <1>6, <1>7
  <2> HIDE DEF B
  <2> QED
    BY <1>1, <1>6, <2>1
<1> QED
  BY <1>2, <1>3, <1>4, <1>5, <1>7

(* The other blocks of a function, as an activation comes to them.         *)
LEMMA TargetIs ==
  ASSUME PipelineInv, NEW f \in Fns, NEW b \in DOMAIN code[f]
  PROVE  /\ FirstNonPhi(code[f][b]) \in DOMAIN code[f][b]
         /\ traced[f] \in Nat
         /\ traced[f] <= 1 => RestOf(code[f][b], FirstNonPhi(code[f][b]))
                                = LinesFor(traced[f], b, Last(code[f][b]).kind)
<1> DEFINE B == code[f][b]
<1>1. BodyOK(source[f], f, code[f]) /\ IsCode(code[f])
  BY CodeOf DEF PipelineInv
<1>2. IsBlock(B) /\ Last(B).kind \in Terminators
  BY <1>1 DEF BodyOK, IsCode
<1> HIDE DEF B
<1>3. FirstNonPhi(B) \in DOMAIN B /\ RestOf(B, FirstNonPhi(B)) = LinesOf(B)
  BY <1>2, RestNonPhi
<1>4. traced[f] \in Nat /\ (traced[f] <= 1 => LinesOf(B) = LinesFor(traced[f], b, Last(B).kind))
  BY DEF PipelineInv, LinesKept, LinesOK, B
<1> QED
  BY <1>3, <1>4 DEF B

(* How an activation moves.                                                *)
LEMMA FrameAdvances ==
  ASSUME PipelineInv, NEW fr, FrameOK(fr), At(fr).kind \notin Kept,
         NEW g, DOMAIN g = Fields, g.fn = fr.fn, g.b = fr.b, g.i = fr.i + 1,
         g.entered = fr.entered
  PROVE  FrameOK(g)
<1> DEFINE B == code[fr.fn][fr.b]
<1>1. IsBlock(B) /\ fr.i + 1 \in DOMAIN B /\ fr.i \in DOMAIN B
  BY BlockIs DEF FrameOK, Kept
<1>2. RestOf(B, fr.i) = RestOf(B, fr.i + 1)
  <2>1. B[fr.i].kind \notin Kept
    BY DEF At
  <2> HIDE DEF B
  <2> QED
    BY <1>1, <2>1, RestPasses
<1> QED
  BY <1>1, <1>2 DEF FrameOK

LEMMA FramePuts ==
  ASSUME PipelineInv, NEW fr, FrameOK(fr), At(fr).kind = "puts",
         NEW g, DOMAIN g = Fields, g.fn = fr.fn, g.b = fr.b, g.i = fr.i + 1,
         g.entered = (At(fr).ref[1] = "enter")
  PROVE  /\ FrameOK(g)
         /\ At(fr).ref[2] = fr.fn /\ At(fr).ref[1] \in {"enter", "leave"}
         /\ traced[fr.fn] <= 1 => fr.entered = (At(fr).ref[1] = "leave")
<1> DEFINE B == code[fr.fn][fr.b]
           x == At(fr)
           r == RestOf(B, fr.i + 1)
           n == traced[fr.fn]
<1>1. IsBlock(B) /\ fr.i + 1 \in DOMAIN B /\ fr.i \in DOMAIN B /\ x = B[fr.i]
      /\ InstOK(source[fr.fn], fr.fn, x) /\ fr.fn \in Fns
  BY BlockIs DEF FrameOK, Terminators, At
<1>2. x.ref \in {<<"enter", fr.fn>>, <<"leave", fr.fn>>}
  BY <1>1 DEF InstOK
<1>3. x.ref[2] = fr.fn /\ x.ref[1] \in {"enter", "leave"}
  BY <1>2
<1>4. LineSeq(x) = <<LineOf(x)>> /\ LineOf(x) = x.ref[1]
  BY <1>3 DEF LineSeq, Kept, LineOf
<1>5. RestOf(B, fr.i) = <<LineOf(x)>> \o r /\ r \in Seq(Lines)
  BY <1>1, <1>4, RestStep
<1>6. n \in Nat /\ fr.entered \in BOOLEAN
      /\ (n <= 1 => RestOf(B, fr.i) \in RestsOf(n, fr.entered))
  BY <1>1 DEF FrameOK, PipelineInv, LinesKept
<1>7. LineOf(x) \in Lines
  BY <1>3, <1>4 DEF Lines
<1> HIDE DEF r, n, B, x
<1>8. ASSUME n <= 1
      PROVE  /\ LineOf(x) = "enter" => n = 1 /\ ~ fr.entered /\ r \in RestsOf(1, TRUE)
             /\ LineOf(x) = "leave" => n = 1 /\ fr.entered /\ r \in RestsOf(1, FALSE)
  <2>1. <<LineOf(x)>> \o r \in RestsOf(n, fr.entered) /\ n \in 0..1
    BY <1>5, <1>6, <1>8
  <2> QED
    BY <1>5, <1>6, <1>7, <2>1, RestCases
<1>9. n <= 1 => fr.entered = (x.ref[1] = "leave") /\ r \in RestsOf(n, x.ref[1] = "enter")
  <2>1. SUFFICES ASSUME n <= 1
                 PROVE  fr.entered = (x.ref[1] = "leave") /\ r \in RestsOf(n, x.ref[1] = "enter")
    OBVIOUS
  <2>2. CASE x.ref[1] = "enter"
    <3>1. n = 1 /\ ~ fr.entered /\ r \in RestsOf(1, TRUE)
      BY <1>4, <1>8, <2>1, <2>2
    <3>2. (x.ref[1] = "enter") = TRUE /\ (x.ref[1] = "leave") = FALSE
      BY <2>2
    <3> QED
      BY <1>6, <3>1, <3>2
  <2>3. CASE x.ref[1] = "leave"
    <3>1. n = 1 /\ fr.entered /\ r \in RestsOf(1, FALSE)
      BY <1>4, <1>8, <2>1, <2>3
    <3>2. (x.ref[1] = "enter") = FALSE /\ (x.ref[1] = "leave") = TRUE
      BY <2>3
    <3> QED
      BY <1>6, <3>1, <3>2
  <2> QED
    BY <1>3, <2>2, <2>3
<1>10. FrameOK(g)
  <2>1. g.fn \in Fns /\ g.entered \in BOOLEAN
    BY <1>1
  <2>2. g.b \in DOMAIN code[g.fn] /\ g.i \in DOMAIN code[g.fn][g.b]
    BY <1>1 DEF FrameOK, B
  <2>3. traced[g.fn] <= 1 => RestOf(code[g.fn][g.b], g.i) \in RestsOf(traced[g.fn], g.entered)
    BY <1>9 DEF r, n, B, x
  <2> QED
    BY <2>1, <2>2, <2>3 DEF FrameOK
<1> QED
  BY <1>3, <1>9, <1>10 DEF n, x

(* What ends a block and is not a return is gone on from by an activation  *)
(* whose line is put, a return is come to by one whose line is closed.     *)
LEMMA FrameEnds ==
  ASSUME PipelineInv, NEW fr, FrameOK(fr), At(fr).kind \in Terminators, traced[fr.fn] <= 1
  PROVE  /\ At(fr).kind = "ret" => ~ fr.entered
         /\ At(fr).kind # "ret" => \/ traced[fr.fn] = 0 /\ ~ fr.entered
                                   \/ traced[fr.fn] = 1 /\ fr.entered
<1> DEFINE B == code[fr.fn][fr.b]
           x == At(fr)
           r == RestOf(B, fr.i + 1)
           n == traced[fr.fn]
<1>1. IsBlock(B) /\ fr.i \in DOMAIN B /\ x = B[fr.i] /\ fr.fn \in Fns
  BY BlockIs DEF FrameOK, At
<1>2. LineSeq(x) = <<LineOf(x)>> /\ LineOf(x) = (IF x.kind = "ret" THEN "ret" ELSE "go")
  BY DEF LineSeq, Kept, LineOf, Terminators
<1>3. RestOf(B, fr.i) = <<LineOf(x)>> \o r /\ r \in Seq(Lines)
  BY <1>1, <1>2, RestStep
<1>4. n \in 0..1 /\ fr.entered \in BOOLEAN /\ RestOf(B, fr.i) \in RestsOf(n, fr.entered)
  BY <1>1 DEF FrameOK, PipelineInv, LinesKept
<1>5. LineOf(x) \in Lines
  BY <1>2 DEF Lines
<1> HIDE DEF r, n, B, x
<1>6. <<LineOf(x)>> \o r \in RestsOf(n, fr.entered)
  BY <1>3, <1>4
<1>7. /\ LineOf(x) = "ret" => ~ fr.entered
      /\ LineOf(x) = "go" => (n = 0 /\ ~ fr.entered) \/ (n = 1 /\ fr.entered)
  BY <1>3, <1>4, <1>5, <1>6, RestCases
<1> QED
  BY <1>2, <1>7 DEF n, x

LEMMA FrameBranches ==
  ASSUME PipelineInv, NEW fr, FrameOK(fr), At(fr).kind \in {"br", "invoke"},
         NEW to \in ToSet(At(fr).blocks)
  PROVE  /\ FrameOK(Branch(fr, to)) /\ Branch(fr, to).fn = fr.fn
         /\ Branch(fr, to).entered = fr.entered
<1> DEFINE g == Branch(fr, to)
           f == fr.fn
           B == code[f][to]
<1>1. InstOK(source[f], f, At(fr)) /\ DOMAIN code[f] = DOMAIN source[f] /\ f \in Fns
      /\ fr.entered \in BOOLEAN
  BY BlockIs DEF FrameOK
<1>2. to \in DOMAIN code[f] /\ to # 1
  <2>1. At(fr).blocks \in Seq(DOMAIN source[f]) /\ 1 \notin ToSet(At(fr).blocks)
    BY <1>1 DEF InstOK
  <2> QED
    BY <1>1, <2>1 DEF ToSet
<1>3. FirstNonPhi(B) \in DOMAIN B /\ traced[f] \in Nat
      /\ (traced[f] <= 1 => RestOf(B, FirstNonPhi(B)) = LinesFor(traced[f], to, Last(B).kind))
  BY <1>1, <1>2, TargetIs
<1>4. DOMAIN g = Fields /\ g.i = FirstNonPhi(code[fr.fn][to]) /\ g.fn = fr.fn /\ g.b = to
      /\ g.entered = fr.entered
  BY DEF Branch, Fields, FrameOK
<1>5. ASSUME traced[f] <= 1
      PROVE  LinesFor(traced[f], to, Last(B).kind) \in RestsOf(traced[f], fr.entered)
  <2>1. traced[f] \in 0..1
    BY <1>3, <1>5
  <2>2. (traced[f] = 0 /\ ~ fr.entered) \/ (traced[f] = 1 /\ fr.entered)
    BY <1>5, FrameEnds DEF Terminators
  <2> QED
    BY <1>1, <1>2, <2>1, <2>2, RestsEntered
<1> HIDE DEF g
<1>6. FrameOK(g)
  BY <1>1, <1>2, <1>3, <1>4, <1>5 DEF FrameOK
<1> QED
  BY <1>4, <1>6 DEF g

LEMMA FrameBegins ==
  ASSUME PipelineInv, NEW g, DOMAIN g = Fields, g.fn \in Fns, g.b = 1, g.i = 1,
         g.entered = FALSE
  PROVE  FrameOK(g)
<1> DEFINE f == g.fn
           B == code[f][1]
<1>1. BodyOK(source[f], f, code[f]) /\ IsCode(code[f])
  BY CodeOf DEF PipelineInv
<1>2. 1 \in DOMAIN code[f] /\ IsBlock(B)
  BY <1>1, EntryIs
<1>3. 1 \in DOMAIN B /\ RestOf(B, 1) = LinesOf(B)
  BY <1>2, RestWhole DEF IsBlock
<1>4. ASSUME traced[f] <= 1 PROVE RestOf(B, 1) \in RestsOf(traced[f], FALSE)
  <2>1. traced[f] \in 0..1 /\ LinesOf(B) = LinesFor(traced[f], 1, Last(B).kind)
    BY <1>2, <1>4 DEF PipelineInv, LinesKept, LinesOK
  <2> QED
    BY <1>3, <2>1, RestsBegin
<1> QED
  BY <1>2, <1>3, <1>4 DEF FrameOK

-----------------------------------------------------------------------------
(* The stack.                                                              *)

OwnSeq(s) == s \in Seq(ToSet(s))

LEMMA OwnSeqs ==
  ASSUME NEW S, NEW s \in Seq(S)
  PROVE  OwnSeq(s)
BY SeqOfOwn DEF OwnSeq

LEMMA FrontIs ==
  ASSUME NEW s, OwnSeq(s), s # <<>>
  PROVE  /\ Front(s) \in Seq(ToSet(s)) /\ OwnSeq(Front(s))
         /\ Len(s) \in Nat \ {0} /\ Len(Front(s)) = Len(s) - 1
         /\ \A k \in 1..(Len(s) - 1) : Front(s)[k] = s[k]
         /\ Last(s) = s[Len(s)] /\ s = Append(Front(s), Last(s))
<1> DEFINE S == ToSet(s)
<1>1. s \in Seq(S) /\ Len(s) \in Nat \ {0}
  BY DEF OwnSeq
<1> HIDE DEF S
<1>2. Len(s) \in 1..(Len(s) + 1) /\ Len(s) \in 1..Len(s)
  BY <1>1
<1> DEFINE t == SubSeq(s, 1, Len(s) - 1)
<1>3. t \in Seq(S) /\ Len(t) = Len(s) - 1 /\ \A k \in 1..(Len(s) - 1) : t[k] = s[k]
  BY <1>1, <1>2, CutBefore
<1>4. t = Front(s)
  BY DEF Front
<1> HIDE DEF t
<1>5. OwnSeq(t)
  BY <1>3, OwnSeqs
<1>6. s = Append(t, s[Len(s)])
  <2>1. s[Len(s)] \in S
    BY <1>1, <1>2
  <2>2. Append(t, s[Len(s)]) \in Seq(S) /\ Len(Append(t, s[Len(s)])) = Len(s)
    BY <1>1, <1>3, <2>1
  <2>3. \A k \in 1..Len(s) : Append(t, s[Len(s)])[k] = s[k]
    BY <1>1, <1>3, <2>1
  <2> QED
    BY <1>1, <2>2, <2>3
<1> QED
  BY <1>1, <1>3, <1>4, <1>5, <1>6 DEF Last, S

LEMMA TopIs ==
  ASSUME NEW s, OwnSeq(s), NEW g
  PROVE  /\ OwnSeq(Append(s, g)) /\ Len(Append(s, g)) = Len(s) + 1 /\ Len(s) \in Nat
         /\ \A k \in 1..Len(s) : Append(s, g)[k] = s[k]
         /\ Append(s, g)[Len(s) + 1] = g
<1> DEFINE S == ToSet(s) \cup {g}
<1>1. s \in Seq(S) /\ g \in S
  BY DEF OwnSeq
<1> HIDE DEF S
<1>2. Append(s, g) \in Seq(S)
  BY <1>1
<1>3. OwnSeq(Append(s, g))
  BY <1>2, OwnSeqs
<1> QED
  BY <1>1, <1>3

(* The new stack: the lower activations are as before.                     *)
Lower(s, t, n) ==
  /\ OwnSeq(t) /\ Len(t) \in n..(n + 1)
  /\ \A k \in 1..n : /\ t[k].fn = s[k].fn /\ t[k].b = s[k].b /\ t[k].i = s[k].i
                     /\ t[k].entered = s[k].entered /\ DOMAIN t[k] = DOMAIN s[k]

LEMMA StackFrom ==
  ASSUME StackOK, NEW n \in Nat, n <= Len(stack), Lower(stack, stack', n),
         UNCHANGED <<code, traced>>,
         unwinding' => Len(stack') = n,
         n < Len(stack) \/ Len(stack') = n \/ AtCall(stack[n]) \/ n = 0,
         unwinding' /\ n > 0 => n < Len(stack) \/ AtCall(stack[n]),
         Len(stack') = n + 1 => FrameOK(stack'[n + 1])
  PROVE  StackOK'
<1>1. stack \in Seq(ToSet(stack)) /\ Len(stack) \in Nat
  BY DEF StackOK
<1>2. stack' \in Seq(ToSet(stack')) /\ Len(stack') \in n..(n + 1)
  BY DEF Lower, OwnSeq
<1>3. ASSUME NEW k \in 1..n
      PROVE  FrameOK(stack[k]) /\ (k < Len(stack) => AtCall(stack[k]))
  <2>1. k \in 1..Len(stack)
    BY <1>1
  <2> QED
    BY <2>1 DEF StackOK
<1>4. ASSUME NEW k \in 1..Len(stack')
      PROVE  FrameOK(stack[k])' /\ (k < Len(stack') \/ unwinding' => AtCall(stack[k])')
  <2>1. CASE k <= n
    <3>1. k \in 1..n
      BY <2>1
    <3>2. /\ stack'[k].fn = stack[k].fn /\ stack'[k].b = stack[k].b
          /\ stack'[k].i = stack[k].i /\ stack'[k].entered = stack[k].entered
          /\ DOMAIN stack'[k] = DOMAIN stack[k]
      BY <3>1 DEF Lower
    <3>3. FrameOK(stack[k])'
      <4>1. FrameOK(stack[k])
        BY <1>3, <3>1
      <4> QED
        BY <3>2, <4>1 DEF FrameOK
    <3>4. ASSUME k < Len(stack') \/ unwinding' PROVE AtCall(stack[k])
      <4>1. CASE k < n
        BY <1>1, <1>3, <3>1, <4>1
      <4>2. CASE k = n
        BY <1>1, <1>2, <1>3, <3>1, <3>4, <4>2
      <4> QED
        BY <2>1, <4>1, <4>2
    <3>5. AtCall(stack[k])' <=> AtCall(stack[k])
      BY <3>2 DEF AtCall, At
    <3> QED
      BY <3>3, <3>4, <3>5
  <2>2. CASE k > n
    <3>1. k = n + 1 /\ Len(stack') = n + 1
      BY <1>2, <2>2
    <3>2. FrameOK(stack[k])'
      BY <3>1 DEF FrameOK
    <3>3. ~ (k < Len(stack')) /\ ~ unwinding'
      BY <3>1
    <3> QED
      BY <3>2, <3>3
  <2> QED
    BY <1>2, <2>1, <2>2
<1> QED
  BY <1>2, <1>4 DEF StackOK

(* The steps of the program, by what they do to the stack.                 *)
LEMMA SetTopLower ==
  ASSUME StackOK, stack # <<>>, NEW g, stack' = Append(Front(stack), g)
  PROVE  /\ Len(stack) \in Nat \ {0} /\ Lower(stack, stack', Len(stack) - 1)
         /\ Len(stack') = Len(stack) /\ stack'[Len(stack)] = g
<1> DEFINE t == Front(stack)
<1>1. /\ OwnSeq(t) /\ Len(stack) \in Nat \ {0} /\ Len(t) = Len(stack) - 1
      /\ \A k \in 1..(Len(stack) - 1) : t[k] = stack[k]
  BY FrontIs DEF StackOK, OwnSeq
<1> HIDE DEF t
<1>2. /\ OwnSeq(Append(t, g)) /\ Len(Append(t, g)) = Len(t) + 1
      /\ \A k \in 1..Len(t) : Append(t, g)[k] = t[k]
      /\ Append(t, g)[Len(t) + 1] = g
  BY <1>1, TopIs
<1>3. stack' = Append(t, g)
  BY DEF t
<1>4. \A k \in 1..(Len(stack) - 1) : stack'[k] = stack[k]
  BY <1>1, <1>2, <1>3
<1>5. Len(stack') = Len(stack) /\ stack'[Len(stack)] = g /\ OwnSeq(stack')
  BY <1>1, <1>2, <1>3
<1> QED
  BY <1>1, <1>4, <1>5 DEF Lower

LEMMA PopLower ==
  ASSUME StackOK, stack # <<>>, stack' = Front(stack)
  PROVE  /\ Len(stack) \in Nat \ {0} /\ Lower(stack, stack', Len(stack) - 1)
         /\ Len(stack') = Len(stack) - 1
<1>1. /\ OwnSeq(stack') /\ Len(stack) \in Nat \ {0} /\ Len(stack') = Len(stack) - 1
      /\ \A k \in 1..(Len(stack) - 1) : stack'[k] = stack[k]
  BY FrontIs DEF StackOK, OwnSeq
<1> QED
  BY <1>1 DEF Lower

LEMMA TopOK ==
  ASSUME StackOK, stack # <<>>
  PROVE  /\ Len(stack) \in Nat \ {0} /\ Top = stack[Len(stack)] /\ FrameOK(Top) /\ At(Top) = Cur
         /\ unwinding => AtCall(Top)
<1>1. Len(stack) \in Nat \ {0} /\ Top = stack[Len(stack)]
  BY DEF StackOK, Top, Last
<1>2. Len(stack) \in 1..Len(stack)
  BY <1>1
<1> QED
  BY <1>1, <1>2 DEF StackOK, At, Cur, Top

LEMMA SetTopKeeps ==
  ASSUME StackOK, stack # <<>>, NEW g, FrameOK(g), SetTop(g), UNCHANGED <<code, traced>>,
         unwinding' = FALSE
  PROVE  StackOK' /\ Len(stack') = Len(stack)
<1>1. stack' = Append(Front(stack), g)
  BY DEF SetTop
<1>2. /\ Len(stack) \in Nat \ {0} /\ Lower(stack, stack', Len(stack) - 1)
      /\ Len(stack') = Len(stack) /\ stack'[Len(stack)] = g
  BY <1>1, SetTopLower
<1> DEFINE n == Len(stack) - 1
<1>3. n \in Nat /\ n <= Len(stack) /\ n < Len(stack) /\ n + 1 = Len(stack)
  BY <1>2
<1>4. FrameOK(stack'[n + 1])
  BY <1>2, <1>3
<1>5. Lower(stack, stack', n)
  BY <1>2
<1> HIDE DEF n
<1>6. StackOK'
  BY <1>3, <1>4, <1>5, StackFrom
<1> QED
  BY <1>2, <1>6

LEMMA PopKeeps ==
  ASSUME StackOK, stack # <<>>, stack' = Front(stack), UNCHANGED <<code, traced>>
  PROVE  StackOK' /\ Len(stack') <= Len(stack)
<1>1. /\ Len(stack) \in Nat \ {0} /\ Lower(stack, stack', Len(stack) - 1)
      /\ Len(stack') = Len(stack) - 1
  BY PopLower
<1> DEFINE n == Len(stack) - 1
<1>2. n \in Nat /\ n <= Len(stack) /\ n < Len(stack) /\ Len(stack') = n /\ n # n + 1
  BY <1>1
<1>3. Lower(stack, stack', n)
  BY <1>1
<1> HIDE DEF n
<1>4. StackOK'
  BY <1>2, <1>3, StackFrom
<1> QED
  BY <1>1, <1>4

-----------------------------------------------------------------------------
(* Calls and returns.                                                      *)

LEMMA EnterKeeps ==
  ASSUME FrameInv, NEW f \in Fns, Enter(f), UNCHANGED <<code, traced, unwinding>>,
         unwinding = FALSE, stack # <<>> => AtCall(Top)
  PROVE  /\ StackOK' /\ Len(stack') = Len(stack) + 1 /\ Lower(stack, stack', Len(stack))
         /\ Len(stack) \in Nat /\ ~ stack'[Len(stack) + 1].entered /\ stack'[Len(stack) + 1].fn = f
         /\ acts < MaxActs /\ acts' = acts + 1
<1> DEFINE n == Len(stack)
           low(k) == IF stack[k].fn = f THEN [stack[k] EXCEPT !.reentered = TRUE] ELSE stack[k]
           lower == [k \in DOMAIN stack |-> low(k)]
           g == [fn |-> f, act |-> acts, b |-> 1, i |-> 1, visits |-> 0,
                 regs |-> <<>>, mem |-> <<>>, own |-> <<>>, ownMem |-> <<>>,
                 entered |-> FALSE, reentered |-> FALSE]
<1>1. stack' = Append(lower, g) /\ acts < MaxActs /\ acts' = acts + 1
  BY DEF Enter
<1>2. stack \in Seq(ToSet(stack)) /\ n \in Nat /\ DOMAIN stack = 1..n
  BY DEF FrameInv, StackOK
<1>3. ASSUME NEW k \in 1..n
      PROVE  /\ low(k).fn = stack[k].fn /\ low(k).b = stack[k].b /\ low(k).i = stack[k].i
             /\ low(k).entered = stack[k].entered /\ DOMAIN low(k) = DOMAIN stack[k]
  <2>1. DOMAIN stack[k] = Fields
    BY DEF FrameInv, StackOK, FrameOK
  <2> DEFINE s == stack[k]
             t == [s EXCEPT !.reentered = TRUE]
  <2>2. /\ t.fn = s.fn /\ t.b = s.b /\ t.i = s.i
        /\ t.entered = s.entered /\ DOMAIN t = DOMAIN s
    BY <2>1 DEF Fields
  <2>3. low(k) = s \/ low(k) = t
    OBVIOUS
  <2> HIDE DEF s, t, low
  <2> QED
    BY <2>2, <2>3 DEF s
<1>4. OwnSeq(lower) /\ Len(lower) = n /\ \A k \in 1..n : lower[k] = low(k)
  <2> DEFINE T == {low(k) : k \in 1..n}
  <2> HIDE DEF low
  <2>1. lower \in [1..n -> T]
    BY <1>2
  <2> HIDE DEF T
  <2>2. lower \in Seq(T) /\ Len(lower) = n
    BY <1>2, <2>1, IsSequence
  <2>3. \A k \in 1..n : lower[k] = low(k)
    BY <1>2
  <2> HIDE DEF lower
  <2> QED
    BY <2>2, <2>3, OwnSeqs
<1>5. DOMAIN g = Fields /\ g.fn = f /\ g.b = 1 /\ g.i = 1 /\ g.entered = FALSE
  BY DEF Fields
<1> HIDE DEF g, lower, low
<1>6. FrameOK(g)
  BY <1>5, FrameBegins DEF FrameInv
<1>7. /\ OwnSeq(stack') /\ Len(stack') = n + 1 /\ \A k \in 1..n : stack'[k] = lower[k]
      /\ stack'[n + 1] = g
  BY <1>1, <1>4, TopIs
<1>8. Lower(stack, stack', n)
  BY <1>2, <1>3, <1>4, <1>7 DEF Lower
<1>9. n = 0 \/ AtCall(stack[n])
  <2>1. CASE stack = <<>>
    BY <2>1
  <2>2. CASE stack # <<>>
    BY <2>2, TopOK DEF FrameInv
  <2> QED
    BY <2>1, <2>2
<1>10. StackOK'
  <2>1. n <= Len(stack) /\ ~ unwinding' /\ FrameOK(stack'[n + 1])
    BY <1>2, <1>6, <1>7
  <2>2. StackOK
    BY DEF FrameInv
  <2> QED
    BY <1>2, <1>8, <1>9, <2>1, <2>2, StackFrom
<1> QED
  BY <1>1, <1>2, <1>5, <1>7, <1>8, <1>10

(* A caller goes on.                                                       *)
GoesOn(fr) ==
  IF At(fr).kind = "invoke" THEN Branch(fr, At(fr).blocks[1]) ELSE Computed(fr)

LEMMA FirstBlock ==
  ASSUME PipelineInv, NEW fr, FrameOK(fr), At(fr).kind = "invoke"
  PROVE  At(fr).blocks[1] \in ToSet(At(fr).blocks) /\ At(fr).blocks[2] \in ToSet(At(fr).blocks)
<1>1. /\ At(fr).blocks \in Seq(DOMAIN source[fr.fn]) /\ Len(At(fr).blocks) = 2
  BY BlockIs DEF InstOK
<1> DEFINE s == At(fr).blocks
<1>2. 1 \in DOMAIN s /\ 2 \in DOMAIN s
  BY <1>1
<1> HIDE DEF s
<1>3. s[1] \in ToSet(s) /\ s[2] \in ToSet(s)
  BY <1>2 DEF ToSet
<1> QED
  BY <1>3 DEF s

LEMMA ComputedOK ==
  ASSUME PipelineInv, NEW fr, FrameOK(fr), At(fr).kind \notin Kept
  PROVE  FrameOK(Computed(fr)) /\ Computed(fr).fn = fr.fn /\ Computed(fr).entered = fr.entered
<1> DEFINE g == Computed(fr)
<1>1. DOMAIN g = Fields /\ g.i = fr.i + 1 /\ g.fn = fr.fn /\ g.b = fr.b
      /\ g.entered = fr.entered
  BY DEF Computed, Fields, FrameOK
<1> HIDE DEF g
<1>2. FrameOK(g)
  BY <1>1, FrameAdvances
<1> QED
  BY <1>1, <1>2 DEF g

LEMMA GoesOnOK ==
  ASSUME PipelineInv, NEW fr, FrameOK(fr), AtCall(fr)
  PROVE  FrameOK(GoesOn(fr)) /\ GoesOn(fr).fn = fr.fn /\ GoesOn(fr).entered = fr.entered
<1>1. CASE At(fr).kind = "invoke"
  <2>1. At(fr).blocks[1] \in ToSet(At(fr).blocks)
    BY <1>1, FirstBlock
  <2>2. At(fr).kind \in {"br", "invoke"}
    BY <1>1
  <2> QED
    BY <1>1, <2>1, <2>2, FrameBranches DEF GoesOn
<1>2. CASE At(fr).kind # "invoke"
  <2>1. At(fr).kind \notin Kept
    BY <1>2 DEF AtCall, Kept, Terminators
  <2> QED
    BY <1>2, <2>1, ComputedOK DEF GoesOn
<1> QED
  BY <1>1, <1>2

LEMMA ReturnKeeps ==
  ASSUME FrameInv, Return
  PROVE  /\ StackOK' /\ Len(stack) \in Nat \ {0} /\ Len(stack') = Len(stack) - 1
         /\ \A k \in 1..(Len(stack) - 1) : /\ stack'[k].fn = stack[k].fn
                                           /\ stack'[k].entered = stack[k].entered
<1>0. StackOK /\ PipelineInv /\ Running /\ stack # <<>> /\ unwinding = FALSE
      /\ UNCHANGED <<code, traced, unwinding>>
  BY DEF FrameInv, Return, Running, Compiled, traceVars, Queued, PipelineInv
<1>1. Len(stack) \in Nat \ {0}
  BY <1>0, TopOK
<1>2. CASE Len(stack) = 1
  <2>1. stack' = <<>>
    BY <1>2 DEF Return
  <2>2. OwnSeq(<<>>) /\ Len(stack') = 0
    BY <2>1 DEF OwnSeq
  <2>3. Lower(stack, stack', 0)
    BY <2>1, <2>2 DEF Lower
  <2> DEFINE n == 0
  <2>4. n \in Nat /\ n <= Len(stack) /\ Lower(stack, stack', n) /\ Len(stack') = n
        /\ n < Len(stack) /\ Len(stack') # n + 1 /\ ~ unwinding'
    BY <1>0, <1>2, <2>2, <2>3
  <2> HIDE DEF n
  <2>5. StackOK'
    BY <1>0, <2>4, StackFrom
  <2> QED
    BY <1>1, <1>2, <2>2, <2>5
<1>3. CASE Len(stack) # 1
  <2> DEFINE t == Front(stack)
             caller == Last(t)
             n == Len(stack) - 2
             g == GoesOn(caller)
  <2>1. /\ OwnSeq(t) /\ Len(t) = Len(stack) - 1
        /\ \A k \in 1..(Len(stack) - 1) : t[k] = stack[k]
    BY <1>0, FrontIs DEF StackOK, OwnSeq
  <2>2. n \in Nat /\ Len(t) = n + 1 /\ Len(stack) = n + 2 /\ t # <<>>
    <3>1. n \in Nat /\ Len(t) = n + 1 /\ Len(stack) = n + 2
      BY <1>1, <1>3, <2>1
    <3> HIDE DEF t, n
    <3> QED
      BY <3>1
  <2>3. stack' = Append(Front(t), g)
    BY <1>3 DEF Return, GoesOn, At
  <2> HIDE DEF g, n
  <2>4. caller = stack[n + 1]
    BY <2>1, <2>2 DEF Last
  <2>5. FrameOK(caller) /\ AtCall(caller)
    BY <1>0, <2>2, <2>4 DEF StackOK
  <2>6. FrameOK(g) /\ g.fn = caller.fn /\ g.entered = caller.entered
    BY <1>0, <2>5, GoesOnOK DEF g
  <2> HIDE DEF t, caller
  <2>7. /\ OwnSeq(Front(t)) /\ Len(Front(t)) = Len(t) - 1
        /\ \A k \in 1..(Len(t) - 1) : Front(t)[k] = t[k]
    BY <2>1, <2>2, FrontIs
  <2> DEFINE u == Front(t)
  <2>8. OwnSeq(u) /\ Len(u) = n /\ \A k \in 1..n : u[k] = stack[k]
    BY <2>1, <2>2, <2>7
  <2> HIDE DEF u
  <2>9. /\ OwnSeq(Append(u, g)) /\ Len(Append(u, g)) = n + 1
        /\ \A k \in 1..n : Append(u, g)[k] = stack[k]
        /\ Append(u, g)[n + 1] = g
    BY <2>8, TopIs
  <2>10. /\ OwnSeq(stack') /\ Len(stack') = n + 1
         /\ \A k \in 1..n : stack'[k] = stack[k]
         /\ stack'[n + 1] = g
    BY <2>3, <2>9 DEF u
  <2>11. Lower(stack, stack', n)
    BY <2>2, <2>10 DEF Lower
  <2>12. n <= Len(stack) /\ n < Len(stack) /\ ~ unwinding' /\ FrameOK(stack'[n + 1])
    BY <1>0, <2>2, <2>6, <2>10
  <2>13. StackOK'
    BY <1>0, <2>2, <2>11, <2>12, StackFrom
  <2>14. ASSUME NEW k \in 1..(Len(stack) - 1)
         PROVE  stack'[k].fn = stack[k].fn /\ stack'[k].entered = stack[k].entered
    <3>1. CASE k = n + 1
      BY <2>4, <2>6, <2>10, <3>1
    <3>2. CASE k # n + 1
      <4>1. k \in 1..n
        BY <2>2, <3>2
      <4> QED
        BY <2>10, <4>1
    <3> QED
      BY <3>1, <3>2
  <2> QED
    BY <1>1, <2>2, <2>10, <2>13, <2>14
<1> QED
  BY <1>2, <1>3

-----------------------------------------------------------------------------
(* The open lines.                                                         *)

LEMMA MaxOfBounded ==
  ASSUME NEW n \in Nat, NEW S \in SUBSET (0..n), S # {}
  PROVE  Max(S) \in S /\ \A k \in S : k <= Max(S)
<1> DEFINE D == {d \in 0..n : n - d \in S}
<1>1. D \in SUBSET Nat /\ D # {}
  <2>1. PICK k \in S : TRUE
    OBVIOUS
  <2>2. n - k \in D
    BY <2>1
  <2>3. D \in SUBSET Nat
    OBVIOUS
  <2> HIDE DEF D
  <2> QED
    BY <2>2, <2>3
<1> DEFINE d == Min(D)
<1>2. d \in D /\ \A k \in D : d <= k
  <2> HIDE DEF D
  <2> QED
    BY <1>1, MinOfSet
<1> HIDE DEF d
<1>3. n - d \in S /\ d \in 0..n
  BY <1>2
<1>4. ASSUME NEW k \in S PROVE k <= n - d
  <2>1. n - k \in D
    OBVIOUS
  <2>2. d <= n - k
    BY <1>2, <2>1
  <2> QED
    BY <1>3, <2>2
<1>5. \E m \in S : \A k \in S : k <= m
  BY <1>3, <1>4
<1>6. \A k \in S : k \in Nat
  OBVIOUS
<1> QED
  BY <1>5, <1>6 DEF Max

LEMMA ClosedIs ==
  ASSUME NEW S, NEW t \in Seq(S), NEW f
  PROVE  /\ Closed(t, f) \in Seq(S)
         /\ (\E i \in DOMAIN t : t[i] = f) =>
              \E m \in DOMAIN t : /\ t[m] = f /\ Closed(t, f) = SubSeq(t, 1, m - 1)
                                  /\ \A i \in DOMAIN t : t[i] = f => i <= m
<1> DEFINE M == {i \in DOMAIN t : t[i] = f} \cup {0}
<1>1. DOMAIN t = 1..Len(t) /\ Len(t) \in Nat
  OBVIOUS
<1>2. M \in SUBSET (0..Len(t)) /\ M # {}
  BY <1>1
<1>3. PICK m : m = Max(M)
  OBVIOUS
<1>4. m \in M /\ \A k \in M : k <= m
  <2> HIDE DEF M
  <2> QED
    BY <1>1, <1>2, <1>3, MaxOfBounded
<1>5. Closed(t, f) = SubSeq(t, 1, m - 1)
  BY <1>3 DEF Closed
<1>6. \A i \in DOMAIN t : t[i] = f => i <= m
  BY <1>4
<1>7. CASE m = 0
  <2>1. ~ \E i \in DOMAIN t : t[i] = f
    BY <1>1, <1>6, <1>7
  <2>2. m - 1 \in Int /\ m - 1 < 1
    BY <1>7
  <2>3. SubSeq(t, 1, m - 1) = <<>>
    BY <2>2, SubSeqEmpty
  <2>4. Closed(t, f) = <<>>
    BY <1>5, <2>3
  <2>5. <<>> \in Seq(S)
    OBVIOUS
  <2>6. Closed(t, f) \in Seq(S)
    BY <2>4, <2>5
  <2> QED
    BY <2>1, <2>6, Zenon
<1>8. CASE m # 0
  <2>1. m \in DOMAIN t /\ t[m] = f /\ m \in 1..(Len(t) + 1)
    BY <1>1, <1>4, <1>8
  <2>2. SubSeq(t, 1, m - 1) \in Seq(S)
    BY <2>1, CutBefore
  <2>3. Closed(t, f) \in Seq(S)
    BY <1>5, <2>2
  <2>4. \E k \in DOMAIN t : /\ t[k] = f /\ Closed(t, f) = SubSeq(t, 1, k - 1)
                           /\ \A i \in DOMAIN t : t[i] = f => i <= k
    BY <1>5, <1>6, <2>1, Zenon
  <2> QED
    BY <2>3, <2>4, Zenon
<1> QED
  BY <1>7, <1>8

LEMMA EmbedsEmpty ==
  ASSUME NEW t
  PROVE  Embeds(<<>>, t)
<1> DEFINE at == [i \in DOMAIN <<>> |-> 0]
<1>1. DOMAIN <<>> = {}
  OBVIOUS
<1>2. at \in [DOMAIN <<>> -> DOMAIN t]
  BY <1>1
<1> QED
  BY <1>1, <1>2 DEF Embeds

(* A line fewer is asked for.                                              *)
LEMMA EmbedsFront ==
  ASSUME NEW S, NEW s \in Seq(S), NEW x \in S, NEW t, Embeds(Append(s, x), t)
  PROVE  Embeds(s, t)
<1> DEFINE u == Append(s, x)
<1>1. /\ Len(s) \in Nat /\ DOMAIN s = 1..Len(s) /\ DOMAIN u = 1..(Len(s) + 1)
      /\ \A i \in DOMAIN s : i \in DOMAIN u /\ u[i] = s[i]
  OBVIOUS
<1> HIDE DEF u
<1>2. PICK at \in [DOMAIN u -> DOMAIN t] :
        /\ \A i \in DOMAIN u : u[i] = t[at[i]]
        /\ \A i, j \in DOMAIN u : i < j => at[i] < at[j]
  BY DEF Embeds, u
<1> DEFINE by == [i \in DOMAIN s |-> at[i]]
<1>3. by \in [DOMAIN s -> DOMAIN t]
  BY <1>1
<1>4. \A i \in DOMAIN s : by[i] = at[i]
  OBVIOUS
<1> HIDE DEF by
<1>5. \A i \in DOMAIN s : s[i] = t[by[i]]
  BY <1>1, <1>2, <1>4
<1>6. \A i, j \in DOMAIN s : i < j => by[i] < by[j]
  BY <1>1, <1>2, <1>4
<1> QED
  BY <1>3, <1>5, <1>6 DEF Embeds

(* One more line is asked for, and put.                                    *)
LEMMA EmbedsAppend ==
  ASSUME NEW S, NEW s \in Seq(S), NEW x \in S, NEW t \in Seq(S), Embeds(s, t)
  PROVE  Embeds(Append(s, x), Append(t, x))
<1> DEFINE u == Append(s, x)
           v == Append(t, x)
<1>1. /\ Len(s) \in Nat /\ DOMAIN s = 1..Len(s) /\ DOMAIN u = 1..(Len(s) + 1)
      /\ \A i \in DOMAIN s : u[i] = s[i]
      /\ u[Len(s) + 1] = x
  OBVIOUS
<1>2. /\ Len(t) \in Nat /\ DOMAIN t = 1..Len(t) /\ DOMAIN v = 1..(Len(t) + 1)
      /\ \A i \in DOMAIN t : v[i] = t[i]
      /\ v[Len(t) + 1] = x
  OBVIOUS
<1> HIDE DEF u, v
<1>3. PICK at \in [DOMAIN s -> DOMAIN t] :
        /\ \A i \in DOMAIN s : s[i] = t[at[i]]
        /\ \A i, j \in DOMAIN s : i < j => at[i] < at[j]
  BY DEF Embeds
<1> DEFINE by == [i \in DOMAIN u |-> IF i = Len(s) + 1 THEN Len(t) + 1 ELSE at[i]]
<1>4. /\ by[Len(s) + 1] = Len(t) + 1
      /\ \A i \in DOMAIN s : by[i] = at[i] /\ at[i] \in DOMAIN t
  BY <1>1, <1>3
<1>5. by \in [DOMAIN u -> DOMAIN v]
  <2>1. \A i \in DOMAIN u : (IF i = Len(s) + 1 THEN Len(t) + 1 ELSE at[i]) \in DOMAIN v
    BY <1>1, <1>2, <1>3
  <2> QED
    BY <2>1
<1> HIDE DEF by
<1>6. ASSUME NEW i \in DOMAIN u PROVE u[i] = v[by[i]]
  <2>1. CASE i = Len(s) + 1
    BY <1>1, <1>2, <1>4, <2>1
  <2>2. CASE i # Len(s) + 1
    <3>1. i \in DOMAIN s
      BY <1>1, <2>2
    <3> QED
      BY <1>1, <1>2, <1>3, <1>4, <3>1
  <2> QED
    BY <2>1, <2>2
<1>7. ASSUME NEW i \in DOMAIN u, NEW j \in DOMAIN u, i < j PROVE by[i] < by[j]
  <2>1. i \in DOMAIN s
    BY <1>1, <1>7
  <2>2. CASE j = Len(s) + 1
    <3>1. by[i] \in 1..Len(t) /\ by[j] = Len(t) + 1
      BY <1>2, <1>4, <2>1, <2>2
    <3> QED
      BY <1>2, <3>1
  <2>3. CASE j # Len(s) + 1
    <3>1. j \in DOMAIN s
      BY <1>1, <2>3
    <3> QED
      BY <1>3, <1>4, <1>7, <2>1, <3>1
  <2> QED
    BY <2>2, <2>3
<1>8. Embeds(u, v)
  BY <1>5, <1>6, <1>7 DEF Embeds
<1> QED
  BY <1>8 DEF u, v

(* The last line asked for is closed.                                      *)
LEMMA EmbedsClosed ==
  ASSUME NEW S, NEW s \in Seq(S), NEW f \in S, NEW t \in Seq(S), Embeds(Append(s, f), t)
  PROVE  Embeds(s, Closed(t, f))
<1> DEFINE u == Append(s, f)
<1>1. /\ Len(s) \in Nat /\ DOMAIN s = 1..Len(s) /\ DOMAIN u = 1..(Len(s) + 1)
      /\ \A i \in DOMAIN s : u[i] = s[i]
      /\ u[Len(s) + 1] = f
  OBVIOUS
<1> HIDE DEF u
<1>2. PICK at \in [DOMAIN u -> DOMAIN t] :
        /\ \A i \in DOMAIN u : u[i] = t[at[i]]
        /\ \A i, j \in DOMAIN u : i < j => at[i] < at[j]
  BY DEF Embeds, u
<1>3. Len(s) + 1 \in DOMAIN u /\ at[Len(s) + 1] \in DOMAIN t /\ t[at[Len(s) + 1]] = f
  BY <1>1, <1>2
<1>4. PICK m \in DOMAIN t : /\ t[m] = f /\ Closed(t, f) = SubSeq(t, 1, m - 1)
                            /\ \A i \in DOMAIN t : t[i] = f => i <= m
  <2>1. \E i \in DOMAIN t : t[i] = f
    BY <1>3
  <2> QED
    BY <2>1, ClosedIs
<1> DEFINE v == SubSeq(t, 1, m - 1)
<1>5. /\ v \in Seq(S) /\ Len(v) = m - 1 /\ \A k \in 1..(m - 1) : v[k] = t[k]
  <2>1. m \in 1..(Len(t) + 1)
    OBVIOUS
  <2> QED
    BY <2>1, CutBefore
<1> HIDE DEF v
<1>6. DOMAIN v = 1..(m - 1) /\ m \in 1..Len(t) /\ DOMAIN t = 1..Len(t) /\ Len(t) \in Nat
  BY <1>5
<1> DEFINE by == [i \in DOMAIN s |-> at[i]]
<1>7. ASSUME NEW i \in DOMAIN s
      PROVE  by[i] = at[i] /\ at[i] \in DOMAIN v
  <2>1. i \in DOMAIN u /\ i < Len(s) + 1
    BY <1>1
  <2>2. at[i] < at[Len(s) + 1] /\ at[i] \in DOMAIN t
    BY <1>2, <1>3, <2>1
  <2>3. at[Len(s) + 1] <= m
    BY <1>3, <1>4
  <2>4. at[i] \in DOMAIN v
    BY <1>3, <1>6, <2>2, <2>3
  <2> QED
    BY <2>4
<1>8. by \in [DOMAIN s -> DOMAIN v]
  BY <1>7
<1> HIDE DEF by
<1>9. \A i \in DOMAIN s : s[i] = v[by[i]]
  <2>1. \A i \in DOMAIN s : i \in DOMAIN u
    BY <1>1
  <2> QED
    BY <1>1, <1>2, <1>5, <1>6, <1>7, <2>1
<1>10. \A i, j \in DOMAIN s : i < j => by[i] < by[j]
  <2>1. \A i \in DOMAIN s : i \in DOMAIN u
    BY <1>1
  <2> QED
    BY <1>2, <1>7, <2>1
<1>11. Embeds(s, v)
  BY <1>8, <1>9, <1>10 DEF Embeds
<1> QED
  BY <1>4, <1>11 DEF v

LEMMA ClosedLast ==
  ASSUME NEW S, NEW s \in Seq(S), NEW f \in S
  PROVE  Closed(Append(s, f), f) = s
<1> DEFINE t == Append(s, f)
<1>1. /\ t \in Seq(S) /\ Len(s) \in Nat /\ DOMAIN t = 1..(Len(s) + 1)
      /\ \A i \in 1..Len(s) : t[i] = s[i]
      /\ t[Len(s) + 1] = f /\ Len(t) = Len(s) + 1
  OBVIOUS
<1> HIDE DEF t
<1>2. PICK m \in DOMAIN t : /\ t[m] = f /\ Closed(t, f) = SubSeq(t, 1, m - 1)
                            /\ \A i \in DOMAIN t : t[i] = f => i <= m
  <2>1. \E i \in DOMAIN t : t[i] = f
    BY <1>1
  <2> QED
    BY <1>1, <2>1, ClosedIs
<1>3. m = Len(s) + 1
  BY <1>1, <1>2
<1> DEFINE v == SubSeq(t, 1, m - 1)
<1>4. /\ v \in Seq(S) /\ Len(v) = m - 1 /\ \A k \in 1..(m - 1) : v[k] = t[k]
  <2>1. m \in 1..(Len(t) + 1)
    BY <1>1, <1>3
  <2> QED
    BY <1>1, <2>1, CutBefore
<1> HIDE DEF v
<1>5. v = s
  <2>1. Len(v) = Len(s) /\ \A k \in 1..Len(s) : v[k] = s[k]
    BY <1>1, <1>3, <1>4
  <2> QED
    BY <1>4, <2>1
<1> QED
  BY <1>2, <1>5 DEF v, t

-----------------------------------------------------------------------------
(* Types.                                                                  *)

LEMMA RunningTop ==
  ASSUME FrameInv, Running
  PROVE  /\ stack # <<>> /\ unwinding = FALSE /\ FrameOK(Top) /\ At(Top) = Cur
         /\ InstOK(source[Top.fn], Top.fn, Cur)
         /\ DOMAIN Top = Fields /\ Len(stack) \in Nat \ {0}
<1>1. stack # <<>> /\ unwinding = FALSE
  BY DEF Running, FrameInv, PipelineInv, Queued
<1>2. FrameOK(Top) /\ At(Top) = Cur /\ Len(stack) \in Nat \ {0}
  BY <1>1, TopOK DEF FrameInv
<1>3. InstOK(source[Top.fn], Top.fn, At(Top))
  BY <1>2, BlockIs DEF FrameInv
<1> QED
  BY <1>1, <1>2, <1>3 DEF FrameOK

(* The running activation goes on to the next instruction.                 *)
LEMMA AdvanceKeeps ==
  ASSUME FrameInv, Running, Cur.kind \notin Kept, NEW g, SetTop(g),
         DOMAIN g = Fields, g.fn = Top.fn, g.b = Top.b, g.i = Top.i + 1,
         g.entered = Top.entered,
         UNCHANGED <<code, traced, unwinding>>
  PROVE  StackOK' /\ Len(stack') = Len(stack)
<1>1. stack # <<>> /\ unwinding = FALSE /\ FrameOK(Top) /\ At(Top) = Cur
  BY RunningTop
<1>2. FrameOK(g)
  BY <1>1, FrameAdvances DEF FrameInv
<1> QED
  BY <1>1, <1>2, SetTopKeeps DEF FrameInv

LEMMA SameCounts ==
  ASSUME FrameInv, Len(stack') <= Len(stack), StackOK',
         UNCHANGED <<acts, open>>, unwound' \in BOOLEAN
  PROVE  CountsOK'
<1>1. Len(stack) \in Nat /\ Len(stack') \in Nat
  BY DEF FrameInv, StackOK
<1> QED
  BY <1>1, BoundsAssumption DEF FrameInv, CountsOK

LEMMA StepCode ==
  ASSUME FrameInv, Execute
  PROVE  UNCHANGED <<code, traced>>
<1>1. Compiled
  BY ExecuteIs DEF FrameInv, PipelineInv
<1> QED
  BY <1>1 DEF Compiled, traceVars

LEMMA ComputeKeeps ==
  ASSUME FrameInv, Compute
  PROVE  StackOK' /\ CountsOK'
<1>1. Running /\ SetTop(Computed(Top)) /\ Cur.kind \notin Kept
      /\ UNCHANGED <<code, traced, acts, unwinding, unwound, open>>
  BY DEF Compute, Kept, Terminators, Compiled, traceVars
<1>2. DOMAIN Top = Fields
  BY <1>1, RunningTop
<1> DEFINE g == Computed(Top)
<1>3. DOMAIN g = Fields /\ g.i = Top.i + 1 /\ g.fn = Top.fn /\ g.b = Top.b
      /\ g.entered = Top.entered
  BY <1>2 DEF Computed, Fields
<1> HIDE DEF g
<1>4. StackOK' /\ Len(stack') = Len(stack)
  BY <1>1, <1>3, AdvanceKeeps DEF g
<1> QED
  BY <1>1, <1>4, SameCounts DEF FrameInv, CountsOK, StackOK

LEMMA AllocaKeeps ==
  ASSUME FrameInv, ExecAlloca
  PROVE  StackOK' /\ CountsOK'
<1> DEFINE g == [Top EXCEPT !.i = @ + 1]
<1>1. Running /\ SetTop(g) /\ Cur.kind \notin Kept
      /\ UNCHANGED <<code, traced, acts, unwinding, unwound, open>>
  BY DEF ExecAlloca, Kept, Terminators, Compiled, traceVars
<1>2. DOMAIN Top = Fields
  BY <1>1, RunningTop
<1>3. DOMAIN g = Fields /\ g.i = Top.i + 1 /\ g.fn = Top.fn /\ g.b = Top.b
      /\ g.entered = Top.entered
  BY <1>2 DEF Fields
<1> HIDE DEF g
<1>4. StackOK' /\ Len(stack') = Len(stack)
  BY <1>1, <1>3, AdvanceKeeps
<1> QED
  BY <1>1, <1>4, SameCounts DEF FrameInv, CountsOK, StackOK

LEMMA LoadKeeps ==
  ASSUME FrameInv, ExecLoad
  PROVE  StackOK' /\ CountsOK'
<1> DEFINE regs == Set(Top.regs, Cur.id, Content(Top, Cur.ref))
           own == IF FromSource(Top, Cur.id) /\ InstOf(source[Top.fn], Cur.id).kind = "load"
                  THEN Set(Top.own, Cur.id, Get(Top.ownMem, Cur.ref)) ELSE Top.own
           g == [Top EXCEPT !.i = @ + 1, !.regs = regs, !.own = own]
<1>1. Running /\ SetTop(g) /\ Cur.kind \notin Kept
      /\ UNCHANGED <<code, traced, acts, unwinding, unwound, open>>
  BY DEF ExecLoad, Kept, Terminators, Compiled, traceVars
<1>2. DOMAIN Top = Fields
  BY <1>1, RunningTop
<1> HIDE DEF regs, own
<1>3. DOMAIN g = Fields /\ g.i = Top.i + 1 /\ g.fn = Top.fn /\ g.b = Top.b
      /\ g.entered = Top.entered
  BY <1>2 DEF Fields
<1> HIDE DEF g
<1>4. StackOK' /\ Len(stack') = Len(stack)
  BY <1>1, <1>3, AdvanceKeeps
<1> QED
  BY <1>1, <1>4, SameCounts DEF FrameInv, CountsOK, StackOK

LEMMA StoreKeeps ==
  ASSUME FrameInv, ExecStore
  PROVE  StackOK' /\ CountsOK'
<1> DEFINE v == Eval(Top.regs, Cur.args[1])
           isGlobal == Cur.ref \in globalSlots[Top.fn]
           mem == IF isGlobal THEN Top.mem ELSE Set(Top.mem, Cur.ref, v)
           ownMem == IF FromSource(Top, Cur.id)
                     THEN Set(Top.ownMem, Cur.ref, Eval(Top.own,
                            InstOf(source[Top.fn], Cur.id).args[1]))
                     ELSE Top.ownMem
           g == [Top EXCEPT !.i = @ + 1, !.mem = mem, !.ownMem = ownMem]
<1>1. Running /\ SetTop(g) /\ Cur.kind \notin Kept
      /\ UNCHANGED <<code, traced, acts, unwinding, unwound, open>>
  BY DEF ExecStore, Kept, Terminators, Compiled, traceVars
<1>2. DOMAIN Top = Fields
  BY <1>1, RunningTop
<1> HIDE DEF mem, ownMem
<1>3. DOMAIN g = Fields /\ g.i = Top.i + 1 /\ g.fn = Top.fn /\ g.b = Top.b
      /\ g.entered = Top.entered
  BY <1>2 DEF Fields
<1> HIDE DEF g
<1>4. StackOK' /\ Len(stack') = Len(stack)
  BY <1>1, <1>3, AdvanceKeeps
<1> QED
  BY <1>1, <1>4, SameCounts DEF FrameInv, CountsOK, StackOK

LEMMA BranchKeeps ==
  ASSUME FrameInv, ExecBranch
  PROVE  StackOK' /\ CountsOK' /\ \E g : SetTop(g) /\ g.fn = Top.fn /\ g.entered = Top.entered
<1>1. Running /\ Cur.kind \in {"br", "invoke"}
      /\ UNCHANGED <<code, traced, acts, unwinding, unwound, open>>
  BY DEF ExecBranch, Compiled, traceVars
<1>2. stack # <<>> /\ unwinding = FALSE /\ FrameOK(Top) /\ At(Top) = Cur
  BY <1>1, RunningTop
<1>3. PICK to \in ToSet(Cur.blocks) : SetTop(Branch(Top, to))
  <2>1. CASE Cur.kind = "br"
    BY <2>1 DEF ExecBranch
  <2>2. CASE Cur.kind = "invoke"
    <3>1. Cur.blocks[1] \in ToSet(Cur.blocks)
      BY <1>2, <2>2, FirstBlock DEF FrameInv
    <3>2. SetTop(Branch(Top, Cur.blocks[1]))
      BY <2>2 DEF ExecBranch
    <3> QED
      BY <3>1, <3>2
  <2> QED
    BY <1>1, <2>1, <2>2
<1> DEFINE g == Branch(Top, to)
<1>4. FrameOK(g) /\ g.fn = Top.fn /\ g.entered = Top.entered
  <2>1. At(Top).kind \in {"br", "invoke"} /\ to \in ToSet(At(Top).blocks)
    BY <1>1, <1>2
  <2> QED
    BY <1>2, <2>1, FrameBranches DEF FrameInv
<1>5. SetTop(g)
  BY <1>3
<1> HIDE DEF g
<1>6. StackOK' /\ Len(stack') = Len(stack)
  BY <1>1, <1>2, <1>4, <1>5, SetTopKeeps DEF FrameInv
<1>7. CountsOK'
  BY <1>1, <1>6, SameCounts DEF FrameInv, CountsOK, StackOK
<1> QED
  BY <1>4, <1>5, <1>6, <1>7

LEMMA EnterCounts ==
  ASSUME FrameInv, Len(stack') = Len(stack) + 1, Len(stack) \in Nat,
         acts < MaxActs, acts' = acts + 1, UNCHANGED <<unwound, open>>
  PROVE  CountsOK'
BY BoundsAssumption DEF FrameInv, CountsOK

LEMMA CallKeeps ==
  ASSUME FrameInv, ExecCall \/ Start
  PROVE  /\ StackOK' /\ CountsOK' /\ Len(stack) \in Nat /\ Len(stack') = Len(stack) + 1
         /\ Lower(stack, stack', Len(stack)) /\ stack'[Len(stack) + 1].fn \in Fns
         /\ ~ stack'[Len(stack) + 1].entered
<1>1. CASE ExecCall
  <2>1. Running /\ Cur.kind \in {"call", "invoke"}
        /\ UNCHANGED <<code, traced, unwinding, unwound, open>>
    BY <1>1 DEF ExecCall, Compiled, traceVars
  <2>2. unwinding = FALSE /\ AtCall(Top) /\ Cur.ref \subseteq Fns
    BY <2>1, RunningTop DEF InstOK, AtCall
  <2>3. PICK f \in Fns : Enter(f)
    BY <1>1, <2>2 DEF ExecCall
  <2>4. /\ StackOK' /\ Len(stack') = Len(stack) + 1 /\ Lower(stack, stack', Len(stack))
        /\ Len(stack) \in Nat /\ ~ stack'[Len(stack) + 1].entered
        /\ stack'[Len(stack) + 1].fn = f
        /\ acts < MaxActs /\ acts' = acts + 1
    BY <2>1, <2>2, <2>3, EnterKeeps
  <2>5. CountsOK'
    BY <2>1, <2>4, EnterCounts
  <2> QED
    BY <2>4, <2>5
<1>2. CASE Start
  <2>1. stack = <<>> /\ unwinding = FALSE /\ UNCHANGED <<code, traced, unwinding, unwound, open>>
    BY <1>2 DEF Start, Compiled, traceVars, FrameInv, PipelineInv, Queued
  <2>2. PICK f \in Fns : Enter(f)
    BY <1>2 DEF Start
  <2>3. /\ StackOK' /\ Len(stack') = Len(stack) + 1 /\ Lower(stack, stack', Len(stack))
        /\ Len(stack) \in Nat /\ ~ stack'[Len(stack) + 1].entered
        /\ stack'[Len(stack) + 1].fn = f
        /\ acts < MaxActs /\ acts' = acts + 1
    BY <2>1, <2>2, EnterKeeps
  <2>4. CountsOK'
    BY <2>1, <2>3, EnterCounts
  <2> QED
    BY <2>3, <2>4
<1> QED
  BY <1>1, <1>2

(* An activation is left by an exception.                                  *)
Leaves ==
  /\ stack # <<>> /\ stack' = Front(stack) /\ unwound' = (unwound \/ Top.entered)

LEMMA LeavesKeeps ==
  ASSUME FrameInv, Leaves, UNCHANGED <<code, traced, acts, open>>
  PROVE  StackOK' /\ CountsOK'
<1>1. StackOK' /\ Len(stack') <= Len(stack)
  BY PopKeeps DEF Leaves, FrameInv
<1>2. unwound' \in BOOLEAN
  BY DEF Leaves
<1> QED
  BY <1>1, <1>2, SameCounts

(* The stack stays, but an exception may be on its way up.                 *)
LEMMA StayKeeps ==
  ASSUME FrameInv, UNCHANGED <<code, traced, stack, acts, unwound, open>>,
         unwinding' /\ stack # <<>> => AtCall(Top)
  PROVE  StackOK' /\ CountsOK'
<1>1. stack \in Seq(ToSet(stack)) /\ Len(stack) \in Nat
  BY DEF FrameInv, StackOK
<1>2. ASSUME NEW k \in 1..Len(stack)
      PROVE  FrameOK(stack[k])' /\ (k < Len(stack) \/ unwinding' => AtCall(stack[k])')
  <2>1. FrameOK(stack[k])'
    BY DEF FrameInv, StackOK, FrameOK
  <2>2. ASSUME k < Len(stack) \/ unwinding' PROVE AtCall(stack[k])
    <3>1. CASE k < Len(stack)
      BY <3>1 DEF FrameInv, StackOK
    <3>2. CASE k = Len(stack) /\ unwinding'
      <4>1. stack # <<>>
        BY <1>1
      <4>2. Top = stack[k]
        BY <3>2 DEF Top, Last
      <4> QED
        BY <3>2, <4>1, <4>2
    <3> QED
      BY <1>1, <2>2, <3>1, <3>2
  <2>3. AtCall(stack[k])' <=> AtCall(stack[k])
    BY DEF AtCall, At
  <2> QED
    BY <2>1, <2>2, <2>3
<1>3. StackOK'
  BY <1>1, <1>2 DEF StackOK
<1>4. CountsOK'
  BY DEF FrameInv, CountsOK
<1> QED
  BY <1>3, <1>4

LEMMA ThrowKeeps ==
  ASSUME FrameInv, Throw
  PROVE  StackOK' /\ CountsOK'
<1>1. Running /\ UNCHANGED <<code, traced, acts, open>>
  BY DEF Throw, Compiled, traceVars
<1>2. stack # <<>> /\ At(Top) = Cur
  BY <1>1, RunningTop
<1>3. CASE Cur.kind = "resume"
  <2>1. Leaves
    BY <1>2, <1>3 DEF Throw, Leaves
  <2> QED
    BY <1>1, <2>1, LeavesKeeps
<1>4. CASE Cur.kind # "resume"
  <2>1. UNCHANGED <<stack, unwound>> /\ AtCall(Top)
    BY <1>2, <1>4 DEF Throw, AtCall
  <2> QED
    BY <1>1, <2>1, StayKeeps
<1> QED
  BY <1>3, <1>4

(* What unwinding does, in three cases.                                    *)
LEMMA UnwindIs ==
  ASSUME FrameInv, Unwind
  PROVE  /\ UNCHANGED <<code, traced, acts, open>>
         /\ \/ stack = <<>> /\ UNCHANGED <<stack, unwound>> /\ unwinding' = FALSE
            \/ /\ stack # <<>> /\ unwinding' = FALSE /\ UNCHANGED unwound
               /\ \E g : SetTop(g) /\ FrameOK(g) /\ g.fn = Top.fn /\ g.entered = Top.entered
            \/ Leaves
<1>1. UNCHANGED <<code, traced, acts, open>> /\ unwinding = TRUE
  BY DEF Unwind, Compiled, traceVars, FrameInv, PipelineInv, Queued
<1>2. CASE stack = <<>>
  BY <1>1, <1>2 DEF Unwind
<1>3. CASE stack # <<>> /\ Cur.kind = "invoke" /\ Top.visits < MaxVisits
  <2>1. SetTop(Branch(Top, Cur.blocks[2])) /\ unwinding' = FALSE /\ UNCHANGED unwound
    BY <1>3 DEF Unwind
  <2>2. FrameOK(Top) /\ At(Top) = Cur
    BY <1>3, TopOK DEF FrameInv
  <2>3. At(Top).blocks[2] \in ToSet(At(Top).blocks) /\ At(Top).kind \in {"br", "invoke"}
    BY <1>3, <2>2, FirstBlock DEF FrameInv
  <2> DEFINE g == Branch(Top, Cur.blocks[2])
  <2>4. FrameOK(g) /\ g.fn = Top.fn /\ g.entered = Top.entered
    BY <2>2, <2>3, FrameBranches DEF FrameInv
  <2>5. SetTop(g)
    BY <2>1
  <2> HIDE DEF g
  <2> QED
    BY <1>1, <1>3, <2>1, <2>4, <2>5
<1>4. CASE stack # <<>> /\ ~ (Cur.kind = "invoke" /\ Top.visits < MaxVisits)
  BY <1>1, <1>4 DEF Unwind, Leaves
<1> QED
  BY <1>2, <1>3, <1>4

LEMMA UnwindKeeps ==
  ASSUME FrameInv, Unwind
  PROVE  StackOK' /\ CountsOK'
<1>1. UNCHANGED <<code, traced, acts, open>>
  BY UnwindIs
<1>2. CASE stack = <<>> /\ UNCHANGED <<stack, unwound>> /\ unwinding' = FALSE
  BY <1>1, <1>2, StayKeeps
<1>3. CASE /\ stack # <<>> /\ unwinding' = FALSE /\ UNCHANGED unwound
           /\ \E g : SetTop(g) /\ FrameOK(g) /\ g.fn = Top.fn /\ g.entered = Top.entered
  <2>1. PICK g : SetTop(g) /\ FrameOK(g)
    BY <1>3
  <2>2. StackOK' /\ Len(stack') = Len(stack)
    BY <1>1, <1>3, <2>1, SetTopKeeps DEF FrameInv
  <2> QED
    BY <1>1, <1>3, <2>2, SameCounts DEF FrameInv, CountsOK, StackOK
<1>4. CASE Leaves
  BY <1>1, <1>4, LeavesKeeps
<1> QED
  BY <1>2, <1>3, <1>4, UnwindIs

LEMMA ReturnCounts ==
  ASSUME FrameInv, Return
  PROVE  StackOK' /\ CountsOK'
<1>1. StackOK' /\ Len(stack) \in Nat \ {0} /\ Len(stack') = Len(stack) - 1
  BY ReturnKeeps
<1>2. UNCHANGED <<acts, open, unwound>> /\ unwound \in BOOLEAN
  BY DEF Return, FrameInv, CountsOK
<1> QED
  BY <1>1, <1>2, SameCounts

(* A line is put.                                                          *)
LEMMA PutsIsLine ==
  ASSUME FrameInv, ExecPuts
  PROVE  /\ \E g : SetTop(g) /\ FrameOK(g) /\ g.fn = Top.fn
                   /\ g.entered = (Cur.ref[1] = "enter")
         /\ stack # <<>> /\ Top.fn \in Fns
         /\ Cur.ref[2] = Top.fn /\ Cur.ref[1] \in {"enter", "leave"}
         /\ traced[Top.fn] <= 1 => Top.entered = (Cur.ref[1] = "leave")
         /\ open' = IF Cur.ref[1] = "enter" THEN Append(open, Top.fn) ELSE Closed(open, Top.fn)
         /\ UNCHANGED <<code, traced, acts, unwinding, unwound>> /\ unwinding = FALSE
<1> DEFINE e == (Cur.ref[1] = "enter")
           g == [Top EXCEPT !.i = @ + 1, !.entered = e]
<1>1. Running /\ Cur.kind = "puts" /\ SetTop(g)
      /\ UNCHANGED <<code, traced, acts, unwinding, unwound>>
      /\ open' = IF Cur.ref[1] = "enter" THEN Append(open, Cur.ref[2])
                                         ELSE Closed(open, Cur.ref[2])
  BY DEF ExecPuts, Compiled, traceVars
<1>2. FrameOK(Top) /\ At(Top) = Cur /\ DOMAIN Top = Fields /\ stack # <<>> /\ unwinding = FALSE
  BY <1>1, RunningTop
<1>3. DOMAIN g = Fields /\ g.i = Top.i + 1 /\ g.fn = Top.fn /\ g.b = Top.b /\ g.entered = e
  <2> HIDE DEF e
  <2> QED
    BY <1>2 DEF Fields
<1> HIDE DEF g
<1>4. /\ FrameOK(g)
      /\ Cur.ref[2] = Top.fn /\ Cur.ref[1] \in {"enter", "leave"}
      /\ traced[Top.fn] <= 1 => Top.entered = (Cur.ref[1] = "leave")
  <2>1. At(Top).kind = "puts" /\ g.entered = (At(Top).ref[1] = "enter")
    BY <1>1, <1>2, <1>3
  <2> QED
    BY <1>2, <1>3, <2>1, FramePuts DEF FrameInv
<1>5. Top.fn \in Fns
  BY <1>2 DEF FrameOK
<1> QED
  BY <1>1, <1>2, <1>3, <1>4, <1>5

LEMMA PutsKeeps ==
  ASSUME FrameInv, ExecPuts
  PROVE  StackOK' /\ CountsOK'
<1>1. PICK g : SetTop(g) /\ FrameOK(g)
  BY PutsIsLine
<1>2. /\ stack # <<>> /\ Top.fn \in Fns
      /\ UNCHANGED <<code, traced, acts, unwinding, unwound>> /\ unwinding = FALSE
      /\ open' = IF Cur.ref[1] = "enter" THEN Append(open, Top.fn) ELSE Closed(open, Top.fn)
  BY PutsIsLine
<1>3. StackOK' /\ Len(stack') = Len(stack)
  BY <1>1, <1>2, SetTopKeeps DEF FrameInv
<1>4. open \in Seq(Fns)
  BY DEF FrameInv, CountsOK
<1>5. Append(open, Top.fn) \in Seq(Fns) /\ Closed(open, Top.fn) \in Seq(Fns)
  BY <1>2, <1>4, ClosedIs
<1>6. open' \in Seq(Fns)
  BY <1>2, <1>5
<1> QED
  BY <1>2, <1>3, <1>6 DEF FrameInv, CountsOK

-----------------------------------------------------------------------------
(* The invariant.                                                          *)

LEMMA InitFrames ==
  ASSUME Init
  PROVE  FrameInv
<1>1. StackOK
  <2>1. stack = <<>> /\ Len(stack) = 0
    BY DEF Init
  <2> QED
    BY <2>1 DEF StackOK
<1>2. CountsOK
  <2>1. acts = 0 /\ Len(stack) = 0 /\ unwound = FALSE /\ open = <<>>
    BY DEF Init
  <2>2. acts \in 0..MaxActs /\ Len(stack) <= acts
    BY <2>1, BoundsAssumption
  <2>3. <<>> \in Seq(Fns)
    OBVIOUS
  <2>4. open \in Seq(Fns) /\ unwound \in BOOLEAN
    BY <2>1, <2>3
  <2> QED
    BY <2>2, <2>4 DEF CountsOK
<1> QED
  BY <1>1, <1>2, InitPipeline DEF FrameInv

(* During the passes nothing is active.                                    *)
LEMMA EmptyKeeps ==
  ASSUME FrameInv, stack = <<>>, UNCHANGED runVars
  PROVE  StackOK' /\ CountsOK'
<1>1. stack' = <<>> /\ Len(stack') = 0
  BY DEF runVars
<1>2. StackOK'
  BY <1>1 DEF StackOK
<1> QED
  BY <1>2 DEF FrameInv, CountsOK, runVars

LEMMA StepFrames ==
  ASSUME FrameInv, [Next]_vars
  PROVE  FrameInv'
<1>1. PipelineInv'
  BY StepPipeline DEF FrameInv
<1>2. SUFFICES StackOK' /\ CountsOK'
  BY <1>1 DEF FrameInv
<1>3. CASE SkipFunction \/ RunOnSlots \/ StepOnSlots \/ RunTrace \/ PassEnds
  <2>1. passes # <<>> /\ UNCHANGED runVars
    <3>1. CASE SkipFunction
      BY <3>1 DEF SkipFunction, CurrentOnSlots, Current
    <3>2. CASE RunOnSlots
      BY <3>2 DEF RunOnSlots, Current
    <3>3. CASE StepOnSlots
      <4>1. drStage # "idle" \/ slotPass # "none"
        BY <3>3 DEF StepOnSlots, SlotStep, SlotDemote, DemoteRegistersReturns, SgCollect,
           SgReplace, StackToGlobalReturns
      <4> QED
        BY <3>3, <4>1 DEF StepOnSlots, FrameInv, PipelineInv, StageOK
    <3>4. CASE RunTrace
      BY <3>4 DEF RunTrace, Current
    <3>5. CASE PassEnds
      BY <3>5 DEF PassEnds
    <3> QED
      BY <1>3, <3>1, <3>2, <3>3, <3>4, <3>5
  <2>2. stack = <<>>
    BY <2>1 DEF FrameInv, PipelineInv, Queued
  <2> QED
    BY <2>1, <2>2, EmptyKeeps
<1>4. CASE Execute
  BY <1>4, ComputeKeeps, AllocaKeeps, LoadKeeps, StoreKeeps, BranchKeeps, CallKeeps,
     ThrowKeeps, UnwindKeeps, ReturnCounts, PutsKeeps DEF Execute
<1>5. CASE UNCHANGED vars
  <2>1. UNCHANGED <<code, traced, stack, acts, unwinding, unwound, open>>
    BY <1>5 DEF vars, traceVars, runVars
  <2>2. unwinding' /\ stack # <<>> => AtCall(Top)
    BY <2>1, TopOK DEF FrameInv
  <2> QED
    BY <2>1, <2>2, StayKeeps
<1>6. CASE Done
  BY <1>5, <1>6 DEF Done
<1> QED
  BY <1>3, <1>4, <1>5, <1>6 DEF Next

(* The invariant implies the types.                                        *)
LEMMA FramesTyped ==
  ASSUME FrameInv
  PROVE  ActivationsTypeOK
<1>1. DOMAIN stack = 1..Len(stack)
  BY DEF FrameInv, StackOK
<1>2. \A k \in DOMAIN stack :
        /\ stack[k].b \in DOMAIN code[stack[k].fn]
        /\ stack[k].i \in DOMAIN code[stack[k].fn][stack[k].b]
  BY <1>1 DEF FrameInv, StackOK, FrameOK
<1> QED
  BY <1>2 DEF ActivationsTypeOK, FrameInv, PipelineInv, StageOK, MapsOK, LinesKept, Queued,
     CountsOK

(* The types of everything, whatever the module and the pipeline: the maps *)
(* of function-name-trace hold the entry strings only, and an activation   *)
(* is at an instruction of its function, wherever branches, calls, returns *)
(* and exceptions lead and whatever the passes have put in or taken out.   *)
THEOREM ActivationsTyped == Spec => []ActivationsTypeOK
<1>1. Init => FrameInv
  BY InitFrames
<1>2. FrameInv /\ [Next]_vars => FrameInv'
  BY StepFrames
<1>3. FrameInv => ActivationsTypeOK
  BY FramesTyped
<1> QED
  BY <1>1, <1>2, <1>3, PTL DEF Spec

-----------------------------------------------------------------------------
(* Tracing once.                                                           *)

OnceInv ==
  /\ OnceIn(passes)
  /\ \A i, j \in DOMAIN next : next[i] = next[j] => i = j
  /\ \A f \in Fns : traced[f] <= 1
  /\ \A f \in Fns : traced[f] = 1 /\ Tracing \in ToSet(passes) =>
                      Head(passes) = Tracing /\ f \notin ToSet(next)

LEMMA TailParts ==
  ASSUME NEW S, NEW s \in Seq(S), s # <<>>
  PROVE  /\ ToSet(Tail(s)) \subseteq ToSet(s) /\ Head(s) \in ToSet(s)
         /\ (\A i, j \in DOMAIN s : s[i] = s[j] => i = j) =>
              /\ \A i, j \in DOMAIN Tail(s) : Tail(s)[i] = Tail(s)[j] => i = j
              /\ Head(s) \notin ToSet(Tail(s))
         /\ OnceIn(s) => OnceIn(Tail(s)) /\ (Tracing \in ToSet(Tail(s)) => Head(s) # Tracing)
<1> DEFINE t == Tail(s)
<1>1. /\ Len(s) \in Nat \ {0} /\ DOMAIN s = 1..Len(s)
      /\ t \in Seq(S) /\ DOMAIN t = 1..(Len(s) - 1)
      /\ \A i \in 1..(Len(s) - 1) : t[i] = s[i + 1]
      /\ Head(s) = s[1]
  OBVIOUS
<1> HIDE DEF t
<1>2. \A i \in DOMAIN t : i + 1 \in DOMAIN s /\ t[i] = s[i + 1] /\ i + 1 # 1
  BY <1>1
<1>3. 1 \in DOMAIN s
  BY <1>1
<1>4. ToSet(t) \subseteq ToSet(s) /\ Head(s) \in ToSet(s)
  BY <1>1, <1>2, <1>3 DEF ToSet
<1>5. ASSUME \A i, j \in DOMAIN s : s[i] = s[j] => i = j
      PROVE  /\ \A i, j \in DOMAIN t : t[i] = t[j] => i = j
             /\ Head(s) \notin ToSet(t)
  <2>1. ASSUME NEW i \in DOMAIN t, NEW j \in DOMAIN t, t[i] = t[j] PROVE i = j
    <3>1. i + 1 = j + 1
      BY <1>2, <1>5, <2>1
    <3> QED
      BY <1>1, <3>1
  <2>2. Head(s) \notin ToSet(t)
    BY <1>1, <1>2, <1>3, <1>5 DEF ToSet
  <2> QED
    BY <2>1, <2>2
<1>6. ASSUME OnceIn(s)
      PROVE  OnceIn(t) /\ (Tracing \in ToSet(t) => Head(s) # Tracing)
  <2>1. ASSUME NEW i \in DOMAIN t, NEW j \in DOMAIN t, t[i] = Tracing, t[j] = Tracing PROVE i = j
    <3>1. i + 1 = j + 1
      BY <1>2, <1>6, <2>1 DEF OnceIn
    <3> QED
      BY <1>1, <3>1
  <2>2. Tracing \in ToSet(t) => Head(s) # Tracing
    BY <1>1, <1>2, <1>3, <1>6 DEF ToSet, OnceIn
  <2> QED
    BY <2>1, <2>2 DEF OnceIn
<1> QED
  BY <1>4, <1>5, <1>6 DEF t

LEMMA InitOnce ==
  ASSUME Init, TracedOnce
  PROVE  OnceInv
<1>1. OnceIn(passes)
  BY DEF Init, TracedOnce
<1>2. \A i, j \in DOMAIN next : next[i] = next[j] => i = j
  BY ModulesAssumption, SetToSeqIs DEF Init
<1>3. \A f \in Fns : traced[f] = 0
  BY DEF Init, TraceInit
<1> QED
  BY <1>1, <1>2, <1>3 DEF OnceInv

LEMMA StepOnce ==
  ASSUME PipelineInv, OnceInv, [Next]_vars
  PROVE  OnceInv'
<1>1. Queued /\ LinesKept
  BY DEF PipelineInv
<1>2. CASE UNCHANGED <<passes, next, traced>>
  BY <1>2 DEF OnceInv
<1>3. CASE next # <<>> /\ next' = Tail(next) /\ UNCHANGED <<passes, traced>>
  <2>1. ToSet(next') \subseteq ToSet(next)
        /\ \A i, j \in DOMAIN next' : next'[i] = next'[j] => i = j
    BY <1>1, <1>3, TailParts DEF Queued, OnceInv
  <2> QED
    BY <1>3, <2>1 DEF OnceInv
<1>4. CASE RunTrace
  <2> DEFINE f == Head(next)
  <2>1. /\ next # <<>> /\ passes # <<>> /\ Head(passes) = Tracing /\ passes' = passes
        /\ next' = Tail(next) /\ traced' = [traced EXCEPT ![f] = @ + 1]
    BY <1>4 DEF RunTrace, Current, TraceInstrument, Tracing
  <2>2. /\ ToSet(next') \subseteq ToSet(next) /\ f \in ToSet(next) /\ f \notin ToSet(next')
        /\ \A i, j \in DOMAIN next' : next'[i] = next'[j] => i = j
    BY <1>1, <2>1, TailParts DEF Queued, OnceInv
  <2>3. Tracing \in ToSet(passes) /\ f \in Fns
    BY <1>1, <2>1, TailParts DEF Queued
  <2>4. traced[f] = 0
    <3>1. traced[f] \in Nat /\ traced[f] <= 1 /\ traced[f] # 1
      BY <1>1, <2>2, <2>3 DEF OnceInv, LinesKept
    <3> QED
      BY <3>1
  <2>5. traced'[f] = 1 /\ \A g \in Fns : g # f => traced'[g] = traced[g]
    BY <1>1, <2>1, <2>3, <2>4 DEF LinesKept
  <2> HIDE DEF f
  <2>6. \A g \in Fns : traced'[g] <= 1
    BY <2>5 DEF OnceInv
  <2>7. \A g \in Fns : traced'[g] = 1 => g \notin ToSet(next')
    BY <2>2, <2>3, <2>5 DEF OnceInv
  <2> QED
    BY <2>1, <2>2, <2>6, <2>7 DEF OnceInv
<1>5. CASE PassEnds
  <2>1. passes # <<>> /\ passes' = Tail(passes) /\ next' = SetToSeq(Fns) /\ traced' = traced
    BY <1>5 DEF PassEnds
  <2>2. \A i, j \in DOMAIN next' : next'[i] = next'[j] => i = j
    BY <2>1, ModulesAssumption, SetToSeqIs
  <2>3. /\ OnceIn(passes') /\ (Tracing \in ToSet(passes') => Head(passes) # Tracing)
        /\ ToSet(passes') \subseteq ToSet(passes)
    BY <1>1, <2>1, TailParts DEF Queued, OnceInv
  <2>4. \A f \in Fns : ~ (traced'[f] = 1 /\ Tracing \in ToSet(passes'))
    BY <2>1, <2>3 DEF OnceInv
  <2> QED
    BY <2>1, <2>2, <2>3, <2>4 DEF OnceInv
<1>6. CASE SkipFunction
  BY <1>3, <1>6 DEF SkipFunction, traceVars
<1>7. CASE RunOnSlots
  BY <1>3, <1>7 DEF RunOnSlots, traceVars
<1>8. CASE StepOnSlots
  BY <1>2, <1>8 DEF StepOnSlots, traceVars
<1>9. CASE Execute
  BY <1>1, <1>2, <1>9, ExecuteIs DEF Compiled, traceVars
<1>10. CASE UNCHANGED vars \/ Done
  BY <1>2, <1>10 DEF vars, traceVars, Done
<1> QED
  BY <1>4, <1>5, <1>6, <1>7, <1>8, <1>9, <1>10 DEF Next

-----------------------------------------------------------------------------
(* The names on the stack.                                                 *)

NamesTo(s, n) == FlattenSeq([k \in 1..n |-> When(s[k].entered, s[k].fn)])

LEMMA NamesStep ==
  ASSUME NEW s, NEW n \in Nat, \A k \in 1..(n + 1) : s[k].fn \in Fns
  PROVE  /\ NamesTo(s, n) \in Seq(Fns)
         /\ NamesTo(s, n + 1) = NamesTo(s, n) \o When(s[n + 1].entered, s[n + 1].fn)
<1> DEFINE w(k) == When(s[k].entered, s[k].fn)
           ss == [k \in 1..n |-> w(k)]
           tt == [k \in 1..(n + 1) |-> w(k)]
<1>1. \A k \in 1..(n + 1) : w(k) \in Seq(Fns)
  <2>1. ASSUME NEW f \in Fns PROVE <<f>> \in Seq(Fns) /\ <<>> \in Seq(Fns)
    OBVIOUS
  <2> QED
    BY <2>1 DEF When
<1> HIDE DEF w
<1>2. ss \in Seq(Seq(Fns)) /\ Len(ss) = n
  <2>1. ss \in [1..n -> Seq(Fns)]
    BY <1>1
  <2> HIDE DEF ss
  <2> QED
    BY <2>1, IsSequence
<1>3. tt \in Seq(Seq(Fns)) /\ Len(tt) = n + 1
  <2>1. tt \in [1..(n + 1) -> Seq(Fns)]
    BY <1>1
  <2>2. n + 1 \in Nat
    OBVIOUS
  <2> HIDE DEF tt
  <2> QED
    BY <2>1, <2>2, IsSequence
<1>4. /\ \A k \in 1..n : ss[k] = w(k)
      /\ \A k \in 1..(n + 1) : tt[k] = w(k)
  OBVIOUS
<1> HIDE DEF ss, tt
<1>5. w(n + 1) \in Seq(Fns)
  BY <1>1
<1>6. tt = Append(ss, w(n + 1))
  <2> DEFINE u == Append(ss, w(n + 1))
  <2>1. /\ u \in Seq(Seq(Fns)) /\ Len(u) = n + 1
        /\ \A k \in 1..n : u[k] = ss[k]
        /\ u[n + 1] = w(n + 1)
    BY <1>2, <1>5
  <2> HIDE DEF u
  <2>2. \A k \in 1..(n + 1) : tt[k] = u[k]
    <3>1. ASSUME NEW k \in 1..(n + 1) PROVE tt[k] = u[k]
      <4>1. CASE k = n + 1
        BY <1>4, <2>1, <4>1
      <4>2. CASE k # n + 1
        <5>1. k \in 1..n
          BY <4>2
        <5> QED
          BY <1>4, <2>1, <5>1
      <4> QED
        BY <4>1, <4>2
    <3> QED
      BY <3>1
  <2>3. tt = u
    BY <1>3, <2>1, <2>2
  <2> QED
    BY <2>3 DEF u
<1>7. FlattenSeq(tt) = FlattenSeq(ss) \o w(n + 1) /\ FlattenSeq(ss) \in Seq(Fns)
  BY <1>2, <1>5, <1>6, FlattenAppend, FlattenType
<1>8. NamesTo(s, n) = FlattenSeq(ss) /\ NamesTo(s, n + 1) = FlattenSeq(tt)
  BY DEF NamesTo, ss, tt, w
<1> QED
  BY <1>7, <1>8 DEF w

LEMMA NamesSame ==
  ASSUME NEW s, NEW t, NEW n \in Nat,
         \A k \in 1..n : s[k].fn = t[k].fn /\ s[k].entered = t[k].entered
  PROVE  NamesTo(s, n) = NamesTo(t, n)
<1>1. [k \in 1..n |-> When(s[k].entered, s[k].fn)] = [k \in 1..n |-> When(t[k].entered, t[k].fn)]
  OBVIOUS
<1> QED
  BY <1>1 DEF NamesTo

LEMMA NamesTop ==
  ASSUME NEW s, NEW n \in Nat, \A k \in 1..(n + 1) : s[k].fn \in Fns, s[n + 1].entered \in BOOLEAN
  PROVE  /\ NamesTo(s, n) \in Seq(Fns)
         /\ s[n + 1].entered => NamesTo(s, n + 1) = Append(NamesTo(s, n), s[n + 1].fn)
         /\ ~ s[n + 1].entered => NamesTo(s, n + 1) = NamesTo(s, n)
<1> DEFINE u == NamesTo(s, n)
           f == s[n + 1].fn
<1>1. u \in Seq(Fns) /\ NamesTo(s, n + 1) = u \o When(s[n + 1].entered, f) /\ f \in Fns
  BY NamesStep
<1> HIDE DEF u, f
<1>2. u \o <<f>> = Append(u, f) /\ u \o <<>> = u
  BY <1>1, AppendIsConcat, ConcatEmptySeq
<1> QED
  BY <1>1, <1>2 DEF When, u, f

-----------------------------------------------------------------------------
(* The trace tells the stack.                                              *)

Active == NamesTo(stack, Len(stack))

OpenOK == (~ unwound => open = Active) /\ Embeds(Active, open)

TellsInv == FrameInv /\ OnceInv /\ OpenOK

LEMMA FramesOn ==
  ASSUME StackOK
  PROVE  /\ Len(stack) \in Nat
         /\ \A k \in 1..Len(stack) : stack[k].fn \in Fns /\ stack[k].entered \in BOOLEAN
BY DEF StackOK, FrameOK

LEMMA InitOpen ==
  ASSUME Init
  PROVE  OpenOK
<1>1. stack = <<>> /\ Len(stack) = 0 /\ open = <<>>
  BY DEF Init
<1>2. Active = <<>>
  <2>1. [k \in 1..0 |-> When(stack[k].entered, stack[k].fn)] = <<>>
    OBVIOUS
  <2> QED
    BY <1>1, <2>1, FlattenEmpty DEF Active, NamesTo
<1> QED
  BY <1>1, <1>2, EmbedsEmpty DEF OpenOK

(* The names of the activations below the running one, and its own.        *)
LEMMA ActiveTop ==
  ASSUME StackOK, stack # <<>>
  PROVE  /\ Len(stack) \in Nat \ {0} /\ Len(stack) - 1 \in Nat /\ Top.fn \in Fns
         /\ NamesTo(stack, Len(stack) - 1) \in Seq(Fns)
         /\ Top.entered => Active = Append(NamesTo(stack, Len(stack) - 1), Top.fn)
         /\ ~ Top.entered => Active = NamesTo(stack, Len(stack) - 1)
<1>1. Len(stack) \in Nat \ {0} /\ Top = stack[Len(stack)]
  BY TopOK
<1>2. PICK n : n = Len(stack) - 1
  OBVIOUS
<1>3. n \in Nat /\ n + 1 = Len(stack) /\ Top = stack[n + 1]
  BY <1>1, <1>2
<1>4. (\A k \in 1..(n + 1) : stack[k].fn \in Fns) /\ stack[n + 1].entered \in BOOLEAN
  BY <1>3, FramesOn
<1>5. /\ NamesTo(stack, n) \in Seq(Fns)
      /\ stack[n + 1].entered => NamesTo(stack, n + 1) = Append(NamesTo(stack, n), stack[n + 1].fn)
      /\ ~ stack[n + 1].entered => NamesTo(stack, n + 1) = NamesTo(stack, n)
  BY <1>3, <1>4, NamesTop
<1>6. Active = NamesTo(stack, n + 1) /\ stack[n + 1].fn \in Fns
  BY <1>3, <1>4 DEF Active
<1> QED
  BY <1>1, <1>2, <1>3, <1>5, <1>6

(* Nothing that is told has changed.                                       *)
LEMMA OpenStays ==
  ASSUME OpenOK, UNCHANGED <<unwound, open>>, Active' = Active
  PROVE  OpenOK'
BY DEF OpenOK

LEMMA SetTopStays ==
  ASSUME FrameInv, OpenOK, stack # <<>>, NEW g, SetTop(g), g.fn = Top.fn,
         g.entered = Top.entered, UNCHANGED <<unwound, open>>
  PROVE  OpenOK'
<1>1. StackOK /\ Len(stack) \in Nat \ {0} /\ Top = stack[Len(stack)]
  BY TopOK DEF FrameInv
<1>2. stack' = Append(Front(stack), g)
  BY DEF SetTop
<1>3. Lower(stack, stack', Len(stack) - 1) /\ Len(stack') = Len(stack) /\ stack'[Len(stack)] = g
  BY <1>1, <1>2, SetTopLower
<1>4. ASSUME NEW k \in 1..Len(stack)
      PROVE  stack[k].fn = stack'[k].fn /\ stack[k].entered = stack'[k].entered
  <2>1. CASE k = Len(stack)
    BY <1>1, <1>3, <2>1
  <2>2. CASE k # Len(stack)
    <3>1. k \in 1..(Len(stack) - 1)
      BY <1>1, <2>2
    <3> QED
      BY <1>3, <3>1 DEF Lower
  <2> QED
    BY <2>1, <2>2
<1>5. NamesTo(stack, Len(stack)) = NamesTo(stack', Len(stack))
  BY <1>1, <1>4, NamesSame
<1>6. Active' = Active
  BY <1>3, <1>5 DEF Active
<1> QED
  BY <1>6, OpenStays

LEMMA CallStays ==
  ASSUME FrameInv, OpenOK, ExecCall \/ Start
  PROVE  OpenOK'
<1>1. PICK n : n = Len(stack)
  OBVIOUS
<1>2. /\ StackOK' /\ n \in Nat /\ Len(stack') = n + 1 /\ Lower(stack, stack', n)
      /\ ~ stack'[n + 1].entered
  BY <1>1, CallKeeps
<1>3. \A k \in 1..(n + 1) : stack'[k].fn \in Fns /\ stack'[k].entered \in BOOLEAN
  BY <1>2 DEF StackOK, FrameOK
<1>4. NamesTo(stack', n + 1) = NamesTo(stack', n)
  <2>1. \A k \in 1..(n + 1) : stack'[k].fn \in Fns
    BY <1>3
  <2>2. stack'[n + 1].entered \in BOOLEAN
    BY <1>2, <1>3
  <2> QED
    BY <1>2, <2>1, <2>2, NamesTop
<1>5. NamesTo(stack, n) = NamesTo(stack', n)
  <2>1. \A k \in 1..n : stack[k].fn = stack'[k].fn /\ stack[k].entered = stack'[k].entered
    BY <1>2 DEF Lower
  <2> QED
    BY <1>2, <2>1, NamesSame
<1>6. Active' = Active
  BY <1>1, <1>2, <1>4, <1>5 DEF Active
<1>7. UNCHANGED <<unwound, open>>
  BY DEF ExecCall, Start
<1> QED
  BY <1>6, <1>7, OpenStays

(* An activation that returns has closed its line.                         *)
LEMMA ReturnStays ==
  ASSUME FrameInv, OnceInv, OpenOK, Return
  PROVE  OpenOK'
<1>1. Running /\ Cur.kind = "ret" /\ UNCHANGED <<unwound, open>>
  BY DEF Return
<1>2. StackOK /\ PipelineInv /\ stack # <<>> /\ FrameOK(Top) /\ At(Top) = Cur /\ Top.fn \in Fns
  BY <1>1, RunningTop DEF FrameInv, FrameOK
<1>3. ~ Top.entered
  <2>1. traced[Top.fn] <= 1
    BY <1>2 DEF OnceInv
  <2>2. At(Top).kind \in Terminators /\ At(Top).kind = "ret"
    BY <1>1, <1>2 DEF Terminators
  <2> QED
    BY <1>2, <2>1, <2>2, FrameEnds
<1>4. PICK n : n = Len(stack) - 1
  OBVIOUS
<1>5. n \in Nat /\ Active = NamesTo(stack, n)
  BY <1>2, <1>3, <1>4, ActiveTop
<1>6. Len(stack') = n /\ \A k \in 1..n : /\ stack[k].fn = stack'[k].fn
                                         /\ stack[k].entered = stack'[k].entered
  BY <1>4, ReturnKeeps
<1>7. NamesTo(stack, n) = NamesTo(stack', n)
  BY <1>5, <1>6, NamesSame
<1>8. Active' = Active
  BY <1>5, <1>6, <1>7 DEF Active
<1> QED
  BY <1>1, <1>8, OpenStays

(* One that is left by an exception may leave its line open.               *)
LEMMA LeavesStays ==
  ASSUME FrameInv, OpenOK, Leaves, UNCHANGED open
  PROVE  OpenOK'
<1>1. StackOK /\ stack # <<>> /\ stack' = Front(stack) /\ unwound' = (unwound \/ Top.entered)
  BY DEF FrameInv, Leaves
<1>2. PICK n : n = Len(stack) - 1
  OBVIOUS
<1>3. /\ n \in Nat /\ NamesTo(stack, n) \in Seq(Fns) /\ Top.fn \in Fns
      /\ Top.entered => Active = Append(NamesTo(stack, n), Top.fn)
      /\ ~ Top.entered => Active = NamesTo(stack, n)
  BY <1>1, <1>2, ActiveTop
<1>4. Lower(stack, stack', n) /\ Len(stack') = n
  BY <1>1, <1>2, PopLower
<1>5. NamesTo(stack, n) = NamesTo(stack', n)
  <2>1. \A k \in 1..n : stack[k].fn = stack'[k].fn /\ stack[k].entered = stack'[k].entered
    BY <1>4 DEF Lower
  <2> QED
    BY <1>3, <2>1, NamesSame
<1>6. Active' = NamesTo(stack, n)
  BY <1>4, <1>5 DEF Active
<1>7. Embeds(Active', open)
  <2>1. CASE Top.entered
    <3>1. Embeds(Append(NamesTo(stack, n), Top.fn), open)
      BY <1>3, <2>1 DEF OpenOK
    <3>2. Embeds(NamesTo(stack, n), open)
      BY <1>3, <3>1, EmbedsFront
    <3> QED
      BY <1>6, <3>2
  <2>2. CASE ~ Top.entered
    BY <1>3, <1>6, <2>2 DEF OpenOK
  <2> QED
    BY <2>1, <2>2
<1>8. ~ unwound' => open = Active'
  BY <1>1, <1>3, <1>6 DEF OpenOK
<1> QED
  BY <1>7, <1>8 DEF OpenOK

LEMMA PutsStays ==
  ASSUME FrameInv, OnceInv, OpenOK, ExecPuts
  PROVE  OpenOK'
<1>1. PICK g : SetTop(g) /\ FrameOK(g) /\ g.fn = Top.fn /\ g.entered = (Cur.ref[1] = "enter")
  BY PutsIsLine
<1>2. /\ stack # <<>> /\ Top.fn \in Fns /\ Cur.ref[1] \in {"enter", "leave"}
      /\ traced[Top.fn] <= 1 => Top.entered = (Cur.ref[1] = "leave")
      /\ open' = IF Cur.ref[1] = "enter" THEN Append(open, Top.fn) ELSE Closed(open, Top.fn)
      /\ UNCHANGED <<code, traced, acts, unwinding, unwound>> /\ unwinding = FALSE
  BY PutsIsLine
<1>3. StackOK /\ open \in Seq(Fns)
  BY DEF FrameInv, CountsOK
<1>4. Top.entered = (Cur.ref[1] = "leave")
  BY <1>2 DEF OnceInv
<1>5. PICK n : n = Len(stack) - 1
  OBVIOUS
<1>6. PICK names : names = NamesTo(stack, n)
  OBVIOUS
<1>7. /\ n \in Nat /\ n + 1 = Len(stack) /\ names \in Seq(Fns)
      /\ Top.entered => Active = Append(names, Top.fn)
      /\ ~ Top.entered => Active = names
  BY <1>2, <1>3, <1>5, <1>6, ActiveTop
<1>8. Lower(stack, stack', n) /\ Len(stack') = n + 1 /\ stack'[n + 1] = g
  <2>1. stack' = Append(Front(stack), g)
    BY <1>1 DEF SetTop
  <2> QED
    BY <1>2, <1>3, <1>5, <1>7, <2>1, SetTopLower
<1>9. NamesTo(stack', n) = names
  <2>1. \A k \in 1..n : stack[k].fn = stack'[k].fn /\ stack[k].entered = stack'[k].entered
    BY <1>8 DEF Lower
  <2> QED
    BY <1>6, <1>7, <2>1, NamesSame
<1>10. /\ g.entered => Active' = Append(names, Top.fn)
       /\ ~ g.entered => Active' = names
  <2>1. g.fn = Top.fn /\ g.fn \in Fns /\ g.entered \in BOOLEAN
    BY <1>1, <1>2
  <2>2. ASSUME NEW k \in 1..(n + 1) PROVE stack'[k].fn \in Fns
    <3>1. CASE k = n + 1
      BY <1>8, <2>1, <3>1
    <3>2. CASE k # n + 1
      <4>1. k \in 1..n /\ k \in 1..Len(stack)
        BY <1>7, <3>2
      <4>2. stack'[k].fn = stack[k].fn
        BY <1>8, <4>1 DEF Lower
      <4> QED
        BY <1>3, <4>1, <4>2, FramesOn
    <3> QED
      BY <3>1, <3>2
  <2>3. stack'[n + 1].entered \in BOOLEAN
    BY <1>8, <2>1
  <2>4. /\ stack'[n + 1].entered =>
             NamesTo(stack', n + 1) = Append(NamesTo(stack', n), stack'[n + 1].fn)
        /\ ~ stack'[n + 1].entered => NamesTo(stack', n + 1) = NamesTo(stack', n)
    BY <1>7, <2>2, <2>3, NamesTop
  <2>5. Active' = NamesTo(stack', n + 1)
    BY <1>8 DEF Active
  <2> QED
    BY <1>8, <1>9, <2>1, <2>4, <2>5
<1>11. CASE Cur.ref[1] = "enter"
  <2>1. Active = names /\ Active' = Append(names, Top.fn) /\ open' = Append(open, Top.fn)
    BY <1>1, <1>2, <1>4, <1>7, <1>10, <1>11
  <2>2. Embeds(names, open)
    BY <2>1 DEF OpenOK
  <2>3. Embeds(Append(names, Top.fn), Append(open, Top.fn))
    BY <1>2, <1>3, <1>7, <2>2, EmbedsAppend
  <2> QED
    BY <1>2, <2>1, <2>3 DEF OpenOK
<1>12. CASE Cur.ref[1] = "leave"
  <2>1. Active = Append(names, Top.fn) /\ Active' = names /\ open' = Closed(open, Top.fn)
    BY <1>1, <1>2, <1>4, <1>7, <1>10, <1>12
  <2>2. Embeds(Append(names, Top.fn), open)
    BY <2>1 DEF OpenOK
  <2>3. Embeds(names, Closed(open, Top.fn))
    BY <1>2, <1>3, <1>7, <2>2, EmbedsClosed
  <2>4. ASSUME ~ unwound' PROVE open' = Active'
    <3>1. open = Append(names, Top.fn)
      BY <1>2, <2>1, <2>4 DEF OpenOK
    <3>2. Closed(Append(names, Top.fn), Top.fn) = names
      BY <1>2, <1>7, ClosedLast
    <3> QED
      BY <2>1, <3>1, <3>2
  <2> QED
    BY <2>1, <2>3, <2>4 DEF OpenOK
<1> QED
  BY <1>2, <1>11, <1>12

(* The running activation goes on in its function.                         *)
LEMMA RunStays ==
  ASSUME FrameInv, OpenOK, Compute \/ ExecAlloca \/ ExecLoad \/ ExecStore \/ ExecBranch
  PROVE  OpenOK'
<1>1. /\ Running /\ UNCHANGED <<unwound, open>>
  BY DEF Compute, ExecAlloca, ExecLoad, ExecStore, ExecBranch
<1>2. stack # <<>> /\ DOMAIN Top = Fields
  BY <1>1, RunningTop
<1>3. \E g : SetTop(g) /\ g.fn = Top.fn /\ g.entered = Top.entered
  <2>1. CASE Compute
    <3> DEFINE g == Computed(Top)
    <3>1. g.fn = Top.fn /\ g.entered = Top.entered
      BY <1>2 DEF Computed, Fields
    <3>2. SetTop(g)
      BY <2>1 DEF Compute
    <3> HIDE DEF g
    <3> QED
      BY <3>1, <3>2
  <2>2. CASE ExecAlloca
    <3> DEFINE g == [Top EXCEPT !.i = @ + 1]
    <3>1. g.fn = Top.fn /\ g.entered = Top.entered
      BY <1>2 DEF Fields
    <3>2. SetTop(g)
      BY <2>2 DEF ExecAlloca
    <3> HIDE DEF g
    <3> QED
      BY <3>1, <3>2
  <2>3. CASE ExecLoad
    <3> DEFINE regs == Set(Top.regs, Cur.id, Content(Top, Cur.ref))
               own == IF FromSource(Top, Cur.id) /\ InstOf(source[Top.fn], Cur.id).kind = "load"
                      THEN Set(Top.own, Cur.id, Get(Top.ownMem, Cur.ref)) ELSE Top.own
               g == [Top EXCEPT !.i = @ + 1, !.regs = regs, !.own = own]
    <3>1. SetTop(g)
      BY <2>3 DEF ExecLoad
    <3> HIDE DEF regs, own
    <3>2. g.fn = Top.fn /\ g.entered = Top.entered
      BY <1>2 DEF Fields
    <3> HIDE DEF g
    <3> QED
      BY <3>1, <3>2
  <2>4. CASE ExecStore
    <3> DEFINE v == Eval(Top.regs, Cur.args[1])
               isGlobal == Cur.ref \in globalSlots[Top.fn]
               mem == IF isGlobal THEN Top.mem ELSE Set(Top.mem, Cur.ref, v)
               ownMem == IF FromSource(Top, Cur.id)
                         THEN Set(Top.ownMem, Cur.ref, Eval(Top.own,
                                InstOf(source[Top.fn], Cur.id).args[1]))
                         ELSE Top.ownMem
               g == [Top EXCEPT !.i = @ + 1, !.mem = mem, !.ownMem = ownMem]
    <3>1. SetTop(g)
      BY <2>4 DEF ExecStore
    <3> HIDE DEF mem, ownMem
    <3>2. g.fn = Top.fn /\ g.entered = Top.entered
      BY <1>2 DEF Fields
    <3> HIDE DEF g
    <3> QED
      BY <3>1, <3>2
  <2>5. CASE ExecBranch
    BY <2>5, BranchKeeps
  <2> QED
    BY <2>1, <2>2, <2>3, <2>4, <2>5
<1>4. PICK g : SetTop(g) /\ g.fn = Top.fn /\ g.entered = Top.entered
  BY <1>3
<1> QED
  BY <1>1, <1>2, <1>4, SetTopStays

LEMMA ExceptionStays ==
  ASSUME FrameInv, OpenOK, Throw \/ Unwind
  PROVE  OpenOK'
<1>1. CASE Throw
  <2>1. Running /\ UNCHANGED open
    BY <1>1 DEF Throw
  <2>2. stack # <<>>
    BY <2>1, RunningTop
  <2>3. Leaves \/ UNCHANGED <<stack, unwound>>
    BY <1>1, <2>2 DEF Throw, Leaves
  <2>4. CASE UNCHANGED <<stack, unwound>>
    BY <2>1, <2>4, OpenStays DEF Active
  <2> QED
    BY <2>1, <2>3, <2>4, LeavesStays
<1>2. CASE Unwind
  <2>1. UNCHANGED open
    BY <1>2, UnwindIs
  <2>2. CASE UNCHANGED <<stack, unwound>>
    BY <2>1, <2>2, OpenStays DEF Active
  <2>3. CASE /\ stack # <<>> /\ UNCHANGED unwound
             /\ \E g : SetTop(g) /\ FrameOK(g) /\ g.fn = Top.fn /\ g.entered = Top.entered
    <3>1. PICK g : SetTop(g) /\ g.fn = Top.fn /\ g.entered = Top.entered
      BY <2>3
    <3> QED
      BY <2>1, <2>3, <3>1, SetTopStays
  <2>4. CASE Leaves
    BY <2>1, <2>4, LeavesStays
  <2> QED
    BY <1>2, <2>2, <2>3, <2>4, UnwindIs
<1> QED
  BY <1>1, <1>2

LEMMA StepOpen ==
  ASSUME TellsInv, [Next]_vars
  PROVE  OpenOK'
<1> USE DEF TellsInv
<1>1. CASE UNCHANGED <<stack, unwound, open>>
  BY <1>1, OpenStays DEF Active
<1>2. CASE SkipFunction \/ RunOnSlots \/ StepOnSlots \/ RunTrace \/ PassEnds
  BY <1>1, <1>2 DEF SkipFunction, RunOnSlots, StepOnSlots, RunTrace, PassEnds, runVars
<1>3. CASE Execute
  BY <1>3, RunStays, CallStays, ExceptionStays, ReturnStays, PutsStays DEF Execute
<1>4. CASE UNCHANGED vars \/ Done
  BY <1>1, <1>4 DEF vars, runVars, Done
<1> QED
  BY <1>2, <1>3, <1>4 DEF Next

LEMMA OpenTells ==
  ASSUME FrameInv, OpenOK
  PROVE  TraceTellsStack
<1>1. DOMAIN stack = 1..Len(stack)
  BY DEF FrameInv, StackOK
<1>2. Active = FlattenSeq([i \in DOMAIN stack |-> When(stack[i].entered, stack[i].fn)])
  BY <1>1 DEF Active, NamesTo
<1> QED
  BY <1>2 DEF OpenOK, TraceTellsStack

(* Whatever the module and whatever else is in the pipeline, as long as    *)
(* function-name-trace is in it at most once: the open "Entering" lines    *)
(* are those of the activations on the stack, in order, and after an       *)
(* exception has left one that had put its line there may be more of them  *)
(* but never fewer.                                                        *)
THEOREM TraceTells ==
  ASSUME TracedOnce
  PROVE  Spec => []TraceTellsStack
<1>1. Init => TellsInv
  BY InitFrames, InitOnce, InitOpen DEF TellsInv
<1>2. TellsInv /\ [Next]_vars => TellsInv'
  BY StepFrames, StepOnce, StepOpen DEF TellsInv, FrameInv
<1>3. TellsInv => TraceTellsStack
  BY OpenTells DEF TellsInv
<1> QED
  BY <1>1, <1>2, <1>3, PTL DEF Spec

-----------------------------------------------------------------------------
(* Functions that no pass on slots comes to: those marked optnone, and all *)
(* of them when the pipelines only trace.                                  *)

OnlyTraces == \A p \in Pipelines : ToSet(p) \subseteq {Tracing}
Spared(f) == f \in OptNone \/ OnlyTraces

(* Such a function has the source's instructions and lines.                *)
TracedCode(src, A) ==
  \A b \in DOMAIN A :
    /\ \A x \in ToSet(A[b]) : x \in InstsOf(src) \/ (x.kind = "puts" /\ x.id[1] = "puts")
    /\ b # 1 => PhisOf(A[b]) = PhisOf(src[b])

(* The "Entering" line leaves the source's instructions where they are.    *)
LEMMA TracedEntry ==
  ASSUME NEW src, NEW f, NEW A, BodyOK(src, f, A), TracedCode(src, A), NEW line
  PROVE  TracedCode(src, PutsOnEntry(A, f, line)) /\ DOMAIN PutsOnEntry(A, f, line) = DOMAIN A
<1> DEFINE entry == AllocasFirst(A[1])
           x == PutsCall(entry[LeadingAllocas(entry) + 1].id, f, line)
           B == AfterAllocas(entry, x)
           C == PutsOnEntry(A, f, line)
<1>1. /\ 1 \in DOMAIN A /\ IsBlock(A[1]) /\ Last(A[1]).kind \in Terminators
      /\ A = [b \in DOMAIN A |-> A[b]]
  BY EntryIs DEF BodyOK, IsCode
<1>2. C = [A EXCEPT ![1] = B]
  BY DEF PutsOnEntry
<1>3. x.kind = "puts" /\ x.id[1] = "puts"
  BY DEF PutsCall, Inst
<1> HIDE DEF x, C
<1>4. IsBlock(entry) /\ Last(entry).kind = Last(A[1]).kind
  <2>1. Derived(A[1], entry)
    BY <1>1, AllocasFirstDerived
  <2> HIDE DEF entry
  <2> QED
    BY <2>1 DEF Derived
<1>5. ToSet(entry) \subseteq ToSet(A[1])
  <2> DEFINE S == ToSet(A[1])
             T == {y \in S : y.kind = "alloca"}
             s == Select(A[1], T)
             t == Select(A[1], S \ T)
  <2>1. A[1] \in Seq(S)
    BY <1>1 DEF IsBlock
  <2>2. s \in Seq(S) /\ t \in Seq(S) /\ ToSet(s) = S \cap T /\ ToSet(t) = S \cap (S \ T)
    <3> HIDE DEF S, T
    <3>1. Select(A[1], T) \in Seq(S) /\ ToSet(Select(A[1], T)) = ToSet(A[1]) \cap T
      BY <2>1, SelectType, SelectElements
    <3>2. /\ Select(A[1], S \ T) \in Seq(S)
          /\ ToSet(Select(A[1], S \ T)) = ToSet(A[1]) \cap (S \ T)
      BY <2>1, SelectType, SelectElements
    <3> QED
      BY <3>1, <3>2 DEF S
  <2>3. entry = s \o t
    BY DEF AllocasFirst
  <2> HIDE DEF S, T, s, t, entry
  <2>4. ToSet(s \o t) = ToSet(s) \cup ToSet(t)
    BY <2>2, ToSetConcat
  <2>5. ToSet(entry) \subseteq S
    BY <2>2, <2>3, <2>4
  <2> QED
    BY <2>5 DEF S
<1> HIDE DEF entry
<1>6. ToSet(B) = ToSet(entry) \cup {x}
  <2>1. Last(entry).kind # "alloca"
    BY <1>1, <1>4 DEF Terminators
  <2> QED
    BY <1>3, <1>4, <2>1, EntryLine
<1> HIDE DEF B
<1>7. /\ DOMAIN C = DOMAIN A /\ C[1] = B /\ \A b \in DOMAIN A : b # 1 => C[b] = A[b]
  BY <1>1, <1>2
<1>8. ASSUME NEW b \in DOMAIN A
      PROVE  /\ \A y \in ToSet(C[b]) : y \in InstsOf(src) \/ (y.kind = "puts" /\ y.id[1] = "puts")
             /\ b # 1 => PhisOf(C[b]) = PhisOf(src[b])
  <2>1. CASE b = 1
    <3>1. ASSUME NEW y \in ToSet(B)
          PROVE  y \in InstsOf(src) \/ (y.kind = "puts" /\ y.id[1] = "puts")
      <4>1. CASE y = x
        BY <1>3, <4>1
      <4>2. CASE y # x
        <5>1. y \in ToSet(A[1])
          BY <1>5, <1>6, <3>1, <4>2
        <5> QED
          BY <1>1, <5>1 DEF TracedCode
      <4> QED
        BY <4>1, <4>2
    <3> QED
      BY <1>7, <2>1, <3>1
  <2>2. CASE b # 1
    BY <1>7, <2>2 DEF TracedCode
  <2> QED
    BY <2>1, <2>2
<1>9. TracedCode(src, C)
  BY <1>7, <1>8 DEF TracedCode
<1> QED
  BY <1>7, <1>9 DEF C

(* So do the "Exiting" lines.                                              *)
LEMMA TracedReturns ==
  ASSUME NEW src, NEW f, NEW A, IsCode(A), TracedCode(src, A), NEW line
  PROVE  TracedCode(src, PutsBeforeReturns(A, f, line))
<1> DEFINE x(b) == PutsCall(Last(A[b]).id, f, line)
           C == PutsBeforeReturns(A, f, line)
<1>1. \A b \in DOMAIN A : x(b).kind = "puts" /\ x(b).id[1] = "puts"
  BY DEF PutsCall, Inst
<1>2. C = [b \in DOMAIN A |-> IF Last(A[b]).kind = "ret"
                              THEN InsertAt(A[b], Len(A[b]), x(b)) ELSE A[b]]
  BY DEF PutsBeforeReturns
<1> HIDE DEF x, C
<1>3. ASSUME NEW b \in DOMAIN A
      PROVE  /\ \A y \in ToSet(C[b]) : y \in InstsOf(src) \/ (y.kind = "puts" /\ y.id[1] = "puts")
             /\ b # 1 => PhisOf(C[b]) = PhisOf(src[b])
  <2> DEFINE B == A[b]
             S == ToSet(B) \cup {x(b)}
             D == InsertAt(B, Len(B), x(b))
  <2>1. /\ \A y \in ToSet(B) : y \in InstsOf(src) \/ (y.kind = "puts" /\ y.id[1] = "puts")
        /\ b # 1 => PhisOf(B) = PhisOf(src[b])
    BY <1>3 DEF TracedCode
  <2>2. CASE Last(B).kind = "ret"
    <3>1. C[b] = D
      BY <1>2, <2>2
    <3>2. B \in Seq(S) /\ Len(B) \in 1..(Len(B) + 1) /\ x(b) \in S
      <4>1. B \in Seq(ToSet(B)) /\ B # <<>> /\ ToSet(B) \subseteq S
        BY <1>3 DEF IsCode, IsBlock
      <4> HIDE DEF B
      <4>2. B \in Seq(S)
        BY <4>1, SeqWidens
      <4> QED
        BY <4>1, <4>2
    <3> HIDE DEF B, S
    <3>3. ToSet(D) = ToSet(B) \cup {x(b)}
      BY <3>2, InsertElements
    <3>4. PhisOf(D) = PhisOf(B)
      <4> DEFINE T == {y \in ToSet(D) : y.kind = "phi"}
                 U == {y \in ToSet(B) : y.kind = "phi"}
      <4>1. T = U /\ x(b) \notin U
        BY <1>1, <1>3, <3>3
      <4> HIDE DEF T, U
      <4>2. Select(D, U) = Select(B, U)
        BY <3>2, <4>1, SelectInsert
      <4>3. Select(D, T) = Select(B, U)
        BY <4>1, <4>2
      <4> QED
        BY <4>3 DEF PhisOf, T, U
    <3>5. \A y \in ToSet(D) : y \in InstsOf(src) \/ (y.kind = "puts" /\ y.id[1] = "puts")
      <4> HIDE DEF D
      <4> QED
        BY <1>1, <1>3, <2>1, <3>3
    <3> QED
      BY <2>1, <3>1, <3>4, <3>5
  <2>3. CASE Last(B).kind # "ret"
    <3>1. C[b] = B
      BY <1>2, <2>3
    <3> QED
      BY <2>1, <3>1
  <2> QED
    BY <2>2, <2>3
<1>4. DOMAIN C = DOMAIN A
  BY <1>2
<1>5. TracedCode(src, C)
  BY <1>3, <1>4 DEF TracedCode
<1> QED
  BY <1>5 DEF C

LEMMA TracedStays ==
  ASSUME NEW src, Given(src), NEW f, NEW A, BodyOK(src, f, A), TracedCode(src, A)
  PROVE  TracedCode(src, Trace(A, f))
<1> DEFINE C == PutsOnEntry(A, f, <<"enter", f>>)
<1>1. TracedCode(src, C)
  BY TracedEntry
<1>2. IsCode(C)
  BY PutsOnEntryOK DEF BodyOK
<1>3. Trace(A, f) = PutsBeforeReturns(C, f, <<"leave", f>>)
  BY DEF Trace
<1> HIDE DEF C
<1> QED
  BY <1>1, <1>2, <1>3, TracedReturns

LEMMA TracedGiven ==
  ASSUME NEW src, Given(src)
  PROVE  TracedCode(src, src)
BY DEF TracedCode, InstsOf

(* Where the source has an instruction.                                    *)
LEMMA SourceAt ==
  ASSUME NEW src, Given(src), NEW x \in InstsOf(src)
  PROVE  x.id \in InstIds(src) /\ InstOf(src, x.id) = x /\ x.id[1] # "puts"
<1>1. PICK b \in DOMAIN src : \E i \in DOMAIN src[b] : x = src[b][i]
  BY IsPlace
<1>2. PICK i \in DOMAIN src[b] : x = src[b][i]
  BY <1>1
<1>3. PICK p : p = <<b, i>>
  OBVIOUS
<1>4. p \in Places(src) /\ InstAt(src, p) = x
  BY <1>2, <1>3, PlaceIs
<1>5. \A q \in Places(src) : InstAt(src, q).id = x.id => q = p
  BY <1>4 DEF Given
<1>6. PlaceOf(src, x.id) = p
  BY <1>4, <1>5 DEF PlaceOf
<1>7. x.id[1] # "puts"
  BY DEF Given, GivenInst, MadeIds
<1> QED
  BY <1>4, <1>6, <1>7 DEF InstIds, InstOf

LEMMA PutsIsNoSource ==
  ASSUME NEW src, Given(src), NEW id, id[1] = "puts"
  PROVE  id \notin InstIds(src)
<1> SUFFICES ASSUME id \in InstIds(src) PROVE FALSE
  OBVIOUS
<1>1. PICK p \in Places(src) : InstAt(src, p).id = id
  BY DEF InstIds
<1>2. InstAt(src, p) \in InstsOf(src)
  BY DEF InstAt, InstsOf, Places, ToSet
<1> QED
  BY <1>1, <1>2, SourceAt

-----------------------------------------------------------------------------
(* The passes on slots never come to them.                                 *)

SparedCode ==
  /\ OnlyTraces => ToSet(passes) \subseteq {Tracing}
  /\ DOMAIN globalSlots = Fns
  /\ drStage # "idle" => ~ Spared(drFn)
  /\ \A f \in Fns : Spared(f) => globalSlots[f] = {} /\ TracedCode(source[f], code[f])

(* What changes one function that is not spared leaves the others.         *)
LEMMA SparedOthers ==
  ASSUME SparedCode, NEW f, ~ Spared(f), \A g \in Fns : g # f => code'[g] = code[g],
         DOMAIN globalSlots' = Fns, \A g \in Fns : g # f => globalSlots'[g] = globalSlots[g],
         UNCHANGED <<source, passes>>, drStage' # "idle" => drFn' = f
  PROVE  SparedCode'
<1>2. ASSUME NEW g \in Fns, Spared(g)
      PROVE  globalSlots'[g] = {} /\ TracedCode(source[g], code'[g])
  <2>1. g # f
    BY <1>2
  <2> QED
    BY <1>2, <2>1 DEF SparedCode
<1>3. drStage' # "idle" => ~ Spared(drFn')
  OBVIOUS
<1>4. OnlyTraces => ToSet(passes') \subseteq {Tracing}
  BY DEF SparedCode
<1>5. \A g \in Fns : Spared(g) => globalSlots'[g] = {} /\ TracedCode(source'[g], code'[g])
  BY <1>2
<1> QED
  BY <1>3, <1>4, <1>5 DEF SparedCode

(* So does what changes no code.                                           *)
LEMMA SparedSame ==
  ASSUME SparedCode, UNCHANGED <<code, source, globalSlots, drFn>>,
         ToSet(passes') \subseteq ToSet(passes), drStage' \in {drStage, "idle"} \/ drStage # "idle"
  PROVE  SparedCode'
BY DEF SparedCode

(* A pass on slots starts on a function that is not spared.                *)
LEMMA SparedRun ==
  ASSUME CodeOK, Queued, SparedCode, RunOnSlots
  PROVE  SparedCode'
<1>1. PICK f : f = Head(next)
  OBVIOUS
<1>2. /\ UNCHANGED <<source, passes, globalSlots>> /\ passes # <<>>
      /\ Head(passes) \in {"demote-registers", "stack-to-global"}
      /\ f \notin OptNone /\ drFn' = f
      /\ \E c \in BOOLEAN : DrStart(f, c)
  <2>1. CASE Current("demote-registers") /\ DemoteRegistersRun(f)
    BY <1>1, <2>1 DEF RunOnSlots, Current, DemoteRegistersRun, DrStart
  <2>2. CASE Current("stack-to-global") /\ StackToGlobalRun(f)
    BY <1>1, <2>2 DEF RunOnSlots, Current, StackToGlobalRun, DrStart
  <2> QED
    BY <1>1, <2>1, <2>2 DEF RunOnSlots
<1>3. ~ Spared(f)
  <2>1. Head(passes) \in ToSet(passes)
    <3>1. passes \in Seq(PassNames)
      BY DEF Queued
    <3> QED
      BY <1>2, <3>1, TailParts
  <2> QED
    BY <1>2, <2>1 DEF Spared, SparedCode, Tracing
<1>4. \A g \in Fns : g # f => code'[g] = code[g]
  BY <1>2 DEF DrStart, CodeOK
<1> QED
  BY <1>2, <1>3, <1>4, SparedOthers DEF SparedCode

(* A step of the passes on slots changes the function they have come to.   *)
LEMMA SlotStepOne ==
  ASSUME SlotStep
  PROVE  /\ drStage # "idle" /\ drFn' = drFn
         /\ UNCHANGED code \/ \E A : code' = [code EXCEPT ![drFn] = A]
         /\ UNCHANGED globalSlots
              \/ \E G : globalSlots' = [globalSlots EXCEPT ![drFn] = G]
<1>1. CASE SlotDemote
  <2>1. DrStep /\ globalSlots' = globalSlots
    BY <1>1 DEF SlotDemote, sgVars
  <2>2. drStage # "idle" /\ drFn' = drFn
        /\ (UNCHANGED code \/ \E A : code' = [code EXCEPT ![drFn] = A])
    BY <2>1 DEF DrStep, DrImmediate, DrFindEscaped, DrRegister, DrFindPhis, DrPhi, DrEnd, Demote
  <2> QED
    BY <2>1, <2>2
<1>2. CASE DemoteRegistersReturns \/ SgCollect \/ StackToGlobalReturns
  BY <1>2 DEF DemoteRegistersReturns, SgCollect, StackToGlobalReturns
<1>3. CASE SgReplace
  BY <1>3 DEF SgReplace
<1> QED
  BY <1>1, <1>2, <1>3 DEF SlotStep

(* And stays on it.                                                        *)
LEMMA SparedSlotStep ==
  ASSUME CodeOK, StageOK, SparedCode, StepOnSlots
  PROVE  SparedCode'
<1>1. /\ SlotStep /\ UNCHANGED <<source, passes>> /\ drStage # "idle" /\ drFn' = drFn
      /\ ~ Spared(drFn) /\ drFn \in Fns
  BY SlotStepOne DEF StepOnSlots, SparedCode, StageOK
<1>2. \A g \in Fns : g # drFn => code'[g] = code[g]
  BY <1>1, SlotStepOne DEF CodeOK
<1>3. DOMAIN globalSlots' = Fns /\ \A g \in Fns : g # drFn => globalSlots'[g] = globalSlots[g]
  BY <1>1, SlotStepOne DEF SparedCode
<1> QED
  BY <1>1, <1>2, <1>3, SparedOthers

(* The trace adds lines and nothing else.                                  *)
LEMMA SparedTrace ==
  ASSUME CodeOK, MapsOK, Queued, SparedCode, RunTrace
  PROVE  SparedCode'
<1>1. PICK f : f = Head(next)
  OBVIOUS
<1>2. f \in Fns /\ TraceInstrument(f) /\ UNCHANGED <<source, passes, globalSlots, drStage, drFn>>
  BY <1>1, HeadNext DEF RunTrace, slotVars, drVars, sgVars
<1>3. code' = [code EXCEPT ![f] = Trace(code[f], f)]
  <2> DEFINE entering == IF f \in DOMAIN enteringMap THEN enteringMap[f] ELSE <<"enter", f>>
             leaving == IF f \in DOMAIN leavingMap THEN leavingMap[f] ELSE <<"leave", f>>
  <2>1. entering = <<"enter", f>> /\ leaving = <<"leave", f>>
    BY DEF MapsOK
  <2>2. code' = [code EXCEPT ![f] =
                   PutsBeforeReturns(PutsOnEntry(code[f], f, entering), f, leaving)]
    BY <1>2 DEF TraceInstrument
  <2> QED
    BY <2>1, <2>2 DEF Trace
<1>4. code'[f] = Trace(code[f], f) /\ \A g \in Fns : g # f => code'[g] = code[g]
  BY <1>2, <1>3 DEF CodeOK
<1>5. ASSUME Spared(f) PROVE TracedCode(source[f], Trace(code[f], f))
  <2>1. Given(source[f]) /\ BodyOK(source[f], f, code[f]) /\ TracedCode(source[f], code[f])
    BY <1>2, <1>5, CodeOf DEF SparedCode
  <2> QED
    BY <2>1, TracedStays
<1>6. ASSUME NEW g \in Fns, Spared(g)
      PROVE  globalSlots'[g] = {} /\ TracedCode(source'[g], code'[g])
  <2>1. globalSlots[g] = {} /\ TracedCode(source[g], code[g])
    BY <1>6 DEF SparedCode
  <2>2. CASE g = f
    <3>1. TracedCode(source[f], Trace(code[f], f))
      BY <1>5, <1>6, <2>2
    <3> QED
      BY <1>2, <1>4, <2>1, <2>2, <3>1
  <2>3. CASE g # f
    BY <1>2, <1>4, <2>1, <2>3
  <2> QED
    BY <2>2, <2>3
<1> QED
  BY <1>2, <1>6 DEF SparedCode

(* At first every function is its source.                                  *)
LEMMA SparedInit ==
  ASSUME Init
  PROVE  SparedCode
<1>1. code \in Modules /\ source = code /\ passes \in Pipelines /\ drStage = "idle"
      /\ globalSlots = [f \in Fns |-> {}]
  BY DEF Init, DrInit, SgInit
<1>2. \A f \in Fns : TracedCode(source[f], code[f])
  BY <1>1, ModulesAssumption, TracedGiven
<1> QED
  BY <1>1, <1>2 DEF SparedCode, OnlyTraces

(* Every step keeps the spared functions as they are in the source.        *)
LEMMA SparedStep ==
  ASSUME PipelineInv, SparedCode, [Next]_vars
  PROVE  SparedCode'
<1>1. CodeOK /\ MapsOK /\ Queued /\ StageOK
  BY DEF PipelineInv
<1>2. CASE SkipFunction \/ Done \/ UNCHANGED vars
  BY <1>2, SparedSame DEF SkipFunction, Done, vars, slotVars, drVars, sgVars
<1>3. CASE PassEnds
  <2>1. ToSet(Tail(passes)) \subseteq ToSet(passes)
    BY <1>1, <1>3, TailParts DEF PassEnds, Queued
  <2> QED
    BY <1>3, <2>1, SparedSame DEF PassEnds, slotVars, drVars, sgVars
<1>4. CASE Execute
  <2>1. Compiled
    BY <1>1, <1>4, ExecuteIs
  <2> QED
    BY <2>1, SparedSame DEF Compiled, slotVars, drVars, sgVars
<1> QED
  BY <1>1, <1>2, <1>3, <1>4, SparedRun, SparedSlotStep, SparedTrace DEF Next

-----------------------------------------------------------------------------
(* So an activation of one holds what it would hold executing the source.  *)

AsOwn(fr) == fr.regs = fr.own /\ fr.mem = fr.ownMem
SparedFrame(fr) == Spared(fr.fn) => AsOwn(fr)
SparedStack == \A fr \in ToSet(stack) : SparedFrame(fr)

(* The activations below the top are activations of the stack.             *)
LEMMA FrontElements ==
  ASSUME NEW s, OwnSeq(s), s # <<>>
  PROVE  ToSet(Front(s)) \subseteq ToSet(s) /\ OwnSeq(Front(s)) /\ Last(s) \in ToSet(s)
<1>1. /\ OwnSeq(Front(s)) /\ Len(s) \in Nat \ {0} /\ Len(Front(s)) = Len(s) - 1
      /\ \A k \in 1..(Len(s) - 1) : Front(s)[k] = s[k]
      /\ Last(s) = s[Len(s)]
  BY FrontIs
<1>2. DOMAIN s = 1..Len(s) /\ DOMAIN Front(s) = 1..(Len(s) - 1)
  BY <1>1 DEF OwnSeq
<1>3. Len(s) \in 1..Len(s) /\ \A k \in 1..(Len(s) - 1) : k \in 1..Len(s)
  BY <1>1
<1> QED
  BY <1>1, <1>2, <1>3 DEF ToSet

(* Entering a function adds its activation.                                *)
LEMMA AppendElements ==
  ASSUME NEW s, OwnSeq(s), NEW g
  PROVE  ToSet(Append(s, g)) = ToSet(s) \cup {g}
<1>1. /\ OwnSeq(Append(s, g)) /\ Len(Append(s, g)) = Len(s) + 1 /\ Len(s) \in Nat
      /\ \A k \in 1..Len(s) : Append(s, g)[k] = s[k]
      /\ Append(s, g)[Len(s) + 1] = g
  BY TopIs
<1>2. DOMAIN s = 1..Len(s) /\ DOMAIN Append(s, g) = 1..(Len(s) + 1)
  BY <1>1 DEF OwnSeq
<1>3. \A k \in 1..(Len(s) + 1) : k \in 1..Len(s) \/ k = Len(s) + 1
  BY <1>1
<1>4. \A k \in 1..Len(s) : k \in 1..(Len(s) + 1)
  BY <1>1
<1>5. Len(s) + 1 \in 1..(Len(s) + 1)
  BY <1>1
<1> QED
  BY <1>1, <1>2, <1>3, <1>4, <1>5 DEF ToSet

(* Only the top changes in a step within an activation.                    *)
LEMMA SetTopSpared ==
  ASSUME StackOK, stack # <<>>, SparedStack, NEW g, SetTop(g), SparedFrame(g)
  PROVE  SparedStack'
<1>1. OwnSeq(stack)
  BY DEF StackOK, OwnSeq
<1>2. ToSet(Front(stack)) \subseteq ToSet(stack) /\ OwnSeq(Front(stack))
  BY <1>1, FrontElements
<1>3. ToSet(stack') = ToSet(Front(stack)) \cup {g}
  <2>1. ToSet(Append(Front(stack), g)) = ToSet(Front(stack)) \cup {g}
    BY <1>2, AppendElements
  <2> QED
    BY <2>1 DEF SetTop
<1>4. \A fr \in ToSet(stack') : SparedFrame(fr)
  BY <1>2, <1>3 DEF SparedStack
<1> QED
  BY <1>4 DEF SparedStack, SparedFrame, AsOwn

(* Leaving an activation changes no other.                                 *)
LEMMA PopSpared ==
  ASSUME StackOK, stack # <<>>, SparedStack, stack' = Front(stack)
  PROVE  SparedStack'
<1>1. ToSet(stack') \subseteq ToSet(stack)
  BY FrontElements DEF StackOK, OwnSeq
<1> QED
  BY <1>1 DEF SparedStack, SparedFrame, AsOwn

(* What holds of all activations holds of the top.                         *)
LEMMA TopSpared ==
  ASSUME StackOK, stack # <<>>, SparedStack
  PROVE  SparedFrame(Top)
BY FrontElements DEF StackOK, OwnSeq, SparedStack, Top

(* A function is entered with nothing held, in the source too.             *)
LEMMA EnterSpared ==
  ASSUME StackOK, SparedStack, NEW f, Enter(f)
  PROVE  SparedStack'
<1> DEFINE low(k) == IF stack[k].fn = f THEN [stack[k] EXCEPT !.reentered = TRUE] ELSE stack[k]
           lower == [k \in DOMAIN stack |-> low(k)]
           g == [fn |-> f, act |-> acts, b |-> 1, i |-> 1, visits |-> 0,
                 regs |-> <<>>, mem |-> <<>>, own |-> <<>>, ownMem |-> <<>>,
                 entered |-> FALSE, reentered |-> FALSE]
<1>1. stack' = Append(lower, g)
  BY DEF Enter
<1>2. DOMAIN stack = 1..Len(stack) /\ Len(stack) \in Nat
      /\ \A k \in DOMAIN stack : DOMAIN stack[k] = Fields
  BY DEF StackOK, FrameOK
<1>3. ASSUME NEW k \in DOMAIN stack PROVE SparedFrame(low(k))
  <2>1. SparedFrame(stack[k])
    BY DEF SparedStack, ToSet
  <2> DEFINE s == stack[k]
             t == [s EXCEPT !.reentered = TRUE]
  <2>2. /\ t.fn = s.fn /\ t.regs = s.regs /\ t.mem = s.mem
        /\ t.own = s.own /\ t.ownMem = s.ownMem
    BY <1>2 DEF Fields
  <2>3. low(k) = s \/ low(k) = t
    OBVIOUS
  <2> HIDE DEF s, t, low
  <2> QED
    BY <2>1, <2>2, <2>3 DEF s, SparedFrame, AsOwn
<1>4. SparedFrame(g)
  BY DEF SparedFrame, AsOwn
<1>5. OwnSeq(lower)
  <2> DEFINE T == {low(k) : k \in DOMAIN stack}
  <2> HIDE DEF low
  <2>1. lower \in [1..Len(stack) -> T]
    BY <1>2
  <2> HIDE DEF T, lower
  <2> QED
    BY <1>2, <2>1, IsSequence, OwnSeqs
<1>6. \A fr \in ToSet(lower) : \E k \in DOMAIN stack : fr = low(k)
  BY DEF ToSet
<1> HIDE DEF g, lower, low
<1>7. ToSet(stack') = ToSet(lower) \cup {g}
  BY <1>1, <1>5, AppendElements
<1>8. \A fr \in ToSet(stack') : SparedFrame(fr)
  BY <1>3, <1>4, <1>6, <1>7
<1> QED
  BY <1>8 DEF SparedStack, SparedFrame, AsOwn

(* The invariant: well-formed frames, spared code, and spared frames.      *)
SparedInv == FrameInv /\ SparedCode /\ SparedStack

(* What it is at is an instruction of the source or a line.                *)
LEMMA SparedAt ==
  ASSUME PipelineInv, SparedCode, NEW fr, FrameOK(fr), Spared(fr.fn)
  PROVE  /\ globalSlots[fr.fn] = {} /\ Given(source[fr.fn])
         /\ \/ /\ At(fr) \in InstsOf(source[fr.fn]) /\ FromSource(fr, At(fr).id)
               /\ InstOf(source[fr.fn], At(fr).id) = At(fr)
            \/ At(fr).kind = "puts" /\ ~ FromSource(fr, At(fr).id)
<1>1. fr.fn \in Fns /\ fr.b \in DOMAIN code[fr.fn] /\ fr.i \in DOMAIN code[fr.fn][fr.b]
  BY DEF FrameOK
<1>2. globalSlots[fr.fn] = {} /\ TracedCode(source[fr.fn], code[fr.fn]) /\ Given(source[fr.fn])
  BY <1>1, CodeOf DEF SparedCode, PipelineInv
<1>3. At(fr) \in ToSet(code[fr.fn][fr.b])
  BY <1>1 DEF At, ToSet
<1>4. At(fr) \in InstsOf(source[fr.fn]) \/ (At(fr).kind = "puts" /\ At(fr).id[1] = "puts")
  BY <1>1, <1>2, <1>3 DEF TracedCode
<1>5. CASE At(fr) \in InstsOf(source[fr.fn])
  BY <1>2, <1>5, SourceAt DEF FromSource
<1>6. CASE At(fr).kind = "puts" /\ At(fr).id[1] = "puts"
  BY <1>2, <1>6, PutsIsNoSource DEF FromSource
<1> QED
  BY <1>2, <1>4, <1>5, <1>6

(* A branch gives the PHIs of its target the same values.                  *)
LEMMA BranchSpared ==
  ASSUME PipelineInv, SparedCode, NEW fr, FrameOK(fr), At(fr).kind \in {"br", "invoke"},
         NEW to \in ToSet(At(fr).blocks), SparedFrame(fr)
  PROVE  SparedFrame(Branch(fr, to))
<1> DEFINE f == fr.fn
           B == code[f][to]
           regs == WithPhis(fr.regs, PhisOf(B), fr.b)
           own == WithPhis(fr.own, PhisOf(source[f][to]), fr.b)
           g == [fr EXCEPT !.b = to, !.i = FirstNonPhi(B), !.visits = @ + 1,
                           !.regs = regs, !.own = own]
<1>1. Branch(fr, to) = g
  BY DEF Branch
<1>2. DOMAIN fr = Fields /\ f \in Fns
  BY DEF FrameOK
<1>3. to \in DOMAIN code[f] /\ to # 1
  <2>1. InstOK(source[f], f, At(fr)) /\ DOMAIN code[f] = DOMAIN source[f]
    BY BlockIs
  <2>2. At(fr).blocks \in Seq(DOMAIN source[f]) /\ 1 \notin ToSet(At(fr).blocks)
    BY <2>1 DEF InstOK
  <2> QED
    BY <2>1, <2>2 DEF ToSet
<1>4. ASSUME Spared(f) PROVE regs = own /\ fr.mem = fr.ownMem
  <2>1. PhisOf(B) = PhisOf(source[f][to])
    BY <1>2, <1>3, <1>4 DEF SparedCode, TracedCode
  <2>2. fr.regs = fr.own /\ fr.mem = fr.ownMem
    BY <1>4 DEF SparedFrame, AsOwn
  <2> QED
    BY <2>1, <2>2
<1> HIDE DEF regs, own
<1>5. g.fn = f /\ g.regs = regs /\ g.own = own /\ g.mem = fr.mem /\ g.ownMem = fr.ownMem
  BY <1>2 DEF Fields
<1> HIDE DEF g
<1>6. SparedFrame(g)
  BY <1>4, <1>5 DEF SparedFrame, AsOwn
<1> QED
  BY <1>1, <1>6

(* So does an instruction that computes a value.                           *)
LEMMA ComputedSpared ==
  ASSUME NEW fr, FrameOK(fr), SparedFrame(fr)
  PROVE  SparedFrame(Computed(fr))
<1> DEFINE x == code[fr.fn][fr.b][fr.i]
           v == <<x.id, fr.act, fr.visits>>
           regs == Set(fr.regs, x.id, v)
           own == Set(fr.own, x.id, v)
           g == [fr EXCEPT !.i = @ + 1, !.regs = regs, !.own = own]
<1>1. Computed(fr) = g
  BY DEF Computed
<1>2. DOMAIN fr = Fields
  BY DEF FrameOK
<1>3. ASSUME Spared(fr.fn) PROVE regs = own /\ fr.mem = fr.ownMem
  <2>1. fr.regs = fr.own /\ fr.mem = fr.ownMem
    BY <1>3 DEF SparedFrame, AsOwn
  <2> QED
    BY <2>1
<1> HIDE DEF regs, own
<1>4. g.fn = fr.fn /\ g.regs = regs /\ g.own = own /\ g.mem = fr.mem /\ g.ownMem = fr.ownMem
  BY <1>2 DEF Fields
<1> HIDE DEF g
<1>5. SparedFrame(g)
  BY <1>3, <1>4 DEF SparedFrame, AsOwn
<1> QED
  BY <1>1, <1>5

(* A load reads the slot of the activation, no global.                     *)
LEMMA LoadSpared ==
  ASSUME SparedInv, ExecLoad
  PROVE  SparedStack'
<1> DEFINE regs == Set(Top.regs, Cur.id, Content(Top, Cur.ref))
           own == IF FromSource(Top, Cur.id) /\ InstOf(source[Top.fn], Cur.id).kind = "load"
                  THEN Set(Top.own, Cur.id, Get(Top.ownMem, Cur.ref)) ELSE Top.own
           g == [Top EXCEPT !.i = @ + 1, !.regs = regs, !.own = own]
<1>1. Running /\ Cur.kind = "load" /\ SetTop(g)
  BY DEF ExecLoad
<1>2. stack # <<>> /\ FrameOK(Top) /\ At(Top) = Cur /\ DOMAIN Top = Fields
  BY <1>1, RunningTop DEF SparedInv
<1>3. SparedFrame(Top)
  BY <1>2, TopSpared DEF SparedInv, FrameInv
<1>4. ASSUME Spared(Top.fn) PROVE regs = own /\ Top.mem = Top.ownMem
  <2>1. Top.regs = Top.own /\ Top.mem = Top.ownMem
    BY <1>3, <1>4 DEF SparedFrame, AsOwn
  <2>2. globalSlots[Top.fn] = {} /\ FromSource(Top, Cur.id)
        /\ InstOf(source[Top.fn], Cur.id).kind = "load"
    BY <1>1, <1>2, <1>4, SparedAt DEF SparedInv, FrameInv
  <2>3. Content(Top, Cur.ref) = Get(Top.mem, Cur.ref)
    BY <2>2 DEF Content
  <2> QED
    BY <2>1, <2>2, <2>3
<1> HIDE DEF regs, own
<1>5. g.fn = Top.fn /\ g.regs = regs /\ g.own = own /\ g.mem = Top.mem /\ g.ownMem = Top.ownMem
  BY <1>2 DEF Fields
<1> HIDE DEF g
<1>6. SparedFrame(g)
  BY <1>4, <1>5 DEF SparedFrame, AsOwn
<1> QED
  BY <1>1, <1>2, <1>6, SetTopSpared DEF SparedInv, FrameInv

(* A store writes it.                                                      *)
LEMMA StoreSpared ==
  ASSUME SparedInv, ExecStore
  PROVE  SparedStack'
<1> DEFINE v == Eval(Top.regs, Cur.args[1])
           isGlobal == Cur.ref \in globalSlots[Top.fn]
           mem == IF isGlobal THEN Top.mem ELSE Set(Top.mem, Cur.ref, v)
           ownMem == IF FromSource(Top, Cur.id)
                     THEN Set(Top.ownMem, Cur.ref, Eval(Top.own,
                            InstOf(source[Top.fn], Cur.id).args[1]))
                     ELSE Top.ownMem
           g == [Top EXCEPT !.i = @ + 1, !.mem = mem, !.ownMem = ownMem]
<1>1. Running /\ Cur.kind = "store" /\ SetTop(g)
  BY DEF ExecStore
<1>2. stack # <<>> /\ FrameOK(Top) /\ At(Top) = Cur /\ DOMAIN Top = Fields
  BY <1>1, RunningTop DEF SparedInv
<1>3. SparedFrame(Top)
  BY <1>2, TopSpared DEF SparedInv, FrameInv
<1>4. ASSUME Spared(Top.fn) PROVE Top.regs = Top.own /\ mem = ownMem
  <2>1. Top.regs = Top.own /\ Top.mem = Top.ownMem
    BY <1>3, <1>4 DEF SparedFrame, AsOwn
  <2>2. globalSlots[Top.fn] = {} /\ FromSource(Top, Cur.id)
        /\ InstOf(source[Top.fn], Cur.id) = Cur
    BY <1>1, <1>2, <1>4, SparedAt DEF SparedInv, FrameInv
  <2>3. ~ isGlobal
    BY <2>2
  <2> QED
    BY <2>1, <2>2, <2>3
<1> HIDE DEF mem, ownMem
<1>5. /\ g.fn = Top.fn /\ g.regs = Top.regs /\ g.own = Top.own /\ g.mem = mem
      /\ g.ownMem = ownMem
  BY <1>2 DEF Fields
<1> HIDE DEF g
<1>6. SparedFrame(g)
  BY <1>4, <1>5 DEF SparedFrame, AsOwn
<1> QED
  BY <1>1, <1>2, <1>6, SetTopSpared DEF SparedInv, FrameInv

(* Neither an alloca nor a line changes what an activation holds.          *)
LEMMA PassSpared ==
  ASSUME SparedInv, ExecAlloca \/ ExecPuts \/ Compute
  PROVE  SparedStack'
<1>1. Running
  BY DEF ExecAlloca, ExecPuts, Compute
<1>2. stack # <<>> /\ FrameOK(Top) /\ DOMAIN Top = Fields
  BY <1>1, RunningTop DEF SparedInv
<1>3. SparedFrame(Top)
  BY <1>2, TopSpared DEF SparedInv, FrameInv
<1>4. \E g : SetTop(g) /\ SparedFrame(g)
  <2>1. CASE ExecAlloca
    <3> DEFINE g == [Top EXCEPT !.i = @ + 1]
    <3>1. g.fn = Top.fn /\ g.regs = Top.regs /\ g.own = Top.own /\ g.mem = Top.mem
          /\ g.ownMem = Top.ownMem
      BY <1>2 DEF Fields
    <3>2. SetTop(g)
      BY <2>1 DEF ExecAlloca
    <3> HIDE DEF g
    <3> QED
      BY <1>3, <3>1, <3>2 DEF SparedFrame, AsOwn
  <2>2. CASE ExecPuts
    <3> DEFINE e == (Cur.ref[1] = "enter")
               g == [Top EXCEPT !.i = @ + 1, !.entered = e]
    <3>1. SetTop(g)
      BY <2>2 DEF ExecPuts
    <3> HIDE DEF e
    <3>2. g.fn = Top.fn /\ g.regs = Top.regs /\ g.own = Top.own /\ g.mem = Top.mem
          /\ g.ownMem = Top.ownMem
      BY <1>2 DEF Fields
    <3> HIDE DEF g
    <3> QED
      BY <1>3, <3>1, <3>2 DEF SparedFrame, AsOwn
  <2>3. CASE Compute
    <3>1. SetTop(Computed(Top))
      BY <2>3 DEF Compute
    <3>2. SparedFrame(Computed(Top))
      BY <1>2, <1>3, ComputedSpared
    <3> QED
      BY <3>1, <3>2
  <2> QED
    BY <2>1, <2>2, <2>3
<1>5. PICK g : SetTop(g) /\ SparedFrame(g)
  BY <1>4
<1> QED
  BY <1>2, <1>5, SetTopSpared DEF SparedInv, FrameInv

(* A branch of the top activation.                                         *)
LEMMA JumpSpared ==
  ASSUME SparedInv, stack # <<>>, Cur.kind \in {"br", "invoke"}, NEW to \in ToSet(Cur.blocks),
         SetTop(Branch(Top, to))
  PROVE  SparedStack'
<1>1. FrameOK(Top) /\ At(Top) = Cur
  BY TopOK DEF SparedInv, FrameInv
<1>2. SparedFrame(Top)
  BY TopSpared DEF SparedInv, FrameInv
<1>3. SparedFrame(Branch(Top, to))
  BY <1>1, <1>2, BranchSpared DEF SparedInv, FrameInv
<1> QED
  BY <1>3, SetTopSpared DEF SparedInv, FrameInv

(* Any branch instruction.                                                 *)
LEMMA BranchesSpared ==
  ASSUME SparedInv, ExecBranch
  PROVE  SparedStack'
<1>1. Running /\ Cur.kind \in {"br", "invoke"}
  BY DEF ExecBranch
<1>2. stack # <<>> /\ FrameOK(Top) /\ At(Top) = Cur
  BY <1>1, RunningTop DEF SparedInv
<1>3. CASE Cur.kind = "br"
  <2>1. PICK to \in ToSet(Cur.blocks) : SetTop(Branch(Top, to))
    BY <1>3 DEF ExecBranch
  <2> QED
    BY <1>1, <1>2, <2>1, JumpSpared
<1>4. CASE Cur.kind = "invoke"
  <2>1. Cur.blocks[1] \in ToSet(Cur.blocks)
    BY <1>2, <1>4, FirstBlock DEF SparedInv, FrameInv
  <2>2. SetTop(Branch(Top, Cur.blocks[1]))
    BY <1>4 DEF ExecBranch
  <2> QED
    BY <1>1, <1>2, <2>1, <2>2, JumpSpared
<1> QED
  BY <1>1, <1>3, <1>4

(* An exception leaves activations, or goes to an unwind block.            *)
LEMMA ThrowSpared ==
  ASSUME SparedInv, Throw \/ Unwind
  PROVE  SparedStack'
<1>1. CASE UNCHANGED stack
  BY <1>1 DEF SparedInv, SparedStack, SparedFrame, AsOwn
<1>2. CASE stack # <<>> /\ stack' = Front(stack)
  BY <1>2, PopSpared DEF SparedInv, FrameInv
<1>3. CASE Throw
  <2>1. stack # <<>>
    BY <1>3, RunningTop DEF Throw, SparedInv
  <2> QED
    BY <1>1, <1>2, <1>3, <2>1 DEF Throw
<1>4. CASE Unwind
  <2>1. CASE stack # <<>> /\ Cur.kind = "invoke" /\ SetTop(Branch(Top, Cur.blocks[2]))
    <3>1. FrameOK(Top) /\ At(Top) = Cur
      BY <2>1, TopOK DEF SparedInv, FrameInv
    <3>2. Cur.blocks[2] \in ToSet(Cur.blocks)
      BY <2>1, <3>1, FirstBlock DEF SparedInv, FrameInv
    <3> QED
      BY <2>1, <3>2, JumpSpared
  <2> QED
    BY <1>1, <1>2, <1>4, <2>1 DEF Unwind
<1> QED
  BY <1>3, <1>4

(* A return gives the call in the caller its value, in both.               *)
LEMMA ReturnSpared ==
  ASSUME SparedInv, Return
  PROVE  SparedStack'
<1>0. StackOK /\ PipelineInv /\ SparedStack /\ Running /\ SparedCode
  BY DEF SparedInv, FrameInv, Return
<1>1. stack # <<>> /\ Len(stack) \in Nat \ {0}
  BY <1>0, RunningTop DEF SparedInv
<1>2. CASE Len(stack) = 1
  BY <1>2, ToSetEmpty DEF Return, SparedStack
<1>3. CASE Len(stack) # 1
  <2> DEFINE t == Front(stack)
             caller == Last(t)
             g == GoesOn(caller)
  <2>1. /\ OwnSeq(t) /\ Len(t) = Len(stack) - 1 /\ ToSet(t) \subseteq ToSet(stack)
        /\ \A k \in 1..(Len(stack) - 1) : t[k] = stack[k]
    BY <1>0, <1>1, FrontIs, FrontElements DEF StackOK, OwnSeq
  <2>2. stack' = Append(Front(t), g)
    BY <1>3 DEF Return, GoesOn, At
  <2> HIDE DEF g, t
  <2>3. t # <<>> /\ Len(t) \in 1..(Len(stack) - 1) /\ Len(t) \in 1..Len(stack)
        /\ Len(t) < Len(stack)
    BY <1>1, <1>3, <2>1
  <2>4. caller = stack[Len(t)]
    BY <2>1, <2>3 DEF Last
  <2>5. FrameOK(caller) /\ AtCall(caller)
    BY <1>0, <2>3, <2>4 DEF StackOK
  <2>6. ToSet(Front(t)) \subseteq ToSet(t) /\ OwnSeq(Front(t)) /\ caller \in ToSet(t)
    BY <2>1, <2>3, FrontElements
  <2> HIDE DEF caller
  <2>7. SparedFrame(caller)
    BY <1>0, <2>1, <2>6 DEF SparedStack
  <2>8. SparedFrame(g)
    <3>1. CASE At(caller).kind = "invoke"
      <4>1. At(caller).blocks[1] \in ToSet(At(caller).blocks)
        BY <1>0, <2>5, <3>1, FirstBlock
      <4> QED
        BY <1>0, <2>5, <2>7, <3>1, <4>1, BranchSpared DEF GoesOn, g
    <3>2. CASE At(caller).kind # "invoke"
      BY <2>5, <2>7, <3>2, ComputedSpared DEF GoesOn, g
    <3> QED
      BY <3>1, <3>2
  <2>9. ToSet(stack') = ToSet(Front(t)) \cup {g}
    BY <2>2, <2>6, AppendElements
  <2>10. \A fr \in ToSet(stack') : SparedFrame(fr)
    BY <1>0, <2>1, <2>6, <2>8, <2>9 DEF SparedStack
  <2> QED
    BY <2>10 DEF SparedStack, SparedFrame, AsOwn
<1> QED
  BY <1>2, <1>3

(* Every step keeps the spared activations as they are in the source.      *)
LEMMA StepSpared ==
  ASSUME SparedInv, [Next]_vars
  PROVE  SparedStack'
<1>1. CASE UNCHANGED stack
  BY <1>1 DEF SparedInv, SparedStack, SparedFrame, AsOwn
<1>2. CASE Start \/ ExecCall
  BY <1>2, EnterSpared DEF Start, ExecCall, SparedInv, FrameInv
<1>3. CASE Execute
  BY <1>2, <1>3, PassSpared, LoadSpared, StoreSpared, BranchesSpared, ThrowSpared,
     ReturnSpared DEF Execute
<1>4. CASE ~ Execute
  BY <1>1, <1>4 DEF Next, SkipFunction, RunOnSlots, StepOnSlots, RunTrace, PassEnds, Done,
     vars, runVars
<1> QED
  BY <1>3, <1>4

(* And so the operands at the instruction are the source's.                *)
LEMMA SparedReads ==
  ASSUME SparedInv, Running, Spared(Top.fn)
  PROVE  AsInSource(Top)
<1>1. stack # <<>> /\ FrameOK(Top) /\ At(Top) = Cur
  BY RunningTop DEF SparedInv
<1>2. Top.regs = Top.own /\ Top.mem = Top.ownMem
  BY <1>1, TopSpared DEF SparedInv, FrameInv, SparedFrame, AsOwn
<1> SUFFICES ASSUME FromSource(Top, Cur.id),
                    NEW s, s = InstOf(source[Top.fn], Cur.id)
             PROVE  /\ \A k \in DOMAIN s.args :
                         Agrees(Eval(Top.regs, Cur.args[k]), Eval(Top.own, s.args[k]))
                    /\ s.kind = "load" => Agrees(Content(Top, Cur.ref), Get(Top.ownMem, s.ref))
  BY DEF AsInSource, Cur
<1>3. s = Cur /\ globalSlots[Top.fn] = {}
  BY <1>1, SparedAt DEF SparedInv, FrameInv
<1>4. Content(Top, Cur.ref) = Get(Top.mem, Cur.ref)
  BY <1>3 DEF Content
<1> QED
  BY <1>2, <1>3, <1>4 DEF Agrees

(* A function that no pass on slots comes to is executed as its source     *)
(* would be: its values do not see function-name-trace, nor the slots of   *)
(* other functions that were made global, whoever calls whom, and however  *)
(* often the function is entered again (function-name-trace.cpp:107-188,   *)
(* demote-registers.cpp:107, stack-to-global.cpp:66-70).                   *)
THEOREM SparedAsInSource == Spec => [](Running /\ Spared(Top.fn) => AsInSource(Top))
<1>1. Init => SparedInv
  <2>1. Init => SparedStack
    BY ToSetEmpty DEF Init, SparedStack
  <2> QED
    BY <2>1, InitFrames, SparedInit DEF SparedInv
<1>2. SparedInv /\ [Next]_vars => SparedInv'
  BY StepFrames, SparedStep, StepSpared DEF SparedInv, FrameInv
<1>3. SparedInv => (Running /\ Spared(Top.fn) => AsInSource(Top))
  BY SparedReads
<1> QED
  BY <1>1, <1>2, <1>3, PTL DEF Spec
=============================================================================
