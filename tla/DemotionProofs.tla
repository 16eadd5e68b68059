--------------------------- MODULE DemotionProofs ---------------------------
(***************************************************************************)
(* Proofs about what the passes make of the values that outlive the        *)
(* instruction that computed them, for every module that is well used: a   *)
(* register that was demoted is read back from its slot wherever it is     *)
(* used, and no PHI node is left.  The argument follows one use of one     *)
(* value through the calls of DemoteRegToStack and DemotePHIToStack, which *)
(* is why its lemmas are about functions under way between two calls.      *)
(***************************************************************************)
EXTENDS ActivationsProofs

-----------------------------------------------------------------------------
(* The order of the instructions of a block, told by their identities.     *)

(* Which identities a sequence holds, and which come one before the other. *)
IdsIn(s) == {x.id : x \in ToSet(s)}
InOrder(s, c, d) == \E i, j \in DOMAIN s : i < j /\ s[i].id = c /\ s[j].id = d

LEMMA IdsAt ==
  ASSUME NEW s, NEW c
  PROVE  c \in IdsIn(s) <=> \E i \in DOMAIN s : s[i].id = c
BY DEF IdsIn, ToSet

LEMMA OrderIds ==
  ASSUME NEW s, NEW c, NEW d, InOrder(s, c, d)
  PROVE  c \in IdsIn(s) /\ d \in IdsIn(s)
BY IdsAt DEF InOrder

LEMMA OrderShort ==
  ASSUME NEW c, NEW d, NEW x
  PROVE  /\ ~ InOrder(<<>>, c, d) /\ ~ InOrder(<<x>>, c, d)
         /\ IdsIn(<<>>) = {} /\ IdsIn(<<x>>) = {x.id}
<1>1. DOMAIN <<>> = {} /\ DOMAIN <<x>> = {1}
  OBVIOUS
<1> QED
  BY <1>1, ToSetOne, ToSetEmpty DEF InOrder, IdsIn

LEMMA OrderConcat ==
  ASSUME NEW S, NEW s \in Seq(S), NEW t \in Seq(S), NEW c, NEW d
  PROVE  /\ InOrder(s \o t, c, d) <=> \/ InOrder(s, c, d) \/ InOrder(t, c, d)
                                      \/ c \in IdsIn(s) /\ d \in IdsIn(t)
         /\ IdsIn(s \o t) = IdsIn(s) \cup IdsIn(t)
<1> DEFINE u == s \o t
<1>1. /\ Len(s) \in Nat /\ Len(t) \in Nat /\ DOMAIN s = 1..Len(s) /\ DOMAIN t = 1..Len(t)
      /\ DOMAIN u = 1..(Len(s) + Len(t))
      /\ \A i \in 1..Len(s) : u[i] = s[i]
      /\ \A j \in 1..Len(t) : u[Len(s) + j] = t[j]
  OBVIOUS
<1>2. ToSet(u) = ToSet(s) \cup ToSet(t)
  BY ToSetConcat
<1> HIDE DEF u
<1>3. ASSUME InOrder(u, c, d)
      PROVE  InOrder(s, c, d) \/ InOrder(t, c, d) \/ (c \in IdsIn(s) /\ d \in IdsIn(t))
  <2>1. PICK i \in DOMAIN u, j \in DOMAIN u : i < j /\ u[i].id = c /\ u[j].id = d
    BY <1>3 DEF InOrder
  <2>2. CASE j <= Len(s)
    <3>1. i \in 1..Len(s) /\ j \in 1..Len(s)
      BY <1>1, <2>1, <2>2
    <3>2. u[i] = s[i] /\ u[j] = s[j]
      BY <1>1, <3>1
    <3> QED
      BY <1>1, <2>1, <3>1, <3>2 DEF InOrder
  <2>3. CASE i > Len(s)
    <3>1. i - Len(s) \in 1..Len(t) /\ j - Len(s) \in 1..Len(t) /\ i - Len(s) < j - Len(s)
          /\ Len(s) + (i - Len(s)) = i /\ Len(s) + (j - Len(s)) = j
      BY <1>1, <2>1, <2>3
    <3>2. u[i] = t[i - Len(s)] /\ u[j] = t[j - Len(s)]
      BY <1>1, <3>1
    <3> QED
      BY <1>1, <2>1, <3>1, <3>2 DEF InOrder
  <2>4. CASE i <= Len(s) /\ j > Len(s)
    <3>1. i \in 1..Len(s) /\ j - Len(s) \in 1..Len(t) /\ Len(s) + (j - Len(s)) = j
      BY <1>1, <2>1, <2>4
    <3>2. u[i] = s[i] /\ u[j] = t[j - Len(s)]
      BY <1>1, <3>1
    <3>3. c \in IdsIn(s) /\ d \in IdsIn(t)
      BY <1>1, <2>1, <3>1, <3>2, IdsAt
    <3> QED
      BY <3>3
  <2> QED
    BY <1>1, <2>1, <2>2, <2>3, <2>4
<1>4. ASSUME InOrder(s, c, d) PROVE InOrder(u, c, d)
  <2>1. PICK i \in 1..Len(s), j \in 1..Len(s) : i < j /\ s[i].id = c /\ s[j].id = d
    BY <1>1, <1>4 DEF InOrder
  <2>2. i \in DOMAIN u /\ j \in DOMAIN u /\ u[i] = s[i] /\ u[j] = s[j]
    BY <1>1
  <2> QED
    BY <2>1, <2>2 DEF InOrder
<1>5. ASSUME InOrder(t, c, d) PROVE InOrder(u, c, d)
  <2>1. PICK i \in 1..Len(t), j \in 1..Len(t) : i < j /\ t[i].id = c /\ t[j].id = d
    BY <1>1, <1>5 DEF InOrder
  <2>2. /\ Len(s) + i \in DOMAIN u /\ Len(s) + j \in DOMAIN u /\ Len(s) + i < Len(s) + j
        /\ u[Len(s) + i] = t[i] /\ u[Len(s) + j] = t[j]
    BY <1>1, <2>1
  <2> QED
    BY <2>1, <2>2 DEF InOrder
<1>6. ASSUME c \in IdsIn(s), d \in IdsIn(t) PROVE InOrder(u, c, d)
  <2>1. PICK i \in 1..Len(s), j \in 1..Len(t) : s[i].id = c /\ t[j].id = d
    BY <1>1, <1>6, IdsAt
  <2>2. /\ i \in DOMAIN u /\ Len(s) + j \in DOMAIN u /\ i < Len(s) + j
        /\ u[i] = s[i] /\ u[Len(s) + j] = t[j]
    BY <1>1
  <2> QED
    BY <2>1, <2>2 DEF InOrder
<1>7. IdsIn(u) = IdsIn(s) \cup IdsIn(t)
  BY <1>2 DEF IdsIn
<1> QED
  BY <1>3, <1>4, <1>5, <1>6, <1>7 DEF u

LEMMA OrderAppend ==
  ASSUME NEW S, NEW s \in Seq(S), NEW x \in S, NEW c, NEW d
  PROVE  /\ InOrder(Append(s, x), c, d) <=> InOrder(s, c, d) \/ (c \in IdsIn(s) /\ d = x.id)
         /\ IdsIn(Append(s, x)) = IdsIn(s) \cup {x.id}
<1> DEFINE y == <<x>>
<1>1. y \in Seq(S) /\ Append(s, x) = s \o y
  BY AppendIsConcat
<1>2. ~ InOrder(y, c, d) /\ IdsIn(y) = {x.id}
  BY OrderShort
<1> HIDE DEF y
<1> QED
  BY <1>1, <1>2, OrderConcat

(* The two ways in which one identity comes before another in sequences    *)
(* that are joined.                                                        *)
Apart(ss, c, d) ==
  \E i, j \in DOMAIN ss : i < j /\ c \in IdsIn(ss[i]) /\ d \in IdsIn(ss[j])
Within(ss, c, d) == \E i \in DOMAIN ss : InOrder(ss[i], c, d)
IdsInAny(ss) == UNION {IdsIn(ss[i]) : i \in DOMAIN ss}

LEMMA OrderFlatten ==
  ASSUME NEW S, NEW ss \in Seq(Seq(S)), NEW c, NEW d
  PROVE  /\ InOrder(FlattenSeq(ss), c, d) <=> Apart(ss, c, d) \/ Within(ss, c, d)
         /\ IdsIn(FlattenSeq(ss)) = IdsInAny(ss)
<1> DEFINE Claim(tt) == /\ InOrder(FlattenSeq(tt), c, d) <=> Apart(tt, c, d) \/ Within(tt, c, d)
                        /\ IdsIn(FlattenSeq(tt)) = IdsInAny(tt)
           P == {tt \in Seq(Seq(S)) : Claim(tt)}
<1>1. <<>> \in P
  <2>0. DOMAIN <<>> = {}
    OBVIOUS
  <2>1. ~ Apart(<<>>, c, d) /\ ~ Within(<<>>, c, d) /\ IdsInAny(<<>>) = {}
    BY <2>0 DEF Apart, Within, IdsInAny
  <2>2. FlattenSeq(<<>>) = <<>> /\ ~ InOrder(<<>>, c, d) /\ IdsIn(<<>>) = {}
    BY FlattenEmpty, OrderShort
  <2>3. Claim(<<>>)
    BY <2>1, <2>2
  <2> HIDE DEF Claim
  <2> QED
    BY <2>3
<1>2. ASSUME NEW tt \in P, NEW s \in Seq(S) PROVE Append(tt, s) \in P
  <2> DEFINE u == Append(tt, s)
  <2>1. tt \in Seq(Seq(S)) /\ Claim(tt)
    OBVIOUS
  <2>2. /\ FlattenSeq(u) = FlattenSeq(tt) \o s /\ FlattenSeq(tt) \in Seq(S)
        /\ u \in Seq(Seq(S))
    BY <2>1, FlattenAppend, FlattenType
  <2>3. /\ Len(tt) \in Nat /\ DOMAIN tt = 1..Len(tt) /\ DOMAIN u = 1..(Len(tt) + 1)
        /\ \A i \in 1..Len(tt) : u[i] = tt[i]
        /\ u[Len(tt) + 1] = s
    BY <2>1
  <2> HIDE DEF u, P, Claim
  <2>4. /\ InOrder(FlattenSeq(u), c, d) <=>
             \/ InOrder(FlattenSeq(tt), c, d) \/ InOrder(s, c, d)
             \/ c \in IdsIn(FlattenSeq(tt)) /\ d \in IdsIn(s)
        /\ IdsIn(FlattenSeq(u)) = IdsIn(FlattenSeq(tt)) \cup IdsIn(s)
    BY <2>2, OrderConcat
  <2>30. PICK n : n = Len(tt) + 1
    OBVIOUS
  <2>31. DOMAIN u = DOMAIN tt \cup {n}
    BY <2>3, <2>30
  <2>32. \A i \in DOMAIN tt : u[i] = tt[i]
    BY <2>3
  <2>33. u[n] = s
    BY <2>3, <2>30
  <2>5. IdsInAny(u) = IdsInAny(tt) \cup IdsIn(s)
    BY <2>31, <2>32, <2>33, Zenon DEF IdsInAny
  <2>6. Within(u, c, d) <=> Within(tt, c, d) \/ InOrder(s, c, d)
    BY <2>31, <2>32, <2>33, Zenon DEF Within
  <2>7. Apart(u, c, d) <=> Apart(tt, c, d) \/ (c \in IdsInAny(tt) /\ d \in IdsIn(s))
    <3>1. ASSUME Apart(u, c, d) PROVE Apart(tt, c, d) \/ (c \in IdsInAny(tt) /\ d \in IdsIn(s))
      <4>1. PICK i \in DOMAIN u, j \in DOMAIN u :
              i < j /\ c \in IdsIn(u[i]) /\ d \in IdsIn(u[j])
        BY <3>1 DEF Apart
      <4>2. i \in DOMAIN tt /\ u[i] = tt[i]
        BY <2>3, <4>1
      <4>3. (j \in DOMAIN tt /\ u[j] = tt[j]) \/ u[j] = s
        BY <2>3, <4>1
      <4> QED
        BY <4>1, <4>2, <4>3 DEF Apart, IdsInAny
    <3>2. ASSUME Apart(tt, c, d) PROVE Apart(u, c, d)
      BY <2>3, <3>2 DEF Apart
    <3>3. ASSUME c \in IdsInAny(tt), d \in IdsIn(s) PROVE Apart(u, c, d)
      <4>1. PICK i \in DOMAIN tt : c \in IdsIn(tt[i])
        BY <3>3 DEF IdsInAny
      <4>2. i < Len(tt) + 1 /\ i \in DOMAIN u /\ Len(tt) + 1 \in DOMAIN u
        BY <2>3
      <4> QED
        BY <2>3, <3>3, <4>1, <4>2 DEF Apart
    <3> QED
      BY <3>1, <3>2, <3>3
  <2>8. Claim(u)
    BY <2>1, <2>4, <2>5, <2>6, <2>7 DEF Claim
  <2> QED
    BY <2>2, <2>8 DEF P, u
<1>3. P \in SUBSET Seq(Seq(S))
  OBVIOUS
<1> HIDE DEF P
<1>4. P = Seq(Seq(S))
  BY <1>1, <1>2, <1>3, SequenceInduction
<1> QED
  BY <1>4 DEF P

(* Elements of a block, and what is put before each of them.               *)
LEMMA OrderSpread ==
  ASSUME NEW S, NEW B \in Seq(S), NEW ss \in [DOMAIN B -> Seq(S)]
  PROVE  /\ Spread(B, ss) \in Seq(S)
         /\ ToSet(Spread(B, ss)) = ToSet(B) \cup UNION {ToSet(ss[i]) : i \in DOMAIN B}
         /\ \A i, j \in DOMAIN B : \A c, d :
              /\ i < j => InOrder(Spread(B, ss), B[i].id, B[j].id)
              /\ i <= j /\ c \in IdsIn(ss[i]) => InOrder(Spread(B, ss), c, B[j].id)
              /\ i < j /\ d \in IdsIn(ss[j]) => InOrder(Spread(B, ss), B[i].id, d)
              /\ i < j /\ c \in IdsIn(ss[i]) /\ d \in IdsIn(ss[j]) =>
                   InOrder(Spread(B, ss), c, d)
              /\ InOrder(ss[i], c, d) => InOrder(Spread(B, ss), c, d)
         /\ \A c : InOrder(Spread(B, ss), c, c) =>
              \/ InOrder(B, c, c)
              \/ c \in IdsIn(B) /\ \E i \in DOMAIN B : c \in IdsIn(ss[i])
              \/ \E i, j \in DOMAIN B : i < j /\ c \in IdsIn(ss[i]) /\ c \in IdsIn(ss[j])
              \/ \E i \in DOMAIN B : InOrder(ss[i], c, c)
<1> DEFINE T == [i \in DOMAIN B |-> Append(ss[i], B[i])]
           C == Spread(B, ss)
<1>1. /\ DOMAIN B = 1..Len(B) /\ Len(B) \in Nat
      /\ \A i \in DOMAIN B : B[i] \in S /\ ss[i] \in Seq(S)
  OBVIOUS
<1>2. T \in Seq(Seq(S)) /\ Len(T) = Len(B) /\ DOMAIN T = DOMAIN B
  <2>1. T \in [1..Len(B) -> Seq(S)]
    BY <1>1
  <2>2. T \in Seq(Seq(S)) /\ Len(T) = Len(B)
    BY <1>1, <2>1, IsSequence
  <2> QED
    BY <2>2
<1>3. \A i \in DOMAIN B : T[i] = Append(ss[i], B[i])
  OBVIOUS
<1>4. C = FlattenSeq(T)
  BY DEF Spread
<1> HIDE DEF T, C
<1>5. C \in Seq(S)
  BY <1>2, <1>4, FlattenType
<1>6. \A i \in DOMAIN B : \A c, d :
        /\ InOrder(T[i], c, d) <=> InOrder(ss[i], c, d) \/ (c \in IdsIn(ss[i]) /\ d = B[i].id)
        /\ IdsIn(T[i]) = IdsIn(ss[i]) \cup {B[i].id}
  <2>1. ASSUME NEW i \in DOMAIN B, NEW c, NEW d
        PROVE  /\ InOrder(T[i], c, d) <=> InOrder(ss[i], c, d) \/ (c \in IdsIn(ss[i]) /\ d = B[i].id)
               /\ IdsIn(T[i]) = IdsIn(ss[i]) \cup {B[i].id}
    <3> DEFINE s == ss[i]
               x == B[i]
    <3>1. s \in Seq(S) /\ x \in S /\ T[i] = Append(s, x)
      BY <1>1, <1>3
    <3> HIDE DEF s, x
    <3>2. /\ InOrder(Append(s, x), c, d) <=> InOrder(s, c, d) \/ (c \in IdsIn(s) /\ d = x.id)
          /\ IdsIn(Append(s, x)) = IdsIn(s) \cup {x.id}
      BY <3>1, OrderAppend
    <3> QED
      BY <3>1, <3>2 DEF s, x
  <2> QED
    BY <2>1
<1>7. \A c, d : InOrder(C, c, d) <=> Apart(T, c, d) \/ Within(T, c, d)
  BY <1>2, <1>4, OrderFlatten
<1>8. ToSet(C) = ToSet(B) \cup UNION {ToSet(ss[i]) : i \in DOMAIN B}
  <2>1. ToSet(C) = UNION {ToSet(T[i]) : i \in DOMAIN B}
    BY <1>2, <1>4, FlattenElements
  <2>2. \A i \in DOMAIN B : ToSet(T[i]) = ToSet(ss[i]) \cup {B[i]}
    <3>1. ASSUME NEW i \in DOMAIN B PROVE ToSet(T[i]) = ToSet(ss[i]) \cup {B[i]}
      <4> DEFINE s == ss[i]
                 x == B[i]
                 y == <<x>>
      <4>1. s \in Seq(S) /\ x \in S /\ T[i] = Append(s, x)
        BY <1>1, <1>3
      <4> HIDE DEF s, x
      <4>2. y \in Seq(S) /\ Append(s, x) = s \o y
        BY <4>1, AppendIsConcat
      <4>3. ToSet(y) = {x}
        BY ToSetOne
      <4> HIDE DEF y
      <4>4. ToSet(s \o y) = ToSet(s) \cup ToSet(y)
        BY <4>1, <4>2, ToSetConcat
      <4> QED
        BY <4>1, <4>2, <4>3, <4>4 DEF s, x
    <3> QED
      BY <3>1
  <2>3. ToSet(B) = UNION {{B[i]} : i \in DOMAIN B}
    BY DEF ToSet
  <2>4. \A z : z \in ToSet(C) <=> \E i \in DOMAIN B : z \in ToSet(T[i])
    BY <2>1
  <2>5. \A z : z \in ToSet(C) <=> \E i \in DOMAIN B : z \in ToSet(ss[i]) \/ z = B[i]
    <3>1. \A z : \A i \in DOMAIN B : z \in ToSet(T[i]) <=> z \in ToSet(ss[i]) \/ z = B[i]
      BY <2>2
    <3> QED
      BY <2>4, <3>1, Zenon
  <2>6. \A z : z \in ToSet(B) <=> \E i \in DOMAIN B : z = B[i]
    BY <2>3
  <2> QED
    BY <2>5, <2>6, Zenon
<1>9. ASSUME NEW i \in DOMAIN B, NEW j \in DOMAIN B, NEW c, NEW d
      PROVE  /\ i < j => InOrder(C, B[i].id, B[j].id)
             /\ i <= j /\ c \in IdsIn(ss[i]) => InOrder(C, c, B[j].id)
             /\ i < j /\ d \in IdsIn(ss[j]) => InOrder(C, B[i].id, d)
             /\ i < j /\ c \in IdsIn(ss[i]) /\ d \in IdsIn(ss[j]) => InOrder(C, c, d)
             /\ InOrder(ss[i], c, d) => InOrder(C, c, d)
  <2>1. \A a \in IdsIn(T[i]), e \in IdsIn(T[j]) : i < j => InOrder(C, a, e)
    BY <1>2, <1>7 DEF Apart
  <2>2. \A a, e : InOrder(T[i], a, e) => InOrder(C, a, e)
    BY <1>2, <1>7 DEF Within
  <2>3. /\ IdsIn(T[i]) = IdsIn(ss[i]) \cup {B[i].id}
        /\ IdsIn(T[j]) = IdsIn(ss[j]) \cup {B[j].id}
    BY <1>6
  <2>4. c \in IdsIn(ss[i]) => InOrder(C, c, B[i].id)
    BY <1>6, <2>2
  <2>5. i <= j => i < j \/ i = j
    BY <1>1
  <2>6. i < j => InOrder(C, B[i].id, B[j].id)
    BY <2>1, <2>3
  <2>7. i <= j /\ c \in IdsIn(ss[i]) => InOrder(C, c, B[j].id)
    BY <2>1, <2>3, <2>4, <2>5
  <2>8. i < j /\ d \in IdsIn(ss[j]) => InOrder(C, B[i].id, d)
    BY <2>1, <2>3
  <2>9. i < j /\ c \in IdsIn(ss[i]) /\ d \in IdsIn(ss[j]) => InOrder(C, c, d)
    BY <2>1, <2>3
  <2>10. InOrder(ss[i], c, d) => InOrder(C, c, d)
    BY <1>6, <2>2
  <2> QED
    BY <2>6, <2>7, <2>8, <2>9, <2>10
<1>10. ASSUME NEW c, InOrder(C, c, c)
       PROVE  \/ InOrder(B, c, c)
              \/ c \in IdsIn(B) /\ \E i \in DOMAIN B : c \in IdsIn(ss[i])
              \/ \E i, j \in DOMAIN B : i < j /\ c \in IdsIn(ss[i]) /\ c \in IdsIn(ss[j])
              \/ \E i \in DOMAIN B : InOrder(ss[i], c, c)
  <2>1. \A i \in DOMAIN B : B[i].id \in IdsIn(B)
    BY IdsAt
  <2>2. CASE Apart(T, c, c)
    <3>1. PICK i \in DOMAIN B, j \in DOMAIN B : i < j /\ c \in IdsIn(T[i]) /\ c \in IdsIn(T[j])
      BY <1>2, <2>2 DEF Apart
    <3>2. /\ c \in IdsIn(ss[i]) \/ c = B[i].id
          /\ c \in IdsIn(ss[j]) \/ c = B[j].id
      BY <1>6, <3>1
    <3>3. CASE c = B[i].id /\ c = B[j].id
      BY <3>1, <3>3 DEF InOrder
    <3>4. CASE c \in IdsIn(ss[i]) /\ c \in IdsIn(ss[j])
      BY <3>1, <3>4
    <3>5. CASE (c = B[i].id /\ c \in IdsIn(ss[j])) \/ (c = B[j].id /\ c \in IdsIn(ss[i]))
      BY <2>1, <3>5
    <3> QED
      BY <3>2, <3>3, <3>4, <3>5
  <2>3. CASE Within(T, c, c)
    <3>1. PICK i \in DOMAIN B : InOrder(T[i], c, c)
      BY <1>2, <2>3 DEF Within
    <3>2. InOrder(ss[i], c, c) \/ (c \in IdsIn(ss[i]) /\ c = B[i].id)
      BY <1>6, <3>1
    <3> QED
      BY <2>1, <3>2
  <2> QED
    BY <1>7, <1>10, <2>2, <2>3
<1> QED
  BY <1>5, <1>8, <1>9, <1>10 DEF C

(* What stays keeps its order.                                             *)
LEMMA OrderSelect ==
  ASSUME NEW S, NEW s \in Seq(S), NEW T, NEW c, NEW d
  PROVE  /\ InOrder(Select(s, T), c, d) => InOrder(s, c, d)
         /\ /\ InOrder(s, c, d)
            /\ \A x \in ToSet(s) : x.id \in {c, d} => x \in T
            => InOrder(Select(s, T), c, d)
<1> DEFINE Part(t) == InOrder(Select(t, T), c, d) => InOrder(t, c, d)
           Whole(t) == InOrder(t, c, d) /\ (\A x \in ToSet(t) : x.id \in {c, d} => x \in T)
                         => InOrder(Select(t, T), c, d)
           Elems(t) == (\A x \in ToSet(t) : x.id \in {c, d} => x \in T) =>
                         (c \in IdsIn(t) => c \in IdsIn(Select(t, T)))
           P == {t \in Seq(S) : Part(t) /\ Whole(t) /\ Elems(t)}
<1>1. <<>> \in P
  <2>1. Select(<<>>, T) = <<>> /\ ~ InOrder(<<>>, c, d) /\ IdsIn(<<>>) = {}
    BY SelectEmpty, OrderShort
  <2> QED
    BY <2>1
<1>2. ASSUME NEW t \in P, NEW x \in S PROVE Append(t, x) \in P
  <2> DEFINE u == Append(t, x)
             v == Select(t, T)
             w == Select(u, T)
  <2>1. t \in Seq(S) /\ Part(t) /\ Whole(t) /\ Elems(t)
    OBVIOUS
  <2>2. /\ u \in Seq(S) /\ v \in Seq(S)
        /\ w = IF x \in T THEN Append(v, x) ELSE v
    BY <2>1, SelectType, SelectAppend, SMTT(30)
  <2>3. /\ InOrder(u, c, d) <=> InOrder(t, c, d) \/ (c \in IdsIn(t) /\ d = x.id)
        /\ IdsIn(u) = IdsIn(t) \cup {x.id}
    BY <2>1, OrderAppend
  <2>4. /\ InOrder(Append(v, x), c, d) <=> InOrder(v, c, d) \/ (c \in IdsIn(v) /\ d = x.id)
        /\ IdsIn(Append(v, x)) = IdsIn(v) \cup {x.id}
    BY <2>2, OrderAppend
  <2>5. ToSet(u) = ToSet(t) \cup {x}
    <3>1. u = InsertAt(t, Len(t) + 1, x) /\ Len(t) + 1 \in 1..(Len(t) + 1)
      BY <2>1, AppendIsInsert
    <3> QED
      BY <2>1, <3>1, InsertElements
  <2>6. ToSet(v) = ToSet(t) \cap T
    BY <2>1, SelectElements
  <2>7. IdsIn(v) \subseteq IdsIn(t)
    BY <2>6 DEF IdsIn
  <2> HIDE DEF u, v, w
  <2>8. Part(u)
    BY <2>1, <2>2, <2>3, <2>4, <2>7 DEF v, w
  <2>9. Whole(u)
    <3> SUFFICES ASSUME InOrder(u, c, d), \A y \in ToSet(u) : y.id \in {c, d} => y \in T
                 PROVE  InOrder(w, c, d)
      BY DEF w
    <3>1. \A y \in ToSet(t) : y.id \in {c, d} => y \in T
      BY <2>5
    <3>2. d = x.id => x \in T
      BY <2>5
    <3>3. CASE InOrder(t, c, d)
      BY <2>1, <2>2, <2>4, <3>1, <3>3 DEF v
    <3>4. CASE c \in IdsIn(t) /\ d = x.id
      BY <2>1, <2>2, <2>4, <3>1, <3>2, <3>4 DEF v
    <3> QED
      BY <2>3, <3>3, <3>4
  <2>10. Elems(u)
    <3> SUFFICES ASSUME c \in IdsIn(u), \A y \in ToSet(u) : y.id \in {c, d} => y \in T
                 PROVE  c \in IdsIn(w)
      BY DEF w
    <3>1. \A y \in ToSet(t) : y.id \in {c, d} => y \in T
      BY <2>5
    <3>2. c = x.id => x \in T
      BY <2>5
    <3>3. c \in IdsIn(t) => c \in IdsIn(v)
      BY <2>1, <3>1 DEF v
    <3> QED
      BY <2>2, <2>3, <2>4, <3>2, <3>3
  <2> QED
    BY <2>2, <2>8, <2>9, <2>10 DEF u
<1>3. P \in SUBSET Seq(S)
  OBVIOUS
<1> HIDE DEF P
<1>4. P = Seq(S)
  BY <1>1, <1>2, <1>3, SequenceInduction
<1> QED
  BY <1>4 DEF P

LEMMA OrderInsert ==
  ASSUME NEW S, NEW s \in Seq(S), NEW i \in 1..(Len(s) + 1), NEW x \in S
  PROVE  /\ IdsIn(InsertAt(s, i, x)) = IdsIn(s) \cup {x.id}
         /\ \A c, d : InOrder(s, c, d) => InOrder(InsertAt(s, i, x), c, d)
         /\ \A j \in DOMAIN s : i <= j => InOrder(InsertAt(s, i, x), x.id, s[j].id)
         /\ \A c : InOrder(InsertAt(s, i, x), c, c) =>
                     InOrder(s, c, c) \/ (c = x.id /\ c \in IdsIn(s))
<1> DEFINE t == InsertAt(s, i, x)
           a == SubSeq(s, 1, i - 1)
           b == SubSeq(s, i, Len(s))
           y == <<x>>
           ay == a \o y
<1>0. Pieces(S, s, i, x, a, b, y)
  BY InsertParts
<1>1. /\ a \in Seq(S) /\ b \in Seq(S) /\ y \in Seq(S) /\ ay \in Seq(S) /\ s = a \o b
      /\ t = ay \o b
  <2> HIDE DEF a, b, y
  <2> QED
    BY <1>0 DEF Pieces
<1>2. \A c, d : ~ InOrder(y, c, d) /\ IdsIn(y) = {x.id}
  BY OrderShort
<1>3. /\ Len(b) = Len(s) - i + 1 /\ Len(s) \in Nat /\ DOMAIN s = 1..Len(s)
      /\ \A k \in 1..(Len(s) - i + 1) : b[k] = s[i + k - 1]
  BY CutBefore
<1> HIDE DEF a, b, y, ay, t
<1>4. \A c, d : /\ InOrder(s, c, d) <=>
                     InOrder(a, c, d) \/ InOrder(b, c, d) \/ (c \in IdsIn(a) /\ d \in IdsIn(b))
                /\ IdsIn(s) = IdsIn(a) \cup IdsIn(b)
  BY <1>1, OrderConcat
<1>5. \A c, d : /\ InOrder(ay, c, d) <=>
                     InOrder(a, c, d) \/ InOrder(y, c, d) \/ (c \in IdsIn(a) /\ d \in IdsIn(y))
                /\ IdsIn(ay) = IdsIn(a) \cup IdsIn(y)
  BY <1>1, OrderConcat DEF ay
<1>6. \A c, d : /\ InOrder(t, c, d) <=>
                     InOrder(ay, c, d) \/ InOrder(b, c, d) \/ (c \in IdsIn(ay) /\ d \in IdsIn(b))
                /\ IdsIn(t) = IdsIn(ay) \cup IdsIn(b)
  BY <1>1, OrderConcat
<1>7. IdsIn(t) = IdsIn(s) \cup {x.id}
  BY <1>2, <1>4, <1>5, <1>6
<1>8. ASSUME NEW c, NEW d, InOrder(s, c, d) PROVE InOrder(t, c, d)
  BY <1>4, <1>5, <1>6, <1>8
<1>9. ASSUME NEW j \in DOMAIN s, i <= j PROVE InOrder(t, x.id, s[j].id)
  <2>1. PICK k : k = j - i + 1
    OBVIOUS
  <2>2. k \in 1..(Len(s) - i + 1) /\ i + k - 1 = j
    BY <1>3, <1>9, <2>1
  <2>3. s[j].id \in IdsIn(b)
    <3>1. DOMAIN b = 1..Len(b)
      BY <1>1
    <3>2. k \in DOMAIN b /\ b[k] = s[j]
      BY <1>3, <2>2, <3>1
    <3> QED
      BY <3>2, IdsAt
  <2> QED
    BY <1>2, <1>5, <1>6, <2>3
<1>10. ASSUME NEW c, InOrder(t, c, c) PROVE InOrder(s, c, c) \/ (c = x.id /\ c \in IdsIn(s))
  BY <1>2, <1>4, <1>5, <1>6, <1>10
<1> QED
  BY <1>7, <1>8, <1>9, <1>10 DEF t

-----------------------------------------------------------------------------
(* Identities are those of one instruction in one place.                   *)

(* No identity is that of two instructions.                                *)
OwnIds(A) ==
  /\ \A b \in DOMAIN A : \A c : ~ InOrder(A[b], c, c)
  /\ \A b, e \in DOMAIN A : \A x \in ToSet(A[b]), y \in ToSet(A[e]) :
       x.id = y.id => b = e /\ x = y

(* What is put before the instructions of A, and where it comes to be.     *)
IsPut(A, new, C) ==
  /\ DOMAIN C = DOMAIN A
  /\ \A b \in DOMAIN A :
       /\ \A z \in ToSet(C[b]) :
            z \in ToSet(A[b]) \/ \E i \in DOMAIN A[b] : z \in ToSet(new[<<b, i>>])
       /\ ToSet(A[b]) \subseteq ToSet(C[b])
       /\ \A i \in DOMAIN A[b] : ToSet(new[<<b, i>>]) \subseteq ToSet(C[b])
       /\ \A c, d : InOrder(A[b], c, d) => InOrder(C[b], c, d)
       /\ \A i, j \in DOMAIN A[b] :
            /\ \A z \in ToSet(new[<<b, i>>]) :
                 i <= j => InOrder(C[b], z.id, A[b][j].id)
            /\ \A z \in ToSet(new[<<b, j>>]) :
                 i < j => InOrder(C[b], A[b][i].id, z.id)
            /\ \A y \in ToSet(new[<<b, i>>]), z \in ToSet(new[<<b, j>>]) :
                 i < j => InOrder(C[b], y.id, z.id)
            /\ \A c, d : InOrder(new[<<b, i>>], c, d) => InOrder(C[b], c, d)

NewOwn(A, new) ==
  /\ \A q \in Places(A) : \A c : ~ InOrder(new[q], c, c)
  /\ \A q, r \in Places(A) : \A y \in ToSet(new[q]), z \in ToSet(new[r]) :
       y.id = z.id => q = r /\ y = z
  /\ \A q \in Places(A) : \A z \in ToSet(new[q]) : \A b \in DOMAIN A :
       z.id \notin IdsIn(A[b])

LEMMA InPlaces ==
  ASSUME NEW A, NEW b, NEW i
  PROVE  /\ <<b, i>> \in Places(A) <=> b \in DOMAIN A /\ i \in DOMAIN A[b]
         /\ InstAt(A, <<b, i>>) = A[b][i]
BY DEF Places, InstAt

LEMMA PlacePair ==
  ASSUME NEW A, NEW q \in Places(A)
  PROVE  /\ q = <<q[1], q[2]>> /\ q[1] \in DOMAIN A /\ q[2] \in DOMAIN A[q[1]]
         /\ InstAt(A, q) = A[q[1]][q[2]]
BY DEF Places, InstAt

SpreadOf(A, new, N, b, ss) ==
  /\ ss \in [DOMAIN A[b] -> Seq(ToSet(A[b]) \cup N)]
  /\ A[b] \in Seq(ToSet(A[b]) \cup N)
  /\ \A i \in DOMAIN A[b] : ss[i] = new[<<b, i>>]
  /\ PutBefore(A, new)[b] = Spread(A[b], ss)

LEMMA PutSpread ==
  ASSUME NEW A, IsCode(A), NEW N, NEW new, \A q \in Places(A) : new[q] \in Seq(N),
         NEW b \in DOMAIN A
  PROVE  \E ss : SpreadOf(A, new, N, b, ss)
<1> DEFINE S == ToSet(A[b]) \cup N
           ss == [i \in DOMAIN A[b] |-> new[<<b, i>>]]
<1>1. A[b] \in Seq(ToSet(A[b])) /\ ToSet(A[b]) \subseteq S /\ N \subseteq S
  BY DEF IsCode, IsBlock
<1>2. A[b] \in Seq(S)
  BY <1>1, SeqWidens
<1>3. \A i \in DOMAIN A[b] : ss[i] = new[<<b, i>>] /\ new[<<b, i>>] \in Seq(N)
  BY InPlaces
<1>4. \A i \in DOMAIN A[b] : ss[i] \in Seq(S)
  BY <1>1, <1>3, SeqWidens
<1>5. PutBefore(A, new)[b] = Spread(A[b], ss)
  BY DEF PutBefore, Spread
<1>6. ss \in [DOMAIN A[b] -> Seq(S)]
  BY <1>4
<1> QED
  BY <1>2, <1>3, <1>5, <1>6 DEF SpreadOf

LEMMA PutIs ==
  ASSUME NEW A, IsCode(A), NEW N, NEW new, \A q \in Places(A) : new[q] \in Seq(N)
  PROVE  /\ IsPut(A, new, PutBefore(A, new))
         /\ OwnIds(A) /\ NewOwn(A, new) => OwnIds(PutBefore(A, new))
<1> DEFINE C == PutBefore(A, new)
<1>1. DOMAIN C = DOMAIN A
  BY DEF PutBefore
<1>2. ASSUME NEW b \in DOMAIN A
      PROVE  /\ \A z \in ToSet(C[b]) :
                  z \in ToSet(A[b]) \/ \E i \in DOMAIN A[b] : z \in ToSet(new[<<b, i>>])
             /\ ToSet(A[b]) \subseteq ToSet(C[b])
             /\ \A i \in DOMAIN A[b] : ToSet(new[<<b, i>>]) \subseteq ToSet(C[b])
             /\ \A c, d : InOrder(A[b], c, d) => InOrder(C[b], c, d)
             /\ \A i, j \in DOMAIN A[b] :
                  /\ \A z \in ToSet(new[<<b, i>>]) :
                       i <= j => InOrder(C[b], z.id, A[b][j].id)
                  /\ \A z \in ToSet(new[<<b, j>>]) :
                       i < j => InOrder(C[b], A[b][i].id, z.id)
                  /\ \A y \in ToSet(new[<<b, i>>]), z \in ToSet(new[<<b, j>>]) :
                       i < j => InOrder(C[b], y.id, z.id)
                  /\ \A c, d : InOrder(new[<<b, i>>], c, d) => InOrder(C[b], c, d)
             /\ \A c : InOrder(C[b], c, c) =>
                  \/ InOrder(A[b], c, c)
                  \/ c \in IdsIn(A[b]) /\ \E i \in DOMAIN A[b] : c \in IdsIn(new[<<b, i>>])
                  \/ \E i, j \in DOMAIN A[b] :
                       i < j /\ c \in IdsIn(new[<<b, i>>]) /\ c \in IdsIn(new[<<b, j>>])
                  \/ \E i \in DOMAIN A[b] : InOrder(new[<<b, i>>], c, c)
  <2>0. PICK ss : SpreadOf(A, new, N, b, ss)
    BY PutSpread
  <2> DEFINE B == A[b]
             S == ToSet(A[b]) \cup N
  <2>1. /\ ss \in [DOMAIN B -> Seq(S)] /\ B \in Seq(S)
        /\ \A i \in DOMAIN B : ss[i] = new[<<b, i>>]
        /\ C[b] = Spread(B, ss)
    BY <2>0 DEF SpreadOf
  <2> HIDE DEF B, S, C
  <2> DEFINE D == Spread(B, ss)
  <2>2. /\ ToSet(D) = ToSet(B) \cup UNION {ToSet(ss[i]) : i \in DOMAIN B}
        /\ \A i, j \in DOMAIN B : \A c, d :
             /\ i < j => InOrder(D, B[i].id, B[j].id)
             /\ i <= j /\ c \in IdsIn(ss[i]) => InOrder(D, c, B[j].id)
             /\ i < j /\ d \in IdsIn(ss[j]) => InOrder(D, B[i].id, d)
             /\ i < j /\ c \in IdsIn(ss[i]) /\ d \in IdsIn(ss[j]) => InOrder(D, c, d)
             /\ InOrder(ss[i], c, d) => InOrder(D, c, d)
    BY <2>1, OrderSpread
  <2>3. \A c : InOrder(D, c, c) =>
          \/ InOrder(B, c, c)
          \/ c \in IdsIn(B) /\ \E i \in DOMAIN B : c \in IdsIn(ss[i])
          \/ \E i, j \in DOMAIN B : i < j /\ c \in IdsIn(ss[i]) /\ c \in IdsIn(ss[j])
          \/ \E i \in DOMAIN B : InOrder(ss[i], c, c)
    BY <2>1, OrderSpread
  <2> HIDE DEF D
  <2>4. /\ \A z \in ToSet(D) : z \in ToSet(B) \/ \E i \in DOMAIN B : z \in ToSet(ss[i])
        /\ ToSet(B) \subseteq ToSet(D)
        /\ \A i \in DOMAIN B : ToSet(ss[i]) \subseteq ToSet(D)
    BY <2>2
  <2>5. \A c, d : InOrder(B, c, d) => InOrder(D, c, d)
    BY <2>2 DEF InOrder
  <2>6. \A i \in DOMAIN B : \A z \in ToSet(ss[i]) : z.id \in IdsIn(ss[i])
    BY DEF IdsIn
  <2>7. \A i, j \in DOMAIN B :
          /\ \A z \in ToSet(ss[i]) : i <= j => InOrder(D, z.id, B[j].id)
          /\ \A z \in ToSet(ss[j]) : i < j => InOrder(D, B[i].id, z.id)
          /\ \A y \in ToSet(ss[i]), z \in ToSet(ss[j]) : i < j => InOrder(D, y.id, z.id)
          /\ \A c, d : InOrder(ss[i], c, d) => InOrder(D, c, d)
    BY <2>2, <2>6
  <2>8. C[b] = D /\ \A i \in DOMAIN B : ss[i] = new[<<b, i>>]
    BY <2>1 DEF D
  <2> QED
    BY <2>3, <2>4, <2>5, <2>7, <2>8 DEF B
<1> HIDE DEF C
<1>3. IsPut(A, new, C)
  BY <1>1, <1>2 DEF IsPut
<1>4. ASSUME OwnIds(A), NewOwn(A, new) PROVE OwnIds(C)
  <2>1. \A b \in DOMAIN A : \A i \in DOMAIN A[b] : <<b, i>> \in Places(A)
    BY InPlaces
  <2>2. \A b \in DOMAIN A : \A i \in DOMAIN A[b] : \A c \in IdsIn(new[<<b, i>>]) :
          \E z \in ToSet(new[<<b, i>>]) : z.id = c
    BY DEF IdsIn
  <2>3. \A b \in DOMAIN A : \A x \in ToSet(A[b]) : x.id \in IdsIn(A[b])
    BY DEF IdsIn
  <2>4. ASSUME NEW b \in DOMAIN A, NEW c, InOrder(C[b], c, c) PROVE FALSE
    <3>1. ~ InOrder(A[b], c, c)
      BY <1>4 DEF OwnIds
    <3>2. \A i \in DOMAIN A[b] : ~ InOrder(new[<<b, i>>], c, c)
      BY <1>4, <2>1 DEF NewOwn
    <3>3. ~ (c \in IdsIn(A[b]) /\ \E i \in DOMAIN A[b] : c \in IdsIn(new[<<b, i>>]))
      <4>1. ASSUME c \in IdsIn(A[b]), NEW i \in DOMAIN A[b], c \in IdsIn(new[<<b, i>>])
            PROVE  FALSE
        <5>1. PICK z \in ToSet(new[<<b, i>>]) : z.id = c
          BY <2>2, <4>1
        <5> QED
          BY <1>4, <2>1, <4>1, <5>1 DEF NewOwn
      <4> QED
        BY <4>1
    <3>4. ASSUME NEW i \in DOMAIN A[b], NEW j \in DOMAIN A[b], i < j,
                 c \in IdsIn(new[<<b, i>>]), c \in IdsIn(new[<<b, j>>])
          PROVE  FALSE
      <4>1. PICK y \in ToSet(new[<<b, i>>]) : y.id = c
        BY <2>2, <3>4
      <4>2. PICK z \in ToSet(new[<<b, j>>]) : z.id = c
        BY <2>2, <3>4
      <4>3. <<b, i>> = <<b, j>>
        BY <1>4, <2>1, <4>1, <4>2 DEF NewOwn
      <4>4. i = j
        BY <4>3
      <4>5. A[b] \in Seq(ToSet(A[b]))
        BY DEF IsCode, IsBlock
      <4>6. i \in Nat
        BY <4>5
      <4> QED
        BY <3>4, <4>4, <4>6
    <3> QED
      BY <1>2, <2>4, <3>1, <3>2, <3>3, <3>4
  <2>5. ASSUME NEW b \in DOMAIN A, NEW e \in DOMAIN A, NEW x \in ToSet(C[b]),
               NEW y \in ToSet(C[e]), x.id = y.id
        PROVE  b = e /\ x = y
    <3>1. x \in ToSet(A[b]) \/ \E i \in DOMAIN A[b] : x \in ToSet(new[<<b, i>>])
      BY <1>2
    <3>2. y \in ToSet(A[e]) \/ \E i \in DOMAIN A[e] : y \in ToSet(new[<<e, i>>])
      BY <1>2
    <3>3. CASE x \in ToSet(A[b]) /\ y \in ToSet(A[e])
      BY <1>4, <2>5, <3>3 DEF OwnIds
    <3>4. CASE x \in ToSet(A[b]) /\ \E i \in DOMAIN A[e] : y \in ToSet(new[<<e, i>>])
      <4>1. x.id \in IdsIn(A[b])
        BY <2>3, <3>4
      <4> QED
        BY <1>4, <2>1, <2>5, <3>4, <4>1 DEF NewOwn
    <3>5. CASE y \in ToSet(A[e]) /\ \E i \in DOMAIN A[b] : x \in ToSet(new[<<b, i>>])
      <4>1. y.id \in IdsIn(A[e])
        BY <2>3, <3>5
      <4> QED
        BY <1>4, <2>1, <2>5, <3>5, <4>1 DEF NewOwn
    <3>6. ASSUME NEW i \in DOMAIN A[b], x \in ToSet(new[<<b, i>>]),
                 NEW j \in DOMAIN A[e], y \in ToSet(new[<<e, j>>])
          PROVE  b = e /\ x = y
      <4>1. <<b, i>> = <<e, j>> /\ x = y
        BY <1>4, <2>1, <2>5, <3>6 DEF NewOwn
      <4> QED
        BY <4>1
    <3> QED
      BY <3>1, <3>2, <3>3, <3>4, <3>5, <3>6
  <2> QED
    BY <1>1, <2>4, <2>5 DEF OwnIds
<1> QED
  BY <1>3, <1>4 DEF C

(* Each place is given a slot, another instruction, and a list of them, as *)
(* far as they belong there.                                               *)
Three(c, a, e, y, list) == (When(c, a) \o When(e, y)) \o list

LEMMA WhenIds ==
  ASSUME NEW c \in BOOLEAN, NEW x, NEW i, NEW j
  PROVE  ~ InOrder(When(c, x), i, j) /\ (i \in IdsIn(When(c, x)) <=> c /\ i = x.id)
<1>1. CASE c
  <2>1. When(c, x) = <<x>>
    BY <1>1 DEF When
  <2>2. ~ InOrder(<<x>>, i, j) /\ IdsIn(<<x>>) = {x.id}
    BY OrderShort
  <2> QED
    BY <1>1, <2>1, <2>2
<1>2. CASE ~ c
  <2>1. When(c, x) = <<>>
    BY <1>2 DEF When
  <2>2. ~ InOrder(<<>>, i, j) /\ IdsIn(<<>>) = {}
    BY OrderShort
  <2> QED
    BY <1>2, <2>1, <2>2
<1> QED
  BY <1>1, <1>2

LEMMA ThreeIs ==
  ASSUME NEW S, NEW c \in BOOLEAN, NEW e \in BOOLEAN, NEW a \in S, NEW y \in S,
         NEW list \in Seq(S)
  PROVE  /\ Three(c, a, e, y, list) \in Seq(S)
         /\ \A z : z \in ToSet(Three(c, a, e, y, list))
                     <=> (c /\ z = a) \/ (e /\ z = y) \/ z \in ToSet(list)
         /\ \A i, j : InOrder(Three(c, a, e, y, list), i, j) <=>
              \/ c /\ e /\ i = a.id /\ j = y.id
              \/ c /\ i = a.id /\ j \in IdsIn(list)
              \/ e /\ i = y.id /\ j \in IdsIn(list)
              \/ InOrder(list, i, j)
<1> DEFINE s == When(c, a)
           t == When(e, y)
           u == s \o t
<1>1. s \in Seq(S) /\ t \in Seq(S)
  BY DEF When
<1>2. /\ \A z : z \in ToSet(s) <=> c /\ z = a
      /\ \A z : z \in ToSet(t) <=> e /\ z = y
  BY ToSetOne, ToSetEmpty DEF When
<1>3. \A i, j : /\ ~ InOrder(s, i, j) /\ ~ InOrder(t, i, j)
                /\ i \in IdsIn(s) <=> c /\ i = a.id
                /\ i \in IdsIn(t) <=> e /\ i = y.id
  BY WhenIds
<1> HIDE DEF s, t
<1>4. u \in Seq(S) /\ ToSet(u) = ToSet(s) \cup ToSet(t)
  BY <1>1, ToSetConcat
<1>5. \A i, j : /\ InOrder(u, i, j) <=>
                     InOrder(s, i, j) \/ InOrder(t, i, j) \/ (i \in IdsIn(s) /\ j \in IdsIn(t))
                /\ IdsIn(u) = IdsIn(s) \cup IdsIn(t)
  BY <1>1, OrderConcat
<1> HIDE DEF u
<1>6. u \o list \in Seq(S) /\ ToSet(u \o list) = ToSet(u) \cup ToSet(list)
  BY <1>4, ToSetConcat
<1>7. \A i, j : InOrder(u \o list, i, j) <=>
        InOrder(u, i, j) \/ InOrder(list, i, j) \/ (i \in IdsIn(u) /\ j \in IdsIn(list))
  BY <1>4, OrderConcat
<1>8. Three(c, a, e, y, list) = u \o list
  BY DEF Three, u, s, t
<1>9. \A z : z \in ToSet(u \o list) <=> (c /\ z = a) \/ (e /\ z = y) \/ z \in ToSet(list)
  BY <1>2, <1>4, <1>6
<1>10. \A i, j : InOrder(u \o list, i, j) <=>
              \/ c /\ e /\ i = a.id /\ j = y.id
              \/ c /\ i = a.id /\ j \in IdsIn(list)
              \/ e /\ i = y.id /\ j \in IdsIn(list)
              \/ InOrder(list, i, j)
  BY <1>3, <1>5, <1>7
<1> QED
  BY <1>6, <1>8, <1>9, <1>10

-----------------------------------------------------------------------------
(* What holds of a function whatever has been demoted of it.               *)

(* The kinds that have no operands.                                        *)
Bare == {"alloca", "load"}

(* Identities with these numbers have been given to something.             *)
Old(id, n, k, t) ==
  /\ id[1] = "slot" => id[2] \in 0..(n - 1)
  /\ id[1] \in {"store", "reload"} => id[2][2] \in 0..(n - 1)
  /\ id[1] = "point" => id[2] \in 0..k
  /\ id[1] = "puts" => id[3] \in 0..(t - 1)
AllOld(A, n, k, t) == \A b \in DOMAIN A : \A x \in ToSet(A[b]) : Old(x.id, n, k, t)

(* What an instruction looks like, by its kind.                            *)
Numbered(x) == \E m \in Nat : DOMAIN x.args = 1..m

LEMMA NumberedIs ==
  ASSUME NEW x, NEW y
  PROVE  /\ DOMAIN x.args = {} => Numbered(x)
         /\ DOMAIN x.args = {1} => Numbered(x)
         /\ DOMAIN x.args = DOMAIN y.args /\ Numbered(y) => Numbered(x)
<1>1. 1..0 = {} /\ 1..1 = {1} /\ 0 \in Nat /\ 1 \in Nat
  OBVIOUS
<1>2. DOMAIN x.args = {} => Numbered(x)
  BY <1>1 DEF Numbered
<1>3. DOMAIN x.args = {1} => Numbered(x)
  BY <1>1 DEF Numbered
<1>4. DOMAIN x.args = DOMAIN y.args /\ Numbered(y) => Numbered(x)
  BY DEF Numbered
<1> QED
  BY <1>2, <1>3, <1>4

Shaped(x) ==
  /\ Numbered(x)
  /\ x.kind \in Bare => DOMAIN x.args = {}
  /\ x.kind = "alloca" => x = Alloca(x.id)
  /\ x.kind = "phi" => DOMAIN x.args = DOMAIN x.blocks
Shapes(A) == \A b \in DOMAIN A : \A x \in ToSet(A[b]) : Shaped(x)

(* Each slot that is not a global has its alloca in the entry block,       *)
(* before its uses there.                                                  *)
Homes(A, gs) ==
  \A b \in DOMAIN A : \A x \in ToSet(A[b]) :
    x.kind \in Slots /\ x.ref \notin gs =>
      Alloca(x.ref) \in ToSet(A[1]) /\ (b = 1 => InOrder(A[1], x.ref, x.id))

(* The insertion point is before all but allocas and loads.                *)
PointAt(A, pt) ==
  /\ \E x \in ToSet(A[1]) : x.id = pt /\ x.kind = "point"
  /\ \A x \in ToSet(A[1]) : x.kind \notin Bare => x.id = pt \/ InOrder(A[1], pt, x.id)

(* What may be put before place q for the slot, when pp is the insertion   *)
(* point.                                                                  *)
MayPut(A, n, k, t, slot, pp, q, z) ==
  /\ Numbered(z)
  /\ z.kind \in Slots /\ z.ref = slot /\ (z.kind = "load" => DOMAIN z.args = {})
  /\ \A b \in DOMAIN A : z.id \notin IdsIn(A[b])
  /\ Old(z.id, n + 1, k, t) /\ z.id # slot
  /\ q[1] = 1 => pp[2] <= q[2] /\ (z.kind = "store" => pp[2] < q[2])

Puts3(A, n, k, t, slot, pp, qq, y, lists) ==
  /\ pp \in Places(A) /\ pp[1] = 1 /\ qq \in Places(A)
  /\ MayPut(A, n, k, t, slot, pp, qq, y)
  /\ \A q \in Places(A) : lists[q] \in Seq(ToSet(lists[q]))
  /\ \A q \in Places(A) : \A z \in ToSet(lists[q]) :
       MayPut(A, n, k, t, slot, pp, q, z) /\ z.id # y.id
  /\ \A q \in Places(A) : \A c : ~ InOrder(lists[q], c, c)
  /\ \A q, r \in Places(A) : \A u \in ToSet(lists[q]), v \in ToSet(lists[r]) :
       u.id = v.id => q = r /\ u = v

(* The new instructions of a demotion: the alloca at pp, the store y at    *)
(* qq, what lists has elsewhere.                                           *)
NewFor(A, slot, pp, qq, y, lists) ==
  [q \in Places(A) |-> Three(q = pp, Alloca(slot), q = qq, y, lists[q])]

LEMMA PutThree ==
  ASSUME NEW A, IsCode(A), OwnIds(A), NEW n \in Nat, NEW k, NEW t, NEW slot,
         slot = <<"slot", n>>, AllOld(A, n, k, t), NEW pp, NEW qq, NEW y, NEW lists,
         Puts3(A, n, k, t, slot, pp, qq, y, lists)
  PROVE  /\ IsPut(A, NewFor(A, slot, pp, qq, y, lists),
                  PutBefore(A, NewFor(A, slot, pp, qq, y, lists)))
         /\ OwnIds(PutBefore(A, NewFor(A, slot, pp, qq, y, lists)))
         /\ \A q \in Places(A) :
              /\ \A z : z \in ToSet(NewFor(A, slot, pp, qq, y, lists)[q])
                          <=> (q = pp /\ z = Alloca(slot)) \/ (q = qq /\ z = y)
                                \/ z \in ToSet(lists[q])
              /\ \A z \in ToSet(NewFor(A, slot, pp, qq, y, lists)[q]) :
                   q = pp /\ z.id # slot =>
                     InOrder(NewFor(A, slot, pp, qq, y, lists)[q], slot, z.id)
<1> DEFINE new == NewFor(A, slot, pp, qq, y, lists)
           a == Alloca(slot)
           N == {a, y} \cup UNION {ToSet(lists[q]) : q \in Places(A)}
<1>1. \A q \in Places(A) : lists[q] \in Seq(N)
  <2>1. ASSUME NEW q \in Places(A) PROVE lists[q] \in Seq(N)
    <3>1. lists[q] \in Seq(ToSet(lists[q])) /\ ToSet(lists[q]) \subseteq N
      BY DEF Puts3
    <3> HIDE DEF N
    <3> QED
      BY <3>1, SeqWidens
  <2> QED
    BY <2>1
<1>2. a \in N /\ y \in N /\ a.id = slot
  BY DEF Alloca, Inst
<1> HIDE DEF N, a
<1>3. ASSUME NEW q \in Places(A)
      PROVE  /\ new[q] \in Seq(N)
             /\ \A z : z \in ToSet(new[q])
                         <=> (q = pp /\ z = a) \/ (q = qq /\ z = y) \/ z \in ToSet(lists[q])
             /\ \A i, j : InOrder(new[q], i, j) <=>
                  \/ q = pp /\ q = qq /\ i = slot /\ j = y.id
                  \/ q = pp /\ i = slot /\ j \in IdsIn(lists[q])
                  \/ q = qq /\ i = y.id /\ j \in IdsIn(lists[q])
                  \/ InOrder(lists[q], i, j)
  <2>1. new[q] = Three(q = pp, a, q = qq, y, lists[q])
    BY DEF NewFor, a
  <2> DEFINE l == lists[q]
             c == (q = pp)
             e == (q = qq)
  <2>2. l \in Seq(N) /\ c \in BOOLEAN /\ e \in BOOLEAN
    BY <1>1
  <2> HIDE DEF l, c, e, new
  <2>20. a \in N /\ y \in N
    BY <1>2
  <2>21. Three(c, a, e, y, l) \in Seq(N)
    BY <2>2, <2>20, ThreeIs
  <2>22. \A z : z \in ToSet(Three(c, a, e, y, l))
                  <=> (c /\ z = a) \/ (e /\ z = y) \/ z \in ToSet(l)
    BY <2>2, <2>20, ThreeIs
  <2>3. \A i, j : InOrder(Three(c, a, e, y, l), i, j) <=>
              \/ c /\ e /\ i = a.id /\ j = y.id
              \/ c /\ i = a.id /\ j \in IdsIn(l)
              \/ e /\ i = y.id /\ j \in IdsIn(l)
              \/ InOrder(l, i, j)
    BY <2>2, <2>20, ThreeIs
  <2>4. new[q] = Three(c, a, e, y, l)
    BY <2>1 DEF c, e, l
  <2> QED
    BY <1>2, <2>21, <2>22, <2>3, <2>4 DEF c, e, l
<1> HIDE DEF new
<1>4. \A b \in DOMAIN A : slot \notin IdsIn(A[b])
  <2>1. ASSUME NEW b \in DOMAIN A, NEW x \in ToSet(A[b]), x.id = slot PROVE FALSE
    <3>1. Old(slot, n, k, t)
      BY <2>1 DEF AllOld
    <3>2. slot[1] = "slot" /\ slot[2] = n
      OBVIOUS
    <3> QED
      BY <3>1, <3>2 DEF Old
  <2> QED
    BY <2>1 DEF IdsIn
<1>5. \A q \in Places(A) : \A z \in ToSet(lists[q]) : z.id \in IdsIn(lists[q])
  BY DEF IdsIn
<1>6. NewOwn(A, new)
  <2>1. ASSUME NEW q \in Places(A), NEW c, InOrder(new[q], c, c) PROVE FALSE
    <3>1. slot # y.id /\ slot \notin IdsIn(lists[q]) /\ y.id \notin IdsIn(lists[q])
      BY DEF Puts3, MayPut, IdsIn
    <3>2. ~ InOrder(lists[q], c, c)
      BY DEF Puts3
    <3> QED
      BY <1>3, <2>1, <3>1, <3>2
  <2>2. ASSUME NEW q \in Places(A), NEW r \in Places(A), NEW u \in ToSet(new[q]),
               NEW v \in ToSet(new[r]), u.id = v.id
        PROVE  q = r /\ u = v
    <3>1. /\ (q = pp /\ u = a) \/ (q = qq /\ u = y) \/ u \in ToSet(lists[q])
          /\ (r = pp /\ v = a) \/ (r = qq /\ v = y) \/ v \in ToSet(lists[r])
      BY <1>3
    <3>2. /\ y.id # slot
          /\ u \in ToSet(lists[q]) => u.id # slot /\ u.id # y.id
          /\ v \in ToSet(lists[r]) => v.id # slot /\ v.id # y.id
          /\ u \in ToSet(lists[q]) /\ v \in ToSet(lists[r]) => q = r /\ u = v
      BY <2>2 DEF Puts3, MayPut
    <3> QED
      BY <1>2, <2>2, <3>1, <3>2
  <2>3. ASSUME NEW q \in Places(A), NEW z \in ToSet(new[q]), NEW b \in DOMAIN A
        PROVE  z.id \notin IdsIn(A[b])
    <3>1. (q = pp /\ z = a) \/ (q = qq /\ z = y) \/ z \in ToSet(lists[q])
      BY <1>3
    <3>2. CASE z = a
      BY <1>2, <1>4, <3>2
    <3>3. CASE z = y
      BY <3>3 DEF Puts3, MayPut
    <3>4. CASE z \in ToSet(lists[q])
      BY <3>4 DEF Puts3, MayPut
    <3> QED
      BY <3>1, <3>2, <3>3, <3>4
  <2> QED
    BY <2>1, <2>2, <2>3 DEF NewOwn
<1>7. IsPut(A, new, PutBefore(A, new)) /\ OwnIds(PutBefore(A, new))
  BY <1>3, <1>6, PutIs
<1>8. ASSUME NEW q \in Places(A), NEW z \in ToSet(new[q]), q = pp, z.id # slot
      PROVE  InOrder(new[q], slot, z.id)
  BY <1>2, <1>3, <1>5, <1>8
<1> QED
  BY <1>3, <1>7, <1>8 DEF new, a

LEMMA OldGrows ==
  ASSUME NEW id, NEW n \in Nat, NEW k, NEW t, Old(id, n, k, t)
  PROVE  Old(id, n + 1, k, t)
<1>1. \A m : m \in 0..(n - 1) => m \in 0..((n + 1) - 1)
  OBVIOUS
<1> QED
  BY <1>1 DEF Old

(* What is where when the slot has been made.                              *)
PutFacts(A, C, slot, qq, y, lists) ==
  /\ DOMAIN C = DOMAIN A
  /\ \A b \in DOMAIN A :
       /\ \A z \in ToSet(C[b]) :
            \/ z \in ToSet(A[b]) \/ (b = 1 /\ z = Alloca(slot)) \/ (b = qq[1] /\ z = y)
            \/ \E i \in DOMAIN A[b] : z \in ToSet(lists[<<b, i>>])
       /\ ToSet(A[b]) \subseteq ToSet(C[b])
       /\ \A c, d : InOrder(A[b], c, d) => InOrder(C[b], c, d)
  /\ Alloca(slot) \in ToSet(C[1]) /\ y \in ToSet(C[qq[1]])
  /\ \A j \in DOMAIN A[qq[1]] :
       /\ qq[2] <= j => InOrder(C[qq[1]], y.id, A[qq[1]][j].id)
       /\ j < qq[2] => InOrder(C[qq[1]], A[qq[1]][j].id, y.id)
  /\ \A q \in Places(A) : \A z \in ToSet(lists[q]) :
       /\ z \in ToSet(C[q[1]])
       /\ \A j \in DOMAIN A[q[1]] :
            /\ q[2] <= j => InOrder(C[q[1]], z.id, A[q[1]][j].id)
            /\ j < q[2] => InOrder(C[q[1]], A[q[1]][j].id, z.id)

LEMMA SlotKeeps ==
  ASSUME NEW A, IsCode(A), OwnIds(A), NEW n \in Nat, NEW k, NEW t, NEW slot,
         slot = <<"slot", n>>, AllOld(A, n, k, t), NEW pp, NEW qq, NEW y, NEW lists,
         Puts3(A, n, k, t, slot, pp, qq, y, lists),
         Shapes(A), NEW gs, Homes(A, gs), NEW pt, PointAt(A, pt), InstAt(A, pp).id = pt,
         NEW C, C = PutBefore(A, NewFor(A, slot, pp, qq, y, lists))
  PROVE  /\ PutFacts(A, C, slot, qq, y, lists)
         /\ OwnIds(C) /\ AllOld(C, n + 1, k, t) /\ Shapes(C) /\ Homes(C, gs)
         /\ PointAt(C, pt)
<1> DEFINE new == NewFor(A, slot, pp, qq, y, lists)
           a == Alloca(slot)
<1>1. /\ IsPut(A, new, C) /\ OwnIds(C)
      /\ \A q \in Places(A) :
           /\ \A z : z \in ToSet(new[q]) <=> (q = pp /\ z = a) \/ (q = qq /\ z = y)
                                               \/ z \in ToSet(lists[q])
           /\ \A z \in ToSet(new[q]) : q = pp /\ z.id # slot => InOrder(new[q], slot, z.id)
  BY PutThree
<1>2. a.id = slot /\ a.kind = "alloca" /\ DOMAIN a.args = {} /\ a = Alloca(a.id)
  BY DEF Alloca, Inst
<1>3. /\ pp \in Places(A) /\ pp[1] = 1 /\ qq \in Places(A)
      /\ MayPut(A, n, k, t, slot, pp, qq, y)
      /\ \A q \in Places(A) : \A z \in ToSet(lists[q]) : MayPut(A, n, k, t, slot, pp, q, z)
  BY DEF Puts3
<1>4. /\ pp = <<1, pp[2]>> /\ 1 \in DOMAIN A /\ pp[2] \in DOMAIN A[1] /\ A[1][pp[2]].id = pt
      /\ qq = <<qq[1], qq[2]>> /\ qq[1] \in DOMAIN A /\ qq[2] \in DOMAIN A[qq[1]]
  BY <1>3, PlacePair
<1> HIDE DEF new, a
<1>5. \A b \in DOMAIN A : \A z \in ToSet(C[b]) :
        \/ z \in ToSet(A[b]) \/ (b = 1 /\ z = a) \/ (b = qq[1] /\ z = y)
        \/ \E i \in DOMAIN A[b] : z \in ToSet(lists[<<b, i>>])
  <2>1. ASSUME NEW b \in DOMAIN A, NEW i \in DOMAIN A[b], NEW z \in ToSet(new[<<b, i>>])
        PROVE  (b = 1 /\ z = a) \/ (b = qq[1] /\ z = y) \/ z \in ToSet(lists[<<b, i>>])
    <3>1. <<b, i>> \in Places(A)
      BY InPlaces
    <3>2. (<<b, i>> = pp /\ z = a) \/ (<<b, i>> = qq /\ z = y) \/ z \in ToSet(lists[<<b, i>>])
      BY <1>1, <3>1
    <3>3. <<b, i>> = pp => b = 1
      BY <1>3
    <3>4. <<b, i>> = qq => b = qq[1]
      BY <1>4
    <3> QED
      BY <3>2, <3>3, <3>4
  <2>2. ASSUME NEW b \in DOMAIN A, NEW z \in ToSet(C[b])
        PROVE  z \in ToSet(A[b]) \/ \E i \in DOMAIN A[b] : z \in ToSet(new[<<b, i>>])
    BY <1>1 DEF IsPut
  <2> QED
    BY <2>1, <2>2
<1>6. a \in ToSet(new[pp]) /\ y \in ToSet(new[qq])
  BY <1>1, <1>3
<1>7. \A q \in Places(A) : \A z \in ToSet(new[q]) :
        /\ z \in ToSet(C[q[1]])
        /\ \A j \in DOMAIN A[q[1]] :
             /\ q[2] <= j => InOrder(C[q[1]], z.id, A[q[1]][j].id)
             /\ j < q[2] => InOrder(C[q[1]], A[q[1]][j].id, z.id)
  <2>1. ASSUME NEW q \in Places(A), NEW z \in ToSet(new[q])
        PROVE  /\ z \in ToSet(C[q[1]])
               /\ \A j \in DOMAIN A[q[1]] :
                    /\ q[2] <= j => InOrder(C[q[1]], z.id, A[q[1]][j].id)
                    /\ j < q[2] => InOrder(C[q[1]], A[q[1]][j].id, z.id)
    <3>1. q = <<q[1], q[2]>> /\ q[1] \in DOMAIN A /\ q[2] \in DOMAIN A[q[1]]
      BY PlacePair
    <3> DEFINE b == q[1]
               i == q[2]
    <3>2. b \in DOMAIN A /\ i \in DOMAIN A[b] /\ z \in ToSet(new[<<b, i>>])
      BY <3>1
    <3> HIDE DEF b, i
    <3>3. z \in ToSet(C[b])
      BY <1>1, <3>2 DEF IsPut
    <3>4. ASSUME NEW j \in DOMAIN A[b]
          PROVE  /\ i <= j => InOrder(C[b], z.id, A[b][j].id)
                 /\ j < i => InOrder(C[b], A[b][j].id, z.id)
      BY <1>1, <3>2 DEF IsPut
    <3> QED
      BY <3>3, <3>4 DEF b, i
  <2> QED
    BY <2>1
<1>8. \A b \in DOMAIN A : /\ ToSet(A[b]) \subseteq ToSet(C[b])
                          /\ \A c, d : InOrder(A[b], c, d) => InOrder(C[b], c, d)
  BY <1>1 DEF IsPut
<1>9. DOMAIN C = DOMAIN A
  BY <1>1 DEF IsPut
<1>10. PutFacts(A, C, slot, qq, y, lists)
  <2>1. a \in ToSet(C[1]) /\ y \in ToSet(C[qq[1]])
    BY <1>3, <1>6, <1>7
  <2>2. \A q \in Places(A) : ToSet(lists[q]) \subseteq ToSet(new[q])
    BY <1>1
  <2> QED
    BY <1>3, <1>5, <1>6, <1>7, <1>8, <1>9, <2>1, <2>2 DEF PutFacts, a
<1>11. \A b \in DOMAIN A : \A z \in ToSet(C[b]) :
         \/ z \in ToSet(A[b]) \/ z = a
         \/ \E q \in Places(A) : q[1] = b /\ z \in ToSet(new[q]) /\ MayPut(A, n, k, t, slot, pp, q, z)
  <2>1. ASSUME NEW b \in DOMAIN A, NEW z \in ToSet(C[b]), z \notin ToSet(A[b]), z # a
        PROVE  \E q \in Places(A) : q[1] = b /\ z \in ToSet(new[q])
                                      /\ MayPut(A, n, k, t, slot, pp, q, z)
    <3>1. CASE b = qq[1] /\ z = y
      BY <1>3, <1>6, <3>1
    <3>2. ASSUME NEW i \in DOMAIN A[b], z \in ToSet(lists[<<b, i>>])
          PROVE  \E q \in Places(A) : q[1] = b /\ z \in ToSet(new[q])
                                        /\ MayPut(A, n, k, t, slot, pp, q, z)
      <4>1. <<b, i>> \in Places(A)
        BY InPlaces
      <4>2. z \in ToSet(new[<<b, i>>]) /\ MayPut(A, n, k, t, slot, pp, <<b, i>>, z)
        BY <1>1, <1>3, <3>2, <4>1
      <4>3. <<b, i>>[1] = b
        OBVIOUS
      <4> QED
        BY <4>1, <4>2, <4>3
    <3> QED
      BY <1>5, <2>1, <3>1, <3>2
  <2> QED
    BY <2>1
<1>12. AllOld(C, n + 1, k, t)
  <2>1. ASSUME NEW b \in DOMAIN A, NEW z \in ToSet(C[b]) PROVE Old(z.id, n + 1, k, t)
    <3>1. CASE z \in ToSet(A[b])
      <4>1. Old(z.id, n, k, t)
        BY <3>1 DEF AllOld
      <4> QED
        BY <4>1, OldGrows
    <3>2. CASE z = a
      <4>1. z.id[1] = "slot" /\ z.id[2] = n
        BY <1>2, <3>2
      <4> QED
        BY <4>1 DEF Old
    <3> QED
      BY <1>11, <3>1, <3>2 DEF MayPut
  <2> QED
    BY <1>9, <2>1 DEF AllOld
<1>13. Shapes(C)
  <2>1. ASSUME NEW b \in DOMAIN A, NEW z \in ToSet(C[b]) PROVE Shaped(z)
    <3>1. CASE z \in ToSet(A[b])
      BY <3>1 DEF Shapes
    <3>2. CASE z = a
      BY <1>2, <3>2, NumberedIs DEF Shaped, Bare
    <3>3. CASE \E q \in Places(A) : MayPut(A, n, k, t, slot, pp, q, z)
      BY <3>3 DEF MayPut, Shaped, Bare, Slots
    <3> QED
      BY <1>11, <3>1, <3>2, <3>3
  <2> QED
    BY <1>9, <2>1 DEF Shapes
<1>14. ASSUME NEW q \in Places(A), q[1] = 1, NEW z \in ToSet(new[q]),
              MayPut(A, n, k, t, slot, pp, q, z)
       PROVE  /\ InOrder(C[1], slot, z.id)
              /\ z.kind \notin Bare => InOrder(C[1], pt, z.id)
  <2>1. /\ q = <<1, q[2]>> /\ q[2] \in DOMAIN A[1] /\ z.id # slot
        /\ pp[2] <= q[2] /\ (z.kind \notin Bare => pp[2] < q[2])
    BY <1>14, PlacePair DEF MayPut, Bare, Slots
  <2>2. A[1] \in Seq(ToSet(A[1]))
    BY <1>4 DEF IsCode, IsBlock
  <2>3. q[2] \in Nat /\ pp[2] \in Nat
    BY <1>4, <2>1, <2>2
  <2>4. CASE q = pp
    <3>1. InOrder(new[q], slot, z.id)
      BY <1>1, <2>1, <2>4
    <3>2. InOrder(C[1], slot, z.id)
      BY <1>1, <1>4, <2>1, <3>1 DEF IsPut
    <3>3. ~ (pp[2] < q[2])
      BY <2>3, <2>4
    <3> QED
      BY <2>1, <3>2, <3>3
  <2>5. CASE q # pp
    <3>1. pp[2] # q[2]
      BY <1>4, <2>1, <2>5
    <3>2. pp[2] < q[2]
      BY <2>1, <2>3, <3>1
    <3>3. a \in ToSet(new[<<1, pp[2]>>]) /\ z \in ToSet(new[<<1, q[2]>>])
      BY <1>4, <1>6, <2>1
    <3>4. InOrder(C[1], a.id, z.id)
      BY <1>1, <1>4, <2>1, <3>2, <3>3 DEF IsPut
    <3>5. InOrder(C[1], A[1][pp[2]].id, z.id)
      BY <1>1, <1>4, <2>1, <3>2, <3>3 DEF IsPut
    <3> QED
      BY <1>2, <1>4, <3>4, <3>5
  <2> QED
    BY <2>4, <2>5
<1>15. Homes(C, gs)
  <2>1. ASSUME NEW b \in DOMAIN A, NEW z \in ToSet(C[b]), z.kind \in Slots, z.ref \notin gs
        PROVE  Alloca(z.ref) \in ToSet(C[1]) /\ (b = 1 => InOrder(C[1], z.ref, z.id))
    <3>1. CASE z \in ToSet(A[b])
      <4>1. Alloca(z.ref) \in ToSet(A[1]) /\ (b = 1 => InOrder(A[1], z.ref, z.id))
        BY <2>1, <3>1 DEF Homes
      <4> QED
        BY <1>4, <1>8, <4>1
    <3>2. z # a
      BY <1>2, <2>1 DEF Slots
    <3>3. ASSUME NEW q \in Places(A), q[1] = b, z \in ToSet(new[q]),
                 MayPut(A, n, k, t, slot, pp, q, z)
          PROVE  Alloca(z.ref) \in ToSet(C[1]) /\ (b = 1 => InOrder(C[1], z.ref, z.id))
      <4>1. z.ref = slot /\ a \in ToSet(C[1])
        BY <1>3, <1>6, <1>7, <3>3 DEF MayPut
      <4> QED
        BY <1>14, <3>3, <4>1 DEF a
    <3> QED
      BY <1>11, <3>1, <3>2, <3>3
  <2> QED
    BY <1>9, <2>1 DEF Homes
<1>16. PointAt(C, pt)
  <2>1. \E x \in ToSet(C[1]) : x.id = pt /\ x.kind = "point"
    BY <1>4, <1>8 DEF PointAt
  <2>2. ASSUME NEW z \in ToSet(C[1]), z.kind \notin Bare
        PROVE  z.id = pt \/ InOrder(C[1], pt, z.id)
    <3>1. CASE z \in ToSet(A[1])
      BY <1>4, <1>8, <2>2, <3>1 DEF PointAt
    <3>2. z # a
      BY <1>2, <2>2 DEF Bare
    <3> QED
      BY <1>4, <1>11, <1>14, <2>2, <3>1, <3>2
  <2> QED
    BY <2>1, <2>2 DEF PointAt
<1> QED
  BY <1>1, <1>10, <1>12, <1>13, <1>15, <1>16

(* What holds of a function at any time, when n slots and k insertion      *)
(* points have been made, it has been traced t times and the slots gs are  *)
(* globals.                                                                *)
Sound(A, n, k, t, gs) == OwnIds(A) /\ AllOld(A, n, k, t) /\ Shapes(A) /\ Homes(A, gs)

LEMMA BlockSeq ==
  ASSUME NEW A, IsCode(A), NEW b \in DOMAIN A
  PROVE  /\ A[b] \in Seq(ToSet(A[b])) /\ A[b] # <<>> /\ Len(A[b]) \in DOMAIN A[b]
         /\ Len(A[b]) \in Nat /\ DOMAIN A[b] = 1..Len(A[b])
         /\ \A i \in DOMAIN A[b] : i \in Nat /\ i <= Len(A[b]) /\ A[b][i] \in ToSet(A[b])
         /\ Last(A[b]) = A[b][Len(A[b])]
<1>1. A[b] \in Seq(ToSet(A[b])) /\ A[b] # <<>>
  BY DEF IsCode, IsBlock
<1>2. \A i \in DOMAIN A[b] : A[b][i] \in ToSet(A[b])
  BY DEF ToSet
<1>3. Len(A[b]) \in Nat /\ DOMAIN A[b] = 1..Len(A[b]) /\ Len(A[b]) # 0
  BY <1>1
<1> QED
  BY <1>1, <1>2, <1>3 DEF Last

LEMMA ElementAt ==
  ASSUME NEW s, NEW x
  PROVE  x \in ToSet(s) <=> \E i \in DOMAIN s : s[i] = x
BY DEF ToSet

LEMMA OneIndex ==
  ASSUME NEW A, IsCode(A), OwnIds(A), NEW b \in DOMAIN A, NEW i \in DOMAIN A[b],
         NEW j \in DOMAIN A[b], A[b][i].id = A[b][j].id
  PROVE  i = j
<1>1. i \in Nat /\ j \in Nat
  BY BlockSeq
<1>2. ~ InOrder(A[b], A[b][i].id, A[b][i].id)
  BY DEF OwnIds
<1>3. ~ (i < j) /\ ~ (j < i)
  BY <1>2 DEF InOrder
<1> QED
  BY <1>1, <1>3

LEMMA OnePlace ==
  ASSUME NEW A, IsCode(A), OwnIds(A), NEW p \in Places(A), NEW q \in Places(A),
         InstAt(A, p).id = InstAt(A, q).id
  PROVE  p = q
<1>1. /\ p = <<p[1], p[2]>> /\ p[1] \in DOMAIN A /\ p[2] \in DOMAIN A[p[1]]
      /\ InstAt(A, p) = A[p[1]][p[2]]
  BY PlacePair
<1>2. /\ q = <<q[1], q[2]>> /\ q[1] \in DOMAIN A /\ q[2] \in DOMAIN A[q[1]]
      /\ InstAt(A, q) = A[q[1]][q[2]]
  BY PlacePair
<1>3. A[p[1]][p[2]] \in ToSet(A[p[1]]) /\ A[q[1]][q[2]] \in ToSet(A[q[1]])
  BY <1>1, <1>2, ElementAt
<1>4. p[1] = q[1]
  BY <1>1, <1>2, <1>3 DEF OwnIds
<1>5. p[2] = q[2]
  BY <1>1, <1>2, <1>4, OneIndex
<1> QED
  BY <1>1, <1>2, <1>4, <1>5

LEMMA PlaceOfIs ==
  ASSUME NEW A, IsCode(A), OwnIds(A), NEW p \in Places(A)
  PROVE  PlaceOf(A, InstAt(A, p).id) = p
<1> DEFINE id == InstAt(A, p).id
           q == PlaceOf(A, id)
<1>1. q \in Places(A) /\ InstAt(A, q).id = id
  BY DEF PlaceOf
<1> HIDE DEF q
<1>2. q = p
  BY <1>1, OnePlace
<1> QED
  BY <1>2 DEF q

LEMMA ElementPlace ==
  ASSUME NEW A, NEW b \in DOMAIN A, NEW x \in ToSet(A[b])
  PROVE  \E i \in DOMAIN A[b] : <<b, i>> \in Places(A) /\ InstAt(A, <<b, i>>) = x /\ A[b][i] = x
BY ElementAt, InPlaces

(* x is at place i of block b.                                             *)
IsAt(A, b, i, x) ==
  i \in DOMAIN A[b] /\ <<b, i>> \in Places(A) /\ InstAt(A, <<b, i>>) = x /\ A[b][i] = x

LEMMA HasPlace ==
  ASSUME NEW A, NEW b, b \in DOMAIN A, NEW x, x \in ToSet(A[b])
  PROVE  \E i : IsAt(A, b, i, x)
BY ElementPlace DEF IsAt

(* The places of the insertion point and after it.                         *)
PointIs(A, pt, i) ==
  /\ <<1, i>> \in Places(A) /\ InstAt(A, <<1, i>>).id = pt
  /\ <<1, i + 1>> \in Places(A) /\ i \in DOMAIN A[1] /\ i + 1 \in DOMAIN A[1] /\ i \in Nat
  /\ A[1][i].id = pt /\ A[1][i].kind = "point"
  /\ \A q \in Places(A) : /\ AtPoint(A, q, pt) <=> q = <<1, i>>
                          /\ AfterPoint(A, q, pt) <=> q = <<1, i + 1>>
  /\ \A j \in DOMAIN A[1] : A[1][j].kind \notin Bare => i <= j
  /\ i < Len(A[1])

LEMMA PointPlace ==
  ASSUME NEW A, IsCode(A), OwnIds(A), NEW pt, PointAt(A, pt),
         1 \in DOMAIN A, Last(A[1]).kind \in Terminators
  PROVE  \E i : PointIs(A, pt, i)
<1>1. PICK x \in ToSet(A[1]) : x.id = pt /\ x.kind = "point"
  BY DEF PointAt
<1>2. PICK i \in DOMAIN A[1] : <<1, i>> \in Places(A) /\ InstAt(A, <<1, i>>) = x /\ A[1][i] = x
  BY ElementPlace
<1>3. /\ Len(A[1]) \in DOMAIN A[1] /\ Len(A[1]) \in Nat /\ DOMAIN A[1] = 1..Len(A[1])
      /\ \A j \in DOMAIN A[1] : j \in Nat /\ j <= Len(A[1]) /\ A[1][j] \in ToSet(A[1])
      /\ Last(A[1]) = A[1][Len(A[1])]
  BY BlockSeq
<1>4. i # Len(A[1])
  BY <1>1, <1>2, <1>3 DEF Terminators
<1>5. i \in Nat /\ i + 1 \in DOMAIN A[1] /\ i < Len(A[1]) /\ i >= 1
  BY <1>3, <1>4
<1>6. <<1, i + 1>> \in Places(A)
  BY <1>5, InPlaces
<1>7. ASSUME NEW q \in Places(A) PROVE AtPoint(A, q, pt) <=> q = <<1, i>>
  BY <1>1, <1>2, OnePlace DEF AtPoint
<1>8. ASSUME NEW q \in Places(A) PROVE AfterPoint(A, q, pt) <=> q = <<1, i + 1>>
  <2>1. q = <<q[1], q[2]>> /\ q[1] \in DOMAIN A /\ q[2] \in DOMAIN A[q[1]]
    BY PlacePair
  <2>2. /\ q[2] \in Nat /\ DOMAIN A[q[1]] = 1..Len(A[q[1]]) /\ Len(A[q[1]]) \in Nat
    BY <2>1, BlockSeq
  <2>3. ASSUME AfterPoint(A, q, pt) PROVE q = <<1, i + 1>>
    <3>1. q[2] > 1 /\ AtPoint(A, <<q[1], q[2] - 1>>, pt)
      BY <2>3 DEF AfterPoint
    <3>2. q[2] - 1 \in DOMAIN A[q[1]]
      BY <2>1, <2>2, <3>1
    <3>3. <<q[1], q[2] - 1>> \in Places(A)
      BY <2>1, <3>2, InPlaces
    <3>4. <<q[1], q[2] - 1>> = <<1, i>>
      BY <1>7, <3>1, <3>3
    <3>5. q[1] = 1 /\ q[2] - 1 = i
      BY <3>4
    <3>6. q[2] = i + 1
      BY <2>2, <3>5
    <3> QED
      BY <2>1, <3>5, <3>6
  <2>4. ASSUME q = <<1, i + 1>> PROVE AfterPoint(A, q, pt)
    <3>1. q[1] = 1 /\ q[2] = i + 1
      BY <2>4
    <3>2. q[2] - 1 = i /\ q[2] > 1
      BY <1>5, <3>1
    <3>3. AtPoint(A, <<1, i>>, pt)
      BY <1>2, <1>7
    <3> QED
      BY <3>1, <3>2, <3>3 DEF AfterPoint
  <2> QED
    BY <2>3, <2>4
<1>9. ASSUME NEW j \in DOMAIN A[1], A[1][j].kind \notin Bare PROVE i <= j
  <2>1. A[1][j].id = pt \/ InOrder(A[1], pt, A[1][j].id)
    BY <1>3, <1>9 DEF PointAt
  <2>2. CASE A[1][j].id = pt
    <3>1. i = j
      BY <1>1, <1>2, <1>3, <2>2, OneIndex
    <3> QED
      BY <1>5, <3>1
  <2>3. CASE InOrder(A[1], pt, A[1][j].id)
    <3>1. PICK u, v \in DOMAIN A[1] : u < v /\ A[1][u].id = pt /\ A[1][v].id = A[1][j].id
      BY <2>3 DEF InOrder
    <3>2. u = i /\ v = j
      BY <1>1, <1>2, <1>3, <3>1, OneIndex
    <3> QED
      BY <1>3, <3>1, <3>2
  <2> QED
    BY <2>1, <2>2, <2>3
<1> QED
  BY <1>1, <1>2, <1>5, <1>6, <1>7, <1>8, <1>9 DEF PointIs

-----------------------------------------------------------------------------
(* Operands change and nothing else.                                       *)

(* R is A with other operands, as many of each instruction as before.      *)
Rewrites(A, R) ==
  /\ DOMAIN R = DOMAIN A
  /\ \A b \in DOMAIN A :
       /\ DOMAIN R[b] = DOMAIN A[b]
       /\ \A i \in DOMAIN A[b] :
            \/ R[b][i] = A[b][i]
            \/ \E args : /\ R[b][i] = WithArgs(A[b][i], args)
                         /\ args = [k \in DOMAIN A[b][i].args |-> args[k]]

LEMMA EmptyIs ==
  ASSUME NEW f, NEW g, f = [k \in DOMAIN g |-> f[k]], DOMAIN g = {}
  PROVE  f = <<>>
<1>1. DOMAIN f = {} /\ f = [k \in {} |-> f[k]]
  OBVIOUS
<1>2. <<>> = [k \in {} |-> f[k]]
  OBVIOUS
<1> QED
  BY <1>1, <1>2

LEMMA RewrittenInst ==
  ASSUME NEW A, NEW R, Rewrites(A, R), NEW b \in DOMAIN A, NEW i \in DOMAIN A[b]
  PROVE  /\ Alike(R[b][i], A[b][i])
         /\ DOMAIN R[b][i].args = DOMAIN A[b][i].args
         /\ Shaped(A[b][i]) => Shaped(R[b][i])
<1> DEFINE x == A[b][i]
           y == R[b][i]
<1>1. ASSUME y = x
      PROVE  Alike(y, x) /\ DOMAIN y.args = DOMAIN x.args /\ (Shaped(x) => Shaped(y))
  BY <1>1 DEF Alike
<1>2. ASSUME NEW args, y = WithArgs(x, args), args = [k \in DOMAIN x.args |-> args[k]]
      PROVE  /\ Alike(y, x) /\ DOMAIN y.args = DOMAIN x.args
             /\ Shaped(x) => Shaped(y)
  <2>1. Alike(y, x) /\ y.args = args
    BY <1>2 DEF Alike, WithArgs, Inst
  <2>2. DOMAIN y.args = DOMAIN x.args
    BY <1>2, <2>1
  <2>3. ASSUME Shaped(x) PROVE Shaped(y)
    <3>1. ASSUME x.kind = "alloca" PROVE y = Alloca(y.id)
      <4>1. DOMAIN x.args = {} /\ x = Alloca(x.id)
        BY <2>3, <3>1 DEF Shaped, Bare
      <4>2. args = <<>>
        BY <1>2, <4>1, EmptyIs
      <4>3. x.blocks = <<>> /\ x.ref = {}
        BY <4>1 DEF Alloca, Inst
      <4> QED
        BY <1>2, <2>1, <3>1, <4>2, <4>3 DEF Alloca, Inst, WithArgs, Alike
    <3> QED
      BY <2>1, <2>2, <2>3, <3>1, NumberedIs DEF Shaped, Alike
  <2> QED
    BY <2>1, <2>2, <2>3
<1>3. \/ y = x
      \/ \E args : y = WithArgs(x, args) /\ args = [k \in DOMAIN x.args |-> args[k]]
  BY DEF Rewrites
<1>4. SUFFICES Alike(y, x) /\ DOMAIN y.args = DOMAIN x.args /\ (Shaped(x) => Shaped(y))
  OBVIOUS
<1> HIDE DEF x, y
<1>5. CASE y = x
  BY <1>1, <1>5
<1>6. CASE \E args : y = WithArgs(x, args) /\ args = [k \in DOMAIN x.args |-> args[k]]
  <2>1. PICK args : y = WithArgs(x, args) /\ args = [k \in DOMAIN x.args |-> args[k]]
    BY <1>6
  <2> QED
    BY <1>2, <2>1
<1> QED
  BY <1>3, <1>5, <1>6

LEMMA RewriteKeeps ==
  ASSUME NEW A, IsCode(A), NEW R, Rewrites(A, R), NEW n, NEW k, NEW t, NEW gs,
         Sound(A, n, k, t, gs), NEW pt, PointAt(A, pt)
  PROVE  /\ Sound(R, n, k, t, gs) /\ PointAt(R, pt)
         /\ Places(R) = Places(A)
         /\ \A b \in DOMAIN A : \A c, d : InOrder(R[b], c, d) <=> InOrder(A[b], c, d)
         /\ \A b \in DOMAIN A : IdsIn(R[b]) = IdsIn(A[b])
<1>1. /\ DOMAIN R = DOMAIN A /\ \A b \in DOMAIN A : DOMAIN R[b] = DOMAIN A[b]
  BY DEF Rewrites
<1>2. \A b \in DOMAIN A : \A i \in DOMAIN A[b] :
        R[b][i].id = A[b][i].id /\ R[b][i].kind = A[b][i].kind /\ R[b][i].ref = A[b][i].ref
  BY RewrittenInst DEF Alike
<1>3. \A b \in DOMAIN A : \A i \in DOMAIN A[b] : Shaped(A[b][i]) => Shaped(R[b][i])
  BY RewrittenInst
<1>4. \A b \in DOMAIN A : \A y \in ToSet(R[b]) : \E i \in DOMAIN A[b] : y = R[b][i]
  BY <1>1, ElementAt
<1>5. \A b \in DOMAIN A : \A x \in ToSet(A[b]) : \E i \in DOMAIN A[b] : x = A[b][i]
  BY ElementAt
<1>6. \A b \in DOMAIN A : \A i \in DOMAIN A[b] : A[b][i] \in ToSet(A[b]) /\ R[b][i] \in ToSet(R[b])
  BY <1>1, ElementAt
<1>7. \A b \in DOMAIN A : \A c, d : InOrder(R[b], c, d) <=> InOrder(A[b], c, d)
  BY <1>1, <1>2 DEF InOrder
<1>8. \A b \in DOMAIN A : IdsIn(R[b]) = IdsIn(A[b])
  <2>1. \A b \in DOMAIN A : \A c : c \in IdsIn(R[b]) <=> c \in IdsIn(A[b])
    BY <1>1, <1>2, IdsAt
  <2> QED
    BY <2>1 DEF IdsIn
<1>9. OwnIds(R)
  <2>1. ASSUME NEW b \in DOMAIN A, NEW e \in DOMAIN A, NEW x \in ToSet(R[b]),
               NEW y \in ToSet(R[e]), x.id = y.id
        PROVE  b = e /\ x = y
    <3>1. PICK i \in DOMAIN A[b] : x = R[b][i]
      BY <1>4
    <3>2. PICK j \in DOMAIN A[e] : y = R[e][j]
      BY <1>4
    <3>3. A[b][i].id = A[e][j].id /\ A[b][i] \in ToSet(A[b]) /\ A[e][j] \in ToSet(A[e])
      BY <1>2, <1>6, <2>1, <3>1, <3>2
    <3>4. b = e
      BY <3>3 DEF Sound, OwnIds
    <3>5. i = j
      BY <3>3, <3>4, OneIndex DEF Sound
    <3> QED
      BY <3>1, <3>2, <3>4, <3>5
  <2> QED
    BY <1>1, <1>7, <2>1 DEF Sound, OwnIds
<1>10. AllOld(R, n, k, t)
  <2>1. ASSUME NEW b \in DOMAIN A, NEW y \in ToSet(R[b]) PROVE Old(y.id, n, k, t)
    BY <1>2, <1>4, <1>6 DEF Sound, AllOld
  <2> QED
    BY <1>1, <2>1 DEF AllOld
<1>11. Shapes(R)
  <2>1. ASSUME NEW b \in DOMAIN A, NEW y \in ToSet(R[b]) PROVE Shaped(y)
    BY <1>3, <1>4, <1>6 DEF Sound, Shapes
  <2> QED
    BY <1>1, <2>1 DEF Shapes
<1>12. Homes(R, gs)
  <2>1. ASSUME NEW b \in DOMAIN A, NEW y \in ToSet(R[b]), y.kind \in Slots, y.ref \notin gs
        PROVE  Alloca(y.ref) \in ToSet(R[1]) /\ (b = 1 => InOrder(R[1], y.ref, y.id))
    <3>1. PICK i \in DOMAIN A[b] : y = R[b][i]
      BY <1>4
    <3>2. /\ A[b][i].kind \in Slots /\ A[b][i].ref = y.ref /\ A[b][i].id = y.id
          /\ A[b][i] \in ToSet(A[b])
      BY <1>2, <1>6, <2>1, <3>1
    <3>3. Alloca(y.ref) \in ToSet(A[1]) /\ (b = 1 => InOrder(A[1], y.ref, y.id))
      BY <2>1, <3>2 DEF Sound, Homes
    <3>4. 1 \in DOMAIN A
      BY DEF IsCode
    <3>5. PICK j \in DOMAIN A[1] : A[1][j] = Alloca(y.ref)
      BY <3>3, <3>4, <1>5
    <3>6. A[1][j].kind = "alloca" /\ A[1][j].id = y.ref
      BY <3>5 DEF Alloca, Inst
    <3>7. Shaped(R[1][j]) /\ R[1][j].kind = "alloca" /\ R[1][j].id = y.ref
          /\ R[1][j] \in ToSet(R[1])
      BY <1>2, <1>3, <1>6, <3>4, <3>6 DEF Sound, Shapes
    <3> QED
      BY <1>7, <3>3, <3>4, <3>7 DEF Shaped
  <2> QED
    BY <1>1, <2>1 DEF Homes
<1>13. PointAt(R, pt)
  <2>1. 1 \in DOMAIN A
    BY DEF IsCode
  <2>2. \E x \in ToSet(R[1]) : x.id = pt /\ x.kind = "point"
    <3>1. PICK x \in ToSet(A[1]) : x.id = pt /\ x.kind = "point"
      BY DEF PointAt
    <3>2. PICK i \in DOMAIN A[1] : x = A[1][i]
      BY <1>5, <2>1
    <3> QED
      BY <1>2, <1>6, <2>1, <3>1, <3>2
  <2>3. ASSUME NEW y \in ToSet(R[1]), y.kind \notin Bare
        PROVE  y.id = pt \/ InOrder(R[1], pt, y.id)
    <3>1. PICK i \in DOMAIN A[1] : y = R[1][i]
      BY <1>4, <2>1
    <3>2. A[1][i].id = pt \/ InOrder(A[1], pt, A[1][i].id)
      BY <1>2, <1>6, <2>1, <2>3, <3>1 DEF PointAt
    <3> QED
      BY <1>2, <1>7, <2>1, <3>1, <3>2
  <2> QED
    BY <2>2, <2>3 DEF PointAt
<1>14. Places(R) = Places(A)
  BY <1>1, RenamedPlaces
<1> QED
  BY <1>7, <1>8, <1>9, <1>10, <1>11, <1>12, <1>13, <1>14 DEF Sound

-----------------------------------------------------------------------------
(* What operands name.  Outside DemoteRegisters a register is defined      *)
(* earlier in its block or somewhere else; while registers are demoted one *)
(* that is defined elsewhere waits, in W, to be; a pad may be named from   *)
(* anywhere.                                                               *)

NoValue == {"alloca"} \cup Terminators
NamesPad(A, id) == \E b \in DOMAIN A : \E y \in ToSet(A[b]) : y.id = id /\ y.kind = "pad"
NamesValue(A, id) ==
  \E b \in DOMAIN A : \E y \in ToSet(A[b]) : y.id = id /\ y.kind \notin NoValue
LoadIn(B, id) == \E y \in ToSet(B) : y.id = id /\ y.kind = "load"

GivenArg(A, b, x, arg) ==
  \/ arg[1] = "imm"
  \/ /\ arg = Reg(arg[2])
     /\ \/ NamesPad(A, arg[2])
        \/ /\ NamesValue(A, arg[2]) /\ x.kind # "pad"
           /\ x.kind # "phi" /\ arg[2] \in IdsIn(A[b]) => InOrder(A[b], arg[2], x.id)
GivenUses(A) ==
  \A b \in DOMAIN A : \A x \in ToSet(A[b]) : \A k \in DOMAIN x.args :
    GivenArg(A, b, x, x.args[k])

LocalArg(A, W, b, x, k, arg) ==
  \/ arg[1] = "imm"
  \/ /\ arg = Reg(arg[2])
     /\ \/ NamesPad(A, arg[2])
        \/ /\ NamesValue(A, arg[2]) /\ x.kind # "pad"
           /\ \/ arg[2] \in W
              \/ x.kind # "phi" /\ InOrder(A[b], arg[2], x.id)
              \/ x.kind = "phi" /\ LoadIn(A[x.blocks[k]], arg[2])
LocalUses(A, W) ==
  \A b \in DOMAIN A : \A x \in ToSet(A[b]) : \A k \in DOMAIN x.args :
    LocalArg(A, W, b, x, k, x.args[k])

(* What C has of A: everything but G, in order.                            *)
Carries(A, C, G) ==
  /\ DOMAIN C = DOMAIN A
  /\ \A b \in DOMAIN A :
       /\ \A y \in ToSet(A[b]) : y.id \notin G =>
            \E z \in ToSet(C[b]) : z.id = y.id /\ z.kind = y.kind
       /\ \A c, d : c \notin G /\ d \notin G /\ InOrder(A[b], c, d) => InOrder(C[b], c, d)

LEMMA NamesCarry ==
  ASSUME NEW A, NEW C, NEW G, Carries(A, C, G), NEW id, id \notin G
  PROVE  /\ NamesPad(A, id) => NamesPad(C, id)
         /\ NamesValue(A, id) => NamesValue(C, id)
         /\ \A b \in DOMAIN A : LoadIn(A[b], id) => LoadIn(C[b], id)
<1>1. ASSUME NamesPad(A, id) PROVE NamesPad(C, id)
  BY <1>1 DEF Carries, NamesPad
<1>2. ASSUME NamesValue(A, id) PROVE NamesValue(C, id)
  BY <1>2 DEF Carries, NamesValue
<1>3. ASSUME NEW b \in DOMAIN A, LoadIn(A[b], id) PROVE LoadIn(C[b], id)
  BY <1>3 DEF Carries, LoadIn
<1> QED
  BY <1>1, <1>2, <1>3

(* A register that is of a block of C was of that block of A.              *)
LEMMA NamesBack ==
  ASSUME NEW A, NEW C, NEW G, Carries(A, C, G), OwnIds(C), NEW id, id \notin G,
         NamesValue(A, id), NEW b \in DOMAIN A, id \in IdsIn(C[b])
  PROVE  id \in IdsIn(A[b])
<1>1. PICK e \in DOMAIN A : \E y \in ToSet(A[e]) : y.id = id
  BY DEF NamesValue
<1>2. PICK y \in ToSet(A[e]) : y.id = id
  BY <1>1
<1>3. PICK z \in ToSet(C[e]) : z.id = id
  BY <1>2 DEF Carries
<1>4. PICK w \in ToSet(C[b]) : w.id = id
  BY DEF IdsIn
<1>5. e = b
  BY <1>3, <1>4 DEF OwnIds, Carries
<1> QED
  BY <1>2, <1>5 DEF IdsIn

LEMMA GivenCarries ==
  ASSUME NEW A, NEW C, NEW G, Carries(A, C, G), OwnIds(C), NEW b \in DOMAIN A,
         NEW x, NEW z, NEW arg, GivenArg(A, b, x, arg), arg = Reg(arg[2]) => arg[2] \notin G,
         x.id \notin G, z.id = x.id, z.kind = x.kind
  PROVE  GivenArg(C, b, z, arg)
<1>1. CASE arg[1] = "imm"
  BY <1>1 DEF GivenArg
<1>2. CASE arg = Reg(arg[2]) /\ NamesPad(A, arg[2])
  BY <1>2, NamesCarry DEF GivenArg
<1>3. CASE /\ arg = Reg(arg[2]) /\ NamesValue(A, arg[2]) /\ x.kind # "pad"
           /\ x.kind # "phi" /\ arg[2] \in IdsIn(A[b]) => InOrder(A[b], arg[2], x.id)
  <2>1. NamesValue(C, arg[2])
    BY <1>3, NamesCarry
  <2>2. ASSUME x.kind # "phi", arg[2] \in IdsIn(C[b]) PROVE InOrder(C[b], arg[2], x.id)
    <3>1. arg[2] \in IdsIn(A[b])
      BY <1>3, <2>2, NamesBack
    <3> QED
      BY <1>3, <2>2, <3>1 DEF Carries
  <2> QED
    BY <1>3, <2>1, <2>2 DEF GivenArg
<1> QED
  BY <1>1, <1>2, <1>3 DEF GivenArg

LEMMA LocalCarries ==
  ASSUME NEW A, NEW C, NEW G, Carries(A, C, G), NEW b \in DOMAIN A, NEW W, NEW V,
         NEW x, NEW z, NEW k, NEW arg, LocalArg(A, W, b, x, k, arg),
         arg = Reg(arg[2]) => arg[2] \notin G /\ (arg[2] \in W => arg[2] \in V),
         x.id \notin G, z.id = x.id, z.kind = x.kind, z.blocks = x.blocks,
         x.kind = "phi" => x.blocks[k] \in DOMAIN A
  PROVE  LocalArg(C, V, b, z, k, arg)
<1>1. CASE arg[1] = "imm"
  BY <1>1 DEF LocalArg
<1>2. CASE arg = Reg(arg[2]) /\ NamesPad(A, arg[2])
  BY <1>2, NamesCarry DEF LocalArg
<1>3. CASE /\ arg = Reg(arg[2]) /\ NamesValue(A, arg[2]) /\ x.kind # "pad"
           /\ \/ arg[2] \in W
              \/ x.kind # "phi" /\ InOrder(A[b], arg[2], x.id)
              \/ x.kind = "phi" /\ LoadIn(A[x.blocks[k]], arg[2])
  <2>1. NamesValue(C, arg[2])
    BY <1>3, NamesCarry
  <2>2. x.kind # "phi" /\ InOrder(A[b], arg[2], x.id) => InOrder(C[b], arg[2], x.id)
    BY <1>3 DEF Carries
  <2>3. x.kind = "phi" /\ LoadIn(A[x.blocks[k]], arg[2]) => LoadIn(C[x.blocks[k]], arg[2])
    BY <1>3, NamesCarry
  <2> QED
    BY <1>3, <2>1, <2>2, <2>3 DEF LocalArg
<1> QED
  BY <1>1, <1>2, <1>3 DEF LocalArg

(* A register of a whole function names one instruction.                   *)
LEMMA NamesOne ==
  ASSUME NEW A, OwnIds(A), NEW b \in DOMAIN A, NEW y \in ToSet(A[b])
  PROVE  /\ NamesPad(A, y.id) => y.kind = "pad"
         /\ NamesValue(A, y.id) => y.kind \notin NoValue
         /\ \A e \in DOMAIN A : /\ LoadIn(A[e], y.id) => y.kind = "load"
                                /\ y.id \in IdsIn(A[e]) => e = b
         /\ \A e \in DOMAIN A : \A d : InOrder(A[e], y.id, d) => e = b
<1>1. NamesPad(A, y.id) => y.kind = "pad"
  BY DEF OwnIds, NamesPad
<1>2. NamesValue(A, y.id) => y.kind \notin NoValue
  BY DEF OwnIds, NamesValue
<1>3. ASSUME NEW e \in DOMAIN A PROVE /\ LoadIn(A[e], y.id) => y.kind = "load"
                                      /\ y.id \in IdsIn(A[e]) => e = b
  BY DEF OwnIds, LoadIn, IdsIn
<1>4. ASSUME NEW e \in DOMAIN A, NEW d, InOrder(A[e], y.id, d) PROVE e = b
  BY <1>3, <1>4, OrderIds
<1> QED
  BY <1>1, <1>2, <1>3, <1>4

-----------------------------------------------------------------------------
(* The functions that operands are about.                                  *)

Fit(A) ==
  /\ IsCode(A)
  /\ \A b \in DOMAIN A :
       /\ Last(A[b]).kind \in Terminators
       /\ \A x \in ToSet(A[b]) : x.kind = "phi" => x.blocks \in Seq(DOMAIN A)

LEMMA BodyFits ==
  ASSUME NEW src, NEW f, NEW A, BodyOK(src, f, A)
  PROVE  Fit(A) /\ 1 \in DOMAIN A
<1>1. IsCode(A) /\ DOMAIN A = DOMAIN src /\ 1 \in DOMAIN A
  BY EntryIs DEF BodyOK
<1>2. ASSUME NEW b \in DOMAIN A
      PROVE  /\ Last(A[b]).kind \in Terminators
             /\ \A x \in ToSet(A[b]) : x.kind = "phi" => x.blocks \in Seq(DOMAIN A)
  BY <1>1 DEF BodyOK, InstOK
<1> QED
  BY <1>1, <1>2 DEF Fit

LEMMA PutCarries ==
  ASSUME NEW A, NEW C, NEW slot, NEW qq, NEW y, NEW lists, PutFacts(A, C, slot, qq, y, lists)
  PROVE  Carries(A, C, {})
BY DEF PutFacts, Carries

LEMMA RewriteCarries ==
  ASSUME NEW A, NEW R, Rewrites(A, R),
         \A b \in DOMAIN A : \A c, d : InOrder(R[b], c, d) <=> InOrder(A[b], c, d)
  PROVE  Carries(A, R, {})
<1>1. DOMAIN R = DOMAIN A /\ \A b \in DOMAIN A : DOMAIN R[b] = DOMAIN A[b]
  BY DEF Rewrites
<1>2. ASSUME NEW b \in DOMAIN A, NEW y \in ToSet(A[b])
      PROVE  \E z \in ToSet(R[b]) : z.id = y.id /\ z.kind = y.kind
  <2>1. PICK i \in DOMAIN A[b] : A[b][i] = y
    BY ElementAt
  <2>2. R[b][i].id = y.id /\ R[b][i].kind = y.kind
    BY <2>1, RewrittenInst DEF Alike
  <2>3. R[b][i] \in ToSet(R[b])
    BY <1>1, ElementAt
  <2> QED
    BY <2>2, <2>3
<1> QED
  BY <1>1, <1>2 DEF Carries

LEMMA CarriesOn ==
  ASSUME NEW A, NEW B, NEW C, NEW G, Carries(A, B, G), Carries(B, C, {})
  PROVE  Carries(A, C, G)
<1>1. DOMAIN C = DOMAIN A
  BY DEF Carries
<1>2. ASSUME NEW b \in DOMAIN A, NEW y \in ToSet(A[b]), y.id \notin G
      PROVE  \E z \in ToSet(C[b]) : z.id = y.id /\ z.kind = y.kind
  <2>1. PICK w \in ToSet(B[b]) : w.id = y.id /\ w.kind = y.kind
    BY <1>2 DEF Carries
  <2> QED
    BY <2>1 DEF Carries
<1>3. ASSUME NEW b \in DOMAIN A, NEW c, NEW d, c \notin G, d \notin G, InOrder(A[b], c, d)
      PROVE  InOrder(C[b], c, d)
  BY <1>3 DEF Carries
<1> QED
  BY <1>1, <1>2, <1>3 DEF Carries

-----------------------------------------------------------------------------
(* The demotion of an immediate operand.                                   *)

ArgIsSet(A, b, i, j, arg, R) ==
  /\ R[b][i] = WithArgs(A[b][i], [A[b][i].args EXCEPT ![j] = arg])
  /\ \A e \in DOMAIN A : \A m \in DOMAIN A[e] : <<e, m>> # <<b, i>> => R[e][m] = A[e][m]

LEMMA SetArgIs ==
  ASSUME NEW A, IsCode(A), NEW b \in DOMAIN A, NEW i \in DOMAIN A[b], NEW j, NEW arg,
         NEW R, R = SetArg(A, <<b, i>>, j, arg)
  PROVE  Rewrites(A, R) /\ ArgIsSet(A, b, i, j, arg, R)
<1> DEFINE args == [A[b][i].args EXCEPT ![j] = arg]
           w == WithArgs(A[b][i], args)
<1>1. A \in Seq(Seq(InstsOf(A))) /\ A = [e \in DOMAIN A |-> A[e]]
  BY DEF IsCode
<1>2. A[b] = [m \in DOMAIN A[b] |-> A[b][m]]
  BY <1>1
<1>3. R = [A EXCEPT ![b] = [A[b] EXCEPT ![i] = w]]
  BY <1>1, <1>2 DEF SetArg
<1>4. args = [k \in DOMAIN A[b][i].args |-> args[k]]
  OBVIOUS
<1> HIDE DEF args
<1>5. w = WithArgs(A[b][i], args)
  OBVIOUS
<1> HIDE DEF w
<1>6. DOMAIN R = DOMAIN A /\ R[b] = [A[b] EXCEPT ![i] = w] /\ \A e \in DOMAIN A : e # b => R[e] = A[e]
  BY <1>1, <1>3
<1>7. DOMAIN R[b] = DOMAIN A[b] /\ R[b][i] = w /\ \A m \in DOMAIN A[b] : m # i => R[b][m] = A[b][m]
  BY <1>2, <1>6
<1>8. \A e \in DOMAIN A : \A m \in DOMAIN A[e] : <<e, m>> # <<b, i>> => R[e][m] = A[e][m]
  BY <1>6, <1>7
<1>9. ASSUME NEW e \in DOMAIN A, NEW m \in DOMAIN A[e]
      PROVE  \/ R[e][m] = A[e][m]
             \/ \E r : /\ R[e][m] = WithArgs(A[e][m], r)
                       /\ r = [k \in DOMAIN A[e][m].args |-> r[k]]
  <2>1. CASE <<e, m>> # <<b, i>>
    BY <1>8, <2>1
  <2>2. CASE <<e, m>> = <<b, i>>
    <3>1. e = b /\ m = i
      BY <2>2
    <3>2. \E r : R[e][m] = WithArgs(A[e][m], r) /\ r = [k \in DOMAIN A[e][m].args |-> r[k]]
      BY <1>4, <1>5, <1>7, <3>1
    <3> QED
      BY <3>2
  <2> QED
    BY <2>1, <2>2
<1>10. \A e \in DOMAIN A : DOMAIN R[e] = DOMAIN A[e]
  BY <1>6, <1>7
<1>11. Rewrites(A, R)
  BY <1>6, <1>9, <1>10 DEF Rewrites
<1> QED
  BY <1>5, <1>7, <1>8, <1>11 DEF args, ArgIsSet

(* Where an operand is read.                                               *)
LEMMA ReadPlace ==
  ASSUME NEW A, Fit(A), Shapes(A), NEW b \in DOMAIN A, NEW i \in DOMAIN A[b],
         NEW j \in DOMAIN A[b][i].args, NEW at, at = ReadAt(A, <<b, i>>, j)
  PROVE  /\ at \in Places(A) /\ at = <<at[1], at[2]>>
         /\ at[1] \in DOMAIN A /\ at[2] \in DOMAIN A[at[1]]
         /\ A[b][i].kind # "phi" => at = <<b, i>>
         /\ A[b][i].kind = "phi" => at[1] = A[b][i].blocks[j] /\ at[2] = Len(A[at[1]])
<1>1. InstAt(A, <<b, i>>) = A[b][i] /\ <<b, i>> \in Places(A)
  BY InPlaces
<1>2. A[b][i] \in ToSet(A[b])
  BY ElementAt
<1>3. CASE A[b][i].kind # "phi"
  BY <1>1, <1>3 DEF ReadAt
<1>4. CASE A[b][i].kind = "phi"
  <2>1. A[b][i].blocks \in Seq(DOMAIN A) /\ j \in DOMAIN A[b][i].blocks
    BY <1>2, <1>4 DEF Fit, Shapes, Shaped
  <2>2. PICK e : e = A[b][i].blocks[j]
    OBVIOUS
  <2>3. e \in DOMAIN A
    BY <2>1, <2>2
  <2>4. Len(A[e]) \in DOMAIN A[e]
    BY <2>3, BlockSeq DEF Fit
  <2>5. at = <<e, Len(A[e])>>
    BY <1>1, <1>4, <2>2 DEF ReadAt
  <2>6. at \in Places(A) /\ at[1] = e /\ at[2] = Len(A[e])
    BY <2>3, <2>4, <2>5, InPlaces
  <2> QED
    BY <1>4, <2>2, <2>3, <2>4, <2>5, <2>6
<1> QED
  BY <1>3, <1>4

(* What is made for the new slot is new.                                   *)
Fresh(A, n, k, t, slot, id) ==
  /\ \A b \in DOMAIN A : id \notin IdsIn(A[b])
  /\ Old(id, n + 1, k, t) /\ id # slot

LEMMA FreshIds ==
  ASSUME NEW A, NEW n \in Nat, NEW k, NEW t, AllOld(A, n, k, t), NEW slot, slot = <<"slot", n>>,
         NEW id, id[1] \in {"store", "reload"}, id[2] = slot
  PROVE  Fresh(A, n, k, t, slot, id)
<1>1. ~ Old(id, n, k, t)
  BY DEF Old
<1>2. \A b \in DOMAIN A : id \notin IdsIn(A[b])
  BY <1>1 DEF AllOld, IdsIn
<1>3. Old(id, n + 1, k, t)
  BY DEF Old
<1> QED
  BY <1>2, <1>3 DEF Fresh

(* What is read in the entry block is read after the insertion point.      *)
LEMMA ReadAfter ==
  ASSUME NEW A, Fit(A), Shapes(A), NEW u \in Nat, u < Len(A[1]),
         \A m \in DOMAIN A[1] : A[1][m].kind \notin Bare => u <= m,
         NEW b \in DOMAIN A, NEW i \in DOMAIN A[b],
         NEW j \in DOMAIN A[b][i].args, NEW at, at = ReadAt(A, <<b, i>>, j), at[1] = 1
  PROVE  u <= at[2] /\ (<<b, i>> # <<1, u>> => u < at[2])
<1>1. /\ at[1] \in DOMAIN A /\ at[2] \in DOMAIN A[at[1]]
      /\ A[b][i].kind # "phi" => at = <<b, i>>
      /\ A[b][i].kind = "phi" => at[2] = Len(A[at[1]])
  BY ReadPlace
<1>2. 1 \in DOMAIN A /\ Len(A[1]) \in Nat /\ \A m \in DOMAIN A[1] : m \in Nat
  BY <1>1, BlockSeq DEF Fit
<1>3. CASE A[b][i].kind = "phi"
  BY <1>1, <1>2, <1>3
<1>4. CASE A[b][i].kind # "phi"
  <2>1. b = 1 /\ i = at[2]
    BY <1>1, <1>4
  <2>2. A[b][i] \in ToSet(A[b])
    BY ElementAt
  <2>3. A[b][i].kind \notin Bare
    BY <2>2 DEF Shapes, Shaped
  <2>4. u <= i /\ i \in Nat
    BY <1>2, <2>1, <2>3
  <2> QED
    BY <2>1, <2>4
<1> QED
  BY <1>3, <1>4

(* An operand j of x, at i in block b, that is put in the slot, when the   *)
(* insertion point is at u of the entry block.                             *)
ImmAt(A, n, slot, b, i, j, x, u, at, load, y, R) ==
  /\ n \in Nat /\ slot = <<"slot", n>>
  /\ b \in DOMAIN A /\ i \in DOMAIN A[b] /\ x = A[b][i]
  /\ j \in DOMAIN x.args /\ x.args[j][1] = "imm" /\ x.kind \notin {"alloca", "pad"}
  /\ u \in Nat /\ <<1, u>> \in Places(A) /\ <<1, u + 1>> \in Places(A)
  /\ u < Len(A[1]) /\ A[1][u].id = point
  /\ \A m \in DOMAIN A[1] : A[1][m].kind \notin Bare => u <= m
  /\ at = ReadAt(A, <<b, i>>, j)
  /\ load = Reload(slot, x.id, at[1])
  /\ y = Store(<<"store", slot>>, x.args[j], slot)
  /\ R = SetArg(A, <<b, i>>, j, Reg(load.id))

WhenAt(A, at, z) == [q \in Places(A) |-> When(q = at, z)]

LEMMA LoadIs ==
  ASSUME NEW slot, NEW id, NEW b, NEW l, l = Reload(slot, id, b)
  PROVE  /\ l.id = <<"reload", slot, id, b>> /\ l.kind = "load" /\ l.ref = slot
         /\ DOMAIN l.args = {} /\ Reg(l.id)[2] = l.id /\ Reg(l.id)[1] = "reg"
<1>1. l = Inst(<<"reload", slot, id, b>>, "load", <<>>, <<>>, slot)
  BY DEF Reload, Load
<1> QED
  BY <1>1 DEF Inst, Reg

LEMMA StoreIs ==
  ASSUME NEW id, NEW arg, NEW slot, NEW y, y = Store(id, arg, slot)
  PROVE  /\ y.id = id /\ y.kind = "store" /\ y.ref = slot /\ DOMAIN y.args = {1}
         /\ y.args[1] = arg
BY DEF Store, Inst

OneAt(l, q, at, z) ==
  /\ l \in Seq(ToSet(l))
  /\ \A w : w \in ToSet(l) <=> q = at /\ w = z
  /\ \A c : ~ InOrder(l, c, c)

LEMMA WhenAtIs ==
  ASSUME NEW A, NEW at, NEW z, NEW q \in Places(A), NEW l, l = WhenAt(A, at, z)[q]
  PROVE  OneAt(l, q, at, z)
<1>2. l = IF q = at THEN <<z>> ELSE <<>>
  BY DEF WhenAt, When
<1>3. CASE q = at
  <2>1. l = <<z>> /\ ToSet(l) = {z}
    BY <1>2, <1>3, ToSetOne
  <2>2. l \in Seq({z})
    BY <2>1
  <2>3. ASSUME NEW c PROVE ~ InOrder(l, c, c)
    <3>1. ~ InOrder(<<z>>, c, c)
      BY OrderShort
    <3> QED
      BY <2>1, <3>1
  <2> QED
    BY <1>3, <2>1, <2>2, <2>3 DEF OneAt
<1>4. CASE q # at
  <2>1. l = <<>> /\ ToSet(l) = {}
    BY <1>2, <1>4, ToSetEmpty
  <2>2. l \in Seq({})
    BY <2>1
  <2>3. ASSUME NEW c PROVE ~ InOrder(l, c, c)
    <3>1. ~ InOrder(<<>>, c, c)
      BY OrderShort
    <3> QED
      BY <2>1, <3>1
  <2> QED
    BY <1>4, <2>1, <2>2, <2>3 DEF OneAt
<1> QED
  BY <1>3, <1>4

LEMMA ImmediateIs ==
  ASSUME NEW A, Fit(A), OwnIds(A), Shapes(A), PointAt(A, point), 1 \in DOMAIN A, NEW n, NEW slot, NEW b, NEW i,
         NEW j, NEW x, NEW u, NEW at, NEW load, NEW y, NEW R,
         ImmAt(A, n, slot, b, i, j, x, u, at, load, y, R), Places(R) = Places(A)
  PROVE  DemoteImmediate(A, <<x.id, j>>, slot)
           = PutBefore(R, NewFor(R, slot, <<1, u>>, <<1, u + 1>>, y, WhenAt(R, at, load)))
<1>1. <<b, i>> \in Places(A) /\ InstAt(A, <<b, i>>) = x
  BY InPlaces DEF ImmAt
<1>2. PlaceOf(A, x.id) = <<b, i>>
  BY <1>1, PlaceOfIs DEF Fit
<1>3. PICK new : new = [q \in Places(A) |->
                          When(AtPoint(A, q, point), Alloca(slot))
                            \o When(AfterPoint(A, q, point), Store(<<"store", slot>>, x.args[j], slot))
                            \o When(q = at, load)]
  OBVIOUS
<1>4. DemoteImmediate(A, <<x.id, j>>, slot) = PutBefore(R, new)
  BY <1>1, <1>2, <1>3 DEF DemoteImmediate, ImmAt
<1>5. PICK v : PointIs(A, point, v)
  BY PointPlace DEF Fit
<1>6. v = u
  <2>1. <<1, u>> \in Places(A) /\ InstAt(A, <<1, u>>).id = point
    BY InPlaces DEF ImmAt
  <2>2. <<1, u>> = <<1, v>>
    BY <1>5, <2>1, OnePlace DEF Fit, PointIs
  <2> QED
    BY <2>2
<1>7. ASSUME NEW q \in Places(A)
      PROVE  new[q] = Three(q = <<1, u>>, Alloca(slot), q = <<1, u + 1>>, y, WhenAt(R, at, load)[q])
  <2>1. /\ AtPoint(A, q, point) \in BOOLEAN /\ AfterPoint(A, q, point) \in BOOLEAN
    BY DEF AtPoint, AfterPoint
  <2>2. /\ AtPoint(A, q, point) = (q = <<1, u>>)
        /\ AfterPoint(A, q, point) = (q = <<1, u + 1>>)
    BY <1>5, <1>6, <2>1 DEF PointIs
  <2>3. WhenAt(R, at, load)[q] = When(q = at, load)
    BY DEF WhenAt
  <2>4. y = Store(<<"store", slot>>, x.args[j], slot)
    BY DEF ImmAt
  <2>5. new[q] = (When(AtPoint(A, q, point), Alloca(slot))
                   \o When(AfterPoint(A, q, point), Store(<<"store", slot>>, x.args[j], slot)))
                   \o When(q = at, load)
    BY <1>3
  <2> QED
    BY <2>2, <2>3, <2>4, <2>5 DEF Three
<1>8. new = NewFor(R, slot, <<1, u>>, <<1, u + 1>>, y, WhenAt(R, at, load))
  <2>1. new = [q \in Places(A) |-> new[q]]
    BY <1>3
  <2>2. NewFor(R, slot, <<1, u>>, <<1, u + 1>>, y, WhenAt(R, at, load))
          = [q \in Places(A) |-> Three(q = <<1, u>>, Alloca(slot), q = <<1, u + 1>>, y,
                                       WhenAt(R, at, load)[q])]
    BY DEF NewFor
  <2> QED
    BY <1>7, <2>1, <2>2
<1> QED
  BY <1>4, <1>8

LEMMA ImmediatePuts ==
  ASSUME NEW A, Fit(A), NEW n, NEW k, NEW t, NEW gs, Sound(A, n, k, t, gs), PointAt(A, point),
         NEW slot, NEW b, NEW i, NEW j, NEW x, NEW u, NEW at, NEW load, NEW y, NEW R,
         ImmAt(A, n, slot, b, i, j, x, u, at, load, y, R), Rewrites(A, R),
         Sound(R, n, k, t, gs), Places(R) = Places(A)
  PROVE  /\ Puts3(R, n, k, t, slot, <<1, u>>, <<1, u + 1>>, y, WhenAt(R, at, load))
         /\ at \in Places(A) /\ at[1] = 1 => u <= at[2]
<1>1. /\ load.id = <<"reload", slot, x.id, at[1]>> /\ load.kind = "load" /\ load.ref = slot
      /\ DOMAIN load.args = {}
  BY LoadIs DEF ImmAt
<1>2. y.id = <<"store", slot>> /\ y.kind = "store" /\ y.ref = slot /\ DOMAIN y.args = {1}
  BY StoreIs DEF ImmAt
<1>0. Numbered(load) /\ Numbered(y)
  BY <1>1, <1>2, NumberedIs
<1>3. n \in Nat /\ slot = <<"slot", n>> /\ AllOld(R, n, k, t)
  BY DEF ImmAt, Sound
<1>4. /\ \A e \in DOMAIN R : load.id \notin IdsIn(R[e])
      /\ Old(load.id, n + 1, k, t) /\ load.id # slot
  <2>1. PICK id : id = load.id
    OBVIOUS
  <2>2. id[1] \in {"store", "reload"} /\ id[2] = slot
    BY <1>1, <2>1
  <2>3. Fresh(R, n, k, t, slot, id)
    BY <1>3, <2>2, FreshIds
  <2> QED
    BY <2>1, <2>3 DEF Fresh
<1>5. /\ \A e \in DOMAIN R : y.id \notin IdsIn(R[e])
      /\ Old(y.id, n + 1, k, t) /\ y.id # slot
  <2>1. y.id[1] \in {"store", "reload"} /\ y.id[2] = slot
    BY <1>2
  <2>2. Fresh(R, n, k, t, slot, y.id)
    BY <1>3, <2>1, FreshIds
  <2> QED
    BY <2>2 DEF Fresh
<1>6. at[1] = 1 => u <= at[2]
  BY ReadAfter DEF ImmAt, Sound
<1>7. at \in Places(A)
  BY ReadPlace DEF ImmAt, Sound
<1>8. PICK pp : pp = <<1, u>>
  OBVIOUS
<1>9. PICK qq : qq = <<1, u + 1>>
  OBVIOUS
<1>10. pp \in Places(R) /\ pp[1] = 1 /\ qq \in Places(R) /\ pp[2] = u /\ qq[2] = u + 1
  BY <1>8, <1>9 DEF ImmAt
<1>11. u \in Nat
  BY DEF ImmAt
<1>12. MayPut(R, n, k, t, slot, pp, at, load)
  BY <1>0, <1>1, <1>4, <1>6, <1>10 DEF MayPut, Slots
<1>13. MayPut(R, n, k, t, slot, pp, qq, y)
  BY <1>0, <1>2, <1>5, <1>10, <1>11 DEF MayPut, Slots
<1>14. PICK lists : lists = WhenAt(R, at, load)
  OBVIOUS
<1>15. \A q \in Places(R) : OneAt(lists[q], q, at, load)
  BY <1>14, WhenAtIs
<1>16. load.id # y.id
  BY <1>1, <1>2
<1>17. Puts3(R, n, k, t, slot, pp, qq, y, lists)
  <2>1. \A q \in Places(R) : lists[q] \in Seq(ToSet(lists[q]))
    BY <1>15 DEF OneAt
  <2>2. \A q \in Places(R) : \A z \in ToSet(lists[q]) :
          MayPut(R, n, k, t, slot, pp, q, z) /\ z.id # y.id
    BY <1>12, <1>15, <1>16 DEF OneAt
  <2>3. \A q \in Places(R) : \A c : ~ InOrder(lists[q], c, c)
    BY <1>15 DEF OneAt
  <2>4. ASSUME NEW q \in Places(R), NEW r \in Places(R), NEW v \in ToSet(lists[q]),
               NEW w \in ToSet(lists[r]), v.id = w.id
        PROVE  q = r /\ v = w
    <3>1. q = at /\ v = load
      BY <1>15 DEF OneAt
    <3>2. r = at /\ w = load
      BY <1>15 DEF OneAt
    <3> QED
      BY <3>1, <3>2
  <2> QED
    BY <1>10, <1>13, <2>1, <2>2, <2>3, <2>4 DEF Puts3
<1> QED
  BY <1>6, <1>7, <1>8, <1>9, <1>14, <1>17

(* What the demotion of an operand makes of the code.                      *)
ImmOut(A, b, i, x, at, load, y, slot, R, C) ==
  /\ DOMAIN C = DOMAIN A /\ Carries(A, C, {})
  /\ \A e \in DOMAIN A :
       /\ \A z \in ToSet(C[e]) : \/ z = Alloca(slot) \/ z = y \/ (z = load /\ e = at[1])
                                 \/ \E m \in DOMAIN A[e] : z = R[e][m]
       /\ \A m \in DOMAIN A[e] : R[e][m] \in ToSet(C[e])
       /\ load.id \notin IdsIn(A[e])
  /\ at[1] \in DOMAIN A /\ load \in ToSet(C[at[1]])
  /\ x.kind # "phi" => InOrder(C[b], load.id, x.id)
  /\ at[1] = 1 /\ x.id # point => InOrder(C[1], point, load.id)

LEMMA ImmediateOut ==
  ASSUME NEW A, Fit(A), NEW n, NEW k, NEW t, NEW gs, Sound(A, n, k, t, gs), PointAt(A, point),
         NEW slot, NEW b, NEW i, NEW j, NEW x, NEW u, NEW at, NEW load, NEW y, NEW R,
         ImmAt(A, n, slot, b, i, j, x, u, at, load, y, R), Rewrites(A, R), OwnIds(R), IsCode(R),
         \A e \in DOMAIN A : \A c, d : InOrder(R[e], c, d) <=> InOrder(A[e], c, d),
         NEW lists, \A q \in Places(A) : OneAt(lists[q], q, at, load), Places(R) = Places(A),
         NEW C, NEW qq, PutFacts(R, C, slot, qq, y, lists)
  PROVE  ImmOut(A, b, i, x, at, load, y, slot, R, C)
<1>1. DOMAIN R = DOMAIN A /\ DOMAIN C = DOMAIN A /\ \A e \in DOMAIN A : DOMAIN R[e] = DOMAIN A[e]
  BY DEF PutFacts, Rewrites
<1>2. Carries(A, C, {})
  BY RewriteCarries, PutCarries, CarriesOn
<1>3. ASSUME NEW e \in DOMAIN A, NEW z \in ToSet(C[e])
      PROVE  \/ z = Alloca(slot) \/ z = y \/ (z = load /\ e = at[1])
             \/ \E m \in DOMAIN A[e] : z = R[e][m]
  <2>1. \/ z \in ToSet(R[e]) \/ z = Alloca(slot) \/ z = y
        \/ \E m \in DOMAIN R[e] : z \in ToSet(lists[<<e, m>>])
    BY <1>1 DEF PutFacts
  <2>2. CASE z \in ToSet(R[e])
    BY <1>1, <2>2, ElementAt
  <2>3. CASE \E m \in DOMAIN R[e] : z \in ToSet(lists[<<e, m>>])
    <3>1. PICK m \in DOMAIN A[e] : z \in ToSet(lists[<<e, m>>])
      BY <1>1, <2>3
    <3>2. PICK q : q = <<e, m>>
      OBVIOUS
    <3>3. q \in Places(A) /\ q[1] = e
      BY <3>2, InPlaces
    <3>4. q = at /\ z = load
      <4>1. z \in ToSet(lists[q])
        BY <3>1, <3>2
      <4>2. OneAt(lists[q], q, at, load)
        BY <3>3
      <4> QED
        BY <4>1, <4>2 DEF OneAt
    <3> QED
      BY <3>3, <3>4
  <2> QED
    BY <2>1, <2>2, <2>3
<1>4. ASSUME NEW e \in DOMAIN A, NEW m \in DOMAIN A[e] PROVE R[e][m] \in ToSet(C[e])
  <2>1. R[e][m] \in ToSet(R[e])
    BY <1>1, ElementAt
  <2>2. ToSet(R[e]) \subseteq ToSet(C[e])
    BY <1>1 DEF PutFacts
  <2> QED
    BY <2>1, <2>2
<1>5. ASSUME NEW e \in DOMAIN A PROVE load.id \notin IdsIn(A[e])
  <2>1. PICK id : id = load.id
    OBVIOUS
  <2>2. id = <<"reload", slot, x.id, at[1]>>
    BY <2>1, LoadIs, SMTT(30) DEF ImmAt
  <2>3. id[1] \in {"store", "reload"} /\ id[2] = slot
    BY <2>2
  <2>4. n \in Nat /\ slot = <<"slot", n>> /\ AllOld(A, n, k, t)
    BY DEF ImmAt, Sound
  <2>5. Fresh(A, n, k, t, slot, id)
    BY <2>3, <2>4, FreshIds
  <2> QED
    BY <2>1, <2>5 DEF Fresh
<1>6. /\ b \in DOMAIN A /\ i \in DOMAIN A[b] /\ x = A[b][i] /\ j \in DOMAIN x.args
      /\ at = ReadAt(A, <<b, i>>, j) /\ Shapes(A) /\ OwnIds(A)
  BY DEF ImmAt, Sound
<1>7. /\ at \in Places(A) /\ at = <<at[1], at[2]>> /\ at[1] \in DOMAIN A
      /\ at[2] \in DOMAIN A[at[1]]
      /\ A[b][i].kind # "phi" => at = <<b, i>>
  BY <1>6, ReadPlace
<1>8. /\ load \in ToSet(C[at[1]])
      /\ \A m \in DOMAIN R[at[1]] :
           /\ at[2] <= m => InOrder(C[at[1]], load.id, R[at[1]][m].id)
           /\ m < at[2] => InOrder(C[at[1]], R[at[1]][m].id, load.id)
  <2>1. load \in ToSet(lists[at])
    BY <1>7 DEF OneAt
  <2>2. at \in Places(R)
    BY <1>7
  <2> QED
    BY <2>1, <2>2 DEF PutFacts
<1>9. \A e \in DOMAIN A : \A m \in DOMAIN A[e] : R[e][m].id = A[e][m].id
  BY RewrittenInst DEF Alike
<1>10. ASSUME x.kind # "phi" PROVE InOrder(C[b], load.id, x.id)
  <2>1. at[1] = b /\ at[2] = i
    BY <1>6, <1>7, <1>10
  <2>2. i <= i
    BY <1>6, BlockSeq DEF Fit
  <2> QED
    BY <1>1, <1>6, <1>8, <1>9, <2>1, <2>2
<1>11. ASSUME at[1] = 1, x.id # point PROVE InOrder(C[1], point, load.id)
  <2>1. /\ u \in Nat /\ u < Len(A[1]) /\ A[1][u].id = point /\ <<1, u>> \in Places(A)
        /\ \A m \in DOMAIN A[1] : A[1][m].kind \notin Bare => u <= m
    BY DEF ImmAt
  <2>2. <<b, i>> # <<1, u>>
    BY <1>6, <1>11, <2>1
  <2>3. u < at[2]
    BY <1>6, <1>11, <2>1, <2>2, ReadAfter
  <2>4. u \in DOMAIN A[1] /\ 1 \in DOMAIN A
    BY <2>1, InPlaces
  <2> QED
    BY <1>1, <1>8, <1>9, <1>11, <2>1, <2>3, <2>4
<1>12. \A e \in DOMAIN A :
         /\ \A z \in ToSet(C[e]) : \/ z = Alloca(slot) \/ z = y \/ (z = load /\ e = at[1])
                                   \/ \E m \in DOMAIN A[e] : z = R[e][m]
         /\ \A m \in DOMAIN A[e] : R[e][m] \in ToSet(C[e])
         /\ load.id \notin IdsIn(A[e])
  BY <1>3, <1>4, <1>5
<1> QED
  BY <1>1, <1>2, <1>7, <1>8, <1>10, <1>11, <1>12 DEF ImmOut

(* The operands of an instruction are as they were but for this one.       *)
LEMMA ImmediateArgs ==
  ASSUME NEW A, IsCode(A), NEW n, NEW slot, NEW b, NEW i, NEW j, NEW x, NEW u, NEW at, NEW load,
         NEW y, NEW R, ImmAt(A, n, slot, b, i, j, x, u, at, load, y, R),
         NEW e \in DOMAIN A, NEW m \in DOMAIN A[e]
  PROVE  /\ Alike(R[e][m], A[e][m]) /\ DOMAIN R[e][m].args = DOMAIN A[e][m].args
         /\ \A l \in DOMAIN A[e][m].args :
              \/ R[e][m].args[l] = A[e][m].args[l]
              \/ /\ e = b /\ m = i /\ l = j
                 /\ R[e][m].args[l] = Reg(load.id)
<1>1. /\ b \in DOMAIN A /\ i \in DOMAIN A[b] /\ x = A[b][i]
      /\ R = SetArg(A, <<b, i>>, j, Reg(load.id))
  BY DEF ImmAt
<1>2. Rewrites(A, R) /\ ArgIsSet(A, b, i, j, Reg(load.id), R)
  BY <1>1, SetArgIs
<1>3. R[b][i] = WithArgs(A[b][i], [A[b][i].args EXCEPT ![j] = Reg(load.id)])
  BY <1>2 DEF ArgIsSet
<1>4. <<e, m>> # <<b, i>> => R[e][m] = A[e][m]
  BY <1>2 DEF ArgIsSet
<1>5. Alike(R[e][m], A[e][m]) /\ DOMAIN R[e][m].args = DOMAIN A[e][m].args
  BY <1>2, RewrittenInst
<1>6. R[b][i].args = [A[b][i].args EXCEPT ![j] = Reg(load.id)]
  BY <1>3 DEF WithArgs, Inst
<1>7. \A l \in DOMAIN A[b][i].args : R[b][i].args[l] = IF l = j THEN Reg(load.id) ELSE A[b][i].args[l]
  BY <1>6
<1>8. ASSUME NEW l \in DOMAIN A[e][m].args
      PROVE  \/ R[e][m].args[l] = A[e][m].args[l]
             \/ e = b /\ m = i /\ l = j /\ R[e][m].args[l] = Reg(load.id)
  <2>1. CASE <<e, m>> = <<b, i>>
    <3>1. e = b /\ m = i
      BY <2>1
    <3> QED
      BY <1>7, <3>1
  <2> QED
    BY <1>4, <2>1
<1> QED
  BY <1>5, <1>8

(* The loads that DemoteRegisters finds before the insertion point are     *)
(* used by it alone.                                                       *)
EarlyLoads(A, pt) ==
  \A x \in ToSet(A[1]) : x.kind = "load" =>
    \/ InOrder(A[1], pt, x.id)
    \/ \A b \in DOMAIN A : \A y \in ToSet(A[b]) : \A k \in DOMAIN y.args :
         y.args[k] = Reg(x.id) => y.id = pt

(* C has the operands of A, the j-th of instruction id aside.              *)
ArgsKept(A, C, id, j) ==
  \A b \in DOMAIN A : \A w \in ToSet(A[b]) :
    \E z \in ToSet(C[b]) :
      /\ z.id = w.id /\ z.kind = w.kind /\ DOMAIN z.args = DOMAIN w.args
      /\ \A k \in DOMAIN w.args : <<w.id, k>> # <<id, j>> => z.args[k] = w.args[k]

LEMMA ImmediateGiven ==
  ASSUME NEW A, Fit(A), OwnIds(A), Shapes(A), GivenUses(A),
         NEW n, NEW slot, NEW b, NEW i, NEW j, NEW x, NEW u, NEW at, NEW load, NEW y, NEW R,
         ImmAt(A, n, slot, b, i, j, x, u, at, load, y, R), NEW C, OwnIds(C),
         ImmOut(A, b, i, x, at, load, y, slot, R, C)
  PROVE  GivenUses(C)
<1>1. DOMAIN C = DOMAIN A /\ Carries(A, C, {})
  BY DEF ImmOut
<1>2. /\ load.id = <<"reload", slot, x.id, at[1]>> /\ load.kind = "load"
      /\ DOMAIN load.args = {} /\ Reg(load.id)[2] = load.id
  BY LoadIs DEF ImmAt
<1>3. y.kind = "store" /\ DOMAIN y.args = {1} /\ y.args[1][1] = "imm"
  BY StoreIs DEF ImmAt
<1>4. SUFFICES ASSUME NEW e \in DOMAIN A, NEW z \in ToSet(C[e]), NEW l \in DOMAIN z.args
               PROVE  GivenArg(C, e, z, z.args[l])
  BY <1>1 DEF GivenUses
<1>5. CASE z = Alloca(slot)
  BY <1>5 DEF Alloca, Inst
<1>6. CASE z = y
  BY <1>3, <1>6 DEF GivenArg
<1>7. CASE z = load
  BY <1>2, <1>7
<1>8. CASE \E m \in DOMAIN A[e] : z = R[e][m]
  <2>1. PICK m \in DOMAIN A[e] : z = R[e][m]
    BY <1>8
  <2>2. PICK w : w = A[e][m]
    OBVIOUS
  <2>3. w \in ToSet(A[e])
    BY <2>2, ElementAt
  <2>4. /\ z.id = w.id /\ z.kind = w.kind /\ l \in DOMAIN w.args
    BY <2>1, <2>2, ImmediateArgs DEF Alike, Fit
  <2>5. \/ z.args[l] = w.args[l]
        \/ e = b /\ m = i /\ l = j /\ z.args[l] = Reg(load.id)
    BY <2>1, <2>2, <2>4, ImmediateArgs DEF Fit
  <2>6. CASE z.args[l] = w.args[l]
    <3>1. GivenArg(A, e, w, w.args[l])
      BY <2>3, <2>4 DEF GivenUses
    <3>2. GivenArg(C, e, z, w.args[l])
      BY <1>1, <2>4, <3>1, GivenCarries
    <3> QED
      BY <2>6, <3>2
  <2>7. CASE e = b /\ m = i /\ z.args[l] = Reg(load.id)
    <3>1. w = x /\ x.kind # "pad"
      BY <2>2, <2>7 DEF ImmAt
    <3>2. NamesValue(C, load.id)
      BY <1>1, <1>2 DEF NamesValue, NoValue, Terminators, ImmOut
    <3>3. z.kind # "phi" => InOrder(C[e], load.id, z.id)
      BY <2>4, <2>7, <3>1 DEF ImmOut
    <3> QED
      BY <1>2, <2>4, <2>7, <3>1, <3>2, <3>3 DEF GivenArg
  <2> QED
    BY <2>5, <2>6, <2>7
<1> QED
  BY <1>5, <1>6, <1>7, <1>8 DEF ImmOut

LEMMA ImmediateEarly ==
  ASSUME NEW A, Fit(A), 1 \in DOMAIN A, OwnIds(A), Shapes(A), GivenUses(A), EarlyLoads(A, point),
         NEW n, NEW slot, NEW b, NEW i, NEW j, NEW x, NEW u, NEW at, NEW load, NEW y, NEW R,
         ImmAt(A, n, slot, b, i, j, x, u, at, load, y, R), NEW C, OwnIds(C),
         ImmOut(A, b, i, x, at, load, y, slot, R, C)
  PROVE  EarlyLoads(C, point)
<1>1. DOMAIN C = DOMAIN A /\ Carries(A, C, {})
  BY DEF ImmOut
<1>2. /\ load.id = <<"reload", slot, x.id, at[1]>> /\ load.kind = "load"
      /\ DOMAIN load.args = {} /\ Reg(load.id)[2] = load.id
  BY LoadIs DEF ImmAt
<1>3. y.kind = "store" /\ DOMAIN y.args = {1} /\ y.args[1][1] = "imm"
  BY StoreIs DEF ImmAt
<1>4. SUFFICES ASSUME NEW z \in ToSet(C[1]), z.kind = "load", ~ InOrder(C[1], point, z.id),
                      NEW e \in DOMAIN A, NEW v \in ToSet(C[e]), NEW l \in DOMAIN v.args,
                      v.args[l] = Reg(z.id)
               PROVE  v.id = point
  BY <1>1 DEF EarlyLoads
<1>5. Reg(z.id)[1] = "reg" /\ Reg(z.id)[2] = z.id
  BY DEF Reg
(* Who uses it is one of the instructions that were there.                 *)
<1>6. \E m \in DOMAIN A[e] : v = R[e][m]
  <2>1. v # y
    BY <1>3, <1>4, <1>5
  <2>2. v # load
    BY <1>2
  <2>3. v # Alloca(slot)
    BY DEF Alloca, Inst
  <2> QED
    BY <2>1, <2>2, <2>3 DEF ImmOut
<1>7. PICK m \in DOMAIN A[e] : v = R[e][m]
  BY <1>6
<1>8. PICK w : w = A[e][m]
  OBVIOUS
<1>9. w \in ToSet(A[e])
  BY <1>8, ElementAt
<1>10. v.id = w.id /\ l \in DOMAIN w.args
  BY <1>7, <1>8, ImmediateArgs DEF Alike, Fit
<1>11. \/ v.args[l] = w.args[l]
       \/ e = b /\ m = i /\ v.args[l] = Reg(load.id)
  BY <1>7, <1>8, <1>10, ImmediateArgs DEF Fit
<1>12. GivenArg(A, e, w, w.args[l])
  BY <1>9, <1>10 DEF GivenUses
(* The new load.                                                           *)
<1>13. CASE z = load
  <2>1. v.args[l] # w.args[l]
    <3>1. SUFFICES ASSUME w.args[l] = Reg(load.id) PROVE FALSE
      BY <1>4, <1>13
    <3>2. NamesPad(A, load.id) \/ NamesValue(A, load.id)
      BY <1>2, <1>5, <1>12, <1>13, <3>1 DEF GivenArg
    <3>3. \E f \in DOMAIN A : load.id \in IdsIn(A[f])
      BY <3>2 DEF NamesPad, NamesValue, IdsIn
    <3> QED
      BY <3>3 DEF ImmOut
  <2>2. w = x
    BY <1>8, <1>11, <2>1 DEF ImmAt
  <2>3. at[1] = 1
    <3>1. z \in ToSet(C[at[1]]) /\ at[1] \in DOMAIN A
      BY <1>13 DEF ImmOut
    <3> QED
      BY <1>1, <3>1 DEF OwnIds
  <2>4. x.id = point
    BY <1>4, <1>13, <2>3 DEF ImmOut
  <2> QED
    BY <1>10, <2>2, <2>4
(* One that was there.                                                     *)
<1>14. CASE z # load
  <2>1. z # Alloca(slot) /\ z # y
    BY <1>3, <1>4 DEF Alloca, Inst
  <2>2. PICK g \in DOMAIN A[1] : z = R[1][g]
    BY <1>14, <2>1 DEF ImmOut
  <2>3. PICK a : a = A[1][g]
    OBVIOUS
  <2>4. a \in ToSet(A[1])
    BY <2>3, ElementAt
  <2>5. a.id = z.id /\ a.kind = "load"
    BY <1>4, <2>2, <2>3, ImmediateArgs DEF Alike, Fit
  <2>6. ~ InOrder(A[1], point, a.id)
    BY <1>1, <1>4, <2>5 DEF Carries
  <2>7. z.id # load.id
    BY <2>4, <2>5 DEF ImmOut, IdsIn
  <2>8. w.args[l] = Reg(a.id)
    BY <1>2, <1>4, <1>5, <1>11, <2>5, <2>7
  <2>9. w.id = point
    BY <1>9, <1>10, <2>4, <2>5, <2>6, <2>8 DEF EarlyLoads
  <2> QED
    BY <1>10, <2>9
<1> QED
  BY <1>13, <1>14

LEMMA ImmediateKept ==
  ASSUME NEW A, Fit(A), NEW n, NEW slot, NEW b, NEW i, NEW j, NEW x, NEW u, NEW at, NEW load,
         NEW y, NEW R, ImmAt(A, n, slot, b, i, j, x, u, at, load, y, R), NEW C,
         ImmOut(A, b, i, x, at, load, y, slot, R, C)
  PROVE  ArgsKept(A, C, x.id, j)
<1>1. SUFFICES ASSUME NEW e \in DOMAIN A, NEW w \in ToSet(A[e])
               PROVE  \E z \in ToSet(C[e]) :
                        /\ z.id = w.id /\ z.kind = w.kind /\ DOMAIN z.args = DOMAIN w.args
                        /\ \A k \in DOMAIN w.args : <<w.id, k>> # <<x.id, j>> => z.args[k] = w.args[k]
  BY DEF ArgsKept
<1>2. PICK m \in DOMAIN A[e] : A[e][m] = w
  BY ElementAt
<1>3. PICK z : z = R[e][m]
  OBVIOUS
<1>4. z \in ToSet(C[e])
  BY <1>3 DEF ImmOut
<1>5. z.id = w.id /\ z.kind = w.kind /\ DOMAIN z.args = DOMAIN w.args
  BY <1>2, <1>3, ImmediateArgs DEF Alike, Fit
<1>6. ASSUME NEW k \in DOMAIN w.args, <<w.id, k>> # <<x.id, j>>
      PROVE  z.args[k] = w.args[k]
  <2>1. \/ z.args[k] = w.args[k]
        \/ e = b /\ m = i /\ k = j
    BY <1>2, <1>3, ImmediateArgs DEF Fit
  <2>2. x = A[b][i]
    BY DEF ImmAt
  <2>3. e = b /\ m = i /\ k = j => <<w.id, k>> = <<x.id, j>>
    BY <1>2, <2>2
  <2> QED
    BY <1>6, <2>1, <2>3
<1> QED
  BY <1>4, <1>5, <1>6

(* What a step on a function leaves of it, the point in it included.       *)
Whole(A, n, k, t, gs) == Fit(A) /\ 1 \in DOMAIN A /\ Sound(A, n, k, t, gs)

(* A constant is demoted.                                                  *)
LEMMA UseImmediate ==
  ASSUME NEW A, NEW n \in Nat, NEW k, NEW t, NEW gs, Whole(A, n, k, t, gs), PointAt(A, point),
         GivenUses(A), EarlyLoads(A, point), NEW slot, slot = <<"slot", n>>,
         NEW b \in DOMAIN A, NEW x \in ToSet(A[b]), NEW j \in DOMAIN x.args,
         x.args[j][1] = "imm", x.kind \notin {"alloca", "pad"},
         NEW C, C = DemoteImmediate(A, <<x.id, j>>, slot)
  PROVE  /\ Sound(C, n + 1, k, t, gs) /\ PointAt(C, point) /\ GivenUses(C)
         /\ EarlyLoads(C, point) /\ ArgsKept(A, C, x.id, j)
<1>1. Fit(A) /\ IsCode(A) /\ 1 \in DOMAIN A /\ Sound(A, n, k, t, gs)
  BY DEF Whole, Fit
<1>2. OwnIds(A) /\ Shapes(A) /\ Last(A[1]).kind \in Terminators
  BY <1>1 DEF Sound, Fit
<1>3. PICK u : PointIs(A, point, u)
  BY <1>1, <1>2, PointPlace
<1>4. PICK i \in DOMAIN A[b] : A[b][i] = x
  BY ElementAt
<1>5. PICK at : at = ReadAt(A, <<b, i>>, j)
  OBVIOUS
<1>6. PICK load : load = Reload(slot, x.id, at[1])
  OBVIOUS
<1>7. PICK y : y = Store(<<"store", slot>>, x.args[j], slot)
  OBVIOUS
<1>8. PICK R : R = SetArg(A, <<b, i>>, j, Reg(load.id))
  OBVIOUS
<1>9. ImmAt(A, n, slot, b, i, j, x, u, at, load, y, R)
  BY <1>3, <1>4, <1>5, <1>6, <1>7, <1>8 DEF ImmAt, PointIs
<1>10. Rewrites(A, R)
  BY <1>1, <1>8, SetArgIs
<1>11. Sound(R, n, k, t, gs) /\ PointAt(R, point)
  BY <1>1, <1>10, RewriteKeeps
<1>12. Places(R) = Places(A)
  BY <1>1, <1>10, RewriteKeeps
<1>13. \A e \in DOMAIN A : \A c, d : InOrder(R[e], c, d) <=> InOrder(A[e], c, d)
  BY <1>1, <1>10, RewriteKeeps
<1>14. IsCode(R)
  BY <1>1, <1>8, SetArgDerived DEF AllDerived
<1>15. PICK lists : lists = WhenAt(R, at, load)
  OBVIOUS
<1>16. PICK pp : pp = <<1, u>>
  OBVIOUS
<1>17. PICK qq : qq = <<1, u + 1>>
  OBVIOUS
<1>18. C = PutBefore(R, NewFor(R, slot, pp, qq, y, lists))
  BY <1>1, <1>2, <1>9, <1>12, <1>15, <1>16, <1>17, ImmediateIs
<1>19. Puts3(R, n, k, t, slot, pp, qq, y, lists)
  BY <1>1, <1>9, <1>10, <1>11, <1>12, <1>15, <1>16, <1>17, ImmediatePuts
<1>20. InstAt(R, pp).id = point
  <2>1. 1 \in DOMAIN A /\ u \in DOMAIN A[1] /\ A[1][u].id = point
    BY <1>1, <1>3 DEF PointIs
  <2>2. R[1][u].id = point
    BY <1>10, <2>1, RewrittenInst DEF Alike
  <2> QED
    BY <1>16, <2>2, InPlaces
<1>21. OwnIds(R) /\ AllOld(R, n, k, t) /\ Shapes(R) /\ Homes(R, gs)
  BY <1>11 DEF Sound
<1>22. /\ PutFacts(R, C, slot, qq, y, lists)
       /\ OwnIds(C) /\ AllOld(C, n + 1, k, t) /\ Shapes(C) /\ Homes(C, gs)
       /\ PointAt(C, point)
  BY <1>11, <1>14, <1>18, <1>19, <1>20, <1>21, SlotKeeps
<1>23. \A q \in Places(A) : OneAt(lists[q], q, at, load)
  <2>1. \A q \in Places(R) : OneAt(lists[q], q, at, load)
    BY <1>15, WhenAtIs
  <2> QED
    BY <1>12, <2>1
<1>24. ImmOut(A, b, i, x, at, load, y, slot, R, C)
  BY <1>1, <1>9, <1>10, <1>12, <1>13, <1>14, <1>21, <1>22, <1>23, ImmediateOut
<1>25. GivenUses(C)
  BY <1>1, <1>2, <1>9, <1>22, <1>24, ImmediateGiven
<1>26. EarlyLoads(C, point)
  BY <1>1, <1>2, <1>9, <1>22, <1>24, ImmediateEarly
<1>27. ArgsKept(A, C, x.id, j)
  BY <1>1, <1>9, <1>24, ImmediateKept
<1> QED
  BY <1>22, <1>25, <1>26, <1>27 DEF Sound

-----------------------------------------------------------------------------
(* The demotion of a register.                                             *)

FirstIs(A, b, i, qq) ==
  /\ qq = <<b, qq[2]>> /\ qq[1] = b /\ qq[2] \in DOMAIN A[b] /\ qq[2] \in Nat /\ i <= qq[2]
  /\ A[b][qq[2]].kind \notin {"phi", "pad"}
  /\ \A m \in DOMAIN A[b] : i <= m /\ A[b][m].kind \notin {"phi", "pad"} => qq[2] <= m

LEMMA FirstPlace ==
  ASSUME NEW A, Fit(A), NEW b \in DOMAIN A, NEW i \in Nat, 1 <= i, i <= Len(A[b]),
         NEW qq, qq = FirstInsertionPoint(A, b, i)
  PROVE  FirstIs(A, b, i, qq)
<1> DEFINE E == {j \in i..Len(A[b]) : A[b][j].kind \notin {"phi", "pad"}}
<1>1. /\ Len(A[b]) \in Nat /\ DOMAIN A[b] = 1..Len(A[b]) /\ Last(A[b]) = A[b][Len(A[b])]
      /\ Last(A[b]).kind \in Terminators
  BY BlockSeq DEF Fit
<1>2. Len(A[b]) \in E
  BY <1>1 DEF Terminators
<1>3. E \in SUBSET Nat /\ E # {}
  BY <1>1, <1>2
<1>4. Min(E) \in E /\ \A m \in E : Min(E) <= m
  BY <1>3, MinOfSet
<1>5. qq = <<b, Min(E)>>
  BY DEF FirstInsertionPoint
<1>6. Min(E) \in i..Len(A[b]) /\ A[b][Min(E)].kind \notin {"phi", "pad"}
      /\ \A m \in i..Len(A[b]) : A[b][m].kind \notin {"phi", "pad"} => Min(E) <= m
  BY <1>4
<1> HIDE DEF E
<1>7. PICK j : j = Min(E)
  OBVIOUS
<1>8. qq = <<b, j>> /\ qq[1] = b /\ qq[2] = j
  BY <1>5, <1>7
<1>9. j \in i..Len(A[b]) /\ A[b][j].kind \notin {"phi", "pad"}
      /\ \A m \in i..Len(A[b]) : A[b][m].kind \notin {"phi", "pad"} => j <= m
  BY <1>6, <1>7
<1>10. j \in DOMAIN A[b] /\ j \in Nat /\ i <= j
       /\ \A m \in DOMAIN A[b] : i <= m /\ A[b][m].kind \notin {"phi", "pad"} => j <= m
  BY <1>1, <1>9
<1> QED
  BY <1>8, <1>9, <1>10 DEF FirstIs

(* A reload for one of the users.                                          *)
ReloadFor(A, id, slot, q, w) ==
  \E p \in Places(A) : \E k \in DOMAIN InstAt(A, p).args :
    /\ InstAt(A, p).args[k] = Reg(id) /\ ReadAt(A, p, k) = q
    /\ w = Reload(slot, InstAt(A, p).id, q[1])

LEMMA OwnFlat ==
  ASSUME NEW A, IsCode(A), OwnIds(A), NEW c
  PROVE  ~ InOrder(FlattenSeq(A), c, c)
<1>1. A \in Seq(Seq(InstsOf(A)))
  BY DEF IsCode
<1>2. InOrder(FlattenSeq(A), c, c) => Apart(A, c, c) \/ Within(A, c, c)
  BY <1>1, OrderFlatten
<1>3. ~ Within(A, c, c)
  BY DEF Within, OwnIds
<1>4. ~ Apart(A, c, c)
  <2>1. SUFFICES ASSUME NEW i \in DOMAIN A, NEW j \in DOMAIN A, i < j,
                        c \in IdsIn(A[i]), c \in IdsIn(A[j])
                 PROVE  FALSE
    BY DEF Apart
  <2>2. i = j
    BY <2>1 DEF IdsIn, OwnIds
  <2>3. i \in Nat
    BY <1>1
  <2> QED
    BY <2>1, <2>2, <2>3
<1> QED
  BY <1>2, <1>3, <1>4

LEMMA FlatElements ==
  ASSUME NEW A, IsCode(A)
  PROVE  ToSet(FlattenSeq(A)) = InstsOf(A) /\ FlattenSeq(A) \in Seq(InstsOf(A))
<1>1. A \in Seq(Seq(InstsOf(A)))
  BY DEF IsCode
<1>2. ToSet(FlattenSeq(A)) = UNION {ToSet(A[b]) : b \in DOMAIN A}
  BY <1>1, FlattenElements
<1> QED
  BY <1>2, FlattenCode DEF InstsOf

LEMMA ReloadsAre ==
  ASSUME NEW A, IsCode(A), OwnIds(A), NEW id, NEW slot, NEW q, NEW s, s = ReloadsAt(A, q, id, slot)
  PROVE  /\ s \in Seq(ToSet(s))
         /\ \A w : w \in ToSet(s) <=> ReloadFor(A, id, slot, q, w)
         /\ \A c : ~ InOrder(s, c, c)
<1> DEFINE users == {p \in UsersOf(A, id) :
                       \E k \in DOMAIN InstAt(A, p).args :
                         InstAt(A, p).args[k] = Reg(id) /\ ReadAt(A, p, k) = q}
           T == {InstAt(A, p) : p \in users}
           list == Select(FlattenSeq(A), T)
<1>1. s \in Seq(ToSet(s))
  BY ReloadsNew DEF AllNew
<1>2. s = [i \in DOMAIN list |-> Reload(slot, list[i].id, q[1])]
  BY DEF ReloadsAt
<1>3. \A x : x \in T <=> \E p \in Places(A) : \E k \in DOMAIN InstAt(A, p).args :
               /\ InstAt(A, p).args[k] = Reg(id) /\ ReadAt(A, p, k) = q /\ x = InstAt(A, p)
  BY DEF UsersOf, ToSet
<1> HIDE DEF T
<1>4. /\ list \in Seq(InstsOf(A)) /\ ToSet(list) = ToSet(FlattenSeq(A)) \cap T
      /\ ToSet(FlattenSeq(A)) = InstsOf(A)
  BY FlatElements, SelectType, SelectElements
<1>5. T \subseteq InstsOf(A)
  <2>1. ASSUME NEW p \in Places(A) PROVE InstAt(A, p) \in InstsOf(A)
    BY PlacePair, ElementAt DEF InstsOf
  <2> QED
    BY <1>3, <2>1
<1>6. ToSet(list) = T
  BY <1>4, <1>5
<1>7. \A c : ~ InOrder(list, c, c)
  BY FlatElements, OrderSelect, OwnFlat
<1> HIDE DEF list
<1>8. \A x : x \in T <=> \E i \in DOMAIN list : list[i] = x
  BY <1>6, ElementAt
<1>9. DOMAIN s = DOMAIN list /\ \A i \in DOMAIN list : s[i] = Reload(slot, list[i].id, q[1])
  BY <1>2
<1>10. ASSUME NEW w PROVE w \in ToSet(s) <=> ReloadFor(A, id, slot, q, w)
  <2>1. w \in ToSet(s) <=> \E i \in DOMAIN list : w = Reload(slot, list[i].id, q[1])
    BY <1>9, ElementAt
  <2>2. w \in ToSet(s) <=> \E x \in T : w = Reload(slot, x.id, q[1])
    BY <1>8, <2>1
  <2> QED
    BY <1>3, <2>2 DEF ReloadFor
<1>11. ASSUME NEW c, InOrder(s, c, c) PROVE FALSE
  <2>1. PICK i, j \in DOMAIN s : i < j /\ s[i].id = c /\ s[j].id = c
    BY <1>11 DEF InOrder
  <2>2. s[i].id = <<"reload", slot, list[i].id, q[1]>> /\ s[j].id = <<"reload", slot, list[j].id, q[1]>>
    BY <1>9, LoadIs
  <2>3. list[i].id = list[j].id
    BY <2>1, <2>2
  <2>4. InOrder(list, list[i].id, list[i].id)
    BY <1>9, <2>1, <2>3 DEF InOrder
  <2> QED
    BY <1>7, <2>4
<1> QED
  BY <1>1, <1>10, <1>11

LEMMA ReloadingIs ==
  ASSUME NEW A, NEW id, NEW slot, NEW R, R = Reloading(A, id, slot)
  PROVE  /\ Rewrites(A, R)
         /\ \A b \in DOMAIN A : \A i \in DOMAIN A[b] : \A k \in DOMAIN A[b][i].args :
              R[b][i].args[k] =
                IF A[b][i].args[k] # Reg(id) THEN A[b][i].args[k]
                ELSE Reg(Reload(slot, A[b][i].id, ReadAt(A, <<b, i>>, k)[1]).id)
<1>1. DOMAIN R = DOMAIN A /\ \A b \in DOMAIN A : DOMAIN R[b] = DOMAIN A[b]
  BY DEF Reloading
<1>2. ASSUME NEW b \in DOMAIN A, NEW i \in DOMAIN A[b], NEW args,
             args = [k \in DOMAIN A[b][i].args |->
                       IF A[b][i].args[k] # Reg(id) THEN A[b][i].args[k]
                       ELSE Reg(Reload(slot, A[b][i].id, ReadAt(A, <<b, i>>, k)[1]).id)]
      PROVE  R[b][i] = WithArgs(A[b][i], args)
  BY <1>2 DEF Reloading
<1>3. ASSUME NEW b \in DOMAIN A, NEW i \in DOMAIN A[b]
      PROVE  /\ \E args : /\ R[b][i] = WithArgs(A[b][i], args)
                          /\ args = [k \in DOMAIN A[b][i].args |-> args[k]]
             /\ \A k \in DOMAIN A[b][i].args :
                  R[b][i].args[k] =
                    IF A[b][i].args[k] # Reg(id) THEN A[b][i].args[k]
                    ELSE Reg(Reload(slot, A[b][i].id, ReadAt(A, <<b, i>>, k)[1]).id)
  <2>1. PICK args : args = [k \in DOMAIN A[b][i].args |->
                       IF A[b][i].args[k] # Reg(id) THEN A[b][i].args[k]
                       ELSE Reg(Reload(slot, A[b][i].id, ReadAt(A, <<b, i>>, k)[1]).id)]
    OBVIOUS
  <2>2. R[b][i] = WithArgs(A[b][i], args)
    BY <1>2, <2>1
  <2>3. R[b][i].args = args
    BY <2>2 DEF WithArgs, Inst
  <2>4. args = [k \in DOMAIN A[b][i].args |-> args[k]]
    BY <2>1
  <2>5. \A k \in DOMAIN A[b][i].args :
          args[k] = IF A[b][i].args[k] # Reg(id) THEN A[b][i].args[k]
                    ELSE Reg(Reload(slot, A[b][i].id, ReadAt(A, <<b, i>>, k)[1]).id)
    BY <2>1
  <2> QED
    BY <2>2, <2>3, <2>4, <2>5
<1> QED
  BY <1>1, <1>3 DEF Rewrites

(* The register defined at i in block b, when the insertion point is at u. *)
RegAt(A, n, slot, id, b, i, u, qq, y, R) ==
  /\ n \in Nat /\ slot = <<"slot", n>>
  /\ b \in DOMAIN A /\ i \in DOMAIN A[b] /\ A[b][i].id = id
  /\ A[b][i].kind \notin NoValue \cup {"pad"}
  /\ u \in Nat /\ <<1, u>> \in Places(A) /\ u < Len(A[1]) /\ A[1][u].id = point
  /\ \A m \in DOMAIN A[1] : A[1][m].kind \notin Bare => u <= m
  /\ b = 1 => u <= i
  /\ FirstIs(A, b, i + 1, qq)
  /\ y = Store(<<"store", slot>>, Reg(id), slot)
  /\ R = Reloading(A, id, slot)

ReloadLists(A, id, slot) == [q \in Places(A) |-> ReloadsAt(A, q, id, slot)]

LEMMA RegisterIs ==
  ASSUME NEW A, Fit(A), OwnIds(A), PointAt(A, point), 1 \in DOMAIN A, NEW n, NEW slot, NEW id,
         NEW b, NEW i, NEW u, NEW y, NEW R, NEW qq,
         RegAt(A, n, slot, id, b, i, u, qq, y, R), Places(R) = Places(A),
         qq = FirstInsertionPoint(A, b, i + 1)
  PROVE  DemoteRegToStack(A, id, point, slot)
           = PutBefore(R, NewFor(R, slot, <<1, u>>, qq, y, ReloadLists(A, id, slot)))
<1>1. <<b, i>> \in Places(A) /\ InstAt(A, <<b, i>>).id = id
  BY InPlaces DEF RegAt
<1>2. PlaceOf(A, id) = <<b, i>>
  BY <1>1, PlaceOfIs DEF Fit
<1>3. PICK new : new = [q \in Places(A) |->
                          When(AtPoint(A, q, point), Alloca(slot))
                            \o When(q = qq, Store(<<"store", slot>>, Reg(id), slot))
                            \o ReloadsAt(A, q, id, slot)]
  OBVIOUS
<1>4. DemoteRegToStack(A, id, point, slot) = PutBefore(R, new)
  BY <1>2, <1>3 DEF DemoteRegToStack, RegAt
<1>5. PICK v : PointIs(A, point, v)
  BY PointPlace DEF Fit
<1>6. v = u
  <2>1. <<1, u>> \in Places(A) /\ InstAt(A, <<1, u>>).id = point
    BY InPlaces DEF RegAt
  <2>2. <<1, u>> = <<1, v>>
    BY <1>5, <2>1, OnePlace DEF Fit, PointIs
  <2> QED
    BY <2>2
<1>7. ASSUME NEW q \in Places(A)
      PROVE  new[q] = Three(q = <<1, u>>, Alloca(slot), q = qq, y, ReloadLists(A, id, slot)[q])
  <2>1. AtPoint(A, q, point) \in BOOLEAN
    BY DEF AtPoint
  <2>2. AtPoint(A, q, point) = (q = <<1, u>>)
    BY <1>5, <1>6, <2>1 DEF PointIs
  <2>3. ReloadLists(A, id, slot)[q] = ReloadsAt(A, q, id, slot)
    BY DEF ReloadLists
  <2>4. y = Store(<<"store", slot>>, Reg(id), slot)
    BY DEF RegAt
  <2>5. new[q] = (When(AtPoint(A, q, point), Alloca(slot))
                   \o When(q = qq, Store(<<"store", slot>>, Reg(id), slot)))
                   \o ReloadsAt(A, q, id, slot)
    BY <1>3
  <2> QED
    BY <2>2, <2>3, <2>4, <2>5 DEF Three
<1>8. new = NewFor(R, slot, <<1, u>>, qq, y, ReloadLists(A, id, slot))
  BY <1>3, <1>7 DEF NewFor
<1> QED
  BY <1>4, <1>8

ListFor(A, id, slot, q, s) ==
  /\ s \in Seq(ToSet(s))
  /\ \A w : w \in ToSet(s) <=> ReloadFor(A, id, slot, q, w)
  /\ \A c : ~ InOrder(s, c, c)

(* A reload is the one for a user in a block that it is read in.           *)
LEMMA ReloadOne ==
  ASSUME NEW A, Fit(A), OwnIds(A), Shapes(A), NEW id, NEW slot, NEW q, NEW r, NEW v, NEW w,
         ReloadFor(A, id, slot, q, v), ReloadFor(A, id, slot, r, w), v.id = w.id
  PROVE  q = r /\ v = w
<1>1a. PICK p \in Places(A) : \E k \in DOMAIN InstAt(A, p).args :
        /\ InstAt(A, p).args[k] = Reg(id) /\ ReadAt(A, p, k) = q
        /\ v = Reload(slot, InstAt(A, p).id, q[1])
  BY DEF ReloadFor
<1>1. PICK k \in DOMAIN InstAt(A, p).args :
        /\ InstAt(A, p).args[k] = Reg(id) /\ ReadAt(A, p, k) = q
        /\ v = Reload(slot, InstAt(A, p).id, q[1])
  BY <1>1a
<1>2a. PICK o \in Places(A) : \E l \in DOMAIN InstAt(A, o).args :
        /\ InstAt(A, o).args[l] = Reg(id) /\ ReadAt(A, o, l) = r
        /\ w = Reload(slot, InstAt(A, o).id, r[1])
  BY DEF ReloadFor
<1>2. PICK l \in DOMAIN InstAt(A, o).args :
        /\ InstAt(A, o).args[l] = Reg(id) /\ ReadAt(A, o, l) = r
        /\ w = Reload(slot, InstAt(A, o).id, r[1])
  BY <1>2a
<1>3. /\ v.id = <<"reload", slot, InstAt(A, p).id, q[1]>>
      /\ w.id = <<"reload", slot, InstAt(A, o).id, r[1]>>
  BY <1>1, <1>2, LoadIs
<1>4. InstAt(A, p).id = InstAt(A, o).id /\ q[1] = r[1]
  <2>1. <<"reload", slot, InstAt(A, p).id, q[1]>> = <<"reload", slot, InstAt(A, o).id, r[1]>>
    BY <1>3
  <2>2. PICK c, d, e, f : /\ c = InstAt(A, p).id /\ d = InstAt(A, o).id
                          /\ e = q[1] /\ f = r[1]
    OBVIOUS
  <2>3. <<"reload", slot, c, e>> = <<"reload", slot, d, f>>
    BY <2>1, <2>2
  <2>4. c = d /\ e = f
    BY <2>3
  <2> QED
    BY <2>2, <2>4
<1>5. p = o
  BY <1>4, OnePlace DEF Fit
<1>6. /\ p = <<p[1], p[2]>> /\ p[1] \in DOMAIN A /\ p[2] \in DOMAIN A[p[1]]
      /\ InstAt(A, p) = A[p[1]][p[2]]
  BY PlacePair
<1>7. /\ q = <<q[1], q[2]>>
      /\ A[p[1]][p[2]].kind # "phi" => q = p
      /\ A[p[1]][p[2]].kind = "phi" => q[2] = Len(A[q[1]])
  BY <1>1, <1>6, ReadPlace
<1>8. /\ r = <<r[1], r[2]>>
      /\ A[p[1]][p[2]].kind # "phi" => r = p
      /\ A[p[1]][p[2]].kind = "phi" => r[2] = Len(A[r[1]])
  BY <1>2, <1>5, <1>6, ReadPlace
<1>9. q = r
  BY <1>4, <1>7, <1>8
<1> QED
  BY <1>1, <1>2, <1>5, <1>9

LEMMA ReloadMayPut ==
  ASSUME NEW A, Fit(A), NEW n, NEW k, NEW t, NEW gs, Sound(A, n, k, t, gs),
         NEW slot, NEW id, NEW b, NEW i, NEW u, NEW qq, NEW y, NEW R,
         RegAt(A, n, slot, id, b, i, u, qq, y, R), Sound(R, n, k, t, gs),
         NEW q, NEW w, ReloadFor(A, id, slot, q, w), NEW pp, pp[2] = u
  PROVE  /\ MayPut(R, n, k, t, slot, pp, q, w)
         /\ w.id = <<"reload", slot, w.id[3], w.id[4]>> /\ w.kind = "load"
<1>1a. PICK p \in Places(A) : \E l \in DOMAIN InstAt(A, p).args :
        /\ InstAt(A, p).args[l] = Reg(id) /\ ReadAt(A, p, l) = q
        /\ w = Reload(slot, InstAt(A, p).id, q[1])
  BY DEF ReloadFor
<1>1. PICK l \in DOMAIN InstAt(A, p).args :
        /\ InstAt(A, p).args[l] = Reg(id) /\ ReadAt(A, p, l) = q
        /\ w = Reload(slot, InstAt(A, p).id, q[1])
  BY <1>1a
<1>2. /\ w.id = <<"reload", slot, InstAt(A, p).id, q[1]>> /\ w.kind = "load" /\ w.ref = slot
      /\ DOMAIN w.args = {}
  BY <1>1, LoadIs
<1>3. PICK c : c = w.id
  OBVIOUS
<1>4. c[1] \in {"store", "reload"} /\ c[2] = slot
  BY <1>2, <1>3
<1>5. n \in Nat /\ slot = <<"slot", n>> /\ AllOld(R, n, k, t)
  BY DEF RegAt, Sound
<1>6. Fresh(R, n, k, t, slot, c)
  BY <1>4, <1>5, FreshIds
<1>7. /\ p = <<p[1], p[2]>> /\ p[1] \in DOMAIN A /\ p[2] \in DOMAIN A[p[1]]
      /\ InstAt(A, p) = A[p[1]][p[2]]
  BY PlacePair
<1>8. /\ u \in Nat /\ u < Len(A[1]) /\ Shapes(A)
      /\ \A m \in DOMAIN A[1] : A[1][m].kind \notin Bare => u <= m
  BY DEF RegAt, Sound
<1>9. q = ReadAt(A, <<p[1], p[2]>>, l) /\ l \in DOMAIN A[p[1]][p[2]].args
  BY <1>1, <1>7
<1>10. q[1] = 1 => u <= q[2]
  BY <1>7, <1>8, <1>9, ReadAfter
<1>11. MayPut(R, n, k, t, slot, pp, q, w)
  BY <1>2, <1>3, <1>6, <1>10, NumberedIs DEF MayPut, Slots, Fresh
<1> QED
  BY <1>2, <1>11

LEMMA RegisterPuts ==
  ASSUME NEW A, Fit(A), NEW n, NEW k, NEW t, NEW gs, Sound(A, n, k, t, gs),
         NEW slot, NEW id, NEW b, NEW i, NEW u, NEW qq, NEW y, NEW R,
         RegAt(A, n, slot, id, b, i, u, qq, y, R), Sound(R, n, k, t, gs), Places(R) = Places(A),
         NEW lists, \A q \in Places(A) : ListFor(A, id, slot, q, lists[q]), NEW pp, pp = <<1, u>>
  PROVE  Puts3(R, n, k, t, slot, pp, qq, y, lists)
<1>1. y.id = <<"store", slot>> /\ y.kind = "store" /\ y.ref = slot /\ DOMAIN y.args = {1}
  BY StoreIs DEF RegAt
<1>0. Numbered(y)
  BY <1>1, NumberedIs
<1>2. n \in Nat /\ slot = <<"slot", n>> /\ AllOld(R, n, k, t)
  BY DEF RegAt, Sound
<1>3. PICK c : c = y.id
  OBVIOUS
<1>4. c[1] \in {"store", "reload"} /\ c[2] = slot
  BY <1>1, <1>3
<1>5. Fresh(R, n, k, t, slot, c)
  BY <1>2, <1>4, FreshIds
<1>6. pp \in Places(R) /\ pp[1] = 1 /\ pp[2] = u
  BY DEF RegAt
<1>7. qq = <<b, qq[2]>> /\ qq[1] = b /\ qq[2] \in DOMAIN A[b] /\ qq[2] \in Nat /\ i + 1 <= qq[2]
  BY DEF RegAt, FirstIs
<1>8. qq \in Places(R)
  BY <1>7, InPlaces DEF RegAt
<1>9. qq[1] = 1 => u < qq[2]
  <2>1. i \in Nat /\ u \in Nat
    BY BlockSeq DEF RegAt, Fit
  <2> QED
    BY <1>7, <2>1 DEF RegAt
<1>10. u \in Nat /\ qq[2] \in Nat
  BY <1>7 DEF RegAt
<1>11. MayPut(R, n, k, t, slot, pp, qq, y)
  BY <1>0, <1>1, <1>3, <1>5, <1>6, <1>9, <1>10 DEF MayPut, Slots, Fresh
<1>12. \A q \in Places(R) : lists[q] \in Seq(ToSet(lists[q]))
  BY DEF ListFor
<1>13. ASSUME NEW q \in Places(R), NEW z \in ToSet(lists[q])
       PROVE  ReloadFor(A, id, slot, q, z)
  <2>1. ListFor(A, id, slot, q, lists[q])
    OBVIOUS
  <2> QED
    BY <2>1 DEF ListFor
<1>14. ASSUME NEW q \in Places(R), NEW z \in ToSet(lists[q])
       PROVE  MayPut(R, n, k, t, slot, pp, q, z) /\ z.id # y.id
  <2>1. ReloadFor(A, id, slot, q, z)
    BY <1>13
  <2>2. MayPut(R, n, k, t, slot, pp, q, z) /\ z.id = <<"reload", slot, z.id[3], z.id[4]>>
    BY <1>6, <2>1, ReloadMayPut
  <2> QED
    BY <1>1, <2>2
<1>15. \A q \in Places(R) : \A d : ~ InOrder(lists[q], d, d)
  BY DEF ListFor
<1>16. ASSUME NEW q \in Places(R), NEW r \in Places(R), NEW v \in ToSet(lists[q]),
              NEW w \in ToSet(lists[r]), v.id = w.id
       PROVE  q = r /\ v = w
  <2>1. ReloadFor(A, id, slot, q, v) /\ ReloadFor(A, id, slot, r, w)
    BY <1>13
  <2>2. OwnIds(A) /\ Shapes(A)
    BY DEF Sound
  <2> QED
    BY <1>16, <2>1, <2>2, ReloadOne
<1> QED
  BY <1>6, <1>8, <1>11, <1>12, <1>14, <1>15, <1>16 DEF Puts3

(* What the demotion of a register makes of the code.                      *)
RegOut(A, b, id, slot, y, R, C) ==
  /\ DOMAIN C = DOMAIN A /\ Carries(A, C, {})
  /\ b \in DOMAIN A /\ InOrder(C[b], id, y.id)
  /\ \A e \in DOMAIN A :
       /\ \A z \in ToSet(C[e]) : \/ z = Alloca(slot) \/ (z = y /\ e = b)
                                 \/ \E q : ReloadFor(A, id, slot, q, z)
                                 \/ \E m \in DOMAIN A[e] : z = R[e][m]
       /\ \A m \in DOMAIN A[e] : R[e][m] \in ToSet(C[e])

ReloadedAt(A, C, id, slot, e, m, k, l) ==
  /\ l.kind = "load" /\ \E a \in DOMAIN A :
       /\ l \in ToSet(C[a])
       /\ A[e][m].kind # "phi" => InOrder(C[e], l.id, A[e][m].id)
       /\ A[e][m].kind = "phi" => a = A[e][m].blocks[k]

LEMMA RegisterOut ==
  ASSUME NEW A, Fit(A), NEW n, NEW slot, NEW id, NEW b, NEW i, NEW u, NEW qq, NEW y, NEW R,
         RegAt(A, n, slot, id, b, i, u, qq, y, R), Rewrites(A, R), IsCode(R),
         \A e \in DOMAIN A : \A c, d : InOrder(R[e], c, d) <=> InOrder(A[e], c, d),
         Places(R) = Places(A),
         NEW lists, \A q \in Places(A) : ListFor(A, id, slot, q, lists[q]),
         NEW C, PutFacts(R, C, slot, qq, y, lists)
  PROVE  RegOut(A, b, id, slot, y, R, C)
<1>1. DOMAIN R = DOMAIN A /\ DOMAIN C = DOMAIN A /\ \A e \in DOMAIN A : DOMAIN R[e] = DOMAIN A[e]
  BY DEF PutFacts, Rewrites
<1>2. Carries(A, C, {})
  BY RewriteCarries, PutCarries, CarriesOn
<1>3. qq[1] = b /\ qq[2] \in Nat /\ i + 1 <= qq[2]
  BY DEF RegAt, FirstIs
<1>4. b \in DOMAIN A /\ i \in DOMAIN A[b] /\ A[b][i].id = id /\ i \in Nat
  BY BlockSeq DEF RegAt, Fit
<1>5. InOrder(C[b], id, y.id)
  <2>1. R[b][i].id = id
    BY <1>4, RewrittenInst DEF Alike
  <2>2. i \in DOMAIN R[b] /\ i < qq[2]
    BY <1>1, <1>3, <1>4
  <2>3. \A j \in DOMAIN R[qq[1]] : j < qq[2] => InOrder(C[qq[1]], R[qq[1]][j].id, y.id)
    BY DEF PutFacts
  <2> QED
    BY <1>3, <2>1, <2>2, <2>3
<1>6. ASSUME NEW e \in DOMAIN A, NEW z \in ToSet(C[e])
      PROVE  \/ z = Alloca(slot) \/ (z = y /\ e = b)
             \/ \E q : ReloadFor(A, id, slot, q, z)
             \/ \E m \in DOMAIN A[e] : z = R[e][m]
  <2>1. \/ z \in ToSet(R[e]) \/ z = Alloca(slot) \/ (e = qq[1] /\ z = y)
        \/ \E m \in DOMAIN R[e] : z \in ToSet(lists[<<e, m>>])
    BY <1>1 DEF PutFacts
  <2>2. CASE z \in ToSet(R[e])
    BY <1>1, <2>2, ElementAt
  <2>3. CASE \E m \in DOMAIN R[e] : z \in ToSet(lists[<<e, m>>])
    <3>1. PICK m \in DOMAIN A[e] : z \in ToSet(lists[<<e, m>>])
      BY <1>1, <2>3
    <3>2. PICK q : q = <<e, m>>
      OBVIOUS
    <3>3. q \in Places(A) /\ z \in ToSet(lists[q])
      BY <3>1, <3>2, InPlaces
    <3>4. ListFor(A, id, slot, q, lists[q])
      BY <3>3
    <3> QED
      BY <3>3, <3>4 DEF ListFor
  <2> QED
    BY <1>3, <2>1, <2>2, <2>3
<1>7. ASSUME NEW e \in DOMAIN A, NEW m \in DOMAIN A[e] PROVE R[e][m] \in ToSet(C[e])
  <2>1. R[e][m] \in ToSet(R[e])
    BY <1>1, ElementAt
  <2> QED
    BY <1>1, <2>1 DEF PutFacts
<1> QED
  BY <1>1, <1>2, <1>4, <1>5, <1>6, <1>7 DEF RegOut

(* A reload comes before what it is for.                                   *)
LEMMA RegisterReloads ==
  ASSUME NEW A, Fit(A), Shapes(A), NEW R, Rewrites(A, R), Places(R) = Places(A),
         NEW id, NEW slot, NEW qq, NEW y,
         NEW lists, \A q \in Places(A) : ListFor(A, id, slot, q, lists[q]),
         NEW C, PutFacts(R, C, slot, qq, y, lists),
         NEW e \in DOMAIN A, NEW m \in DOMAIN A[e], NEW k \in DOMAIN A[e][m].args,
         A[e][m].args[k] = Reg(id), NEW at, at = ReadAt(A, <<e, m>>, k),
         NEW l, l = Reload(slot, A[e][m].id, at[1])
  PROVE  ReloadedAt(A, C, id, slot, e, m, k, l)
<1>1. /\ at \in Places(A) /\ at = <<at[1], at[2]>>
      /\ at[1] \in DOMAIN A /\ at[2] \in DOMAIN A[at[1]]
      /\ A[e][m].kind # "phi" => at = <<e, m>>
      /\ A[e][m].kind = "phi" => at[1] = A[e][m].blocks[k] /\ at[2] = Len(A[at[1]])
  BY ReadPlace
<1>2. <<e, m>> \in Places(A) /\ InstAt(A, <<e, m>>) = A[e][m]
  BY InPlaces
<1>3. ReloadFor(A, id, slot, at, l)
  BY <1>2 DEF ReloadFor
<1>4. l \in ToSet(lists[at])
  <2>1. ListFor(A, id, slot, at, lists[at])
    BY <1>1
  <2> QED
    BY <1>3, <2>1 DEF ListFor
<1>5. /\ l \in ToSet(C[at[1]])
      /\ \A j \in DOMAIN R[at[1]] :
           at[2] <= j => InOrder(C[at[1]], l.id, R[at[1]][j].id)
  BY <1>1, <1>4 DEF PutFacts
<1>6. ASSUME A[e][m].kind # "phi" PROVE InOrder(C[e], l.id, A[e][m].id)
  <2>1. at[1] = e /\ at[2] = m
    BY <1>1, <1>6
  <2>2. m <= m
    BY BlockSeq DEF Fit
  <2>3. m \in DOMAIN R[e] /\ R[e][m].id = A[e][m].id
    <3>1. m \in DOMAIN R[e]
      BY DEF Rewrites
    <3>2. Alike(R[e][m], A[e][m])
      BY RewrittenInst
    <3> QED
      BY <3>1, <3>2 DEF Alike
  <2> QED
    BY <1>5, <2>1, <2>2, <2>3
<1>7. l.kind = "load"
  BY LoadIs
<1> QED
  BY <1>1, <1>5, <1>6, <1>7 DEF ReloadedAt

(* Pads aside, a register is local to its block when its turn is over.     *)
LEMMA RegisterLocal ==
  ASSUME NEW A, Fit(A), OwnIds(A), Shapes(A), NEW W, LocalUses(A, W),
         NEW n, NEW slot, NEW id, NEW b, NEW i, NEW u, NEW qq, NEW y, NEW R,
         RegAt(A, n, slot, id, b, i, u, qq, y, R), R = Reloading(A, id, slot),
         NEW C, RegOut(A, b, id, slot, y, R, C), NEW V, W \ {id} \subseteq V,
         \A e \in DOMAIN A : \A m \in DOMAIN A[e] : \A k \in DOMAIN A[e][m].args :
           A[e][m].args[k] = Reg(id) =>
             ReloadedAt(A, C, id, slot, e, m, k,
                        Reload(slot, A[e][m].id, ReadAt(A, <<e, m>>, k)[1]))
  PROVE  LocalUses(C, V)
<1>1. DOMAIN C = DOMAIN A /\ Carries(A, C, {}) /\ b \in DOMAIN A /\ InOrder(C[b], id, y.id)
  BY DEF RegOut
<1>2. /\ i \in DOMAIN A[b] /\ A[b][i].id = id /\ A[b][i].kind \notin NoValue \cup {"pad"}
      /\ y = Store(<<"store", slot>>, Reg(id), slot)
  BY DEF RegAt
<1>3. A[b][i] \in ToSet(A[b])
  BY <1>2, ElementAt
<1>4. ~ NamesPad(A, id) /\ NamesValue(A, id)
  <2>1. ~ NamesPad(A, id)
    BY <1>1, <1>2, <1>3, NamesOne
  <2>2. NamesValue(A, id)
    BY <1>1, <1>2, <1>3 DEF NamesValue
  <2> QED
    BY <2>1, <2>2
<1>5. /\ Rewrites(A, R)
      /\ \A e \in DOMAIN A : \A m \in DOMAIN A[e] : \A k \in DOMAIN A[e][m].args :
           R[e][m].args[k] =
             IF A[e][m].args[k] # Reg(id) THEN A[e][m].args[k]
             ELSE Reg(Reload(slot, A[e][m].id, ReadAt(A, <<e, m>>, k)[1]).id)
  BY ReloadingIs
<1>6. SUFFICES ASSUME NEW e \in DOMAIN A, NEW z \in ToSet(C[e]), NEW k \in DOMAIN z.args
               PROVE  LocalArg(C, V, e, z, k, z.args[k])
  BY <1>1 DEF LocalUses
<1>7. CASE z = Alloca(slot)
  BY <1>7 DEF Alloca, Inst
<1>8. CASE \E q : ReloadFor(A, id, slot, q, z)
  BY <1>8, LoadIs DEF ReloadFor
<1>9. CASE z = y /\ e = b
  <2>1. z.kind = "store" /\ z.args = <<Reg(id)>>
    BY <1>2, <1>9 DEF Store, Inst
  <2>2. z.args[k] = Reg(id) /\ Reg(id)[2] = id
    BY <2>1 DEF Reg
  <2>3. NamesValue(C, id)
    BY <1>1, <1>4, NamesCarry
  <2> QED
    BY <1>1, <1>9, <2>1, <2>2, <2>3 DEF LocalArg
<1>10. CASE \E m \in DOMAIN A[e] : z = R[e][m]
  <2>1. PICK m \in DOMAIN A[e] : z = R[e][m]
    BY <1>10
  <2>2. PICK x : x = A[e][m]
    OBVIOUS
  <2>3. Alike(z, x) /\ DOMAIN z.args = DOMAIN x.args /\ x \in ToSet(A[e])
    BY <1>5, <2>1, <2>2, RewrittenInst, ElementAt
  <2>4. LocalArg(A, W, e, x, k, x.args[k])
    BY <2>3 DEF LocalUses
  <2>5. z.id = x.id /\ z.kind = x.kind /\ z.blocks = x.blocks
    BY <2>3 DEF Alike
  <2>6. x.kind = "phi" => x.blocks[k] \in DOMAIN A
    <3>1. x.kind = "phi" => x.blocks \in Seq(DOMAIN A) /\ DOMAIN x.args = DOMAIN x.blocks
      BY <2>3 DEF Fit, Shapes, Shaped
    <3> QED
      BY <2>3, <3>1
  <2>7. CASE x.args[k] # Reg(id)
    <3>1. z.args[k] = x.args[k]
      BY <1>5, <2>1, <2>2, <2>3, <2>7
    <3>2. PICK arg : arg = x.args[k]
      OBVIOUS
    <3>3. arg = Reg(arg[2]) => arg[2] \notin {} /\ (arg[2] \in W => arg[2] \in V)
      BY <2>7, <3>2
    <3>4. LocalArg(A, W, e, x, k, arg)
      BY <2>4, <3>2
    <3>5. x.id \notin {}
      OBVIOUS
    <3>6. LocalArg(C, V, e, z, k, arg)
      BY <1>1, <2>5, <2>6, <3>3, <3>4, <3>5, LocalCarries
    <3> QED
      BY <3>1, <3>2, <3>6
  <2>8. CASE x.args[k] = Reg(id)
    <3>1. PICK l : l = Reload(slot, x.id, ReadAt(A, <<e, m>>, k)[1])
      OBVIOUS
    <3>2. ReloadedAt(A, C, id, slot, e, m, k, l)
      BY <2>2, <2>3, <2>8, <3>1
    <3>3. z.args[k] = Reg(l.id) /\ Reg(l.id)[2] = l.id
      BY <1>5, <2>1, <2>2, <2>3, <2>8, <3>1 DEF Reg
    <3>4. PICK a \in DOMAIN A :
            /\ l.kind = "load" /\ l \in ToSet(C[a])
            /\ x.kind # "phi" => InOrder(C[e], l.id, x.id)
            /\ x.kind = "phi" => a = x.blocks[k]
      BY <2>2, <3>2 DEF ReloadedAt
    <3>5. NamesValue(C, l.id)
      BY <1>1, <3>4 DEF NamesValue, NoValue, Terminators
    <3>6. x.kind # "pad"
      BY <1>4, <2>4, <2>8 DEF LocalArg, Reg
    <3>7. x.kind = "phi" => LoadIn(C[x.blocks[k]], l.id)
      BY <3>4 DEF LoadIn
    <3>8. LocalArg(C, V, e, z, k, Reg(l.id))
      BY <2>5, <3>3, <3>4, <3>5, <3>6, <3>7 DEF LocalArg
    <3> QED
      BY <3>3, <3>8
  <2> QED
    BY <2>7, <2>8
<1> QED
  BY <1>6, <1>7, <1>8, <1>9, <1>10 DEF RegOut

(* A register that can be demoted: its value comes after the insertion     *)
(* point.                                                                  *)
Registered(A, c) ==
  \E b \in DOMAIN A : \E y \in ToSet(A[b]) :
    /\ y.id = c /\ y.kind \notin NoValue \cup {"pad"}
    /\ b = 1 => c = point \/ InOrder(A[1], point, c)

LEMMA RegisteredCarries ==
  ASSUME NEW A, 1 \in DOMAIN A, NEW C, Carries(A, C, {}), NEW c, Registered(A, c)
  PROVE  Registered(C, c)
<1>1. PICK b \in DOMAIN A : \E y \in ToSet(A[b]) :
        /\ y.id = c /\ y.kind \notin NoValue \cup {"pad"}
        /\ b = 1 => c = point \/ InOrder(A[1], point, c)
  BY DEF Registered
<1>2. PICK y \in ToSet(A[b]) :
        /\ y.id = c /\ y.kind \notin NoValue \cup {"pad"}
        /\ b = 1 => c = point \/ InOrder(A[1], point, c)
  BY <1>1
<1>3. PICK z \in ToSet(C[b]) : z.id = y.id /\ z.kind = y.kind
  BY DEF Carries
<1>4. InOrder(A[1], point, c) => InOrder(C[1], point, c)
  BY DEF Carries
<1>5. b \in DOMAIN C
  BY DEF Carries
<1> QED
  BY <1>2, <1>3, <1>4, <1>5 DEF Registered

LEMMA OrderAt ==
  ASSUME NEW A, IsCode(A), OwnIds(A), NEW b \in DOMAIN A, NEW i \in DOMAIN A[b],
         NEW j \in DOMAIN A[b], InOrder(A[b], A[b][i].id, A[b][j].id)
  PROVE  i < j
<1>1. PICK v \in DOMAIN A[b], w \in DOMAIN A[b] :
        v < w /\ A[b][v].id = A[b][i].id /\ A[b][w].id = A[b][j].id
  BY DEF InOrder
<1> QED
  BY <1>1, OneIndex

LEMMA RegisterHere ==
  ASSUME NEW A, NEW n \in Nat, NEW k, NEW t, NEW gs, Whole(A, n, k, t, gs),
         NEW u, PointIs(A, point, u), NEW id, Registered(A, id), NEW slot, slot = <<"slot", n>>,
         NEW y, y = Store(<<"store", slot>>, Reg(id), slot), NEW R, R = Reloading(A, id, slot)
  PROVE  \E b, i, qq : /\ RegAt(A, n, slot, id, b, i, u, qq, y, R)
                       /\ qq = FirstInsertionPoint(A, b, i + 1)
<1>1. Fit(A) /\ IsCode(A) /\ OwnIds(A)
  BY DEF Whole, Fit, Sound
<1>2. PICK b \in DOMAIN A : \E x \in ToSet(A[b]) :
        /\ x.id = id /\ x.kind \notin NoValue \cup {"pad"}
        /\ b = 1 => id = point \/ InOrder(A[1], point, id)
  BY DEF Registered
<1>3. PICK x \in ToSet(A[b]) :
        /\ x.id = id /\ x.kind \notin NoValue \cup {"pad"}
        /\ b = 1 => id = point \/ InOrder(A[1], point, id)
  BY <1>2
<1>4. PICK i \in DOMAIN A[b] : A[b][i] = x
  BY ElementAt
<1>5. /\ i \in Nat /\ i <= Len(A[b]) /\ Len(A[b]) \in Nat /\ i \in 1..Len(A[b])
      /\ A[b][Len(A[b])].kind \in Terminators
  BY <1>1, BlockSeq DEF Fit
<1>6. i + 1 \in Nat /\ 1 <= i + 1 /\ i + 1 <= Len(A[b])
  <2>1. i # Len(A[b])
    BY <1>3, <1>4, <1>5 DEF NoValue
  <2> QED
    BY <1>5, <2>1
<1>7. PICK qq : qq = FirstInsertionPoint(A, b, i + 1)
  OBVIOUS
<1>8. FirstIs(A, b, i + 1, qq)
  BY <1>1, <1>6, <1>7, FirstPlace
<1>9. /\ u \in Nat /\ <<1, u>> \in Places(A) /\ u < Len(A[1]) /\ A[1][u].id = point
      /\ \A m \in DOMAIN A[1] : A[1][m].kind \notin Bare => u <= m
      /\ u \in DOMAIN A[1] /\ 1 \in DOMAIN A
  BY DEF PointIs, Whole
<1>10. b = 1 => u <= i
  <2>1. CASE b = 1 /\ id = point
    <3>1. u = i
      BY <1>1, <1>3, <1>4, <1>9, <2>1, OneIndex
    <3> QED
      BY <1>5, <3>1
  <2>2. CASE b = 1 /\ InOrder(A[1], point, id)
    <3>1. InOrder(A[1], A[1][u].id, A[1][i].id)
      BY <1>3, <1>4, <1>9, <2>2
    <3>2. u < i
      BY <1>1, <1>9, <2>2, <3>1, OrderAt
    <3> QED
      BY <1>5, <1>9, <3>2
  <2> QED
    BY <1>3, <2>1, <2>2
<1>11. A[b][i].id = id /\ A[b][i].kind \notin NoValue \cup {"pad"}
  BY <1>3, <1>4
<1>12. RegAt(A, n, slot, id, b, i, u, qq, y, R)
  BY <1>8, <1>9, <1>10, <1>11 DEF RegAt
<1> QED
  BY <1>7, <1>12

(* A register is demoted: it does not wait any more.                       *)
LEMMA UseRegister ==
  ASSUME NEW A, NEW n \in Nat, NEW k, NEW t, NEW gs, Whole(A, n, k, t, gs), PointAt(A, point),
         NEW W, LocalUses(A, W), NEW slot, slot = <<"slot", n>>, NEW id, Registered(A, id),
         NEW V, W \ {id} \subseteq V, NEW C, C = DemoteRegToStack(A, id, point, slot)
  PROVE  /\ Sound(C, n + 1, k, t, gs) /\ PointAt(C, point) /\ LocalUses(C, V)
         /\ \A c : Registered(A, c) => Registered(C, c)
<1>1. Fit(A) /\ IsCode(A) /\ 1 \in DOMAIN A /\ Sound(A, n, k, t, gs)
  BY DEF Whole, Fit
<1>2. OwnIds(A) /\ Shapes(A) /\ Last(A[1]).kind \in Terminators
  BY <1>1 DEF Sound, Fit
<1>3. PICK u : PointIs(A, point, u)
  BY <1>1, <1>2, PointPlace
<1>4. PICK y : y = Store(<<"store", slot>>, Reg(id), slot)
  OBVIOUS
<1>5. PICK R : R = Reloading(A, id, slot)
  OBVIOUS
<1>6. PICK b, i, qq : /\ RegAt(A, n, slot, id, b, i, u, qq, y, R)
                      /\ qq = FirstInsertionPoint(A, b, i + 1)
  BY <1>3, <1>4, <1>5, RegisterHere
<1>7. Rewrites(A, R)
  BY <1>5, ReloadingIs
<1>8. Sound(R, n, k, t, gs) /\ PointAt(R, point)
  BY <1>1, <1>7, RewriteKeeps
<1>9. Places(R) = Places(A)
  BY <1>1, <1>7, RewriteKeeps
<1>10. \A e \in DOMAIN A : \A c, d : InOrder(R[e], c, d) <=> InOrder(A[e], c, d)
  BY <1>1, <1>7, RewriteKeeps
<1>11. IsCode(R)
  BY <1>1, <1>5, ReloadingDerived DEF AllDerived
<1>12. PICK lists : lists = ReloadLists(A, id, slot)
  OBVIOUS
<1>13. PICK pp : pp = <<1, u>>
  OBVIOUS
<1>14. C = PutBefore(R, NewFor(R, slot, pp, qq, y, lists))
  BY <1>1, <1>2, <1>6, <1>9, <1>12, <1>13, RegisterIs
<1>15. ASSUME NEW q \in Places(A) PROVE ListFor(A, id, slot, q, lists[q])
  <2>1. lists[q] = ReloadsAt(A, q, id, slot)
    BY <1>12 DEF ReloadLists
  <2> QED
    BY <1>1, <1>2, <2>1, ReloadsAre DEF ListFor
<1>16. Puts3(R, n, k, t, slot, pp, qq, y, lists)
  BY <1>1, <1>6, <1>8, <1>9, <1>13, <1>15, RegisterPuts
<1>17. InstAt(R, pp).id = point
  <2>1. 1 \in DOMAIN A /\ u \in DOMAIN A[1] /\ A[1][u].id = point
    BY <1>1, <1>3 DEF PointIs
  <2>2. R[1][u].id = point
    BY <1>7, <2>1, RewrittenInst DEF Alike
  <2> QED
    BY <1>13, <2>2, InPlaces
<1>18. OwnIds(R) /\ AllOld(R, n, k, t) /\ Shapes(R) /\ Homes(R, gs)
  BY <1>8 DEF Sound
<1>19. /\ PutFacts(R, C, slot, qq, y, lists)
       /\ OwnIds(C) /\ AllOld(C, n + 1, k, t) /\ Shapes(C) /\ Homes(C, gs)
       /\ PointAt(C, point)
  BY <1>8, <1>11, <1>14, <1>16, <1>17, <1>18, SlotKeeps
<1>20. RegOut(A, b, id, slot, y, R, C)
  BY <1>1, <1>6, <1>7, <1>9, <1>10, <1>11, <1>15, <1>19, RegisterOut
<1>21. ASSUME NEW e \in DOMAIN A, NEW m \in DOMAIN A[e], NEW l \in DOMAIN A[e][m].args,
              A[e][m].args[l] = Reg(id)
       PROVE  ReloadedAt(A, C, id, slot, e, m, l,
                         Reload(slot, A[e][m].id, ReadAt(A, <<e, m>>, l)[1]))
  <2>1. PICK at : at = ReadAt(A, <<e, m>>, l)
    OBVIOUS
  <2>2. PICK load : load = Reload(slot, A[e][m].id, at[1])
    OBVIOUS
  <2>3. ReloadedAt(A, C, id, slot, e, m, l, load)
    BY <1>1, <1>2, <1>7, <1>9, <1>15, <1>19, <1>21, <2>1, <2>2, RegisterReloads
  <2> QED
    BY <2>1, <2>2, <2>3
<1>22. LocalUses(C, V)
  BY <1>1, <1>2, <1>5, <1>6, <1>20, <1>21, RegisterLocal
<1>23. \A c : Registered(A, c) => Registered(C, c)
  BY <1>1, <1>20, RegisteredCarries DEF RegOut
<1> QED
  BY <1>19, <1>22, <1>23 DEF Sound

-----------------------------------------------------------------------------
(* The demotion of a PHI node.                                             *)

(* What is left when the instruction has been erased.                      *)
Erased(A, B, id) ==
  /\ DOMAIN B = DOMAIN A
  /\ \A b \in DOMAIN A :
       /\ \A y : y \in ToSet(B[b]) <=> y \in ToSet(A[b]) /\ y.id # id
       /\ \A c, d : InOrder(B[b], c, d) => InOrder(A[b], c, d)
       /\ \A c, d : InOrder(A[b], c, d) /\ c # id /\ d # id => InOrder(B[b], c, d)

LEMMA EraseIs ==
  ASSUME NEW A, IsCode(A), NEW id, NEW B, B = Erase(A, id)
  PROVE  Erased(A, B, id)
<1>1. DOMAIN B = DOMAIN A
  BY DEF Erase
<1>2. ASSUME NEW b \in DOMAIN A
      PROVE  /\ \A y : y \in ToSet(B[b]) <=> y \in ToSet(A[b]) /\ y.id # id
             /\ \A c, d : InOrder(B[b], c, d) => InOrder(A[b], c, d)
             /\ \A c, d : InOrder(A[b], c, d) /\ c # id /\ d # id => InOrder(B[b], c, d)
  <2>1. A[b] \in Seq(ToSet(A[b]))
    BY BlockSeq
  <2>2. PICK T : T = {x \in ToSet(A[b]) : x.id # id}
    OBVIOUS
  <2>3. B[b] = Select(A[b], T)
    BY <2>2 DEF Erase
  <2>4. ToSet(B[b]) = ToSet(A[b]) \cap T
    BY <2>1, <2>3, SelectElements
  <2>5. \A c, d : /\ InOrder(B[b], c, d) => InOrder(A[b], c, d)
                  /\ /\ InOrder(A[b], c, d)
                     /\ \A x \in ToSet(A[b]) : x.id \in {c, d} => x \in T
                     => InOrder(B[b], c, d)
    BY <2>1, <2>3, OrderSelect
  <2>6. \A c, d : c # id /\ d # id => \A x \in ToSet(A[b]) : x.id \in {c, d} => x \in T
    BY <2>2
  <2> QED
    BY <2>2, <2>4, <2>5, <2>6
<1> QED
  BY <1>1, <1>2 DEF Erased

LEMMA EraseCarries ==
  ASSUME NEW A, NEW B, NEW id, Erased(A, B, id)
  PROVE  Carries(A, B, {id})
<1>1. DOMAIN B = DOMAIN A
  BY DEF Erased
<1>2. ASSUME NEW b \in DOMAIN A, NEW y \in ToSet(A[b]), y.id \notin {id}
      PROVE  \E z \in ToSet(B[b]) : z.id = y.id /\ z.kind = y.kind
  BY <1>2 DEF Erased
<1>3. \A b \in DOMAIN A : \A c, d :
        c \notin {id} /\ d \notin {id} /\ InOrder(A[b], c, d) => InOrder(B[b], c, d)
  BY DEF Erased
<1> QED
  BY <1>1, <1>2, <1>3 DEF Carries

LEMMA EraseSound ==
  ASSUME NEW A, 1 \in DOMAIN A, NEW B, NEW id, Erased(A, B, id), NEW n, NEW k, NEW t, NEW gs,
         Sound(A, n, k, t, gs), NEW hs, gs \subseteq hs,
         id \in hs \/ \A b \in DOMAIN A : \A y \in ToSet(A[b]) : y.id = id => y.kind # "alloca"
  PROVE  Sound(B, n, k, t, hs)
<1>1. DOMAIN B = DOMAIN A /\ \A b \in DOMAIN A : \A y \in ToSet(B[b]) : y \in ToSet(A[b]) /\ y.id # id
  BY DEF Erased
<1>2. OwnIds(B)
  <2>1. OwnIds(A)
    BY DEF Sound
  <2>2. \A b \in DOMAIN B : \A c : ~ InOrder(B[b], c, c)
    BY <1>1, <2>1 DEF Erased, OwnIds
  <2>3. ASSUME NEW b \in DOMAIN B, NEW e \in DOMAIN B, NEW x \in ToSet(B[b]),
               NEW y \in ToSet(B[e]), x.id = y.id
        PROVE  b = e /\ x = y
    <3>1. x \in ToSet(A[b]) /\ y \in ToSet(A[e]) /\ b \in DOMAIN A /\ e \in DOMAIN A
      BY <1>1
    <3> QED
      BY <2>1, <2>3, <3>1 DEF OwnIds
  <2> QED
    BY <2>2, <2>3 DEF OwnIds
<1>3. AllOld(B, n, k, t) /\ Shapes(B)
  BY <1>1 DEF Sound, AllOld, Shapes
<1>4. Homes(B, hs)
  <2>1. SUFFICES ASSUME NEW b \in DOMAIN B, NEW x \in ToSet(B[b]), x.kind \in Slots, x.ref \notin hs
                 PROVE  Alloca(x.ref) \in ToSet(B[1]) /\ (b = 1 => InOrder(B[1], x.ref, x.id))
    BY DEF Homes
  <2>2. x \in ToSet(A[b]) /\ x.id # id /\ b \in DOMAIN A /\ x.ref \notin gs
    BY <1>1, <2>1
  <2>3. Alloca(x.ref) \in ToSet(A[1]) /\ (b = 1 => InOrder(A[1], x.ref, x.id))
    BY <2>1, <2>2 DEF Sound, Homes
  <2>4. PICK z : z = Alloca(x.ref)
    OBVIOUS
  <2>5. z.id = x.ref /\ z.kind = "alloca"
    BY <2>4 DEF Alloca, Inst
  <2>6. x.ref # id
    BY <2>1, <2>3, <2>4, <2>5
  <2> QED
    BY <2>2, <2>3, <2>4, <2>5, <2>6 DEF Erased
<1> QED
  BY <1>2, <1>3, <1>4 DEF Sound

LEMMA ErasePoint ==
  ASSUME NEW A, 1 \in DOMAIN A, NEW B, NEW id, Erased(A, B, id), NEW pt, PointAt(A, pt), id # pt
  PROVE  PointAt(B, pt)
<1>1. PICK x \in ToSet(A[1]) : x.id = pt /\ x.kind = "point"
  BY DEF PointAt
<1>2. x \in ToSet(B[1])
  BY <1>1 DEF Erased
<1>3. ASSUME NEW y \in ToSet(B[1]), y.kind \notin Bare
      PROVE  y.id = pt \/ InOrder(B[1], pt, y.id)
  <2>1. y \in ToSet(A[1]) /\ y.id # id
    BY DEF Erased
  <2>2. y.id = pt \/ InOrder(A[1], pt, y.id)
    BY <1>3, <2>1 DEF PointAt
  <2> QED
    BY <2>1, <2>2 DEF Erased
<1> QED
  BY <1>1, <1>2, <1>3 DEF PointAt

(* r is s without its element i.                                           *)
LeftOf(S, s, i, r) ==
  /\ r \in Seq(S) /\ Len(r) = Len(s) - 1
  /\ \A j \in 1..(i - 1) : r[j] = s[j]
  /\ \A j \in i..(Len(s) - 1) : r[j] = s[j + 1]

(* What is selected of two sequences after another.                       *)
LEMMA SelectJoined ==
  ASSUME NEW S, NEW T, NEW p, NEW q, p \in Seq(S), q \in Seq(S)
  PROVE  Select(p \o q, T) = Select(p, T) \o Select(q, T)
BY SelectConcat

LEMMA EraseIndex ==
  ASSUME NEW S, NEW s \in Seq(S), NEW i \in DOMAIN s, NEW id, s[i].id = id, ~ InOrder(s, id, id),
         NEW r, r = Select(s, {y \in ToSet(s) : y.id # id})
  PROVE  LeftOf(S, s, i, r)
<1>a. PICK a : a = SubSeq(s, 1, i - 1)
  OBVIOUS
<1>d. PICK d : d = SubSeq(s, i + 1, Len(s))
  OBVIOUS
<1>m. PICK m : m = <<s[i]>>
  OBVIOUS
<1>am. PICK am : am = a \o m
  OBVIOUS
<1>1. /\ Len(s) \in Nat /\ i \in Nat /\ 1 <= i /\ i <= Len(s) /\ DOMAIN s = 1..Len(s)
      /\ i \in 1..(Len(s) + 1) /\ i + 1 \in 1..(Len(s) + 1) /\ i + 1 - 1 = i
  OBVIOUS
<1>2. /\ a \in Seq(S) /\ d \in Seq(S) /\ m \in Seq(S)
      /\ s = am \o d /\ s[i] \in S
  BY <1>a, <1>d, <1>m, <1>am, CutAt
<1>3. Len(a) = i - 1 /\ \A j \in 1..(i - 1) : a[j] = s[j]
  BY <1>1, <1>a, CutBefore
<1>4. Len(d) = Len(s) - i /\ \A j \in 1..(Len(s) - i) : d[j] = s[i + j]
  <2>1. PICK h : h = i + 1
    OBVIOUS
  <2>2. h \in 1..(Len(s) + 1) /\ d = SubSeq(s, h, Len(s))
    BY <1>1, <1>d, <2>1
  <2>3. /\ Len(d) = Len(s) - h + 1
        /\ \A j \in 1..(Len(s) - h + 1) : d[j] = s[h + j - 1]
    BY <2>2, CutBefore
  <2>4. Len(s) - h + 1 = Len(s) - i
    BY <1>1, <2>1
  <2>5. ASSUME NEW j \in 1..(Len(s) - i) PROVE d[j] = s[i + j]
    <3>1. h + j - 1 = i + j
      BY <1>1, <2>1
    <3>2. d[j] = s[h + j - 1]
      BY <2>3, <2>4
    <3> QED
      BY <3>1, <3>2
  <2> QED
    BY <2>3, <2>4, <2>5
<1>5. PICK T : T = {y \in ToSet(s) : y.id # id}
  OBVIOUS
<1>6. \A j \in DOMAIN s : j # i => s[j].id # id
  <2>1. ASSUME NEW j \in DOMAIN s, j # i, s[j].id = id PROVE FALSE
    <3>1. i < j \/ j < i
      BY <1>1, <2>1
    <3> QED
      BY <2>1, <3>1 DEF InOrder
  <2> QED
    BY <2>1
<1>7. ToSet(a) \subseteq T
  <2>1. ASSUME NEW x \in ToSet(a) PROVE x \in T
    <3>1. PICK j \in DOMAIN a : a[j] = x
      BY ElementAt
    <3>2. j \in 1..(i - 1) /\ j \in DOMAIN s /\ j # i
      BY <1>1, <1>2, <1>3, <3>1
    <3>3. s[j] = x
      BY <1>3, <3>1, <3>2
    <3> QED
      BY <1>5, <1>6, <3>2, <3>3, ElementAt
  <2> QED
    BY <2>1
<1>8. ToSet(d) \subseteq T
  <2>1. ASSUME NEW x \in ToSet(d) PROVE x \in T
    <3>1. PICK j \in DOMAIN d : d[j] = x
      BY ElementAt
    <3>2. j \in 1..(Len(s) - i) /\ i + j \in DOMAIN s /\ i + j # i
      BY <1>1, <1>2, <1>4, <3>1
    <3>3. s[i + j] = x
      BY <1>4, <3>1, <3>2
    <3> QED
      BY <1>5, <1>6, <3>2, <3>3, ElementAt
  <2> QED
    BY <2>1
<1>9. Select(a, T) = a /\ Select(d, T) = d
  BY <1>2, <1>7, <1>8, SelectAll
<1>10. Select(m, T) = <<>>
  BY <1>2, <1>5, <1>m, SelectOne
<1>11. am \in Seq(S) /\ Select(am, T) = Select(a, T) \o Select(m, T)
  <2>1. a \in Seq(S) /\ m \in Seq(S)
    BY <1>2
  <2>2. Select(a \o m, T) = Select(a, T) \o Select(m, T)
    BY <2>1, SelectJoined
  <2>3. am \in Seq(S)
    BY <2>1, <1>am
  <2> QED
    BY <2>2, <2>3, <1>am
<1>12. Select(s, T) = Select(am, T) \o Select(d, T)
  <2>1. Select(am \o d, T) = Select(am, T) \o Select(d, T)
    <3>1. am \in Seq(S) /\ d \in Seq(S)
      BY <1>2, <1>11
    <3> QED
      BY <3>1, SelectJoined
  <2>2. s = am \o d
    BY <1>2
  <2> QED
    BY <2>1, <2>2
<1>13. r = a \o d
  <2>1. a \o <<>> = a
    BY <1>2
  <2> QED
    BY <1>5, <1>9, <1>10, <1>11, <1>12, <2>1
<1>14. /\ r \in Seq(S) /\ Len(r) = Len(s) - 1
       /\ \A j \in 1..Len(a) : r[j] = a[j]
       /\ \A j \in 1..Len(d) : r[Len(a) + j] = d[j]
  <2>1. /\ r \in Seq(S) /\ Len(r) = Len(a) + Len(d)
        /\ \A j \in 1..Len(a) : r[j] = a[j]
        /\ \A j \in 1..Len(d) : r[Len(a) + j] = d[j]
    <3>1. a \in Seq(S) /\ d \in Seq(S)
      BY <1>2
    <3>2. /\ (a \o d) \in Seq(S) /\ Len(a \o d) = Len(a) + Len(d)
          /\ \A j \in 1..Len(a) : (a \o d)[j] = a[j]
      BY <3>1
    <3>3. \A j \in 1..Len(d) : (a \o d)[Len(a) + j] = d[j]
      BY <3>1
    <3> QED
      BY <1>13, <3>2, <3>3, Zenon
  <2>2. Len(a) = i - 1 /\ Len(d) = Len(s) - i
    BY <1>3, <1>4
  <2>3. Len(a) + Len(d) = Len(s) - 1
    BY <1>1, <2>2
  <2> QED
    BY <2>1, <2>3
<1>15. \A j \in 1..(i - 1) : r[j] = s[j]
  BY <1>3, <1>14
<1>16. ASSUME NEW j \in i..(Len(s) - 1) PROVE r[j] = s[j + 1]
  <2>1. PICK h : h = j - i + 1
    OBVIOUS
  <2>2. Len(a) = i - 1 /\ Len(d) = Len(s) - i
    BY <1>3, <1>4
  <2>3. /\ h \in 1..(Len(s) - i) /\ (i - 1) + h = j /\ i + h = j + 1
    BY <1>1, <2>1
  <2>4. r[Len(a) + h] = d[h]
    BY <1>14, <2>2, <2>3
  <2>5. d[h] = s[i + h]
    BY <1>4, <2>3
  <2> QED
    BY <2>2, <2>3, <2>4, <2>5
<1> QED
  BY <1>14, <1>15, <1>16 DEF LeftOf

LEMMA EraseUses ==
  ASSUME NEW A, Fit(A), Shapes(A), LocalUses(A, {}), NEW B, NEW id, Erased(A, B, id),
         \A b \in DOMAIN A : \A x \in ToSet(A[b]) : \A k \in DOMAIN x.args : x.args[k] # Reg(id)
  PROVE  LocalUses(B, {})
<1>1. DOMAIN B = DOMAIN A /\ Carries(A, B, {id})
  BY EraseCarries DEF Erased
<1>2. SUFFICES ASSUME NEW b \in DOMAIN A, NEW x \in ToSet(B[b]), NEW k \in DOMAIN x.args
               PROVE  LocalArg(B, {}, b, x, k, x.args[k])
  BY <1>1 DEF LocalUses
<1>3. x \in ToSet(A[b]) /\ x.id \notin {id}
  BY DEF Erased
<1>4. PICK arg : arg = x.args[k]
  OBVIOUS
<1>5. LocalArg(A, {}, b, x, k, arg)
  BY <1>3, <1>4 DEF LocalUses
<1>6. arg = Reg(arg[2]) => arg[2] \notin {id} /\ (arg[2] \in {} => arg[2] \in {})
  BY <1>3, <1>4
<1>7. x.kind = "phi" => x.blocks[k] \in DOMAIN A
  <2>1. x.kind = "phi" => x.blocks \in Seq(DOMAIN A) /\ DOMAIN x.args = DOMAIN x.blocks
    BY <1>3 DEF Fit, Shapes, Shaped
  <2> QED
    BY <1>2, <2>1
<1> QED
  BY <1>1, <1>3, <1>4, <1>5, <1>6, <1>7, LocalCarries

(* The PHI node x at i in block b, B what is left without it, when the     *)
(* insertion point is at u of the entry block of B.                        *)
PhiAt(A, n, slot, b, i, x, u, B, qq, y) ==
  /\ n \in Nat /\ slot = <<"slot", n>>
  /\ b \in DOMAIN A /\ i \in DOMAIN A[b] /\ x = A[b][i] /\ x.kind = "phi"
  /\ Erased(A, B, x.id) /\ PointIs(B, point, u)
  /\ FirstIs(B, b, i, qq) /\ qq = FirstInsertionPoint(B, b, i)
  /\ b = 1 => u <= i
  /\ \A m \in DOMAIN A[b] : i < m /\ A[b][m].kind \notin {"phi", "pad"} =>
       \E j \in DOMAIN B[b] : qq[2] <= j /\ B[b][j] = A[b][m]
  /\ y = Load(x.id, slot)

StoreLists(B, x, slot) == [q \in Places(B) |-> StoresAt(B, q, x, slot)]
StoreFor(B, x, slot, q, w) ==
  \E k \in DOMAIN x.blocks :
    /\ q = <<x.blocks[k], Len(B[x.blocks[k]])>>
    /\ w = Store(<<"store", slot, k>>, x.args[k], slot)

LEMMA StoresAre ==
  ASSUME NEW B, NEW S, NEW x, x.blocks \in Seq(S), NEW slot, NEW q, NEW s,
         s = StoresAt(B, q, x, slot)
  PROVE  /\ s \in Seq(ToSet(s))
         /\ \A w : w \in ToSet(s) <=> StoreFor(B, x, slot, q, w)
         /\ \A c : ~ InOrder(s, c, c)
<1>1. PICK edges : edges = [k \in DOMAIN x.blocks |-> k]
  OBVIOUS
<1>2. PICK K : K = {k \in DOMAIN x.blocks : q = <<x.blocks[k], Len(B[x.blocks[k]])>>}
  OBVIOUS
<1>3. PICK list : list = Select(edges, K)
  OBVIOUS
<1>4. s = [i \in DOMAIN list |-> Store(<<"store", slot, list[i]>>, x.args[list[i]], slot)]
  BY <1>1, <1>2, <1>3 DEF StoresAt
<1>5. edges \in Seq(Nat) /\ ToSet(edges) = DOMAIN x.blocks
  <2>1. DOMAIN x.blocks = 1..Len(x.blocks) /\ Len(x.blocks) \in Nat
    OBVIOUS
  <2>2. edges \in [1..Len(x.blocks) -> Nat]
    BY <1>1, <2>1
  <2>3. edges \in Seq(Nat)
    BY <2>1, <2>2, IsSequence
  <2>4. ToSet(edges) = DOMAIN x.blocks
    BY <1>1 DEF ToSet
  <2> QED
    BY <2>3, <2>4
<1>6. list \in Seq(Nat) /\ ToSet(list) = K
  <2>1. ToSet(list) = DOMAIN x.blocks \cap K
    BY <1>3, <1>5, SelectElements
  <2>2. list \in Seq(Nat)
    BY <1>3, <1>5, SelectType
  <2> QED
    BY <1>2, <2>1, <2>2
<1>7. \A i, j \in DOMAIN list : list[i] = list[j] => i = j
  <2>1. PICK key : key = [k \in Nat |-> k]
    OBVIOUS
  <2>2. Distinct(edges, key)
    <3>1. \A i \in DOMAIN edges : edges[i] = i /\ edges[i] \in Nat
      BY <1>1, <1>5
    <3> QED
      BY <2>1, <3>1 DEF Distinct
  <2>3. Distinct(list, key)
    BY <1>3, <1>5, <2>2, SelectDistinct
  <2>4. \A i \in DOMAIN list : key[list[i]] = list[i]
    BY <1>6, <2>1
  <2> QED
    BY <2>3, <2>4 DEF Distinct
<1>8. DOMAIN s = DOMAIN list /\ DOMAIN list = 1..Len(list) /\ Len(list) \in Nat
  BY <1>4, <1>6
<1>9. \A i \in DOMAIN s : s[i] = Store(<<"store", slot, list[i]>>, x.args[list[i]], slot)
  BY <1>4
<1>10. s \in Seq(ToSet(s))
  <2>1. s \in [1..Len(list) -> ToSet(s)]
    BY <1>4, <1>8 DEF ToSet
  <2> QED
    BY <1>8, <2>1, IsSequence
<1>11. ASSUME NEW w PROVE w \in ToSet(s) <=> StoreFor(B, x, slot, q, w)
  <2>1. w \in ToSet(s) <=> \E i \in DOMAIN list :
           w = Store(<<"store", slot, list[i]>>, x.args[list[i]], slot)
    <3>1. w \in ToSet(s) <=> \E i \in DOMAIN s : s[i] = w
      BY ElementAt
    <3>2. DOMAIN s = DOMAIN list
      BY <1>8
    <3> QED
      BY <1>9, <3>1, <3>2, Zenon
  <2>2. \A k : k \in K <=> \E i \in DOMAIN list : list[i] = k
    BY <1>6, ElementAt
  <2>3. w \in ToSet(s) <=> \E k \in K : w = Store(<<"store", slot, k>>, x.args[k], slot)
    BY <2>1, <2>2
  <2> QED
    BY <1>2, <2>3 DEF StoreFor
<1>12. ASSUME NEW c, InOrder(s, c, c) PROVE FALSE
  <2>1. PICK i \in DOMAIN s, j \in DOMAIN s : i < j /\ s[i].id = c /\ s[j].id = c
    BY <1>12 DEF InOrder
  <2>2. s[i].id = <<"store", slot, list[i]>> /\ s[j].id = <<"store", slot, list[j]>>
    BY <1>9 DEF Store, Inst
  <2>3. list[i] = list[j]
    BY <2>1, <2>2
  <2>4. i = j
    BY <1>7, <1>8, <2>3
  <2> QED
    BY <1>8, <2>1, <2>4
<1> QED
  BY <1>10, <1>11, <1>12

PhiMade(A, x, slot, u, B, qq, y, D) ==
  D = IF UsersOf(A, x.id) = {} THEN B
      ELSE PutBefore(B, NewFor(B, slot, <<1, u>>, qq, y, StoreLists(B, x, slot)))

LEMMA PhiIs ==
  ASSUME NEW A, Fit(A), OwnIds(A), NEW n, NEW slot, NEW b, NEW i, NEW x, NEW u, NEW B,
         NEW y, NEW qq, PhiAt(A, n, slot, b, i, x, u, B, qq, y), B = Erase(A, x.id)
  PROVE  PhiMade(A, x, slot, u, B, qq, y, DemotePHIToStack(A, x, point, slot))
<1>1. <<b, i>> \in Places(A) /\ InstAt(A, <<b, i>>).id = x.id
  BY InPlaces DEF PhiAt
<1>2. PlaceOf(A, x.id) = <<b, i>>
  BY <1>1, PlaceOfIs DEF Fit
<1>3. PICK new : new = [q \in Places(B) |->
                          When(AtPoint(B, q, point), Alloca(slot))
                            \o When(q = qq, Load(x.id, slot))
                            \o StoresAt(B, q, x, slot)]
  OBVIOUS
<1>4. DemotePHIToStack(A, x, point, slot) = IF UsersOf(A, x.id) = {} THEN B
                                            ELSE PutBefore(B, new)
  BY <1>2, <1>3 DEF DemotePHIToStack, PhiAt
<1>5. PointIs(B, point, u)
  BY DEF PhiAt
<1>6. ASSUME NEW q \in Places(B)
      PROVE  new[q] = Three(q = <<1, u>>, Alloca(slot), q = qq, y, StoreLists(B, x, slot)[q])
  <2>1. AtPoint(B, q, point) \in BOOLEAN
    BY DEF AtPoint
  <2>2. AtPoint(B, q, point) = (q = <<1, u>>)
    BY <1>5, <2>1 DEF PointIs
  <2>3. StoreLists(B, x, slot)[q] = StoresAt(B, q, x, slot)
    BY DEF StoreLists
  <2>4. y = Load(x.id, slot)
    BY DEF PhiAt
  <2>5. new[q] = (When(AtPoint(B, q, point), Alloca(slot))
                   \o When(q = qq, Load(x.id, slot)))
                   \o StoresAt(B, q, x, slot)
    BY <1>3
  <2> QED
    BY <2>2, <2>3, <2>4, <2>5 DEF Three
<1>7. new = NewFor(B, slot, <<1, u>>, qq, y, StoreLists(B, x, slot))
  BY <1>3, <1>6 DEF NewFor
<1> QED
  BY <1>4, <1>7 DEF PhiMade

StoreListFor(B, x, slot, q, s) ==
  /\ s \in Seq(ToSet(s))
  /\ \A w : w \in ToSet(s) <=> StoreFor(B, x, slot, q, w)
  /\ \A c : ~ InOrder(s, c, c)

LEMMA PhiPuts ==
  ASSUME NEW A, Fit(A), NEW n, NEW k, NEW t, NEW gs, Sound(A, n, k, t, gs),
         NEW slot, NEW b, NEW i, NEW x, NEW u, NEW B, NEW qq, NEW y,
         PhiAt(A, n, slot, b, i, x, u, B, qq, y), Sound(B, n, k, t, gs),
         NEW lists, \A q \in Places(B) : StoreListFor(B, x, slot, q, lists[q]),
         NEW pp, pp = <<1, u>>
  PROVE  Puts3(B, n, k, t, slot, pp, qq, y, lists)
<1>1. y.id = x.id /\ y.kind = "load" /\ y.ref = slot /\ DOMAIN y.args = {}
  <2>1. y = Load(x.id, slot)
    BY DEF PhiAt
  <2>2. DOMAIN <<>> = {}
    OBVIOUS
  <2> QED
    BY <2>1, <2>2 DEF Load, Inst
<1>2. n \in Nat /\ slot = <<"slot", n>> /\ AllOld(A, n, k, t) /\ AllOld(B, n, k, t)
  BY DEF PhiAt, Sound
<1>3. b \in DOMAIN A /\ i \in DOMAIN A[b] /\ x = A[b][i] /\ x \in ToSet(A[b])
  BY ElementAt DEF PhiAt
<1>4. Old(x.id, n, k, t)
  BY <1>2, <1>3 DEF AllOld
<1>5. Old(y.id, n + 1, k, t)
  BY <1>1, <1>2, <1>4, OldGrows
<1>6. y.id # slot
  <2>1. PICK id : id = x.id
    OBVIOUS
  <2>2. Old(id, n, k, t)
    BY <1>4, <2>1
  <2>3. id # slot
    BY <1>2, <2>2 DEF Old
  <2> QED
    BY <1>1, <2>1, <2>3
<1>7. \A e \in DOMAIN B : y.id \notin IdsIn(B[e])
  BY <1>1 DEF PhiAt, Erased, IdsIn
<1>8. PointIs(B, point, u) /\ FirstIs(B, b, i, qq) /\ (b = 1 => u <= i)
  BY DEF PhiAt
<1>9. pp \in Places(B) /\ pp[1] = 1 /\ pp[2] = u /\ u \in Nat /\ u < Len(B[1])
  BY <1>8 DEF PointIs
<1>10. /\ qq = <<b, qq[2]>> /\ qq[1] = b /\ qq[2] \in DOMAIN B[b] /\ qq[2] \in Nat /\ i <= qq[2]
       /\ i \in Nat
  <2>1. i \in Nat
    BY <1>3, BlockSeq DEF Fit
  <2> QED
    BY <1>8, <2>1 DEF FirstIs
<1>11. qq \in Places(B)
  <2>1. b \in DOMAIN B
    BY <1>3 DEF PhiAt, Erased
  <2> QED
    BY <1>10, <2>1, InPlaces
<1>12. qq[1] = 1 => u <= qq[2]
  BY <1>8, <1>9, <1>10
<1>13. MayPut(B, n, k, t, slot, pp, qq, y)
  BY <1>1, <1>5, <1>6, <1>7, <1>9, <1>12, NumberedIs DEF MayPut, Slots
<1>14. \A q \in Places(B) : /\ lists[q] \in Seq(ToSet(lists[q]))
                            /\ \A d : ~ InOrder(lists[q], d, d)
  BY DEF StoreListFor
<1>15. ASSUME NEW q \in Places(B), NEW z \in ToSet(lists[q])
       PROVE  StoreFor(B, x, slot, q, z)
  <2>1. StoreListFor(B, x, slot, q, lists[q])
    OBVIOUS
  <2> QED
    BY <2>1 DEF StoreListFor
<1>16. ASSUME NEW q \in Places(B), NEW z \in ToSet(lists[q])
       PROVE  MayPut(B, n, k, t, slot, pp, q, z) /\ z.id # y.id
  <2>1. PICK l \in DOMAIN x.blocks :
          /\ q = <<x.blocks[l], Len(B[x.blocks[l]])>>
          /\ z = Store(<<"store", slot, l>>, x.args[l], slot)
    BY <1>15 DEF StoreFor
  <2>2. z.id = <<"store", slot, l>> /\ z.kind = "store" /\ z.ref = slot /\ DOMAIN z.args = {1}
    BY <2>1, StoreIs
  <2>10. Numbered(z)
    BY <2>2, NumberedIs
  <2>3. PICK c : c = z.id
    OBVIOUS
  <2>4. c[1] \in {"store", "reload"} /\ c[2] = slot
    BY <2>2, <2>3
  <2>5. Fresh(B, n, k, t, slot, c) /\ Fresh(A, n, k, t, slot, c)
    BY <1>2, <2>4, FreshIds
  <2>6. q[1] = 1 => u < q[2]
    BY <1>9, <2>1
  <2>7. q[1] = 1 => pp[2] <= q[2] /\ pp[2] < q[2]
    <3>1. q[1] = 1 => q[2] = Len(B[1])
      BY <2>1
    <3> QED
      BY <1>9, <2>6, <3>1
  <2>8. z.id # y.id
    <3>1. c \notin IdsIn(A[b])
      BY <1>3, <2>5 DEF Fresh
    <3> QED
      BY <1>1, <1>3, <2>3, <3>1 DEF IdsIn
  <2>9. MayPut(B, n, k, t, slot, pp, q, z)
    BY <2>2, <2>3, <2>5, <2>7, <2>10 DEF MayPut, Slots, Fresh
  <2> QED
    BY <2>8, <2>9
<1>17. ASSUME NEW q \in Places(B), NEW r \in Places(B), NEW v \in ToSet(lists[q]),
              NEW w \in ToSet(lists[r]), v.id = w.id
       PROVE  q = r /\ v = w
  <2>1. PICK l \in DOMAIN x.blocks :
          /\ q = <<x.blocks[l], Len(B[x.blocks[l]])>>
          /\ v = Store(<<"store", slot, l>>, x.args[l], slot)
    BY <1>15 DEF StoreFor
  <2>2. PICK m \in DOMAIN x.blocks :
          /\ r = <<x.blocks[m], Len(B[x.blocks[m]])>>
          /\ w = Store(<<"store", slot, m>>, x.args[m], slot)
    BY <1>15 DEF StoreFor
  <2>3. v.id = <<"store", slot, l>> /\ w.id = <<"store", slot, m>>
    BY <2>1, <2>2 DEF Store, Inst
  <2>4. l = m
    <3>1. <<"store", slot, l>> = <<"store", slot, m>>
      BY <1>17, <2>3
    <3> QED
      BY <3>1
  <2> QED
    BY <2>1, <2>2, <2>4
<1> QED
  BY <1>9, <1>11, <1>13, <1>14, <1>16, <1>17 DEF Puts3

(* What the demotion of a PHI node makes of the code.                      *)
PhiOut(A, b, x, slot, y, B, C) ==
  /\ DOMAIN C = DOMAIN A /\ Carries(B, C, {})
  /\ y \in ToSet(C[b]) /\ y = Load(x.id, slot)
  /\ \A e \in DOMAIN A :
       /\ \A z \in ToSet(C[e]) :
            \/ z = Alloca(slot) \/ z = y \/ z \in ToSet(B[e])
            \/ \E k \in DOMAIN x.blocks :
                 /\ e = x.blocks[k] /\ z = Store(<<"store", slot, k>>, x.args[k], slot)
                 /\ \A w \in ToSet(B[e]) : w.kind = "load" => InOrder(C[e], w.id, z.id)
       /\ ToSet(B[e]) \subseteq ToSet(C[e])
  /\ \A z \in ToSet(A[b]) :
       InOrder(A[b], x.id, z.id) /\ z.kind \notin {"phi", "pad"} => InOrder(C[b], x.id, z.id)

LEMMA PhiOutIs ==
  ASSUME NEW A, Fit(A), OwnIds(A), NEW B, Fit(B),
         NEW n, NEW slot, NEW b, NEW i, NEW x, NEW u, NEW qq, NEW y,
         PhiAt(A, n, slot, b, i, x, u, B, qq, y),
         NEW lists, \A q \in Places(B) : StoreListFor(B, x, slot, q, lists[q]),
         NEW C, PutFacts(B, C, slot, qq, y, lists)
  PROVE  PhiOut(A, b, x, slot, y, B, C)
<1>1. DOMAIN B = DOMAIN A /\ DOMAIN C = DOMAIN A
  BY DEF PhiAt, Erased, PutFacts
<1>2. Carries(B, C, {})
  BY PutCarries
<1>3. /\ b \in DOMAIN A /\ i \in DOMAIN A[b] /\ x = A[b][i] /\ FirstIs(B, b, i, qq)
      /\ y = Load(x.id, slot)
  BY DEF PhiAt
<1>4. qq[1] = b /\ y.id = x.id
  BY <1>3 DEF FirstIs, Load, Inst
<1>5. y \in ToSet(C[b])
  BY <1>4 DEF PutFacts
<1>6. ASSUME NEW e \in DOMAIN A
      PROVE  /\ \A z \in ToSet(C[e]) :
                  \/ z = Alloca(slot) \/ z = y \/ z \in ToSet(B[e])
                  \/ \E k \in DOMAIN x.blocks :
                       /\ e = x.blocks[k] /\ z = Store(<<"store", slot, k>>, x.args[k], slot)
                       /\ \A w \in ToSet(B[e]) : w.kind = "load" => InOrder(C[e], w.id, z.id)
             /\ ToSet(B[e]) \subseteq ToSet(C[e])
  <2>1. ToSet(B[e]) \subseteq ToSet(C[e])
    BY <1>1 DEF PutFacts
  <2>2. ASSUME NEW m \in DOMAIN B[e], NEW z \in ToSet(lists[<<e, m>>])
        PROVE  \E k \in DOMAIN x.blocks :
                 /\ e = x.blocks[k] /\ z = Store(<<"store", slot, k>>, x.args[k], slot)
                 /\ \A w \in ToSet(B[e]) : w.kind = "load" => InOrder(C[e], w.id, z.id)
    <3>1. PICK q : q = <<e, m>>
      OBVIOUS
    <3>2. q \in Places(B) /\ z \in ToSet(lists[q]) /\ q[1] = e /\ q[2] = m
      BY <1>1, <2>2, <3>1, InPlaces
    <3>3. StoreListFor(B, x, slot, q, lists[q])
      BY <3>2
    <3>4. PICK k \in DOMAIN x.blocks :
            /\ q = <<x.blocks[k], Len(B[x.blocks[k]])>>
            /\ z = Store(<<"store", slot, k>>, x.args[k], slot)
      BY <3>2, <3>3 DEF StoreListFor, StoreFor
    <3>5. e = x.blocks[k] /\ m = Len(B[e])
      BY <3>2, <3>4
    <3>6. ASSUME NEW w \in ToSet(B[e]), w.kind = "load" PROVE InOrder(C[e], w.id, z.id)
      <4>1. PICK j \in DOMAIN B[e] : B[e][j] = w
        BY ElementAt
      <4>2. /\ j \in Nat /\ j <= Len(B[e]) /\ Len(B[e]) \in Nat
            /\ B[e][Len(B[e])].kind \in Terminators
        BY <1>1, BlockSeq DEF Fit
      <4>3. j # Len(B[e])
        BY <3>6, <4>1, <4>2 DEF Terminators
      <4>4. j < q[2]
        BY <3>2, <3>5, <4>2, <4>3
      <4>5. \A h \in DOMAIN B[q[1]] : h < q[2] => InOrder(C[q[1]], B[q[1]][h].id, z.id)
        BY <3>2 DEF PutFacts
      <4> QED
        BY <3>2, <4>1, <4>4, <4>5
    <3> QED
      BY <3>4, <3>5, <3>6
  <2>3. ASSUME NEW z \in ToSet(C[e])
        PROVE  \/ z = Alloca(slot) \/ z = y \/ z \in ToSet(B[e])
               \/ \E m \in DOMAIN B[e] : z \in ToSet(lists[<<e, m>>])
    BY <1>1 DEF PutFacts
  <2> QED
    BY <2>1, <2>2, <2>3
<1>7. ASSUME NEW z \in ToSet(A[b]), InOrder(A[b], x.id, z.id), z.kind \notin {"phi", "pad"}
      PROVE  InOrder(C[b], x.id, z.id)
  <2>1. PICK m \in DOMAIN A[b] : A[b][m] = z
    BY ElementAt
  <2>2. i < m
    BY <1>3, <1>7, <2>1, OrderAt DEF Fit
  <2>3. PICK j \in DOMAIN B[b] : qq[2] <= j /\ B[b][j] = A[b][m]
    BY <1>7, <2>1, <2>2 DEF PhiAt
  <2>4. \A h \in DOMAIN B[qq[1]] : qq[2] <= h => InOrder(C[qq[1]], y.id, B[qq[1]][h].id)
    BY DEF PutFacts
  <2> QED
    BY <1>4, <2>1, <2>3, <2>4
<1> QED
  BY <1>1, <1>2, <1>3, <1>5, <1>6, <1>7 DEF PhiOut

LEMMA PhiLocal ==
  ASSUME NEW A, Fit(A), OwnIds(A), Shapes(A), LocalUses(A, {}),
         NEW b \in DOMAIN A, NEW x \in ToSet(A[b]), x.kind = "phi",
         NEW B, Erased(A, B, x.id), NEW slot, NEW y, NEW C, PhiOut(A, b, x, slot, y, B, C)
  PROVE  LocalUses(C, {})
<1>1. /\ DOMAIN C = DOMAIN A /\ Carries(B, C, {})
      /\ y \in ToSet(C[b]) /\ y = Load(x.id, slot)
  BY DEF PhiOut
<1>2. Carries(A, C, {x.id})
  BY <1>1, EraseCarries, CarriesOn
<1>3. y.id = x.id /\ y.kind = "load" /\ DOMAIN y.args = {}
  <2>1. DOMAIN <<>> = {}
    OBVIOUS
  <2> QED
    BY <1>1, <2>1 DEF Load, Inst
<1>4. /\ ~ NamesPad(A, x.id)
      /\ \A e \in DOMAIN A : ~ LoadIn(A[e], x.id)
      /\ \A e \in DOMAIN A : \A d : InOrder(A[e], x.id, d) => e = b
  BY NamesOne
<1>5. SUFFICES ASSUME NEW e \in DOMAIN A, NEW z \in ToSet(C[e]), NEW k \in DOMAIN z.args
               PROVE  LocalArg(C, {}, e, z, k, z.args[k])
  BY <1>1 DEF LocalUses
<1>6. CASE z = Alloca(slot)
  BY <1>6 DEF Alloca, Inst
<1>7. CASE z = y
  BY <1>3, <1>7
<1>8. CASE z \in ToSet(B[e])
  <2>1. z \in ToSet(A[e]) /\ z.id \notin {x.id}
    BY <1>8 DEF Erased
  <2>2. PICK arg : arg = z.args[k]
    OBVIOUS
  <2>3. LocalArg(A, {}, e, z, k, arg)
    BY <2>1, <2>2 DEF LocalUses
  <2>4. z.kind = "phi" => z.blocks[k] \in DOMAIN A
    <3>1. z.kind = "phi" => z.blocks \in Seq(DOMAIN A) /\ DOMAIN z.args = DOMAIN z.blocks
      BY <2>1 DEF Fit, Shapes, Shaped
    <3> QED
      BY <1>5, <3>1
  <2>5. CASE arg # Reg(x.id)
    <3>1. arg = Reg(arg[2]) => arg[2] \notin {x.id} /\ (arg[2] \in {} => arg[2] \in {})
      BY <2>5
    <3>2. LocalArg(C, {}, e, z, k, arg)
      BY <1>2, <2>1, <2>3, <2>4, <3>1, LocalCarries
    <3> QED
      BY <2>2, <3>2
  <2>6. CASE arg = Reg(x.id)
    <3>1. arg[2] = x.id /\ arg[1] = "reg"
      BY <2>6 DEF Reg
    <3>2. z.kind # "pad" /\ z.kind # "phi" /\ InOrder(A[e], x.id, z.id)
      BY <1>4, <2>3, <2>4, <3>1 DEF LocalArg
    <3>3. e = b
      BY <1>4, <3>2
    <3>4. InOrder(C[e], x.id, z.id)
      BY <2>1, <3>2, <3>3 DEF PhiOut
    <3>5. NamesValue(C, x.id)
      BY <1>1, <1>3 DEF NamesValue, NoValue, Terminators
    <3>6. LocalArg(C, {}, e, z, k, arg)
      BY <2>6, <3>1, <3>2, <3>4, <3>5 DEF LocalArg
    <3> QED
      BY <2>2, <3>6
  <2> QED
    BY <2>5, <2>6
<1>9. CASE \E l \in DOMAIN x.blocks :
             /\ e = x.blocks[l] /\ z = Store(<<"store", slot, l>>, x.args[l], slot)
             /\ \A w \in ToSet(B[e]) : w.kind = "load" => InOrder(C[e], w.id, z.id)
  <2>1. PICK l \in DOMAIN x.blocks :
          /\ e = x.blocks[l] /\ z = Store(<<"store", slot, l>>, x.args[l], slot)
          /\ \A w \in ToSet(B[e]) : w.kind = "load" => InOrder(C[e], w.id, z.id)
    BY <1>9
  <2>2. PICK arg : arg = x.args[l]
    OBVIOUS
  <2>3. z.kind = "store" /\ z.args[k] = arg
    BY <1>5, <2>1, <2>2 DEF Store, Inst
  <2>4. l \in DOMAIN x.args
    BY DEF Shapes, Shaped
  <2>5. LocalArg(A, {}, b, x, l, arg)
    BY <2>2, <2>4 DEF LocalUses
  <2>6. CASE arg[1] = "imm"
    BY <2>3, <2>6 DEF LocalArg
  <2>7. CASE arg = Reg(arg[2]) /\ NamesPad(A, arg[2])
    <3>1. arg[2] \notin {x.id}
      BY <1>4, <2>7
    <3>2. NamesPad(C, arg[2])
      BY <1>2, <2>7, <3>1, NamesCarry
    <3> QED
      BY <2>3, <2>7, <3>2 DEF LocalArg
  <2>8. CASE arg = Reg(arg[2]) /\ NamesValue(A, arg[2]) /\ LoadIn(A[e], arg[2])
    <3>1. arg[2] \notin {x.id}
      BY <1>4, <2>8
    <3>2. NamesValue(C, arg[2])
      BY <1>2, <2>8, <3>1, NamesCarry
    <3>3. PICK w \in ToSet(A[e]) : w.id = arg[2] /\ w.kind = "load"
      BY <2>8 DEF LoadIn
    <3>4. w \in ToSet(B[e])
      BY <3>1, <3>3 DEF Erased
    <3>5. InOrder(C[e], arg[2], z.id)
      BY <2>1, <3>3, <3>4
    <3>6. z.kind # "phi" /\ z.kind # "pad"
      BY <2>3
    <3> QED
      BY <2>3, <2>8, <3>2, <3>5, <3>6 DEF LocalArg
  <2> QED
    BY <2>1, <2>5, <2>6, <2>7, <2>8 DEF LocalArg
<1> QED
  BY <1>5, <1>6, <1>7, <1>8, <1>9 DEF PhiOut

(* The PHI nodes of C are those of A but for this one.                     *)
InCode(A, z) == \E e \in DOMAIN A : z \in ToSet(A[e])
(* C has the PHI nodes of A, x aside.                                      *)
OnePhiLess(A, C, x) ==
  \A z : InCode(C, z) /\ z.kind = "phi" <=> InCode(A, z) /\ z.kind = "phi" /\ z.id # x.id

LEMMA SoundGrows ==
  ASSUME NEW A, NEW n \in Nat, NEW k, NEW t, NEW gs, Sound(A, n, k, t, gs)
  PROVE  Sound(A, n + 1, k, t, gs)
<1>1. AllOld(A, n + 1, k, t)
  BY OldGrows DEF Sound, AllOld
<1> QED
  BY <1>1 DEF Sound

LEMMA ErasedFits ==
  ASSUME NEW A, Fit(A), OwnIds(A), NEW b \in DOMAIN A, NEW x \in ToSet(A[b]), x.kind \notin Kept,
         NEW B, B = Erase(A, x.id), Erased(A, B, x.id)
  PROVE  Fit(B)
<1>1. IsCode(A) /\ \A e \in DOMAIN A : Last(A[e]).kind \in Terminators
  BY DEF Fit
<1>2. \A e \in DOMAIN A : /\ Last(A[e]).kind \in Kept
                          /\ \A y \in ToSet(A[e]) : y.kind \in Kept => y.id # x.id
  BY <1>1 DEF Kept, OwnIds
<1>3. AllDerived(A, B)
  BY <1>1, <1>2, EraseDerived
<1>4. IsCode(B) /\ DOMAIN B = DOMAIN A /\ \A e \in DOMAIN A : Last(B[e]).kind \in Terminators
  BY <1>1, <1>3 DEF AllDerived, Derived
<1>5. \A e \in DOMAIN B : \A y \in ToSet(B[e]) : y.kind = "phi" => y.blocks \in Seq(DOMAIN B)
  BY <1>4 DEF Fit, Erased
<1> QED
  BY <1>4, <1>5 DEF Fit

LEMMA PhiHere ==
  ASSUME NEW A, NEW n \in Nat, NEW k, NEW t, NEW gs, Whole(A, n, k, t, gs), PointAt(A, point),
         NEW b \in DOMAIN A, NEW x \in ToSet(A[b]), x.kind = "phi", NEW B, B = Erase(A, x.id),
         Erased(A, B, x.id), Fit(B), NEW u, OwnIds(B), PointIs(B, point, u),
         NEW slot, slot = <<"slot", n>>, NEW y, y = Load(x.id, slot)
  PROVE  \E i, qq : PhiAt(A, n, slot, b, i, x, u, B, qq, y)
<1>1. Fit(A) /\ IsCode(A) /\ OwnIds(A) /\ 1 \in DOMAIN A
  BY DEF Whole, Fit, Sound
<1>2. PICK i \in DOMAIN A[b] : A[b][i] = x
  BY ElementAt
<1>3. PICK s : s = A[b]
  OBVIOUS
<1>4. /\ s \in Seq(ToSet(s)) /\ DOMAIN s = 1..Len(s) /\ Len(s) \in Nat
      /\ i \in DOMAIN s /\ i \in Nat /\ 1 <= i /\ i <= Len(s) /\ s[i] = x
      /\ s[Len(s)].kind \in Terminators
  <2>1. /\ A[b] \in Seq(ToSet(A[b])) /\ DOMAIN A[b] = 1..Len(A[b]) /\ Len(A[b]) \in Nat
        /\ A[b][Len(A[b])].kind \in Terminators
    BY <1>1, BlockSeq DEF Fit
  <2> QED
    BY <1>2, <1>3, <2>1
<1>5. i <= Len(s) - 1
  <2>1. i # Len(s)
    BY <1>4 DEF Terminators
  <2> QED
    BY <1>4, <2>1
<1>6. PICK r : r = B[b]
  OBVIOUS
<1>7. r = Select(s, {z \in ToSet(s) : z.id # x.id})
  BY <1>3, <1>6 DEF Erase
<1>8. ~ InOrder(s, x.id, x.id)
  BY <1>1, <1>3 DEF OwnIds
<1>9. /\ Len(r) = Len(s) - 1 /\ r \in Seq(ToSet(s))
      /\ \A j \in 1..(i - 1) : r[j] = s[j]
      /\ \A j \in i..(Len(s) - 1) : r[j] = s[j + 1]
  <2>1. PICK id : id = x.id
    OBVIOUS
  <2>2. /\ s \in Seq(ToSet(s)) /\ i \in DOMAIN s /\ s[i].id = id /\ ~ InOrder(s, id, id)
        /\ r = Select(s, {z \in ToSet(s) : z.id # id})
    BY <1>4, <1>7, <1>8, <2>1
  <2>3. LeftOf(ToSet(s), s, i, r)
    BY <2>2, EraseIndex
  <2> QED
    BY <2>3 DEF LeftOf
<1>10. DOMAIN r = 1..(Len(s) - 1)
  BY <1>4, <1>9
<1>11. b \in DOMAIN B /\ DOMAIN B = DOMAIN A
  BY DEF Erased
<1>12. PICK qq : qq = FirstInsertionPoint(B, b, i)
  OBVIOUS
<1>13. FirstIs(B, b, i, qq)
  <2>1. i \in Nat /\ 1 <= i /\ i <= Len(B[b])
    BY <1>4, <1>5, <1>6, <1>9
  <2> QED
    BY <1>11, <1>12, <2>1, FirstPlace
<1>14. ASSUME NEW m \in DOMAIN A[b], i < m, A[b][m].kind \notin {"phi", "pad"}
       PROVE  \E j \in DOMAIN B[b] : qq[2] <= j /\ B[b][j] = A[b][m]
  <2>1. PICK j : j = m - 1
    OBVIOUS
  <2>2. j \in i..(Len(s) - 1) /\ j + 1 = m /\ j \in DOMAIN r /\ i <= j
    BY <1>3, <1>4, <1>10, <1>14, <2>1
  <2>3. r[j] = s[m]
    BY <1>9, <2>2
  <2>4. j \in DOMAIN B[b] /\ B[b][j] = A[b][m]
    BY <1>3, <1>6, <2>2, <2>3
  <2>5. \A h \in DOMAIN B[b] : i <= h /\ B[b][h].kind \notin {"phi", "pad"} => qq[2] <= h
    BY <1>13 DEF FirstIs
  <2>6. qq[2] <= j
    BY <1>14, <2>2, <2>4, <2>5
  <2> QED
    BY <2>4, <2>6
<1>15. b = 1 => u <= i
  <2>1. SUFFICES ASSUME b = 1 PROVE u <= i
    OBVIOUS
  <2>2. x.kind \notin Bare /\ x.kind # "point"
    BY DEF Bare
  <2>3. x.id # point
    BY <1>1, <2>1, <2>2 DEF PointAt, OwnIds
  <2>4. InOrder(A[1], point, x.id)
    BY <2>1, <2>2, <2>3 DEF PointAt
  <2>5. PICK v \in DOMAIN A[1], w \in DOMAIN A[1] : v < w /\ A[1][v].id = point /\ A[1][w].id = x.id
    BY <2>4 DEF InOrder
  <2>6. w = i
    BY <1>1, <1>2, <2>1, <2>5, OneIndex
  <2>7. v \in 1..(i - 1) /\ v \in DOMAIN r
    BY <1>3, <1>4, <1>10, <2>1, <2>5, <2>6
  <2>8. r[v] = s[v]
    BY <1>9, <2>7
  <2>9. v \in DOMAIN B[1] /\ B[1][v].id = point
    BY <1>3, <1>6, <2>1, <2>5, <2>7, <2>8
  <2>10. u \in DOMAIN B[1] /\ B[1][u].id = point /\ IsCode(B) /\ 1 \in DOMAIN B
    BY <1>11, <2>1 DEF PointIs, Fit
  <2>11. u = v
    BY <2>9, <2>10, OneIndex
  <2> QED
    BY <1>4, <2>5, <2>6, <2>7, <2>11
<1> QED
  BY <1>2, <1>12, <1>13, <1>14, <1>15 DEF PhiAt

(* A PHI node is demoted.                                                  *)
LEMMA UsePhi ==
  ASSUME NEW A, NEW n \in Nat, NEW k, NEW t, NEW gs, Whole(A, n, k, t, gs), PointAt(A, point),
         LocalUses(A, {}), NEW slot, slot = <<"slot", n>>,
         NEW b \in DOMAIN A, NEW x \in ToSet(A[b]), x.kind = "phi",
         NEW C, C = DemotePHIToStack(A, x, point, slot)
  PROVE  /\ Sound(C, n + 1, k, t, gs) /\ PointAt(C, point) /\ LocalUses(C, {})
         /\ OnePhiLess(A, C, x)
<1>1. Fit(A) /\ IsCode(A) /\ 1 \in DOMAIN A /\ Sound(A, n, k, t, gs) /\ OwnIds(A) /\ Shapes(A)
  BY DEF Whole, Fit, Sound
<1>2. PICK B : B = Erase(A, x.id)
  OBVIOUS
<1>3. Erased(A, B, x.id)
  BY <1>1, <1>2, EraseIs
<1>4. x.kind \notin Kept /\ \A e \in DOMAIN A : \A y \in ToSet(A[e]) : y.id = x.id => y.kind # "alloca"
  BY <1>1 DEF Kept, Terminators, OwnIds
<1>5. Sound(B, n, k, t, gs)
  BY <1>1, <1>3, <1>4, EraseSound
<1>6. Fit(B) /\ IsCode(B)
  BY <1>1, <1>2, <1>3, <1>4, ErasedFits DEF Fit
<1>7. PointAt(B, point)
  <2>1. x.id # point
    BY <1>1 DEF PointAt, OwnIds
  <2> QED
    BY <1>1, <1>3, <2>1, ErasePoint
<1>8. OwnIds(B) /\ AllOld(B, n, k, t) /\ Shapes(B) /\ Homes(B, gs)
  BY <1>5 DEF Sound
<1>9. PICK u : PointIs(B, point, u)
  <2>1. 1 \in DOMAIN B /\ Last(B[1]).kind \in Terminators
    BY <1>1, <1>3, <1>6 DEF Erased, Fit
  <2> QED
    BY <1>6, <1>7, <1>8, <2>1, PointPlace
<1>10. PICK y : y = Load(x.id, slot)
  OBVIOUS
<1>11. PICK i, qq : PhiAt(A, n, slot, b, i, x, u, B, qq, y)
  BY <1>2, <1>3, <1>6, <1>8, <1>9, <1>10, PhiHere
<1>12. PICK lists : lists = StoreLists(B, x, slot)
  OBVIOUS
<1>13. PICK pp : pp = <<1, u>>
  OBVIOUS
<1>14. C = IF UsersOf(A, x.id) = {} THEN B ELSE PutBefore(B, NewFor(B, slot, pp, qq, y, lists))
  <2>1. PhiMade(A, x, slot, u, B, qq, y, C)
    BY <1>1, <1>2, <1>11, PhiIs
  <2> QED
    BY <1>12, <1>13, <2>1 DEF PhiMade
<1>15. \A z : InCode(B, z) /\ z.kind = "phi" <=> InCode(A, z) /\ z.kind = "phi" /\ z.id # x.id
  BY <1>3 DEF InCode, Erased
<1>16. CASE UsersOf(A, x.id) = {}
  <2>1. C = B
    BY <1>14, <1>16
  <2>2. ASSUME NEW e \in DOMAIN A, NEW z \in ToSet(A[e]), NEW l \in DOMAIN z.args,
               z.args[l] = Reg(x.id)
        PROVE  FALSE
    <3>1. PICK m \in DOMAIN A[e] : <<e, m>> \in Places(A) /\ InstAt(A, <<e, m>>) = z
      BY ElementPlace
    <3>2. Reg(x.id) \in ToSet(z.args)
      BY <2>2, ElementAt
    <3>3. <<e, m>> \in UsersOf(A, x.id)
      BY <3>1, <3>2 DEF UsersOf
    <3> QED
      BY <1>16, <3>3
  <2>3. LocalUses(B, {})
    BY <1>1, <1>3, <2>2, EraseUses
  <2> QED
    BY <1>5, <1>7, <1>15, <2>1, <2>3, SoundGrows DEF OnePhiLess
<1>17. CASE UsersOf(A, x.id) # {}
  <2>1. C = PutBefore(B, NewFor(B, slot, pp, qq, y, lists))
    BY <1>14, <1>17
  <2>2. ASSUME NEW q \in Places(B) PROVE StoreListFor(B, x, slot, q, lists[q])
    <3>1. lists[q] = StoresAt(B, q, x, slot)
      BY <1>12 DEF StoreLists
    <3>2. x.blocks \in Seq(DOMAIN A)
      BY <1>1 DEF Fit
    <3> QED
      BY <3>1, <3>2, StoresAre DEF StoreListFor
  <2>3. Puts3(B, n, k, t, slot, pp, qq, y, lists)
    BY <1>1, <1>5, <1>11, <1>13, <2>2, PhiPuts
  <2>4. InstAt(B, pp).id = point
    BY <1>9, <1>13 DEF PointIs
  <2>5. /\ PutFacts(B, C, slot, qq, y, lists)
        /\ OwnIds(C) /\ AllOld(C, n + 1, k, t) /\ Shapes(C) /\ Homes(C, gs)
        /\ PointAt(C, point)
    BY <1>6, <1>7, <1>8, <2>1, <2>3, <2>4, SlotKeeps
  <2>6. PhiOut(A, b, x, slot, y, B, C)
    BY <1>1, <1>6, <1>11, <2>2, <2>5, PhiOutIs
  <2>7. LocalUses(C, {})
    BY <1>1, <1>3, <2>6, PhiLocal
  <2>8. ASSUME NEW z PROVE InCode(C, z) /\ z.kind = "phi" <=> InCode(B, z) /\ z.kind = "phi"
    <3>1. DOMAIN C = DOMAIN A /\ DOMAIN B = DOMAIN A
      BY <1>3, <2>6 DEF PhiOut, Erased
    <3>2. y.kind # "phi" /\ Alloca(slot).kind # "phi"
      BY <1>10 DEF Load, Alloca, Inst
    <3>3. ASSUME NEW e \in DOMAIN A, z \in ToSet(C[e]), z.kind = "phi" PROVE z \in ToSet(B[e])
      <4>1. \/ z = Alloca(slot) \/ z = y \/ z \in ToSet(B[e])
            \/ \E j \in DOMAIN x.blocks : z = Store(<<"store", slot, j>>, x.args[j], slot)
        BY <3>3, <2>6 DEF PhiOut
      <4>2. \A j : Store(<<"store", slot, j>>, x.args[j], slot).kind # "phi"
        BY DEF Store, Inst
      <4> QED
        BY <3>2, <3>3, <4>1, <4>2
    <3>4. ASSUME NEW e \in DOMAIN A, z \in ToSet(B[e]) PROVE z \in ToSet(C[e])
      BY <3>4, <2>6 DEF PhiOut
    <3> QED
      BY <3>1, <3>3, <3>4 DEF InCode
  <2>9. OnePhiLess(A, C, x)
    BY <1>15, <2>8 DEF OnePhiLess
  <2> QED
    BY <2>5, <2>7, <2>9 DEF Sound
<1> QED
  BY <1>16, <1>17

-----------------------------------------------------------------------------
(* The passes start on a function, or leave it.                            *)

(* Some blocks have one instruction more.                                  *)
OneMore(A, C, T, new) ==
  /\ DOMAIN C = DOMAIN A /\ T \subseteq DOMAIN A
  /\ \A b \in DOMAIN A : b \notin T => C[b] = A[b]
  /\ \A b \in T :
       /\ \A z : z \in ToSet(C[b]) <=> z \in ToSet(A[b]) \/ z = new[b]
       /\ \A c, d : InOrder(A[b], c, d) => InOrder(C[b], c, d)
       /\ \A c : InOrder(C[b], c, c) => InOrder(A[b], c, c) \/ (c = new[b].id /\ c \in IdsIn(A[b]))

(* They are new, use constants only and are about no slot.                 *)
NewOnes(A, T, new, n, k, t) ==
  /\ \A b \in T : /\ \A e \in DOMAIN A : new[b].id \notin IdsIn(A[e])
                  /\ Old(new[b].id, n, k, t) /\ Shaped(new[b])
                  /\ new[b].kind \notin Slots /\ \A j \in DOMAIN new[b].args : new[b].args[j][1] = "imm"
  /\ \A b, e \in T : new[b].id = new[e].id => b = e

LEMMA OneMoreCarries ==
  ASSUME NEW A, NEW C, NEW T, NEW new, OneMore(A, C, T, new)
  PROVE  Carries(A, C, {})
<1>1. DOMAIN C = DOMAIN A
  BY DEF OneMore
<1>2. \A b \in DOMAIN A : ToSet(A[b]) \subseteq ToSet(C[b])
  BY DEF OneMore
<1>3. \A b \in DOMAIN A : \A c, d : InOrder(A[b], c, d) => InOrder(C[b], c, d)
  BY DEF OneMore
<1> QED
  BY <1>1, <1>2, <1>3 DEF Carries

LEMMA OneMoreSound ==
  ASSUME NEW A, 1 \in DOMAIN A, NEW C, NEW T, NEW new, OneMore(A, C, T, new),
         NEW n, NEW k, NEW t, NEW gs, Sound(A, n, k, t, gs), NEW l, NEW v,
         NewOnes(A, T, new, n, l, v), \A id : Old(id, n, k, t) => Old(id, n, l, v)
  PROVE  Sound(C, n, l, v, gs)
<1>1. DOMAIN C = DOMAIN A
  BY DEF OneMore
<1>2. \A b \in DOMAIN A : \A z \in ToSet(C[b]) : z \in ToSet(A[b]) \/ (b \in T /\ z = new[b])
  BY DEF OneMore
<1>3. OwnIds(A)
  BY DEF Sound
<1>4. \A b \in DOMAIN A : \A c : ~ InOrder(C[b], c, c)
  <2>1. SUFFICES ASSUME NEW b \in DOMAIN A, NEW c, InOrder(C[b], c, c) PROVE FALSE
    OBVIOUS
  <2>2. ~ InOrder(A[b], c, c)
    BY <1>3 DEF OwnIds
  <2>3. b \in T
    BY <2>1, <2>2 DEF OneMore
  <2> QED
    BY <2>1, <2>2, <2>3 DEF OneMore, NewOnes
<1>5. ASSUME NEW b \in DOMAIN A, NEW e \in DOMAIN A, NEW x \in ToSet(C[b]), NEW y \in ToSet(C[e]),
             x.id = y.id
      PROVE  b = e /\ x = y
  <2>1. CASE x \in ToSet(A[b]) /\ y \in ToSet(A[e])
    BY <1>3, <1>5, <2>1 DEF OwnIds
  <2>2. CASE x \in ToSet(A[b]) /\ e \in T /\ y = new[e]
    <3>1. x.id \in IdsIn(A[b])
      BY <2>2 DEF IdsIn
    <3> QED
      BY <1>5, <2>2, <3>1 DEF NewOnes
  <2>3. CASE y \in ToSet(A[e]) /\ b \in T /\ x = new[b]
    <3>1. y.id \in IdsIn(A[e])
      BY <2>3 DEF IdsIn
    <3> QED
      BY <1>5, <2>3, <3>1 DEF NewOnes
  <2>4. CASE b \in T /\ e \in T /\ x = new[b] /\ y = new[e]
    BY <1>5, <2>4 DEF NewOnes
  <2> QED
    BY <1>2, <2>1, <2>2, <2>3, <2>4
<1>6. OwnIds(C)
  BY <1>1, <1>4, <1>5 DEF OwnIds
<1>7. AllOld(C, n, l, v)
  BY <1>1, <1>2 DEF Sound, AllOld, NewOnes
<1>8. Shapes(C)
  BY <1>1, <1>2 DEF Sound, Shapes, NewOnes
<1>9. Homes(C, gs)
  <2>1. SUFFICES ASSUME NEW b \in DOMAIN A, NEW x \in ToSet(C[b]), x.kind \in Slots, x.ref \notin gs
                 PROVE  Alloca(x.ref) \in ToSet(C[1]) /\ (b = 1 => InOrder(C[1], x.ref, x.id))
    BY <1>1 DEF Homes
  <2>2. x \in ToSet(A[b])
    BY <1>2, <2>1 DEF NewOnes
  <2>3. Alloca(x.ref) \in ToSet(A[1]) /\ (b = 1 => InOrder(A[1], x.ref, x.id))
    BY <2>1, <2>2 DEF Sound, Homes
  <2>4. ToSet(A[1]) \subseteq ToSet(C[1])
    BY DEF OneMore
  <2>5. \A c, d : InOrder(A[1], c, d) => InOrder(C[1], c, d)
    BY DEF OneMore
  <2> QED
    BY <2>3, <2>4, <2>5
<1> QED
  BY <1>6, <1>7, <1>8, <1>9 DEF Sound

LEMMA OneMoreGiven ==
  ASSUME NEW A, NEW C, NEW T, NEW new, OneMore(A, C, T, new), OwnIds(C), GivenUses(A),
         \A b \in T : \A j \in DOMAIN new[b].args : new[b].args[j][1] = "imm"
  PROVE  GivenUses(C)
<1>1. Carries(A, C, {}) /\ DOMAIN C = DOMAIN A
  BY OneMoreCarries, ZenonT(30) DEF OneMore
<1>2. SUFFICES ASSUME NEW b \in DOMAIN A, NEW x \in ToSet(C[b]), NEW j \in DOMAIN x.args
               PROVE  GivenArg(C, b, x, x.args[j])
  BY <1>1 DEF GivenUses
<1>3. CASE x \in ToSet(A[b])
  <2>1. PICK arg : arg = x.args[j]
    OBVIOUS
  <2>2. GivenArg(A, b, x, arg)
    BY <1>3, <2>1 DEF GivenUses
  <2>3. arg[2] \notin {} /\ x.id \notin {}
    OBVIOUS
  <2>4. GivenArg(C, b, x, arg)
    BY <1>1, <2>2, <2>3, GivenCarries
  <2> QED
    BY <2>1, <2>4
<1>4. CASE b \in T /\ x = new[b]
  BY <1>4 DEF GivenArg
<1> QED
  BY <1>3, <1>4 DEF OneMore

LEMMA InsertsOne ==
  ASSUME NEW A, IsCode(A), NEW T, T \subseteq DOMAIN A, NEW new, NEW at, NEW C,
         DOMAIN C = DOMAIN A, \A b \in DOMAIN A : b \notin T => C[b] = A[b],
         \A b \in T : at[b] \in 1..(Len(A[b]) + 1) /\ C[b] = InsertAt(A[b], at[b], new[b])
  PROVE  OneMore(A, C, T, new)
<1>1. ASSUME NEW b \in T
      PROVE  /\ \A z : z \in ToSet(C[b]) <=> z \in ToSet(A[b]) \/ z = new[b]
             /\ \A c, d : InOrder(A[b], c, d) => InOrder(C[b], c, d)
             /\ \A c : InOrder(C[b], c, c)
                         => InOrder(A[b], c, c) \/ (c = new[b].id /\ c \in IdsIn(A[b]))
  <2>1. PICK x : x = new[b]
    OBVIOUS
  <2>2. PICK i : i = at[b]
    OBVIOUS
  <2>3. PICK S : S = ToSet(A[b]) \cup {x}
    OBVIOUS
  <2>4. A[b] \in Seq(S) /\ x \in S
    <3>1. A[b] \in Seq(ToSet(A[b])) /\ ToSet(A[b]) \subseteq S
      BY <2>3, BlockSeq
    <3> QED
      BY <2>3, <3>1, SeqWidens
  <2>5. i \in 1..(Len(A[b]) + 1) /\ C[b] = InsertAt(A[b], i, x)
    BY <2>1, <2>2
  <2>6. ToSet(C[b]) = ToSet(A[b]) \cup {x}
    BY <2>4, <2>5, InsertElements
  <2>7. /\ \A c, d : InOrder(A[b], c, d) => InOrder(C[b], c, d)
        /\ \A c : InOrder(C[b], c, c) => InOrder(A[b], c, c) \/ (c = x.id /\ c \in IdsIn(A[b]))
    BY <2>4, <2>5, OrderInsert
  <2> QED
    BY <2>1, <2>6, <2>7
<1> QED
  BY <1>1 DEF OneMore

LEMMA LeadingLeast ==
  ASSUME NEW B, IsBlock(B), NEW i \in DOMAIN B, B[i].kind # "alloca"
  PROVE  LeadingAllocas(B) + 1 <= i
<1>1. PICK E : E = {j \in DOMAIN B : B[j].kind # "alloca"}
  OBVIOUS
<1>2. E \in SUBSET Nat /\ E # {} /\ i \in E
  BY <1>1 DEF IsBlock
<1>3. Min(E) \in E /\ \A k \in E : Min(E) <= k
  BY <1>2, MinOfSet
<1>4. LeadingAllocas(B) = Min(E) - 1
  BY <1>1 DEF LeadingAllocas
<1>5. Min(E) \in Nat /\ Min(E) <= i
  BY <1>2, <1>3
<1> QED
  BY <1>4, <1>5

-----------------------------------------------------------------------------
(* The work lists.                                                         *)

LEMMA ReverseIs ==
  ASSUME NEW S, NEW s \in Seq(S)
  PROVE  /\ Reverse(s) \in Seq(S) /\ ToSet(Reverse(s)) = ToSet(s)
         /\ \A c, d : InOrder(Reverse(s), c, d) => InOrder(s, d, c)
<1>1. Len(s) \in Nat /\ DOMAIN s = 1..Len(s)
  OBVIOUS
<1>2. PICK n : n = Len(s)
  OBVIOUS
<1>3. PICK w : w = Reverse(s)
  OBVIOUS
<1>4. w = [i \in 1..n |-> s[(n - i) + 1]]
  BY <1>2, <1>3 DEF Reverse
<1>5. n \in Nat /\ \A i \in 1..n : (n - i) + 1 \in 1..n /\ (n - ((n - i) + 1)) + 1 = i
  BY <1>1, <1>2
<1>6. w \in [1..n -> S]
  BY <1>1, <1>2, <1>4, <1>5
<1>7. w \in Seq(S) /\ DOMAIN w = 1..n
  BY <1>5, <1>6, IsSequence
<1>8. ASSUME NEW z PROVE z \in ToSet(w) <=> z \in ToSet(s)
  <2>1. ASSUME NEW i \in 1..n PROVE w[i] \in ToSet(s)
    BY <1>1, <1>2, <1>4, <1>5 DEF ToSet
  <2>2. ASSUME NEW i \in 1..n PROVE s[i] \in ToSet(w)
    <3>1. PICK j : j = (n - i) + 1
      OBVIOUS
    <3>2. j \in 1..n /\ (n - j) + 1 = i
      BY <1>5, <3>1
    <3>3. w[j] = s[i]
      BY <1>4, <3>2
    <3> QED
      BY <1>7, <3>2, <3>3, ElementAt
  <2> QED
    BY <1>1, <1>2, <1>7, <2>1, <2>2, ElementAt
<1>9. ASSUME NEW c, NEW d, InOrder(w, c, d) PROVE InOrder(s, d, c)
  <2>1. PICK i \in 1..n, j \in 1..n : i < j /\ w[i].id = c /\ w[j].id = d
    BY <1>7, <1>9 DEF InOrder
  <2>2. PICK k : k = (n - i) + 1
    OBVIOUS
  <2>3. PICK l : l = (n - j) + 1
    OBVIOUS
  <2>4. k \in 1..n /\ l \in 1..n /\ l < k
    BY <1>5, <2>1, <2>2, <2>3
  <2>5. s[k].id = c /\ s[l].id = d
    BY <1>4, <2>1, <2>2, <2>3
  <2> QED
    BY <1>1, <1>2, <2>4, <2>5 DEF InOrder
<1>10. ToSet(w) = ToSet(s)
  BY <1>8
<1> QED
  BY <1>3, <1>7, <1>9, <1>10

(* A work list is of the instructions at the places it was made for.       *)
ListOf(A, places, w) ==
  /\ w \in Seq(ToSet(w))
  /\ \A x : x \in ToSet(w) <=> \E p \in places : x = InstAt(A, p)
  /\ \A c : ~ InOrder(w, c, c)

LEMMA InReverseIs ==
  ASSUME NEW A, IsCode(A), OwnIds(A), NEW places, places \subseteq Places(A)
  PROVE  ListOf(A, places, InstsInReverse(A, places))
<1>1. PICK T : T = {InstAt(A, p) : p \in places}
  OBVIOUS
<1>2. PICK S : S = InstsOf(A)
  OBVIOUS
<1>3. PICK l : l = FlattenSeq(A)
  OBVIOUS
<1>4. PICK s : s = Select(l, T)
  OBVIOUS
<1>5. l \in Seq(S) /\ ToSet(l) = S /\ \A c : ~ InOrder(l, c, c)
  BY <1>2, <1>3, FlattenCode, FlatElements, OwnFlat
<1>6. s \in Seq(S) /\ ToSet(s) = S \cap T
  BY <1>4, <1>5, SelectType, SelectElements
<1>7. \A c : ~ InOrder(s, c, c)
  BY <1>4, <1>5, OrderSelect
<1>8. PICK w : w = Reverse(s)
  OBVIOUS
<1>9. w \in Seq(S) /\ ToSet(w) = S \cap T /\ \A c : ~ InOrder(w, c, c)
  BY <1>6, <1>7, <1>8, ReverseIs
<1>10. w \in Seq(ToSet(w))
  BY <1>9, SeqOfOwn
<1>11. T \subseteq S
  <2>1. ASSUME NEW p \in places PROVE InstAt(A, p) \in S
    <3>1. /\ p \in Places(A) /\ p[1] \in DOMAIN A /\ p[2] \in DOMAIN A[p[1]]
          /\ InstAt(A, p) = A[p[1]][p[2]]
      BY PlacePair
    <3>2. A[p[1]][p[2]] \in ToSet(A[p[1]])
      BY <3>1, ElementAt
    <3> QED
      BY <1>2, <3>1, <3>2 DEF InstsOf
  <2> QED
    BY <1>1, <2>1
<1>12. ASSUME NEW x PROVE x \in ToSet(w) <=> \E p \in places : x = InstAt(A, p)
  BY <1>1, <1>9, <1>11
<1>13. w = InstsInReverse(A, places)
  BY <1>1, <1>3, <1>4, <1>8 DEF InstsInReverse
<1> QED
  BY <1>9, <1>10, <1>12, <1>13 DEF ListOf

(* Lists with no element in common, none in a list twice.                  *)
Once(s) == \A i, j \in DOMAIN s : s[i] = s[j] => i = j

LEMMA OnceIs ==
  ASSUME NEW S, NEW s \in Seq(S)
  PROVE  /\ Once(s) <=> Distinct(s, [x \in S |-> x])
         /\ Keys(s, [x \in S |-> x]) = ToSet(s)
<1>1. \A i \in DOMAIN s : s[i] \in S
  OBVIOUS
<1>2. PICK key : key = [x \in S |-> x]
  OBVIOUS
<1>3. \A x \in S : key[x] = x
  BY <1>2
<1>4. Once(s) <=> Distinct(s, key)
  BY <1>1, <1>3 DEF Once, Distinct
<1>5. ToSet(s) \subseteq S
  BY <1>1 DEF ToSet
<1>6. Keys(s, key) = ToSet(s)
  BY <1>3, <1>5 DEF Keys
<1> QED
  BY <1>2, <1>4, <1>6

LEMMA OnceConcat ==
  ASSUME NEW S, NEW s \in Seq(S), NEW t \in Seq(S), Once(s), Once(t),
         \A x : ~ (x \in ToSet(s) /\ x \in ToSet(t))
  PROVE  Once(s \o t)
<1>1. s \o t \in Seq(S)
  OBVIOUS
<1>2. PICK key : key = [x \in S |-> x]
  OBVIOUS
<1>3. Distinct(s, key) /\ Distinct(t, key) /\ Keys(s, key) = ToSet(s) /\ Keys(t, key) = ToSet(t)
  BY <1>2, OnceIs
<1>4. Keys(s, key) \cap Keys(t, key) = {}
  BY <1>3
<1>5. Distinct(s \o t, key)
  BY <1>3, <1>4, DistinctConcat
<1> QED
  BY <1>1, <1>2, <1>5, OnceIs

LEMMA OnceFlatten ==
  ASSUME NEW S, NEW ss \in Seq(Seq(S)), \A i \in DOMAIN ss : Once(ss[i]),
         \A i, j \in DOMAIN ss : \A x : x \in ToSet(ss[i]) /\ x \in ToSet(ss[j]) => i = j
  PROVE  Once(FlattenSeq(ss))
<1> DEFINE Each(tt) == \A i \in DOMAIN tt : Once(tt[i])
           Own(tt) == \A i, j \in DOMAIN tt : \A x : x \in ToSet(tt[i]) /\ x \in ToSet(tt[j]) => i = j
           P == {tt \in Seq(Seq(S)) : Each(tt) /\ Own(tt) => Once(FlattenSeq(tt))}
<1>1. <<>> \in P
  <2>1. DOMAIN <<>> = {} /\ <<>> \in Seq(Seq(S))
    OBVIOUS
  <2>2. Once(FlattenSeq(<<>>))
    BY <2>1, FlattenEmpty DEF Once
  <2> QED
    BY <2>1, <2>2
<1>2. ASSUME NEW tt \in P, NEW s \in Seq(S) PROVE Append(tt, s) \in P
  <2>1. PICK uu : uu = Append(tt, s)
    OBVIOUS
  <2>2. /\ tt \in Seq(Seq(S)) /\ uu \in Seq(Seq(S)) /\ Len(tt) \in Nat
        /\ DOMAIN tt = 1..Len(tt) /\ DOMAIN uu = 1..(Len(tt) + 1)
        /\ \A i \in 1..Len(tt) : uu[i] = tt[i]
        /\ uu[Len(tt) + 1] = s
    BY <2>1
  <2>3. Each(tt) /\ Own(tt) => Once(FlattenSeq(tt))
    OBVIOUS
  <2>4. /\ FlattenSeq(tt) \in Seq(S) /\ FlattenSeq(uu) = FlattenSeq(tt) \o s
        /\ ToSet(FlattenSeq(tt)) = UNION {ToSet(tt[k]) : k \in DOMAIN tt}
    BY <2>1, <2>2, FlattenType, FlattenAppend, FlattenElements
  <2> HIDE DEF P
  <2>5. ASSUME Each(uu), Own(uu) PROVE Once(FlattenSeq(uu))
    <3>1. \A i \in DOMAIN tt : i \in DOMAIN uu /\ uu[i] = tt[i]
      BY <2>2
    <3>2. Each(tt) /\ Own(tt)
      BY <2>5, <3>1
    <3>3. PICK m : m = Len(tt) + 1
      OBVIOUS
    <3>4. m \in DOMAIN uu /\ uu[m] = s /\ \A i \in DOMAIN tt : i # m
      BY <2>2, <3>3
    <3>5. Once(s)
      BY <2>5, <3>4
    <3>6. ASSUME NEW x, x \in ToSet(FlattenSeq(tt)), x \in ToSet(s) PROVE FALSE
      <4>1. PICK k \in DOMAIN tt : x \in ToSet(tt[k])
        BY <2>4, <3>6
      <4>2. x \in ToSet(uu[k]) /\ x \in ToSet(uu[m]) /\ k \in DOMAIN uu /\ k # m
        BY <3>1, <3>4, <3>6, <4>1
      <4> QED
        BY <2>5, <3>4, <4>2
    <3>7. Once(FlattenSeq(tt))
      BY <2>3, <3>2
    <3>8. PICK v : v = FlattenSeq(tt)
      OBVIOUS
    <3>9. v \in Seq(S) /\ Once(v) /\ \A x : ~ (x \in ToSet(v) /\ x \in ToSet(s))
      BY <2>4, <3>6, <3>7, <3>8
    <3>10. Once(v \o s)
      BY <3>5, <3>9, OnceConcat
    <3> QED
      BY <2>4, <3>8, <3>10
  <2>6. uu \in P
    BY <2>2, <2>5 DEF P
  <2> QED
    BY <2>1, <2>6
<1>3. P \in SUBSET Seq(Seq(S))
  OBVIOUS
<1> HIDE DEF P
<1>4. P = Seq(Seq(S))
  BY <1>1, <1>2, <1>3, SequenceInduction
<1>5. ss \in P
  BY <1>4
<1> QED
  BY <1>5 DEF P

-----------------------------------------------------------------------------
(* DemoteRegisters starts.                                                 *)

LEMMA UseStart ==
  ASSUME NEW A, NEW n, NEW k \in Nat, NEW t, NEW gs, Whole(A, n, k, t, gs), GivenUses(A),
         NEW pt, pt = <<"point", k + 1>>,
         NEW cast, cast = Inst(pt, "point", <<<<"imm", 0>>>>, <<>>, {}),
         NEW C, C = [A EXCEPT ![1] = AfterAllocas(A[1], cast)]
  PROVE  /\ Sound(C, n, k + 1, t, gs) /\ PointAt(C, pt) /\ GivenUses(C)
         /\ EarlyLoads(C, pt)
<1>1. IsCode(A) /\ 1 \in DOMAIN A /\ Sound(A, n, k, t, gs) /\ Last(A[1]).kind \in Terminators
  BY DEF Whole, Fit
<1>2. /\ cast.id = pt /\ cast.kind = "point" /\ DOMAIN cast.args = {1}
      /\ cast.args[1][1] = "imm"
  BY DEF Inst
<1>3. IsBlock(A[1]) /\ Last(A[1]).kind # "alloca"
  BY <1>1 DEF IsCode, Terminators
<1>4. PICK m : m = LeadingAllocas(A[1]) + 1
  OBVIOUS
<1>5. m \in 1..(Len(A[1]) + 1)
  <2>1. LeadingAllocas(A[1]) \in Nat /\ LeadingAllocas(A[1]) + 1 \in 1..Len(A[1])
    BY <1>3, LeadingAre
  <2>2. Len(A[1]) \in Nat
    BY <1>1, BlockSeq
  <2> QED
    BY <1>4, <2>1, <2>2
<1>6. /\ DOMAIN C = DOMAIN A /\ C[1] = InsertAt(A[1], m, cast)
      /\ \A b \in DOMAIN A : b \notin {1} => C[b] = A[b]
  <2>1. A \in Seq(Seq(InstsOf(A)))
    BY <1>1 DEF IsCode
  <2> QED
    BY <1>1, <1>4, <2>1 DEF AfterAllocas
<1>7. PICK new : new = [b \in {1} |-> cast]
  OBVIOUS
<1>8. PICK at : at = [b \in {1} |-> m]
  OBVIOUS
<1>9. new[1] = cast /\ at[1] = m
  BY <1>7, <1>8
<1>10. OneMore(A, C, {1}, new)
  <2>1. \A b \in {1} : at[b] \in 1..(Len(A[b]) + 1) /\ C[b] = InsertAt(A[b], at[b], new[b])
    BY <1>5, <1>6, <1>9
  <2>2. IsCode(A) /\ {1} \subseteq DOMAIN A /\ DOMAIN C = DOMAIN A
        /\ \A b \in DOMAIN A : b \notin {1} => C[b] = A[b]
    BY <1>1, <1>6
  <2> QED
    BY <2>1, <2>2, InsertsOne
<1>11. \A id : Old(id, n, k, t) => Old(id, n, k + 1, t)
  <2>1. \A i : i \in 0..k => i \in 0..(k + 1)
    OBVIOUS
  <2> QED
    BY <2>1 DEF Old
<1>12. \A e \in DOMAIN A : pt \notin IdsIn(A[e])
  <2>1. ~ Old(pt, n, k, t)
    BY DEF Old
  <2> QED
    BY <1>1, <2>1 DEF Sound, AllOld, IdsIn
<1>13. Old(pt, n, k + 1, t)
  BY DEF Old
<1>14. Shaped(cast)
  BY <1>2, NumberedIs DEF Shaped, Bare
<1>15. NewOnes(A, {1}, new, n, k + 1, t)
  <2>1. cast.kind \notin Slots /\ \A j \in DOMAIN cast.args : cast.args[j][1] = "imm"
    BY <1>2 DEF Slots
  <2> QED
    BY <1>2, <1>9, <1>12, <1>13, <1>14, <2>1 DEF NewOnes
<1>16. Sound(C, n, k + 1, t, gs)
  BY <1>1, <1>10, <1>11, <1>15, OneMoreSound
<1>17. GivenUses(C)
  <2>1. OwnIds(C)
    BY <1>16 DEF Sound
  <2>2. \A b \in {1} : \A j \in DOMAIN new[b].args : new[b].args[j][1] = "imm"
    BY <1>15 DEF NewOnes
  <2> QED
    BY <1>10, <2>1, <2>2, OneMoreGiven
<1>18. ASSUME NEW x \in ToSet(C[1]), x # cast, x.kind # "alloca"
       PROVE  InOrder(C[1], pt, x.id)
  <2>1. x \in ToSet(A[1])
    BY <1>9, <1>10, <1>18 DEF OneMore
  <2>2. PICK i \in DOMAIN A[1] : A[1][i] = x
    BY <2>1, ElementAt
  <2>3. m <= i
    BY <1>3, <1>4, <1>18, <2>2, LeadingLeast
  <2>4. PICK S : S = ToSet(A[1]) \cup {cast}
    OBVIOUS
  <2>5. A[1] \in Seq(S) /\ cast \in S
    <3>1. A[1] \in Seq(ToSet(A[1])) /\ ToSet(A[1]) \subseteq S
      BY <1>1, <2>4, BlockSeq
    <3> QED
      BY <2>4, <3>1, SeqWidens
  <2>6. InOrder(InsertAt(A[1], m, cast), cast.id, A[1][i].id)
    BY <1>5, <2>3, <2>5, OrderInsert
  <2> QED
    BY <1>2, <1>6, <2>2, <2>6
<1>19. PointAt(C, pt)
  <2>1. cast \in ToSet(C[1])
    BY <1>9, <1>10 DEF OneMore
  <2>2. ASSUME NEW x \in ToSet(C[1]), x.kind \notin Bare PROVE x.id = pt \/ InOrder(C[1], pt, x.id)
    BY <1>2, <1>18, <2>2 DEF Bare
  <2> QED
    BY <1>2, <2>1, <2>2 DEF PointAt
<1>20. EarlyLoads(C, pt)
  <2>1. ASSUME NEW x \in ToSet(C[1]), x.kind = "load" PROVE InOrder(C[1], pt, x.id)
    BY <1>2, <1>18, <2>1
  <2> QED
    BY <2>1 DEF EarlyLoads
<1> QED
  BY <1>16, <1>17, <1>19, <1>20

-----------------------------------------------------------------------------
(* The uses of constants that wait.                                        *)

(* A use of a constant that waits is still one.                            *)
ImmUse(A, e) ==
  \E b \in DOMAIN A : \E x \in ToSet(A[b]) : \E j \in DOMAIN x.args :
    e = <<x.id, j>> /\ x.args[j][1] = "imm" /\ x.kind \notin {"alloca", "pad"}
ImmList(A, w) == w \in Seq(ToSet(w)) /\ Once(w) /\ \A e \in ToSet(w) : ImmUse(A, e)

(* Those of one instruction.                                               *)
UsesIn(x) ==
  LET uses == [k \in DOMAIN x.args |-> <<x.id, k>>]
  IN Select(uses, {uses[k] : k \in {k \in DOMAIN uses : IsImmediate(x, k)}})
UsesFor(x, s) ==
  /\ s \in Seq(ToSet(s)) /\ Once(s)
  /\ \A e \in ToSet(s) : \E j \in DOMAIN x.args : e = <<x.id, j>> /\ IsImmediate(x, j)

LEMMA UsesInIs ==
  ASSUME NEW x, Numbered(x)
  PROVE  UsesFor(x, UsesIn(x))
<1>1. PICK m \in Nat : DOMAIN x.args = 1..m
  BY DEF Numbered
<1>2. PICK c : c = x.id
  OBVIOUS
<1>3. PICK u : u = [k \in DOMAIN x.args |-> <<x.id, k>>]
  OBVIOUS
<1>4. PICK T : T = {u[k] : k \in {k \in DOMAIN u : IsImmediate(x, k)}}
  OBVIOUS
<1>5. PICK S : S = {<<c, k>> : k \in 1..m}
  OBVIOUS
<1>6. DOMAIN u = 1..m /\ \A k \in 1..m : u[k] = <<c, k>> /\ u[k] \in S
  BY <1>1, <1>2, <1>3, <1>5
<1>7. u \in [1..m -> S]
  BY <1>3, <1>6
<1>8. u \in Seq(S)
  BY <1>1, <1>7, IsSequence
<1>9. Once(u)
  <2>1. ASSUME NEW i \in 1..m, NEW j \in 1..m, u[i] = u[j] PROVE i = j
    <3>1. <<c, i>> = <<c, j>>
      BY <1>6, <2>1
    <3> QED
      BY <3>1
  <2> QED
    BY <1>6, <2>1 DEF Once
<1>10. PICK s : s = Select(u, T)
  OBVIOUS
<1>11. s \in Seq(S) /\ ToSet(s) = ToSet(u) \cap T
  BY <1>8, <1>10, SelectType, SelectElements
<1>12. Once(s)
  <2>1. Distinct(u, [z \in S |-> z])
    BY <1>8, <1>9, OnceIs
  <2>2. Distinct(s, [z \in S |-> z])
    BY <1>8, <1>10, <2>1, SelectDistinct
  <2> QED
    BY <1>11, <2>2, OnceIs
<1>13. ASSUME NEW e \in ToSet(s)
       PROVE  \E j \in DOMAIN x.args : e = <<x.id, j>> /\ IsImmediate(x, j)
  <2>1. e \in T
    BY <1>11
  <2>2. PICK k \in DOMAIN u : e = u[k] /\ IsImmediate(x, k)
    BY <1>4, <2>1
  <2> QED
    BY <1>1, <1>2, <1>6, <2>2
<1>14. s \in Seq(ToSet(s))
  BY <1>11, SeqOfOwn
<1>15. UsesIn(x) = s
  BY <1>3, <1>4, <1>10 DEF UsesIn
<1> QED
  BY <1>12, <1>13, <1>14, <1>15 DEF UsesFor

LEMMA ImmediateUsesIs ==
  ASSUME NEW A, IsCode(A), OwnIds(A), Shapes(A)
  PROVE  ImmList(A, ImmediateUses(A))
<1>1. PICK l : l = InstsInReverse(A, Places(A))
  OBVIOUS
<1>2. ListOf(A, Places(A), l)
  BY <1>1, InReverseIs
<1>3. PICK ss : ss = [i \in DOMAIN l |-> UsesIn(l[i])]
  OBVIOUS
<1>4. ImmediateUses(A) = FlattenSeq(ss)
  BY <1>1, <1>3 DEF ImmediateUses, UsesIn
<1>5. l \in Seq(ToSet(l)) /\ Len(l) \in Nat /\ DOMAIN l = 1..Len(l)
  BY <1>2 DEF ListOf
<1>6. ASSUME NEW i \in DOMAIN l
      PROVE  /\ UsesFor(l[i], ss[i])
             /\ \E b \in DOMAIN A : l[i] \in ToSet(A[b])
  <2>1. l[i] \in ToSet(l)
    BY ElementAt
  <2>2. PICK p \in Places(A) : l[i] = InstAt(A, p)
    BY <1>2, <2>1 DEF ListOf
  <2>3. p[1] \in DOMAIN A /\ p[2] \in DOMAIN A[p[1]] /\ InstAt(A, p) = A[p[1]][p[2]]
    BY PlacePair
  <2>4. l[i] \in ToSet(A[p[1]])
    BY <2>2, <2>3, ElementAt
  <2>5. Numbered(l[i])
    BY <2>3, <2>4 DEF Shapes, Shaped
  <2>6. UsesFor(l[i], UsesIn(l[i]))
    BY <2>5, UsesInIs
  <2> QED
    BY <1>3, <2>3, <2>4, <2>6
<1>7. PICK S : S = UNION {ToSet(ss[i]) : i \in DOMAIN l}
  OBVIOUS
<1>8. \A i \in DOMAIN l : ss[i] \in Seq(S)
  <2>1. ASSUME NEW i \in DOMAIN l PROVE ss[i] \in Seq(S)
    <3>1. ss[i] \in Seq(ToSet(ss[i]))
      BY <1>6 DEF UsesFor
    <3>2. ToSet(ss[i]) \subseteq S
      BY <1>7
    <3> QED
      BY <3>1, <3>2, SeqWidens
  <2> QED
    BY <2>1
<1>9. ss \in Seq(Seq(S)) /\ DOMAIN ss = DOMAIN l
  <2>1. DOMAIN ss = DOMAIN l /\ ss = [i \in 1..Len(l) |-> ss[i]]
    BY <1>3, <1>5
  <2>2. ss \in [1..Len(l) -> Seq(S)]
    BY <1>5, <1>8, <2>1
  <2> QED
    BY <1>5, <2>1, <2>2, IsSequence
<1>10. \A i \in DOMAIN ss : Once(ss[i])
  BY <1>6, <1>9 DEF UsesFor
<1>11. ASSUME NEW i \in DOMAIN ss, NEW j \in DOMAIN ss, NEW e,
              e \in ToSet(ss[i]), e \in ToSet(ss[j])
       PROVE  i = j
  <2>1. PICK c : c = l[i].id
    OBVIOUS
  <2>2. PICK d : d = l[j].id
    OBVIOUS
  <2>3. PICK k : e = <<c, k>>
    BY <1>6, <1>9, <1>11, <2>1 DEF UsesFor
  <2>4. PICK m : e = <<d, m>>
    BY <1>6, <1>9, <1>11, <2>2 DEF UsesFor
  <2>5. <<c, k>> = <<d, m>>
    BY <2>3, <2>4
  <2>6. c = d
    BY <2>5
  <2>7. i \in Nat /\ j \in Nat
    BY <1>5, <1>9
  <2>8. ~ InOrder(l, c, c)
    BY <1>2 DEF ListOf
  <2>9. ~ (i < j) /\ ~ (j < i)
    BY <1>9, <2>1, <2>2, <2>6, <2>8 DEF InOrder
  <2> QED
    BY <2>7, <2>9
<1>12. Once(FlattenSeq(ss))
  BY <1>9, <1>10, <1>11, OnceFlatten
<1>13. PICK w : w = FlattenSeq(ss)
  OBVIOUS
<1>14. w \in Seq(S) /\ ToSet(w) = UNION {ToSet(ss[i]) : i \in DOMAIN ss}
  BY <1>9, <1>13, FlattenType, FlattenElements
<1>15. ASSUME NEW e \in ToSet(w) PROVE ImmUse(A, e)
  <2>1. PICK i \in DOMAIN l : e \in ToSet(ss[i])
    BY <1>9, <1>14
  <2>2. PICK b \in DOMAIN A : l[i] \in ToSet(A[b])
    BY <1>6
  <2>3. PICK j \in DOMAIN l[i].args : e = <<l[i].id, j>> /\ IsImmediate(l[i], j)
    BY <1>6, <2>1 DEF UsesFor
  <2>4. l[i].args[j][1] = "imm" /\ l[i].kind \notin {"alloca", "pad"}
    BY <2>3 DEF IsImmediate
  <2> QED
    BY <2>2, <2>3, <2>4 DEF ImmUse
<1>16. w \in Seq(ToSet(w))
  BY <1>14, SeqOfOwn
<1> QED
  BY <1>4, <1>12, <1>13, <1>15, <1>16 DEF ImmList

(* One of them is demoted.                                                 *)
LEMMA OnceTail ==
  ASSUME NEW w, w \in Seq(ToSet(w)), w # <<>>, Once(w)
  PROVE  /\ Head(w) \in ToSet(w) /\ Tail(w) \in Seq(ToSet(Tail(w))) /\ Once(Tail(w))
         /\ \A e \in ToSet(Tail(w)) : e \in ToSet(w) /\ e # Head(w)
<1>1. Head(w) \in ToSet(w) /\ Tail(w) \in Seq(ToSet(Tail(w))) /\ ToSet(Tail(w)) \subseteq ToSet(w)
  BY HeadOfList
<1>2. /\ Len(w) \in Nat /\ Len(w) # 0 /\ DOMAIN w = 1..Len(w) /\ Head(w) = w[1]
      /\ DOMAIN Tail(w) = 1..(Len(w) - 1) /\ \A i \in 1..(Len(w) - 1) : Tail(w)[i] = w[i + 1]
  OBVIOUS
<1>3. Once(Tail(w))
  <2>1. ASSUME NEW i \in 1..(Len(w) - 1), NEW j \in 1..(Len(w) - 1), w[i + 1] = w[j + 1]
        PROVE  i = j
    <3>1. i + 1 \in DOMAIN w /\ j + 1 \in DOMAIN w
      BY <1>2
    <3>2. i + 1 = j + 1
      BY <2>1, <3>1 DEF Once
    <3> QED
      BY <3>2
  <2> QED
    BY <1>2, <2>1 DEF Once
<1>4. ASSUME NEW e \in ToSet(Tail(w)), e = Head(w) PROVE FALSE
  <2>1. PICK i \in DOMAIN Tail(w) : e = Tail(w)[i]
    BY ElementAt
  <2>2. i \in 1..(Len(w) - 1) /\ w[i + 1] = w[1]
    BY <1>2, <1>4, <2>1
  <2>3. i + 1 \in DOMAIN w /\ 1 \in DOMAIN w
    BY <1>2, <2>2
  <2>4. i + 1 = 1
    BY <2>2, <2>3 DEF Once
  <2> QED
    BY <2>2, <2>4
<1> QED
  BY <1>1, <1>3, <1>4

LEMMA ImmListStep ==
  ASSUME NEW A, NEW w, ImmList(A, w), w # <<>>, NEW id, NEW j, Head(w) = <<id, j>>,
         NEW C, DOMAIN C = DOMAIN A, ArgsKept(A, C, id, j)
  PROVE  ImmList(C, Tail(w))
<1>1. /\ Tail(w) \in Seq(ToSet(Tail(w))) /\ Once(Tail(w))
      /\ \A e \in ToSet(Tail(w)) : e \in ToSet(w) /\ e # Head(w)
  BY OnceTail DEF ImmList
<1>2. ASSUME NEW e \in ToSet(Tail(w)) PROVE ImmUse(C, e)
  <2>1. ImmUse(A, e) /\ e # <<id, j>>
    BY <1>1 DEF ImmList
  <2>2. PICK b \in DOMAIN A : \E x \in ToSet(A[b]) : \E k \in DOMAIN x.args :
          e = <<x.id, k>> /\ x.args[k][1] = "imm" /\ x.kind \notin {"alloca", "pad"}
    BY <2>1 DEF ImmUse
  <2>3. PICK x \in ToSet(A[b]) : \E k \in DOMAIN x.args :
          e = <<x.id, k>> /\ x.args[k][1] = "imm" /\ x.kind \notin {"alloca", "pad"}
    BY <2>2
  <2>4. PICK k \in DOMAIN x.args :
          e = <<x.id, k>> /\ x.args[k][1] = "imm" /\ x.kind \notin {"alloca", "pad"}
    BY <2>3
  <2>5. PICK z \in ToSet(C[b]) :
          /\ z.id = x.id /\ z.kind = x.kind /\ DOMAIN z.args = DOMAIN x.args
          /\ \A l \in DOMAIN x.args : <<x.id, l>> # <<id, j>> => z.args[l] = x.args[l]
    BY DEF ArgsKept
  <2>6. z.args[k] = x.args[k] /\ k \in DOMAIN z.args
    BY <2>1, <2>4, <2>5
  <2>7. e = <<z.id, k>> /\ z.args[k][1] = "imm" /\ z.kind \notin {"alloca", "pad"} /\ b \in DOMAIN C
    BY <2>4, <2>5, <2>6
  <2> QED
    BY <2>6, <2>7 DEF ImmUse
<1> QED
  BY <1>1, <1>2 DEF ImmList

-----------------------------------------------------------------------------
(* What is found to be demoted.                                            *)

Escapes(A, p) ==
  LET x == InstAt(A, p) IN
  ~ (x.kind = "alloca" /\ p[1] = 1) /\ ValueEscapes(A, p[1], x) /\ x.kind # "pad"

(* A place that uses what escapes, and how.                                *)
LEMMA UserIs ==
  ASSUME NEW A, NEW id, NEW p \in UsersOf(A, id)
  PROVE  /\ p[1] \in DOMAIN A /\ p[2] \in DOMAIN A[p[1]] /\ InstAt(A, p) = A[p[1]][p[2]]
         /\ InstAt(A, p) \in ToSet(A[p[1]])
         /\ \E j \in DOMAIN InstAt(A, p).args : InstAt(A, p).args[j] = Reg(id)
<1>1. p \in Places(A) /\ Reg(id) \in ToSet(InstAt(A, p).args)
  BY DEF UsersOf
<1>2. p[1] \in DOMAIN A /\ p[2] \in DOMAIN A[p[1]] /\ InstAt(A, p) = A[p[1]][p[2]]
  BY <1>1, PlacePair
<1>3. InstAt(A, p) \in ToSet(A[p[1]])
  BY <1>2, ElementAt
<1>4. \E j \in DOMAIN InstAt(A, p).args : InstAt(A, p).args[j] = Reg(id)
  BY <1>1, ElementAt
<1> QED
  BY <1>2, <1>3, <1>4

LEMMA EscapedRegistered ==
  ASSUME NEW A, OwnIds(A), 1 \in DOMAIN A, PointAt(A, point), GivenUses(A),
         EarlyLoads(A, point), NEW p \in Places(A), Escapes(A, p)
  PROVE  Registered(A, InstAt(A, p).id)
<1>1. PICK x : x = InstAt(A, p)
  OBVIOUS
<1>2. PICK b : b = p[1]
  OBVIOUS
<1>3. b \in DOMAIN A /\ x \in ToSet(A[b])
  <2>1. p[1] \in DOMAIN A /\ p[2] \in DOMAIN A[p[1]] /\ InstAt(A, p) = A[p[1]][p[2]]
    BY PlacePair
  <2>2. A[p[1]][p[2]] \in ToSet(A[p[1]])
    BY <2>1, ElementAt
  <2> QED
    BY <1>1, <1>2, <2>1, <2>2
<1>4. ValueEscapes(A, b, x) /\ x.kind # "pad"
  BY <1>1, <1>2 DEF Escapes
<1>5. PICK q \in UsersOf(A, x.id) : q[1] # b \/ InstAt(A, q).kind = "phi"
  BY <1>4 DEF ValueEscapes
<1>6. PICK z : z = InstAt(A, q)
  OBVIOUS
<1>7. PICK e : e = q[1]
  OBVIOUS
<1>8. e \in DOMAIN A /\ z \in ToSet(A[e]) /\ \E j \in DOMAIN z.args : z.args[j] = Reg(x.id)
  BY <1>6, <1>7, UserIs
<1>9. PICK j \in DOMAIN z.args : z.args[j] = Reg(x.id)
  BY <1>8
<1>10. Reg(x.id)[1] = "reg" /\ Reg(x.id)[2] = x.id
  BY DEF Reg
<1>11. GivenArg(A, e, z, Reg(x.id))
  BY <1>8, <1>9 DEF GivenUses
<1>12. NamesPad(A, x.id) \/ NamesValue(A, x.id)
  BY <1>10, <1>11 DEF GivenArg
<1>13. x.kind \notin NoValue \cup {"pad"}
  BY <1>3, <1>4, <1>12, NamesOne
<1>14. ASSUME b = 1 PROVE x.id = point \/ InOrder(A[1], point, x.id)
  <2>1. CASE x.kind \notin Bare
    BY <1>3, <1>14, <2>1 DEF PointAt
  <2>2. CASE x.kind = "load"
    <3>1. SUFFICES ASSUME ~ InOrder(A[1], point, x.id) PROVE FALSE
      OBVIOUS
    <3>2. z.id = point
      BY <1>3, <1>8, <1>9, <1>14, <2>2, <3>1 DEF EarlyLoads
    <3>3. PICK y \in ToSet(A[1]) : y.id = point /\ y.kind = "point"
      BY DEF PointAt
    <3>4. e = 1 /\ z = y
      BY <1>8, <3>2, <3>3 DEF OwnIds
    <3>5. z.kind = "phi"
      BY <1>5, <1>6, <1>7, <1>14, <3>4
    <3> QED
      BY <3>3, <3>4, <3>5
  <2>3. x.kind # "alloca"
    BY <1>13 DEF NoValue
  <2> QED
    BY <2>1, <2>2, <2>3 DEF Bare
<1> QED
  BY <1>1, <1>3, <1>13, <1>14 DEF Registered

(* An operand that is not of its block is one of what is found.            *)
LEMMA EscapedLocal ==
  ASSUME NEW A, IsCode(A), OwnIds(A), GivenUses(A), NEW W,
         \A p \in Places(A) : Escapes(A, p) => InstAt(A, p).id \in W
  PROVE  LocalUses(A, W)
<1>1. SUFFICES ASSUME NEW b \in DOMAIN A, NEW z \in ToSet(A[b]), NEW k \in DOMAIN z.args
               PROVE  LocalArg(A, W, b, z, k, z.args[k])
  BY DEF LocalUses
<1>2. PICK arg : arg = z.args[k]
  OBVIOUS
<1>3. PICK id : id = arg[2]
  OBVIOUS
<1>4. GivenArg(A, b, z, arg)
  BY <1>2 DEF GivenUses
<1>5. SUFFICES LocalArg(A, W, b, z, k, arg)
  BY <1>2
<1>6. CASE arg[1] = "imm"
  BY <1>6 DEF LocalArg
<1>7. CASE arg = Reg(id) /\ NamesPad(A, id)
  BY <1>3, <1>7 DEF LocalArg
<1>8. CASE /\ arg = Reg(id) /\ NamesValue(A, id) /\ z.kind # "pad" /\ ~ NamesPad(A, id)
           /\ z.kind # "phi" /\ id \in IdsIn(A[b]) => InOrder(A[b], id, z.id)
  <2>1. CASE z.kind # "phi" /\ InOrder(A[b], id, z.id)
    BY <1>3, <1>8, <2>1 DEF LocalArg
  <2>2. CASE z.kind = "phi" \/ id \notin IdsIn(A[b])
    <3>1. PICK e \in DOMAIN A : \E y \in ToSet(A[e]) : y.id = id /\ y.kind \notin NoValue
      BY <1>8 DEF NamesValue
    <3>2. PICK y \in ToSet(A[e]) : y.id = id /\ y.kind \notin NoValue
      BY <3>1
    <3>3. PICK m : IsAt(A, e, m, y)
      BY HasPlace
    <3>4. PICK i : IsAt(A, b, i, z)
      BY HasPlace
    <3>5. PICK p : p = <<e, m>>
      OBVIOUS
    <3>6. PICK q : q = <<b, i>>
      OBVIOUS
    <3>7. p \in Places(A) /\ InstAt(A, p) = y /\ p[1] = e
      BY <3>3, <3>5 DEF IsAt
    <3>8. q \in Places(A) /\ InstAt(A, q) = z /\ q[1] = b
      BY <3>4, <3>6 DEF IsAt
    <3>9. Reg(id) \in ToSet(z.args)
      BY <1>2, <1>8, ElementAt
    <3>10. q \in UsersOf(A, y.id)
      BY <3>2, <3>8, <3>9 DEF UsersOf
    <3>11. q[1] # e \/ InstAt(A, q).kind = "phi"
      BY <2>2, <3>2, <3>8 DEF IdsIn
    <3>12. ValueEscapes(A, e, y)
      BY <3>10, <3>11 DEF ValueEscapes
    <3>13. y.kind # "pad" /\ y.kind # "alloca"
      BY <1>8, <3>2 DEF NamesPad, NoValue
    <3>14. Escapes(A, p)
      BY <3>7, <3>12, <3>13 DEF Escapes
    <3>15. id \in W
      BY <3>2, <3>7, <3>14
    <3> QED
      BY <1>3, <1>8, <3>15 DEF LocalArg
  <2> QED
    BY <1>8, <2>1, <2>2
<1> QED
  BY <1>3, <1>4, <1>6, <1>7, <1>8 DEF GivenArg

(* The registers that wait are values the insertion point is before.       *)
RegList(A, w) == w \in Seq(ToSet(w)) /\ \A x \in ToSet(w) : Registered(A, x.id)

LEMMA UseFindEscaped ==
  ASSUME NEW A, NEW n, NEW k, NEW t, NEW gs, Whole(A, n, k, t, gs), PointAt(A, point),
         GivenUses(A), EarlyLoads(A, point), NEW w, w = Escaped(A)
  PROVE  LocalUses(A, {x.id : x \in ToSet(w)}) /\ RegList(A, w)
<1>1. IsCode(A) /\ OwnIds(A) /\ 1 \in DOMAIN A
  BY DEF Whole, Fit, Sound
<1>2. PICK P : P = {p \in Places(A) : Escapes(A, p)}
  OBVIOUS
<1>3. w = InstsInReverse(A, P)
  BY <1>2 DEF Escaped, Escapes
<1>4. ListOf(A, P, w)
  BY <1>1, <1>2, <1>3, InReverseIs
<1>5. PICK W : W = {x.id : x \in ToSet(w)}
  OBVIOUS
<1>6. \A p \in Places(A) : Escapes(A, p) => InstAt(A, p).id \in W
  BY <1>2, <1>4, <1>5 DEF ListOf
<1>7. LocalUses(A, W)
  BY <1>1, <1>6, EscapedLocal
<1>8. ASSUME NEW x \in ToSet(w) PROVE Registered(A, x.id)
  <2>1. PICK p \in P : x = InstAt(A, p)
    BY <1>4 DEF ListOf
  <2>2. p \in Places(A) /\ Escapes(A, p)
    BY <1>2
  <2>3. Registered(A, InstAt(A, p).id)
    BY <1>1, <2>2, EscapedRegistered
  <2> QED
    BY <2>1, <2>3
<1> QED
  BY <1>4, <1>5, <1>7, <1>8 DEF RegList, ListOf

-----------------------------------------------------------------------------
(* The PHI nodes that wait.                                                *)

(* All PHI nodes wait, each once.                                          *)
PhiList(A, w) ==
  /\ w \in Seq(ToSet(w))
  /\ \A x : x \in ToSet(w) <=> InCode(A, x) /\ x.kind = "phi"
  /\ \A c : ~ InOrder(w, c, c)

LEMMA UseFindPhis ==
  ASSUME NEW A, IsCode(A), OwnIds(A),
         NEW w, w = InstsInReverse(A, {p \in Places(A) : InstAt(A, p).kind = "phi"})
  PROVE  PhiList(A, w)
<1>1. PICK P : P = {p \in Places(A) : InstAt(A, p).kind = "phi"}
  OBVIOUS
<1>2. ListOf(A, P, w)
  BY <1>1, InReverseIs
<1>3. ASSUME NEW p \in P PROVE InCode(A, InstAt(A, p)) /\ InstAt(A, p).kind = "phi"
  <2>1. p \in Places(A) /\ InstAt(A, p).kind = "phi"
    BY <1>1
  <2>2. p[1] \in DOMAIN A /\ p[2] \in DOMAIN A[p[1]] /\ InstAt(A, p) = A[p[1]][p[2]]
    BY <2>1, PlacePair
  <2>3. A[p[1]][p[2]] \in ToSet(A[p[1]])
    BY <2>2, ElementAt
  <2> QED
    BY <2>1, <2>2, <2>3 DEF InCode
<1>4. ASSUME NEW x, InCode(A, x), x.kind = "phi" PROVE \E p \in P : x = InstAt(A, p)
  <2>1. PICK e \in DOMAIN A : x \in ToSet(A[e])
    BY <1>4 DEF InCode
  <2>2. PICK i \in DOMAIN A[e] : A[e][i] = x
    BY <2>1, ElementAt
  <2>3. <<e, i>> \in Places(A) /\ InstAt(A, <<e, i>>) = x
    BY <2>2, InPlaces
  <2> QED
    BY <1>1, <1>4, <2>3
<1> QED
  BY <1>2, <1>3, <1>4 DEF ListOf, PhiList

LEMMA PhiListStep ==
  ASSUME NEW A, OwnIds(A), NEW w, PhiList(A, w), w # <<>>, NEW C, OnePhiLess(A, C, Head(w))
  PROVE  PhiList(C, Tail(w))
<1>1. Head(w) \in ToSet(w) /\ Tail(w) \in Seq(ToSet(Tail(w))) /\ ToSet(Tail(w)) \subseteq ToSet(w)
  BY HeadOfList DEF PhiList
<1>2. w \in Seq(ToSet(w))
  BY DEF PhiList
<1>3. /\ Len(w) \in Nat /\ Len(w) # 0 /\ DOMAIN w = 1..Len(w) /\ Head(w) = w[1]
      /\ DOMAIN Tail(w) = 1..(Len(w) - 1) /\ \A i \in 1..(Len(w) - 1) : Tail(w)[i] = w[i + 1]
  BY <1>2
<1>4. ASSUME NEW x \in ToSet(Tail(w)) PROVE x.id # Head(w).id
  <2>1. PICK i \in DOMAIN Tail(w) : x = Tail(w)[i]
    BY ElementAt
  <2>2. i \in 1..(Len(w) - 1) /\ x = w[i + 1]
    BY <1>3, <2>1
  <2>3. i + 1 \in DOMAIN w /\ 1 \in DOMAIN w /\ 1 < i + 1
    BY <1>3, <2>2
  <2>4. ~ InOrder(w, x.id, x.id)
    BY DEF PhiList
  <2> QED
    BY <1>3, <2>2, <2>3, <2>4 DEF InOrder
<1>5. ASSUME NEW x \in ToSet(w), x # Head(w) PROVE x \in ToSet(Tail(w))
  <2>1. PICK i \in DOMAIN w : x = w[i]
    BY ElementAt
  <2>2. i - 1 \in 1..(Len(w) - 1) /\ (i - 1) + 1 = i
    BY <1>3, <1>5, <2>1
  <2>3. i - 1 \in DOMAIN Tail(w) /\ Tail(w)[i - 1] = x
    BY <1>3, <2>1, <2>2
  <2> QED
    BY <2>3, ElementAt
<1>6. ASSUME NEW x PROVE x \in ToSet(Tail(w)) <=> InCode(C, x) /\ x.kind = "phi"
  <2>1. InCode(C, x) /\ x.kind = "phi" <=> x \in ToSet(w) /\ x.id # Head(w).id
    BY DEF OnePhiLess, PhiList
  <2> QED
    BY <1>1, <1>4, <1>5, <2>1
<1>7. ASSUME NEW c, InOrder(Tail(w), c, c) PROVE FALSE
  <2>1. PICK i \in DOMAIN Tail(w), j \in DOMAIN Tail(w) :
          i < j /\ Tail(w)[i].id = c /\ Tail(w)[j].id = c
    BY <1>7 DEF InOrder
  <2>2. /\ i + 1 \in DOMAIN w /\ j + 1 \in DOMAIN w /\ i + 1 < j + 1
        /\ w[i + 1].id = c /\ w[j + 1].id = c
    BY <1>3, <2>1
  <2> QED
    BY <2>2 DEF PhiList, InOrder
<1> QED
  BY <1>1, <1>6, <1>7 DEF PhiList

-----------------------------------------------------------------------------
(* What DemoteRegisters leaves, and what becomes of it.                    *)

(* No PHI node is left.                                                    *)
NoPhi(A) == \A b \in DOMAIN A : \A x \in ToSet(A[b]) : x.kind # "phi"

LEMMA UsePhisDone ==
  ASSUME NEW A, PhiList(A, <<>>)
  PROVE  NoPhi(A)
<1>1. ASSUME NEW b \in DOMAIN A, NEW x \in ToSet(A[b]), x.kind = "phi" PROVE FALSE
  <2>1. x \in ToSet(<<>>)
    BY <1>1 DEF PhiList, InCode
  <2> QED
    BY <2>1, ToSetEmpty
<1> QED
  BY <1>1 DEF NoPhi

LEMMA UseReturns ==
  ASSUME NEW A, LocalUses(A, {}), NoPhi(A)
  PROVE  GivenUses(A)
<1>1. ASSUME NEW b \in DOMAIN A, NEW x \in ToSet(A[b]), NEW k \in DOMAIN x.args
      PROVE  GivenArg(A, b, x, x.args[k])
  <2>1. LocalArg(A, {}, b, x, k, x.args[k]) /\ x.kind # "phi"
    BY DEF LocalUses, NoPhi
  <2> QED
    BY <2>1 DEF LocalArg, GivenArg
<1> QED
  BY <1>1 DEF GivenUses

(* Slots that are still to be made global are those of allocas.            *)
AllocaList(A, l) ==
  \A i \in DOMAIN l : \A b \in DOMAIN A : \A y \in ToSet(A[b]) : y.id = l[i] => y.kind = "alloca"

LEMMA UseCollect ==
  ASSUME NEW A, Fit(A), 1 \in DOMAIN A, OwnIds(A), NEW l, l = CollectEntryAllocas(A[1])
  PROVE  AllocaList(A, l)
<1>1. IsBlock(A[1]) /\ Last(A[1]).kind # "alloca" /\ IsCode(A)
  BY DEF Fit, IsCode, Terminators
<1>2. PICK m : m = LeadingAllocas(A[1])
  OBVIOUS
<1>3. m \in Nat /\ m + 1 \in 1..Len(A[1]) /\ \A i \in 1..m : A[1][i].kind = "alloca"
  BY <1>1, <1>2, LeadingAre
<1>4. l = [i \in 1..m |-> A[1][i].id]
  BY <1>2 DEF CollectEntryAllocas, FrontAllocas
<1>5. ASSUME NEW i \in DOMAIN l, NEW b \in DOMAIN A, NEW y \in ToSet(A[b]), y.id = l[i]
      PROVE  y.kind = "alloca"
  <2>1. i \in 1..m /\ l[i] = A[1][i].id
    BY <1>4
  <2>2. A[1][i] \in ToSet(A[1])
    <3>1. DOMAIN A[1] = 1..Len(A[1]) /\ Len(A[1]) \in Nat
      BY <1>1, BlockSeq
    <3>2. i \in DOMAIN A[1]
      BY <1>3, <2>1, <3>1
    <3> QED
      BY <3>2, ElementAt
  <2>3. y = A[1][i]
    BY <1>5, <2>1, <2>2 DEF OwnIds
  <2> QED
    BY <1>3, <2>1, <2>3
<1> QED
  BY <1>5 DEF AllocaList

LEMMA UseReplace ==
  ASSUME NEW A, NEW n, NEW k, NEW t, NEW gs, Whole(A, n, k, t, gs), LocalUses(A, {}), NoPhi(A),
         NEW l, NEW S, l \in Seq(S), l # <<>>, AllocaList(A, l), NEW C, C = Erase(A, Head(l))
  PROVE  /\ Sound(C, n, k, t, gs \cup {Head(l)}) /\ LocalUses(C, {}) /\ NoPhi(C)
         /\ AllocaList(C, Tail(l))
<1>1. Fit(A) /\ IsCode(A) /\ 1 \in DOMAIN A /\ Sound(A, n, k, t, gs) /\ Shapes(A)
  BY DEF Whole, Fit, Sound
<1>2. PICK slot : slot = Head(l)
  OBVIOUS
<1>3. /\ Len(l) \in Nat /\ Len(l) # 0 /\ DOMAIN l = 1..Len(l) /\ slot = l[1]
      /\ DOMAIN Tail(l) = 1..(Len(l) - 1) /\ \A i \in 1..(Len(l) - 1) : Tail(l)[i] = l[i + 1]
  BY <1>2
<1>4. Erased(A, C, slot)
  BY <1>1, <1>2, EraseIs
<1>5. \A b \in DOMAIN A : \A y \in ToSet(A[b]) : y.id = slot => y.kind = "alloca"
  <2>1. 1 \in DOMAIN l
    BY <1>3
  <2> QED
    BY <1>3, <2>1 DEF AllocaList
<1>6. ASSUME NEW b \in DOMAIN A, NEW x \in ToSet(A[b]), NEW j \in DOMAIN x.args, x.args[j] = Reg(slot)
      PROVE  FALSE
  <2>1. Reg(slot)[1] = "reg" /\ Reg(slot)[2] = slot
    BY DEF Reg
  <2>2. LocalArg(A, {}, b, x, j, Reg(slot))
    BY <1>6 DEF LocalUses
  <2>3. NamesPad(A, slot) \/ NamesValue(A, slot)
    BY <2>1, <2>2 DEF LocalArg
  <2> QED
    BY <1>5, <2>3 DEF NamesPad, NamesValue, NoValue
<1>7. LocalUses(C, {})
  BY <1>1, <1>4, <1>6, EraseUses
<1>8. PICK hs : hs = gs \cup {slot}
  OBVIOUS
<1>9. Sound(C, n, k, t, hs)
  <2>1. gs \subseteq hs /\ slot \in hs
    BY <1>8
  <2> QED
    BY <1>1, <1>4, <2>1, EraseSound
<1>10. DOMAIN C = DOMAIN A /\ \A b \in DOMAIN A : \A y \in ToSet(C[b]) : y \in ToSet(A[b])
  BY <1>4 DEF Erased
<1>11. NoPhi(C)
  BY <1>10 DEF NoPhi
<1>12. AllocaList(C, Tail(l))
  <2>1. ASSUME NEW i \in DOMAIN Tail(l), NEW b \in DOMAIN A, NEW y \in ToSet(C[b]), y.id = Tail(l)[i]
        PROVE  y.kind = "alloca"
    <3>1. i \in 1..(Len(l) - 1) /\ y.id = l[i + 1] /\ i + 1 \in DOMAIN l
      BY <1>3, <2>1
    <3> QED
      BY <1>10, <3>1 DEF AllocaList
  <2> QED
    BY <1>10, <2>1 DEF AllocaList
<1> QED
  BY <1>2, <1>7, <1>8, <1>9, <1>11, <1>12

-----------------------------------------------------------------------------
(* FunctionNameTrace comes to a function.                                  *)

(* The allocas come to the front.                                          *)
Fronted(B, E) ==
  /\ ToSet(E) = ToSet(B)
  /\ \A c : ~ InOrder(E, c, c)
  /\ \A x \in ToSet(B) : x.kind # "alloca" =>
       \A c : InOrder(B, c, x.id) => InOrder(E, c, x.id)

LEMMA FrontedIs ==
  ASSUME NEW B, B \in Seq(ToSet(B)), \A c : ~ InOrder(B, c, c),
         \A x, y \in ToSet(B) : x.id = y.id => x = y
  PROVE  Fronted(B, AllocasFirst(B))
<1>1. PICK S : S = ToSet(B)
  OBVIOUS
<1>2. PICK al : al = {x \in S : x.kind = "alloca"}
  OBVIOUS
<1>3. PICK s : s = Select(B, al)
  OBVIOUS
<1>4. PICK t : t = Select(B, S \ al)
  OBVIOUS
<1>5. PICK E : E = s \o t
  OBVIOUS
<1>6. AllocasFirst(B) = E
  BY <1>1, <1>2, <1>3, <1>4, <1>5 DEF AllocasFirst
<1>7. s \in Seq(S) /\ ToSet(s) = S \cap al /\ t \in Seq(S) /\ ToSet(t) = S \cap (S \ al)
  BY <1>1, <1>3, <1>4, SelectType, SelectElements
<1>8. \A c, d : InOrder(E, c, d) <=> \/ InOrder(s, c, d) \/ InOrder(t, c, d)
                                     \/ c \in IdsIn(s) /\ d \in IdsIn(t)
  BY <1>5, <1>7, OrderConcat
<1>9. ToSet(E) = S
  <2>1. ToSet(E) = ToSet(s) \cup ToSet(t)
    BY <1>5, <1>7, ToSetConcat
  <2> QED
    BY <1>7, <2>1
<1>10. \A c : ~ InOrder(E, c, c)
  <2>1. SUFFICES ASSUME NEW c, InOrder(E, c, c) PROVE FALSE
    OBVIOUS
  <2>2. ~ InOrder(s, c, c)
    BY <1>1, <1>3, OrderSelect
  <2>3. ~ InOrder(t, c, c)
    BY <1>1, <1>4, OrderSelect
  <2>4. c \in IdsIn(s) /\ c \in IdsIn(t)
    BY <1>8, <2>1, <2>2, <2>3
  <2>5. PICK x \in ToSet(s) : x.id = c
    BY <2>4 DEF IdsIn
  <2>6. PICK y \in ToSet(t) : y.id = c
    BY <2>4 DEF IdsIn
  <2>7. x \in S /\ y \in S /\ x \in al /\ y \notin al
    BY <1>7, <2>5, <2>6
  <2> QED
    BY <1>1, <2>5, <2>6, <2>7
<1>11. ASSUME NEW x \in S, x.kind # "alloca", NEW c, InOrder(B, c, x.id)
       PROVE  InOrder(E, c, x.id)
  <2>1. PICK d : d = x.id
    OBVIOUS
  <2>2. x \in ToSet(t) /\ d \in IdsIn(t)
    BY <1>2, <1>7, <1>11, <2>1 DEF IdsIn
  <2>3. PICK z \in S : z.id = c
    BY <1>1, <1>11, OrderIds DEF IdsIn
  <2>4. CASE z \in al
    <3>1. c \in IdsIn(s)
      BY <1>7, <2>3, <2>4 DEF IdsIn
    <3> QED
      BY <1>8, <2>1, <2>2, <3>1
  <2>5. CASE z \notin al
    <3>1. \A y \in S : y.id \in {c, d} => y \in S \ al
      BY <1>1, <1>2, <1>11, <2>1, <2>3, <2>5
    <3>2. InOrder(t, c, d)
      BY <1>1, <1>4, <1>11, <2>1, <3>1, OrderSelect
    <3> QED
      BY <1>8, <2>1, <3>2
  <2> QED
    BY <2>4, <2>5
<1> QED
  BY <1>1, <1>6, <1>9, <1>10, <1>11 DEF Fronted

LEMMA UseFronted ==
  ASSUME NEW A, NEW n, NEW k, NEW t, NEW gs, Whole(A, n, k, t, gs), GivenUses(A),
         NEW B, DOMAIN B = DOMAIN A, \A b \in DOMAIN A : b # 1 => B[b] = A[b],
         Fronted(A[1], B[1])
  PROVE  Sound(B, n, k, t, gs) /\ GivenUses(B)
<1>1. 1 \in DOMAIN A /\ Sound(A, n, k, t, gs)
  BY DEF Whole
<1>2. OwnIds(A) /\ AllOld(A, n, k, t) /\ Shapes(A) /\ Homes(A, gs)
  BY <1>1 DEF Sound
<1>3. \A b \in DOMAIN A : ToSet(B[b]) = ToSet(A[b])
  BY <1>1 DEF Fronted
<1>4. \A b \in DOMAIN A : \A c : ~ InOrder(B[b], c, c)
  BY <1>1, <1>2 DEF Fronted, OwnIds
<1>5. \A b \in DOMAIN A : \A x \in ToSet(A[b]) : x.kind # "alloca" =>
        \A c : InOrder(A[b], c, x.id) => InOrder(B[b], c, x.id)
  BY <1>1 DEF Fronted
<1>6. OwnIds(B)
  BY <1>2, <1>3, <1>4 DEF OwnIds
<1>7. AllOld(B, n, k, t) /\ Shapes(B)
  BY <1>2, <1>3 DEF AllOld, Shapes
<1>8. Homes(B, gs)
  <2>1. SUFFICES ASSUME NEW b \in DOMAIN A, NEW x \in ToSet(A[b]), x.kind \in Slots, x.ref \notin gs
                 PROVE  Alloca(x.ref) \in ToSet(B[1]) /\ (b = 1 => InOrder(B[1], x.ref, x.id))
    BY <1>3 DEF Homes
  <2>2. Alloca(x.ref) \in ToSet(A[1]) /\ (b = 1 => InOrder(A[1], x.ref, x.id))
    BY <1>2, <2>1 DEF Homes
  <2>3. x.kind # "alloca"
    BY <2>1 DEF Slots
  <2> QED
    BY <1>1, <1>3, <1>5, <2>2, <2>3
<1>9. \A id : /\ NamesPad(A, id) => NamesPad(B, id)
              /\ NamesValue(A, id) => NamesValue(B, id)
  BY <1>3 DEF NamesPad, NamesValue
<1>10. \A b \in DOMAIN A : IdsIn(B[b]) = IdsIn(A[b])
  BY <1>3 DEF IdsIn
<1>11. GivenUses(B)
  <2>1. SUFFICES ASSUME NEW b \in DOMAIN A, NEW x \in ToSet(A[b]), NEW j \in DOMAIN x.args
                 PROVE  GivenArg(B, b, x, x.args[j])
    BY <1>3 DEF GivenUses
  <2>2. PICK arg : arg = x.args[j]
    OBVIOUS
  <2>3. GivenArg(A, b, x, arg)
    BY <2>2 DEF GivenUses
  <2>4. x.kind # "alloca"
    BY <1>2 DEF Shapes, Shaped, Bare
  <2>5. arg[2] \in IdsIn(B[b]) => arg[2] \in IdsIn(A[b])
    BY <1>10
  <2>6. InOrder(A[b], arg[2], x.id) => InOrder(B[b], arg[2], x.id)
    BY <1>5, <2>4
  <2>7. GivenArg(B, b, x, arg)
    BY <1>9, <2>3, <2>5, <2>6 DEF GivenArg
  <2> QED
    BY <2>2, <2>7
<1> QED
  BY <1>6, <1>7, <1>8, <1>11 DEF Sound

(* What a traced function has been given before.                           *)
IsLine(x, c, t, side) ==
  /\ x.id = <<"puts", c, t, side>> /\ x.kind = "puts" /\ DOMAIN x.args = {}

LEMMA LineNew ==
  ASSUME NEW n, NEW k, NEW t \in Nat, NEW x, NEW c, NEW side, IsLine(x, c, t, side)
  PROVE  /\ Old(x.id, n, k, t + 1) /\ ~ Old(x.id, n, k, t) /\ Shaped(x)
         /\ x.kind \notin Slots \cup {"alloca"}
         /\ \A id : Old(id, n, k, t) => Old(id, n, k, t + 1)
<1>1. x.id[1] = "puts" /\ x.id[3] = t
  BY DEF IsLine
<1>2. t \in 0..t /\ t \notin 0..(t - 1) /\ (t + 1) - 1 = t
  OBVIOUS
<1>3. Old(x.id, n, k, t + 1) /\ ~ Old(x.id, n, k, t)
  BY <1>1, <1>2 DEF Old
<1>4. Shaped(x)
  BY NumberedIs DEF IsLine, Shaped, Bare
<1>5. \A i : i \in 0..(t - 1) => i \in 0..((t + 1) - 1)
  OBVIOUS
<1>6. \A id : Old(id, n, k, t) => Old(id, n, k, t + 1)
  BY <1>5 DEF Old
<1> QED
  BY <1>3, <1>4, <1>6 DEF IsLine, Slots

(* What the line on entry has added is told apart by its side.             *)
Entered(C, n, k, t) ==
  \A b \in DOMAIN C : \A id \in IdsIn(C[b]) : Old(id, n, k, t) \/ \E c : id = <<"puts", c, t, "enter">>

LEMMA UseOnEntry ==
  ASSUME NEW A, NEW n, NEW k, NEW t \in Nat, NEW gs, Whole(A, n, k, t, gs), GivenUses(A),
         NEW x, NEW c, IsLine(x, c, t, "enter"),
         NEW C, C = [A EXCEPT ![1] = AfterAllocas(AllocasFirst(A[1]), x)]
  PROVE  Sound(C, n, k, t + 1, gs) /\ GivenUses(C) /\ Entered(C, n, k, t)
<1>1. /\ IsCode(A) /\ 1 \in DOMAIN A /\ Sound(A, n, k, t, gs) /\ OwnIds(A)
      /\ Last(A[1]).kind \in Terminators /\ IsBlock(A[1])
  BY DEF Whole, Fit, Sound, IsCode
<1>2. PICK E : E = AllocasFirst(A[1])
  OBVIOUS
<1>3. Fronted(A[1], E)
  <2>1. A[1] \in Seq(ToSet(A[1])) /\ \A d : ~ InOrder(A[1], d, d)
    BY <1>1 DEF OwnIds, IsBlock
  <2>2. \A y, z \in ToSet(A[1]) : y.id = z.id => y = z
    BY <1>1 DEF OwnIds
  <2> QED
    BY <1>2, <2>1, <2>2, FrontedIs
<1>4. IsBlock(E) /\ Last(E).kind # "alloca"
  <2>1. Derived(A[1], E)
    BY <1>1, <1>2, AllocasFirstDerived
  <2> QED
    BY <1>1, <2>1 DEF Derived, Terminators
<1>5. PICK B : B = [A EXCEPT ![1] = E]
  OBVIOUS
<1>6. A = [b \in DOMAIN A |-> A[b]]
  BY <1>1 DEF IsCode
<1>7. /\ DOMAIN B = DOMAIN A /\ B = [b \in DOMAIN A |-> B[b]] /\ B[1] = E
      /\ \A b \in DOMAIN A : b # 1 => B[b] = A[b]
  BY <1>1, <1>5, <1>6
<1>8. IsCode(B)
  <2>1. \A b \in DOMAIN A : IsBlock(B[b])
    BY <1>1, <1>4, <1>7 DEF IsCode
  <2> QED
    BY <1>1, <1>7, <2>1, CodeIs
<1>9. Sound(B, n, k, t, gs) /\ GivenUses(B)
  BY <1>3, <1>7, UseFronted
<1>10. PICK m : m = LeadingAllocas(E) + 1
  OBVIOUS
<1>11. m \in 1..(Len(B[1]) + 1)
  <2>1. LeadingAllocas(E) \in Nat /\ LeadingAllocas(E) + 1 \in 1..Len(E)
    BY <1>4, LeadingAre
  <2>2. Len(E) \in Nat
    BY <1>1, <1>7, <1>8, BlockSeq
  <2> QED
    BY <1>7, <1>10, <2>1, <2>2
<1>12. /\ DOMAIN C = DOMAIN B /\ C[1] = InsertAt(B[1], m, x)
       /\ \A b \in DOMAIN B : b \notin {1} => C[b] = B[b]
  <2>1. C = [A EXCEPT ![1] = InsertAt(E, m, x)]
    BY <1>2, <1>10 DEF AfterAllocas
  <2> QED
    BY <1>1, <1>6, <1>7, <2>1
<1>13. PICK new : new = [b \in {1} |-> x]
  OBVIOUS
<1>14. PICK at : at = [b \in {1} |-> m]
  OBVIOUS
<1>15. new[1] = x /\ at[1] = m
  BY <1>13, <1>14
<1>16. OneMore(B, C, {1}, new)
  <2>1. \A b \in {1} : at[b] \in 1..(Len(B[b]) + 1) /\ C[b] = InsertAt(B[b], at[b], new[b])
    BY <1>11, <1>12, <1>15
  <2>2. IsCode(B) /\ {1} \subseteq DOMAIN B /\ DOMAIN C = DOMAIN B
        /\ \A b \in DOMAIN B : b \notin {1} => C[b] = B[b]
    BY <1>1, <1>7, <1>8, <1>12
  <2> QED
    BY <2>1, <2>2, InsertsOne
<1>17. /\ Old(x.id, n, k, t + 1) /\ ~ Old(x.id, n, k, t) /\ Shaped(x) /\ x.kind \notin Slots
       /\ \A id : Old(id, n, k, t) => Old(id, n, k, t + 1)
  BY LineNew
<1>18. \A e \in DOMAIN B : \A id \in IdsIn(B[e]) : Old(id, n, k, t)
  BY <1>9 DEF Sound, AllOld, IdsIn
<1>19. NewOnes(B, {1}, new, n, k, t + 1)
  <2>1. \A j \in DOMAIN x.args : x.args[j][1] = "imm"
    BY DEF IsLine
  <2>2. \A e \in DOMAIN B : x.id \notin IdsIn(B[e])
    BY <1>17, <1>18
  <2> QED
    BY <1>15, <1>17, <2>1, <2>2 DEF NewOnes
<1>20. Sound(C, n, k, t + 1, gs)
  <2>1. 1 \in DOMAIN B
    BY <1>1, <1>7
  <2> QED
    BY <1>9, <1>16, <1>17, <1>19, <2>1, OneMoreSound
<1>21. GivenUses(C)
  <2>1. OwnIds(C)
    BY <1>20 DEF Sound
  <2>2. \A b \in {1} : \A j \in DOMAIN new[b].args : new[b].args[j][1] = "imm"
    BY <1>19 DEF NewOnes
  <2> QED
    BY <1>9, <1>16, <2>1, <2>2, OneMoreGiven
<1>22. ASSUME NEW b \in DOMAIN C, NEW id \in IdsIn(C[b])
       PROVE  Old(id, n, k, t) \/ \E d : id = <<"puts", d, t, "enter">>
  <2>1. PICK y \in ToSet(C[b]) : y.id = id
    BY <1>22 DEF IdsIn
  <2>2. y \in ToSet(B[b]) \/ y = x
    BY <1>15, <1>16, <1>22 DEF OneMore
  <2>3. CASE y \in ToSet(B[b])
    <3>1. id \in IdsIn(B[b])
      BY <2>1, <2>3 DEF IdsIn
    <3> QED
      BY <1>12, <1>18, <1>22, <3>1
  <2>4. CASE y = x
    BY <2>1, <2>4 DEF IsLine
  <2> QED
    BY <2>2, <2>3, <2>4
<1> QED
  BY <1>20, <1>21, <1>22 DEF Entered

LEMMA UseOnReturns ==
  ASSUME NEW A, NEW n, NEW k, NEW t \in Nat, NEW gs, Whole(A, n, k, t + 1, gs), GivenUses(A),
         Entered(A, n, k, t), NEW xs,
         \A b \in DOMAIN A : IsLine(xs[b], Last(A[b]).id, t, "leave"),
         NEW C, DOMAIN C = DOMAIN A,
         \A b \in DOMAIN A : C[b] = IF Last(A[b]).kind = "ret"
                                    THEN InsertAt(A[b], Len(A[b]), xs[b]) ELSE A[b]
  PROVE  Sound(C, n, k, t + 1, gs) /\ GivenUses(C)
<1>1. IsCode(A) /\ 1 \in DOMAIN A /\ Sound(A, n, k, t + 1, gs) /\ OwnIds(A)
  BY DEF Whole, Fit, Sound
<1>2. PICK T : T = {b \in DOMAIN A : Last(A[b]).kind = "ret"}
  OBVIOUS
<1>3. PICK at : at = [b \in DOMAIN A |-> Len(A[b])]
  OBVIOUS
<1>4. OneMore(A, C, T, xs)
  <2>1. ASSUME NEW b \in T
        PROVE  at[b] \in 1..(Len(A[b]) + 1) /\ C[b] = InsertAt(A[b], at[b], xs[b])
    <3>1. b \in DOMAIN A /\ at[b] = Len(A[b])
      BY <1>2, <1>3
    <3>2. Len(A[b]) \in 1..Len(A[b]) /\ Len(A[b]) \in Nat
      BY <1>1, <3>1, BlockSeq
    <3> QED
      BY <1>2, <3>1, <3>2
  <2>2. IsCode(A) /\ T \subseteq DOMAIN A /\ DOMAIN C = DOMAIN A
        /\ \A b \in DOMAIN A : b \notin T => C[b] = A[b]
    BY <1>1, <1>2
  <2> QED
    BY <2>1, <2>2, InsertsOne
<1>5. ASSUME NEW b \in T
      PROVE  /\ \A e \in DOMAIN A : xs[b].id \notin IdsIn(A[e])
             /\ Old(xs[b].id, n, k, t + 1) /\ Shaped(xs[b]) /\ xs[b].kind \notin Slots
             /\ \A j \in DOMAIN xs[b].args : xs[b].args[j][1] = "imm"
  <2>1. IsLine(xs[b], Last(A[b]).id, t, "leave")
    BY <1>2
  <2>2. /\ Old(xs[b].id, n, k, t + 1) /\ ~ Old(xs[b].id, n, k, t) /\ Shaped(xs[b])
        /\ xs[b].kind \notin Slots
    BY <2>1, LineNew
  <2>3. ASSUME NEW e \in DOMAIN A, xs[b].id \in IdsIn(A[e]) PROVE FALSE
    <3>1. PICK c : xs[b].id = <<"puts", c, t, "enter">>
      BY <2>2, <2>3 DEF Entered
    <3>2. PICK d : xs[b].id = <<"puts", d, t, "leave">>
      BY <2>1 DEF IsLine
    <3>3. <<"puts", c, t, "enter">> = <<"puts", d, t, "leave">>
      BY <3>1, <3>2
    <3> QED
      BY <3>3
  <2>4. \A j \in DOMAIN xs[b].args : xs[b].args[j][1] = "imm"
    BY <2>1 DEF IsLine
  <2> QED
    BY <2>2, <2>3, <2>4
<1>6. ASSUME NEW b \in T, NEW e \in T, xs[b].id = xs[e].id
      PROVE  b = e
  <2>1. PICK c : c = Last(A[b]).id
    OBVIOUS
  <2>2. PICK d : d = Last(A[e]).id
    OBVIOUS
  <2>3. xs[b].id = <<"puts", c, t, "leave">> /\ xs[e].id = <<"puts", d, t, "leave">>
    BY <1>2, <2>1, <2>2 DEF IsLine
  <2>4. <<"puts", c, t, "leave">> = <<"puts", d, t, "leave">>
    BY <1>6, <2>3
  <2>5. c = d
    BY <2>4
  <2>6. b \in DOMAIN A /\ e \in DOMAIN A /\ Last(A[b]) \in ToSet(A[b]) /\ Last(A[e]) \in ToSet(A[e])
    BY <1>1, <1>2, BlockSeq
  <2>7. Last(A[b]).id = Last(A[e]).id
    BY <2>1, <2>2, <2>5
  <2>8. \A x \in ToSet(A[b]), y \in ToSet(A[e]) : x.id = y.id => b = e
    BY <1>1, <2>6 DEF OwnIds
  <2> QED
    BY <2>6, <2>7, <2>8
<1>7. NewOnes(A, T, xs, n, k, t + 1)
  BY <1>5, <1>6 DEF NewOnes
<1>8. Sound(C, n, k, t + 1, gs)
  BY <1>1, <1>4, <1>7, OneMoreSound
<1>9. GivenUses(C)
  <2>1. OwnIds(C)
    BY <1>8 DEF Sound
  <2> QED
    BY <1>4, <1>5, <2>1, OneMoreGiven
<1> QED
  BY <1>8, <1>9

(* A function is traced.                                                   *)
LEMMA UseTrace ==
  ASSUME NEW src, Given(src), NEW f, NEW A, BodyOK(src, f, A), NEW n, NEW k, NEW gs,
         traced[f] \in Nat, Sound(A, n, k, traced[f], gs), GivenUses(A)
  PROVE  Sound(Trace(A, f), n, k, traced[f] + 1, gs) /\ GivenUses(Trace(A, f))
<1>1. PICK t : t = traced[f]
  OBVIOUS
<1>2. PICK C : C = PutsOnEntry(A, f, <<"enter", f>>)
  OBVIOUS
<1>3. BodyOK(src, f, C)
  BY <1>2, PutsOnEntryOK
<1>4. Whole(A, n, k, t, gs) /\ t \in Nat
  BY <1>1, BodyFits DEF Whole
<1>5. \A c, l : IsLine(PutsCall(c, f, <<l, f>>), c, t, l)
  <2>1. ASSUME NEW c, NEW l PROVE IsLine(PutsCall(c, f, <<l, f>>), c, t, l)
    <3>1. <<l, f>>[1] = l /\ DOMAIN <<>> = {}
      OBVIOUS
    <3> QED
      BY <1>1, <3>1 DEF PutsCall, Inst, IsLine
  <2> QED
    BY <2>1
<1>6. PICK c : c = AllocasFirst(A[1])[LeadingAllocas(AllocasFirst(A[1])) + 1].id
  OBVIOUS
<1>7. PICK x : x = PutsCall(c, f, <<"enter", f>>)
  OBVIOUS
<1>8. C = [A EXCEPT ![1] = AfterAllocas(AllocasFirst(A[1]), x)]
  BY <1>2, <1>6, <1>7 DEF PutsOnEntry
<1>9. IsLine(x, c, t, "enter")
  BY <1>5, <1>7
<1>10. Sound(C, n, k, t + 1, gs) /\ GivenUses(C) /\ Entered(C, n, k, t)
  BY <1>4, <1>8, <1>9, UseOnEntry
<1>11. Whole(C, n, k, t + 1, gs)
  BY <1>3, <1>10, BodyFits DEF Whole
<1>12. PICK D : D = Trace(A, f)
  OBVIOUS
<1>13. PICK xs : xs = [b \in DOMAIN C |-> PutsCall(Last(C[b]).id, f, <<"leave", f>>)]
  OBVIOUS
<1>14. D = PutsBeforeReturns(C, f, <<"leave", f>>)
  BY <1>2, <1>12 DEF Trace
<1>15. /\ DOMAIN D = DOMAIN C
       /\ \A b \in DOMAIN C : D[b] = IF Last(C[b]).kind = "ret"
                                     THEN InsertAt(C[b], Len(C[b]), xs[b]) ELSE C[b]
  BY <1>13, <1>14 DEF PutsBeforeReturns
<1>16. \A b \in DOMAIN C : IsLine(xs[b], Last(C[b]).id, t, "leave")
  BY <1>5, <1>13
<1>17. Sound(D, n, k, t + 1, gs) /\ GivenUses(D)
  BY <1>4, <1>10, <1>11, <1>15, <1>16, UseOnReturns
<1> QED
  BY <1>1, <1>12, <1>17

-----------------------------------------------------------------------------
(* A function is given.                                                    *)

LEMMA UseGiven ==
  ASSUME NEW A, Given(A), WellUsed(A)
  PROVE  Sound(A, 0, 0, 0, {}) /\ GivenUses(A)
<1>1. /\ \A b \in DOMAIN A : \A x \in ToSet(A[b]) : x.id[1] \notin MadeIds
      /\ \A p \in Places(A) : \A q \in Places(A) : InstAt(A, p).id = InstAt(A, q).id => p = q
  BY DEF Given, GivenInst, InstsOf
<1>2. \A b \in DOMAIN A : \A i \in DOMAIN A[b] :
        <<b, i>> \in Places(A) /\ InstAt(A, <<b, i>>) = A[b][i]
  <2>1. ASSUME NEW b \in DOMAIN A, NEW i \in DOMAIN A[b]
        PROVE  <<b, i>> \in Places(A) /\ InstAt(A, <<b, i>>) = A[b][i]
    BY InPlaces
  <2> QED
    BY <2>1
<1>3. \A b \in DOMAIN A : \A c : ~ InOrder(A[b], c, c)
  <2>1. SUFFICES ASSUME NEW b \in DOMAIN A, NEW c, InOrder(A[b], c, c) PROVE FALSE
    OBVIOUS
  <2>2. PICK i \in DOMAIN A[b], j \in DOMAIN A[b] : i < j /\ A[b][i].id = c /\ A[b][j].id = c
    BY <2>1 DEF InOrder
  <2>3. <<b, i>> = <<b, j>>
    <3>1. PICK p : p = <<b, i>>
      OBVIOUS
    <3>2. PICK q : q = <<b, j>>
      OBVIOUS
    <3>3. p \in Places(A) /\ q \in Places(A) /\ InstAt(A, p) = A[b][i] /\ InstAt(A, q) = A[b][j]
      BY <1>2, <3>1, <3>2
    <3>4. p = q
      BY <1>1, <2>2, <3>3
    <3> QED
      BY <3>1, <3>2, <3>4
  <2>4. i = j
    BY <2>3
  <2>5. DOMAIN A[b] \subseteq Nat
    BY DEF Given
  <2> QED
    BY <2>2, <2>4, <2>5
<1>4. ASSUME NEW b \in DOMAIN A, NEW e \in DOMAIN A, NEW x \in ToSet(A[b]), NEW y \in ToSet(A[e]),
             x.id = y.id
      PROVE  b = e /\ x = y
  <2>1. PICK i \in DOMAIN A[b] : A[b][i] = x
    BY ElementAt
  <2>2. PICK j \in DOMAIN A[e] : A[e][j] = y
    BY ElementAt
  <2>3. <<b, i>> = <<e, j>>
    <3>1. PICK p : p = <<b, i>>
      OBVIOUS
    <3>2. PICK q : q = <<e, j>>
      OBVIOUS
    <3>3. p \in Places(A) /\ q \in Places(A) /\ InstAt(A, p) = x /\ InstAt(A, q) = y
      BY <1>2, <2>1, <2>2, <3>1, <3>2
    <3>4. p = q
      BY <1>1, <1>4, <3>3
    <3> QED
      BY <3>1, <3>2, <3>4
  <2>4. b = e /\ i = j
    BY <2>3
  <2> QED
    BY <2>1, <2>2, <2>4
<1>5. OwnIds(A)
  BY <1>3, <1>4 DEF OwnIds
<1>6. AllOld(A, 0, 0, 0)
  BY <1>1 DEF AllOld, Old, MadeIds
<1>7. ASSUME NEW b \in DOMAIN A, NEW i \in DOMAIN A[b], NEW x, x = A[b][i]
      PROVE  /\ x.args \in Seq(ToSet(x.args))
             /\ x.kind \in {"alloca", "load"} => x.args = <<>>
             /\ x.kind = "alloca" => x = Alloca(x.id)
             /\ x.kind = "phi" => DOMAIN x.args = DOMAIN x.blocks
             /\ \A k \in DOMAIN x.args :
                  \/ x.args[k][1] = "imm"
                  \/ \E p \in Places(A) :
                       /\ x.args[k] = Reg(InstAt(A, p).id)
                       /\ InstAt(A, p).kind \notin Terminators \cup {"alloca"}
                       /\ \/ InstAt(A, p).kind = "pad"
                          \/ /\ x.kind # "pad"
                             /\ x.kind # "phi" /\ p[1] = <<b, i>>[1] => Before(p, <<b, i>>)
             /\ x.kind \in {"load", "store"} =>
                  \E p \in Places(A) : /\ InstAt(A, p) = Alloca(x.ref) /\ p[1] = 1
                                       /\ <<b, i>>[1] = 1 => Before(p, <<b, i>>)
  <2>1. PICK q : q = <<b, i>>
    OBVIOUS
  <2>2. q \in Places(A) /\ InstAt(A, q) = x
    BY <1>2, <1>7, <2>1
  <2> DEFINE DefinedAt(p, arg) ==
        LET y == InstAt(A, p) IN
        /\ arg = Reg(y.id) /\ y.kind \notin Terminators \cup {"alloca"}
        /\ \/ y.kind = "pad"
           \/ x.kind # "pad" /\ (x.kind # "phi" /\ p[1] = q[1] => Before(p, q))
  <2>3. /\ x.args \in Seq(ToSet(x.args))
        /\ x.kind \in {"alloca", "load"} => x.args = <<>>
        /\ x.kind = "alloca" => x = Alloca(x.id)
        /\ x.kind = "phi" => DOMAIN x.args = DOMAIN x.blocks
    BY <2>2 DEF WellUsed
  <2>4. \A k \in DOMAIN x.args :
          x.args[k][1] = "imm" \/ \E p \in Places(A) : DefinedAt(p, x.args[k])
    BY <2>2 DEF WellUsed
  <2>5. x.kind \in {"load", "store"} =>
          \E p \in Places(A) : /\ InstAt(A, p) = Alloca(x.ref) /\ p[1] = 1
                               /\ q[1] = 1 => Before(p, q)
    BY <2>2 DEF WellUsed
  <2>6. \A k \in DOMAIN x.args :
          \/ x.args[k][1] = "imm"
          \/ \E p \in Places(A) :
               /\ x.args[k] = Reg(InstAt(A, p).id)
               /\ InstAt(A, p).kind \notin Terminators \cup {"alloca"}
               /\ \/ InstAt(A, p).kind = "pad"
                  \/ /\ x.kind # "pad"
                     /\ x.kind # "phi" /\ p[1] = q[1] => Before(p, q)
    BY <2>4
  <2> HIDE DEF DefinedAt
  <2> QED
    BY <2>1, <2>3, <2>5, <2>6
<1> DEFINE Bears(x) == /\ x.kind \in {"alloca", "load"} => x.args = <<>>
                       /\ x.kind = "alloca" => x = Alloca(x.id)
                       /\ x.kind = "phi" => DOMAIN x.args = DOMAIN x.blocks
<1>71. ASSUME NEW b \in DOMAIN A, NEW i \in DOMAIN A[b] PROVE Bears(A[b][i])
  <2>1. PICK q : q = <<b, i>>
    OBVIOUS
  <2>2. q \in Places(A) /\ InstAt(A, q) = A[b][i]
    BY <1>2, <2>1
  <2>3. Bears(InstAt(A, q))
    BY <2>2 DEF WellUsed
  <2> QED
    BY <2>2, <2>3
<1> HIDE DEF Bears
<1>8. ASSUME NEW b \in DOMAIN A, NEW x \in ToSet(A[b]) PROVE Shaped(x)
  <2>1. PICK i \in DOMAIN A[b] : A[b][i] = x
    BY ElementAt
  <2>2. PICK s : s = x.args
    OBVIOUS
  <2>3. s \in Seq(ToSet(s))
    BY <1>7, <2>1, <2>2
  <2>4. DOMAIN s = 1..Len(s) /\ Len(s) \in Nat
    BY <2>3
  <2>5. Numbered(x)
    BY <2>2, <2>4 DEF Numbered
  <2>6. DOMAIN <<>> = {}
    OBVIOUS
  <2>7. /\ x.kind \in {"alloca", "load"} => x.args = <<>>
        /\ x.kind = "alloca" => x = Alloca(x.id)
        /\ x.kind = "phi" => DOMAIN x.args = DOMAIN x.blocks
    BY <1>71, <2>1 DEF Bears
  <2>8. x.kind \in Bare => DOMAIN x.args = {}
    BY <2>6, <2>7 DEF Bare
  <2> QED
    BY <2>5, <2>7, <2>8 DEF Shaped
<1>9. Homes(A, {})
  <2>1. SUFFICES ASSUME NEW b \in DOMAIN A, NEW x \in ToSet(A[b]), x.kind \in Slots
                 PROVE  Alloca(x.ref) \in ToSet(A[1]) /\ (b = 1 => InOrder(A[1], x.ref, x.id))
    BY DEF Homes
  <2>2. PICK i \in DOMAIN A[b] : A[b][i] = x
    BY ElementAt
  <2>3. PICK p \in Places(A) : /\ InstAt(A, p) = Alloca(x.ref) /\ p[1] = 1
                               /\ <<b, i>>[1] = 1 => Before(p, <<b, i>>)
    BY <1>7, <2>1, <2>2 DEF Slots
  <2>4. p[2] \in DOMAIN A[1] /\ A[1][p[2]] = Alloca(x.ref) /\ 1 \in DOMAIN A
    BY <2>3, PlacePair
  <2>5. Alloca(x.ref) \in ToSet(A[1])
    BY <2>4, ElementAt
  <2>6. ASSUME b = 1 PROVE InOrder(A[1], x.ref, x.id)
    <3>1. <<b, i>>[1] = 1 /\ <<b, i>>[2] = i
      BY <2>6
    <3>2. p[2] < i
      BY <2>3, <3>1 DEF Before
    <3>3. A[1][p[2]].id = x.ref
      BY <2>4 DEF Alloca, Inst
    <3> QED
      BY <2>2, <2>4, <2>6, <3>2, <3>3 DEF InOrder
  <2> QED
    BY <2>5, <2>6
<1>10. ASSUME NEW b \in DOMAIN A, NEW x \in ToSet(A[b]), NEW k \in DOMAIN x.args
       PROVE  GivenArg(A, b, x, x.args[k])
  <2>1. PICK i \in DOMAIN A[b] : A[b][i] = x
    BY ElementAt
  <2>2. PICK arg : arg = x.args[k]
    OBVIOUS
  <2>3. CASE arg[1] = "imm"
    BY <2>2, <2>3 DEF GivenArg
  <2>4. CASE arg[1] # "imm"
    <3>1. PICK p \in Places(A) :
            /\ arg = Reg(InstAt(A, p).id)
            /\ InstAt(A, p).kind \notin Terminators \cup {"alloca"}
            /\ \/ InstAt(A, p).kind = "pad"
               \/ /\ x.kind # "pad"
                  /\ x.kind # "phi" /\ p[1] = <<b, i>>[1] => Before(p, <<b, i>>)
      BY <1>7, <2>1, <2>2, <2>4
    <3>2. PICK y : y = InstAt(A, p)
      OBVIOUS
    <3>3. /\ p[1] \in DOMAIN A /\ p[2] \in DOMAIN A[p[1]] /\ y = A[p[1]][p[2]]
          /\ y \in ToSet(A[p[1]])
      BY <3>2, PlacePair, ElementAt
    <3>4. PICK c : c = y.id
      OBVIOUS
    <3>5. arg[2] = c /\ arg = Reg(c)
      BY <3>1, <3>2, <3>4 DEF Reg
    <3>6. CASE y.kind = "pad"
      BY <2>2, <3>3, <3>4, <3>5, <3>6 DEF GivenArg, NamesPad
    <3>7. CASE /\ x.kind # "pad"
               /\ x.kind # "phi" /\ p[1] = <<b, i>>[1] => Before(p, <<b, i>>)
      <4>1. NamesValue(A, c)
        BY <3>1, <3>2, <3>3, <3>4 DEF NamesValue, NoValue
      <4>2. ASSUME x.kind # "phi", c \in IdsIn(A[b]) PROVE InOrder(A[b], c, x.id)
        <5>1. PICK z \in ToSet(A[b]) : z.id = c
          BY <4>2 DEF IdsIn
        <5>2. p[1] = b
          BY <1>4, <3>3, <3>4, <5>1
        <5>3. <<b, i>>[1] = b /\ <<b, i>>[2] = i
          OBVIOUS
        <5>4. p[2] < i
          BY <3>7, <4>2, <5>2, <5>3 DEF Before
        <5> QED
          BY <2>1, <3>3, <3>4, <5>2, <5>4 DEF InOrder
      <4> QED
        BY <2>2, <3>5, <3>7, <4>1, <4>2 DEF GivenArg
    <3> QED
      BY <3>1, <3>2, <3>6, <3>7
  <2> QED
    BY <2>3, <2>4
<1> QED
  BY <1>5, <1>6, <1>8, <1>9, <1>10 DEF Sound, Shapes, GivenUses

-----------------------------------------------------------------------------
(* Where DemoteRegisters is with a function.                               *)

(* The registers that wait, by the insertion point.                        *)
RegListAt(A, w, pt) ==
  /\ w \in Seq(ToSet(w))
  /\ \A x \in ToSet(w) : \E b \in DOMAIN A : \E y \in ToSet(A[b]) :
       /\ y.id = x.id /\ y.kind \notin NoValue \cup {"pad"}
       /\ b = 1 => x.id = pt \/ InOrder(A[1], pt, x.id)

(* What holds of the function that is demoted, by the stage.               *)
UseAt(A, stage, pt, w, l) ==
  /\ stage \in {"immediates", "registers", "phis"} => PointAt(A, pt)
  /\ stage = "immediates" => GivenUses(A) /\ ImmList(A, w) /\ EarlyLoads(A, pt)
  /\ stage = "registers" => RegListAt(A, w, pt) /\ LocalUses(A, {x.id : x \in ToSet(w)})
  /\ stage = "phis" => PhiList(A, w)
  /\ stage \in {"phis", "demoted", "globals"} => LocalUses(A, {})
  /\ stage \in {"demoted", "globals"} => NoPhi(A)
  /\ stage = "globals" => AllocaList(A, l)

(* The invariant: every function is sound, and every function but the one  *)
(* that is demoted has its operands as given.                              *)
UseInv ==
  /\ \E k \in Nat : point = <<"point", k>>
  /\ DOMAIN globalSlots = Fns
  /\ slotPass # "none" => ~ Current("function-name-trace")
  /\ \A f \in Fns : Sound(code[f], slots, point[2], traced[f], globalSlots[f])
  /\ \A f \in Fns : drStage = "idle" \/ f # drFn => GivenUses(code[f])
  /\ drStage # "idle" => UseAt(code[drFn], drStage, point, workList, entryAllocas)

LEMMA RegListIs ==
  ASSUME NEW A, NEW w
  PROVE  RegList(A, w) <=> RegListAt(A, w, point)
BY DEF RegList, RegListAt, Registered

(* One function changes.                                                   *)
LEMMA UseStep ==
  ASSUME UseInv, NEW f \in Fns, NEW C, DOMAIN code = Fns,
         code'[f] = C, \A g \in Fns : g # f => code'[g] = code[g],
         NEW k \in Nat, point' = <<"point", k>>,
         \A id, t : Old(id, slots, point[2], t) => Old(id, slots', k, t),
         DOMAIN globalSlots' = Fns,
         \A g \in Fns : g # f => traced'[g] = traced[g] /\ globalSlots'[g] = globalSlots[g],
         Sound(C, slots', k, traced'[f], globalSlots'[f]),
         drStage = "idle" \/ drFn = f,
         drStage' = "idle" => GivenUses(C),
         drStage' # "idle" => drFn' = f /\ UseAt(C, drStage', point', workList', entryAllocas'),
         (slotPass # "none" => ~ Current("function-name-trace"))'
  PROVE  UseInv'
<1>1. point'[2] = k
  OBVIOUS
<1>2. ASSUME NEW g \in Fns
      PROVE  Sound(code'[g], slots', k, traced'[g], globalSlots'[g])
  <2>1. CASE g = f
    BY <2>1
  <2>2. CASE g # f
    <3>1. Sound(code[g], slots, point[2], traced[g], globalSlots[g])
      BY DEF UseInv
    <3>2. Sound(code[g], slots', k, traced[g], globalSlots[g])
      BY <3>1 DEF Sound, AllOld
    <3> QED
      BY <2>2, <3>2
  <2> QED
    BY <2>1, <2>2
<1>3. ASSUME NEW g \in Fns, drStage' = "idle" \/ g # drFn'
      PROVE  GivenUses(code'[g])
  <2>1. CASE g = f
    BY <1>3, <2>1
  <2>2. CASE g # f
    BY <2>2 DEF UseInv
  <2> QED
    BY <2>1, <2>2
<1>4. drStage' # "idle" => UseAt(code'[drFn'], drStage', point', workList', entryAllocas')
  OBVIOUS
<1>5. \A g \in Fns : Sound(code'[g], slots', point'[2], traced'[g], globalSlots'[g])
  BY <1>1, <1>2
<1> QED
  BY <1>3, <1>4, <1>5 DEF UseInv

(* No code changes.                                                        *)
LEMMA UseSame ==
  ASSUME UseInv, UNCHANGED <<code, point, slots, traced, globalSlots, drFn>>,
         \A g \in Fns : drStage' = "idle" => drStage = "idle" \/ g # drFn \/ GivenUses(code[g]),
         drStage' # "idle" => drStage # "idle",
         drStage' # "idle" => UseAt(code[drFn], drStage', point, workList', entryAllocas'),
         (slotPass # "none" => ~ Current("function-name-trace"))'
  PROVE  UseInv'
BY DEF UseInv

LEMMA InitUse ==
  ASSUME Init, AllWellUsed
  PROVE  UseInv
<1>1. code \in Modules /\ \A f \in Fns : Given(code[f]) /\ WellUsed(code[f])
  BY ModulesAssumption DEF Init, AllWellUsed
<1>2. /\ drStage = "idle" /\ point = <<"point", 0>> /\ slots = 0 /\ slotPass = "none"
      /\ globalSlots = [f \in Fns |-> {}] /\ traced = [f \in Fns |-> 0]
  BY DEF Init, DrInit, SgInit, TraceInit
<1>3. point[2] = 0 /\ \E k \in Nat : point = <<"point", k>>
  BY <1>2
<1>4. \A f \in Fns : Sound(code[f], 0, 0, 0, {}) /\ GivenUses(code[f])
  BY <1>1, UseGiven
<1>5. \A f \in Fns : Sound(code[f], slots, point[2], traced[f], globalSlots[f])
  BY <1>2, <1>3, <1>4
<1> QED
  BY <1>2, <1>3, <1>4, <1>5 DEF UseInv

LEMMA WholeNow ==
  ASSUME CodeOK, UseInv, NEW f \in Fns
  PROVE  /\ Whole(code[f], slots, point[2], traced[f], globalSlots[f]) /\ DOMAIN code = Fns
         /\ IsCode(code[f]) /\ OwnIds(code[f])
<1>1. Fit(code[f]) /\ 1 \in DOMAIN code[f] /\ IsCode(code[f])
  BY CodeOf, BodyFits
<1>2. Sound(code[f], slots, point[2], traced[f], globalSlots[f])
  BY DEF UseInv
<1> QED
  BY <1>1, <1>2 DEF Whole, Sound, CodeOK

LEMMA ImmListEmpty ==
  ASSUME NEW A
  PROVE  ImmList(A, <<>>)
<1>1. <<>> \in Seq(ToSet(<<>>)) /\ DOMAIN <<>> = {}
  OBVIOUS
<1> QED
  BY <1>1, ToSetEmpty DEF ImmList, Once

(* DemoteRegisters starts.                                                 *)
LEMMA UseStartStep ==
  ASSUME SlotInv, UseInv, NEW f \in Fns, NEW c \in BOOLEAN, DrStart(f, c),
         UNCHANGED <<source, traced, globalSlots>>,
         (slotPass # "none" => ~ Current("function-name-trace"))'
  PROVE  UseInv'
<1>1. CodeOK' /\ CodeOK
  BY StartKeeps DEF SlotInv
<1>2. PICK k \in Nat : point = <<"point", k>>
  BY DEF UseInv
<1>3. point[2] = k
  BY <1>2
<1>4. PICK pt : pt = <<"point", k + 1>>
  OBVIOUS
<1>5. point' = pt /\ drStage = "idle" /\ drFn' = f /\ drStage' = "immediates" /\ slots' = slots
  BY <1>3, <1>4 DEF DrStart
<1>6. PICK A : A = code[f]
  OBVIOUS
<1>7. PICK cast : cast = Inst(pt, "point", <<<<"imm", 0>>>>, <<>>, {})
  OBVIOUS
<1>8. PICK C : C = [A EXCEPT ![1] = AfterAllocas(A[1], cast)]
  OBVIOUS
<1>9. code' = [code EXCEPT ![f] = C]
  BY <1>5, <1>6, <1>7, <1>8 DEF DrStart
<1>10. Whole(A, slots, k, traced[f], globalSlots[f]) /\ DOMAIN code = Fns
  BY <1>1, <1>3, <1>6, WholeNow
<1>11. GivenUses(A)
  BY <1>5, <1>6 DEF UseInv
<1>12. /\ Sound(C, slots, k + 1, traced[f], globalSlots[f]) /\ PointAt(C, pt) /\ GivenUses(C)
       /\ EarlyLoads(C, pt)
  BY <1>4, <1>7, <1>8, <1>10, <1>11, UseStart
<1>13. code'[f] = C /\ \A g \in Fns : g # f => code'[g] = code[g]
  BY <1>9, <1>10
<1>14. IsCode(C)
  <2>1. BodyOK(source'[f], f, C)
    BY <1>1, <1>13 DEF CodeOK
  <2> QED
    BY <2>1 DEF BodyOK
<1>15. ImmList(C, workList')
  <2>1. ImmList(C, ImmediateUses(C))
    BY <1>12, <1>14, ImmediateUsesIs DEF Sound
  <2>2. workList' = IF c THEN ImmediateUses(C) ELSE <<>>
    BY <1>13 DEF DrStart
  <2> QED
    BY <2>1, <2>2, ImmListEmpty
<1>16. UseAt(C, drStage', point', workList', entryAllocas')
  BY <1>5, <1>12, <1>15 DEF UseAt
<1>17. \A id, t : Old(id, slots, point[2], t) => Old(id, slots', k + 1, t)
  <2>1. \A i : i \in 0..k => i \in 0..(k + 1)
    OBVIOUS
  <2> QED
    BY <1>3, <1>5, <2>1 DEF Old
<1>18. DOMAIN globalSlots' = Fns /\ k + 1 \in Nat /\ point' = <<"point", k + 1>>
  BY <1>4, <1>5 DEF UseInv
<1>19. Sound(C, slots', k + 1, traced'[f], globalSlots'[f])
  BY <1>5, <1>12
<1> QED
  BY <1>5, <1>10, <1>13, <1>16, <1>17, <1>18, <1>19, UseStep

(* Something is demoted.                                                   *)
LEMMA UseDemote ==
  ASSUME UseInv, CodeOK, StageOK, NEW stage, stage # "idle", NEW C, Demote(stage, C),
         UNCHANGED <<traced, globalSlots, slotPass, passes>>,
         Sound(C, slots + 1, point[2], traced[drFn], globalSlots[drFn]),
         UseAt(C, stage, point, Tail(workList), entryAllocas')
  PROVE  UseInv'
<1>1. PICK k \in Nat : point = <<"point", k>>
  BY DEF UseInv
<1>2. point[2] = k
  BY <1>1
<1>3. /\ drStage = stage /\ drStage' = stage /\ drFn' = drFn /\ point' = point
      /\ code' = [code EXCEPT ![drFn] = C] /\ workList' = Tail(workList) /\ slots' = slots + 1
  BY DEF Demote
<1>4. drFn \in Fns /\ DOMAIN code = Fns /\ slots \in Nat
  BY <1>3 DEF StageOK, CodeOK
<1>5. code'[drFn] = C /\ \A g \in Fns : g # drFn => code'[g] = code[g]
  BY <1>3, <1>4
<1>6. \A id, t : Old(id, slots, point[2], t) => Old(id, slots', k, t)
  BY <1>2, <1>3, <1>4, OldGrows
<1>7. Sound(C, slots', k, traced'[drFn], globalSlots'[drFn])
  BY <1>2, <1>3
<1>8. UseAt(C, drStage', point', workList', entryAllocas')
  BY <1>3
<1>9. point' = <<"point", k>> /\ DOMAIN globalSlots' = Fns
      /\ (slotPass # "none" => ~ Current("function-name-trace"))'
  BY <1>1, <1>3 DEF UseInv, Current
<1> QED
  BY <1>3, <1>4, <1>5, <1>6, <1>7, <1>8, <1>9, UseStep

LEMMA UseImmediateStep ==
  ASSUME SlotInv, UseInv, DrImmediate, UNCHANGED <<traced, globalSlots, slotPass, passes>>
  PROVE  UseInv'
<1>1. CodeOK /\ StageOK
  BY DEF SlotInv
<1>2. PICK A : A = code[drFn]
  OBVIOUS
<1>3. PICK w : w = workList
  OBVIOUS
<1>4. PICK C : C = DemoteImmediate(A, Head(w), NewSlot)
  OBVIOUS
<1>5. Demote("immediates", C) /\ drStage = "immediates" /\ w # <<>> /\ drFn \in Fns /\ slots \in Nat
  BY <1>1, <1>2, <1>3, <1>4 DEF DrImmediate, Demote, StageOK
<1>6. Whole(A, slots, point[2], traced[drFn], globalSlots[drFn])
  BY <1>1, <1>2, <1>5, WholeNow
<1>7. PointAt(A, point) /\ GivenUses(A) /\ ImmList(A, w) /\ EarlyLoads(A, point)
  BY <1>2, <1>3, <1>5 DEF UseInv, UseAt
<1>8. ImmUse(A, Head(w))
  BY <1>5, <1>7, OnceTail DEF ImmList
<1>9. PICK b \in DOMAIN A : \E x \in ToSet(A[b]) : \E j \in DOMAIN x.args :
        Head(w) = <<x.id, j>> /\ x.args[j][1] = "imm" /\ x.kind \notin {"alloca", "pad"}
  BY <1>8 DEF ImmUse
<1>10. PICK x \in ToSet(A[b]) : \E j \in DOMAIN x.args :
        Head(w) = <<x.id, j>> /\ x.args[j][1] = "imm" /\ x.kind \notin {"alloca", "pad"}
  BY <1>9
<1>11. PICK j \in DOMAIN x.args :
        Head(w) = <<x.id, j>> /\ x.args[j][1] = "imm" /\ x.kind \notin {"alloca", "pad"}
  BY <1>10
<1>12. /\ Sound(C, slots + 1, point[2], traced[drFn], globalSlots[drFn]) /\ PointAt(C, point)
       /\ GivenUses(C) /\ EarlyLoads(C, point) /\ ArgsKept(A, C, x.id, j)
  <2>1. C = DemoteImmediate(A, <<x.id, j>>, NewSlot)
    BY <1>4, <1>11
  <2>2. NewSlot = <<"slot", slots>>
    BY DEF NewSlot
  <2> QED
    BY <1>5, <1>6, <1>7, <1>11, <2>1, <2>2, UseImmediate
<1>13. ImmList(C, Tail(w))
  <2>1. DOMAIN C = DOMAIN A
    <3>1. NewSlot \in SlotIds
      BY <1>1, NewSlotIs
    <3>2. AllDerived(A, C)
      BY <1>4, <1>6, <3>1, DemoteImmediateDerived DEF Whole, Fit
    <3> QED
      BY <3>2 DEF AllDerived
  <2> QED
    BY <1>5, <1>7, <1>11, <1>12, <2>1, ImmListStep
<1>14. UseAt(C, "immediates", point, Tail(workList), entryAllocas')
  BY <1>3, <1>12, <1>13 DEF UseAt
<1> QED
  BY <1>1, <1>5, <1>12, <1>14, UseDemote

LEMMA UseFindEscapedStep ==
  ASSUME SlotInv, UseInv, DrFindEscaped,
         UNCHANGED <<traced, globalSlots, slotPass, passes, entryAllocas>>
  PROVE  UseInv'
<1>1. CodeOK /\ StageOK
  BY DEF SlotInv
<1>2. PICK A : A = code[drFn]
  OBVIOUS
<1>3. /\ drStage = "immediates" /\ drFn \in Fns /\ drStage' = "registers"
      /\ UNCHANGED <<code, drFn, point, slots>>
  BY <1>1 DEF DrFindEscaped, StageOK
<1>4. PICK w : w = Escaped(A)
  OBVIOUS
<1>5. workList' = w
  BY <1>2, <1>4 DEF DrFindEscaped
<1>6. Whole(A, slots, point[2], traced[drFn], globalSlots[drFn])
  BY <1>1, <1>2, <1>3, WholeNow
<1>7. PointAt(A, point) /\ GivenUses(A) /\ EarlyLoads(A, point)
  BY <1>2, <1>3 DEF UseInv, UseAt
<1>8. LocalUses(A, {x.id : x \in ToSet(w)}) /\ RegList(A, w)
  BY <1>4, <1>6, <1>7, UseFindEscaped
<1>9. UseAt(A, "registers", point, w, entryAllocas)
  BY <1>7, <1>8, RegListIs DEF UseAt
<1>10. (slotPass # "none" => ~ Current("function-name-trace"))'
  BY DEF UseInv, Current
<1>11. UseAt(code[drFn], drStage', point, workList', entryAllocas')
  BY <1>2, <1>3, <1>5, <1>9
<1> QED
  BY <1>3, <1>10, <1>11, UseSame

LEMMA UseRegisterStep ==
  ASSUME SlotInv, UseInv, DrRegister, UNCHANGED <<traced, globalSlots, slotPass, passes>>
  PROVE  UseInv'
<1>1. CodeOK /\ StageOK
  BY DEF SlotInv
<1>2. PICK A : A = code[drFn]
  OBVIOUS
<1>3. PICK w : w = workList
  OBVIOUS
<1>4. PICK C : C = DemoteRegToStack(A, Head(w).id, point, NewSlot)
  OBVIOUS
<1>5. Demote("registers", C) /\ drStage = "registers" /\ w # <<>> /\ drFn \in Fns /\ slots \in Nat
  BY <1>1, <1>2, <1>3, <1>4 DEF DrRegister, Demote, StageOK
<1>6. Whole(A, slots, point[2], traced[drFn], globalSlots[drFn])
  BY <1>1, <1>2, <1>5, WholeNow
<1>7. PICK W : W = {x.id : x \in ToSet(w)}
  OBVIOUS
<1>8. PointAt(A, point) /\ RegList(A, w) /\ LocalUses(A, W)
  BY <1>2, <1>3, <1>5, <1>7, RegListIs DEF UseInv, UseAt
<1>9. w \in Seq(ToSet(w)) /\ \A x \in ToSet(w) : Registered(A, x.id)
  BY <1>8 DEF RegList
<1>10. /\ Head(w) \in ToSet(w)
       /\ Tail(w) \in Seq(ToSet(Tail(w))) /\ ToSet(Tail(w)) \subseteq ToSet(w)
  BY <1>5, <1>9, HeadOfList
<1>11. PICK id : id = Head(w).id
  OBVIOUS
<1>12. PICK V : V = {x.id : x \in ToSet(Tail(w))}
  OBVIOUS
<1>13. W \ {id} \subseteq V
  <2>1. ASSUME NEW x \in ToSet(w), x # Head(w) PROVE x \in ToSet(Tail(w))
    <3>1. PICK i \in DOMAIN w : w[i] = x
      BY ElementAt
    <3>2. /\ Len(w) \in Nat /\ Len(w) # 0 /\ DOMAIN w = 1..Len(w) /\ Head(w) = w[1]
          /\ DOMAIN Tail(w) = 1..(Len(w) - 1) /\ \A m \in 1..(Len(w) - 1) : Tail(w)[m] = w[m + 1]
      BY <1>5, <1>9
    <3>3. i - 1 \in 1..(Len(w) - 1) /\ (i - 1) + 1 = i
      BY <2>1, <3>1, <3>2
    <3>4. i - 1 \in DOMAIN Tail(w) /\ Tail(w)[i - 1] = x
      BY <3>1, <3>2, <3>3
    <3> QED
      BY <3>4, ElementAt
  <2> QED
    BY <1>7, <1>11, <1>12, <2>1
<1>14. /\ Sound(C, slots + 1, point[2], traced[drFn], globalSlots[drFn]) /\ PointAt(C, point)
       /\ LocalUses(C, V) /\ \A c : Registered(A, c) => Registered(C, c)
  <2>1. C = DemoteRegToStack(A, id, point, NewSlot) /\ NewSlot = <<"slot", slots>>
    BY <1>4, <1>11 DEF NewSlot
  <2>2. Registered(A, id)
    BY <1>9, <1>10, <1>11
  <2> QED
    BY <1>5, <1>6, <1>8, <1>13, <2>1, <2>2, UseRegister
<1>15. RegList(C, Tail(w))
  BY <1>9, <1>10, <1>14 DEF RegList
<1>16. UseAt(C, "registers", point, Tail(workList), entryAllocas')
  BY <1>3, <1>12, <1>14, <1>15, RegListIs DEF UseAt
<1> QED
  BY <1>1, <1>5, <1>14, <1>16, UseDemote

LEMMA UseFindPhisStep ==
  ASSUME SlotInv, UseInv, DrFindPhis,
         UNCHANGED <<traced, globalSlots, slotPass, passes, entryAllocas>>
  PROVE  UseInv'
<1>1. CodeOK /\ StageOK
  BY DEF SlotInv
<1>2. PICK A : A = code[drFn]
  OBVIOUS
<1>3. /\ drStage = "registers" /\ drFn \in Fns /\ drStage' = "phis" /\ workList = <<>>
      /\ UNCHANGED <<code, drFn, point, slots>>
  BY <1>1 DEF DrFindPhis, StageOK
<1>4. PICK w : w = InstsInReverse(A, {p \in Places(A) : InstAt(A, p).kind = "phi"})
  OBVIOUS
<1>5. workList' = w
  BY <1>2, <1>4 DEF DrFindPhis
<1>6. IsCode(A) /\ OwnIds(A)
  BY <1>1, <1>2, <1>3, WholeNow
<1>7. PointAt(A, point) /\ LocalUses(A, {x.id : x \in ToSet(workList)})
  BY <1>2, <1>3 DEF UseInv, UseAt
<1>8. LocalUses(A, {})
  <2>1. {x.id : x \in ToSet(workList)} = {}
    BY <1>3, ToSetEmpty
  <2> QED
    BY <1>7, <2>1
<1>9. PhiList(A, w)
  BY <1>4, <1>6, UseFindPhis
<1>10. UseAt(A, "phis", point, w, entryAllocas)
  BY <1>7, <1>8, <1>9 DEF UseAt
<1>11. (slotPass # "none" => ~ Current("function-name-trace"))'
  BY DEF UseInv, Current
<1>12. UseAt(code[drFn], drStage', point, workList', entryAllocas')
  BY <1>2, <1>3, <1>5, <1>10
<1> QED
  BY <1>3, <1>11, <1>12, UseSame

LEMMA UsePhiStep ==
  ASSUME SlotInv, UseInv, DrPhi, UNCHANGED <<traced, globalSlots, slotPass, passes>>
  PROVE  UseInv'
<1>1. CodeOK /\ StageOK
  BY DEF SlotInv
<1>2. PICK A : A = code[drFn]
  OBVIOUS
<1>3. PICK w : w = workList
  OBVIOUS
<1>4. PICK x : x = Head(w)
  OBVIOUS
<1>5. PICK C : C = DemotePHIToStack(A, x, point, NewSlot)
  OBVIOUS
<1>6. Demote("phis", C) /\ drStage = "phis" /\ w # <<>> /\ drFn \in Fns /\ slots \in Nat
  BY <1>1, <1>2, <1>3, <1>4, <1>5 DEF DrPhi, Demote, StageOK
<1>7. Whole(A, slots, point[2], traced[drFn], globalSlots[drFn]) /\ OwnIds(A)
  BY <1>1, <1>2, <1>6, WholeNow
<1>8. PointAt(A, point) /\ PhiList(A, w) /\ LocalUses(A, {})
  BY <1>2, <1>3, <1>6 DEF UseInv, UseAt
<1>9. x \in ToSet(w)
  BY <1>4, <1>6, <1>8, HeadOfList DEF PhiList
<1>10. x.kind = "phi" /\ \E b \in DOMAIN A : x \in ToSet(A[b])
  BY <1>8, <1>9 DEF PhiList, InCode
<1>11. PICK b \in DOMAIN A : x \in ToSet(A[b])
  BY <1>10
<1>12. /\ Sound(C, slots + 1, point[2], traced[drFn], globalSlots[drFn]) /\ PointAt(C, point)
       /\ LocalUses(C, {}) /\ OnePhiLess(A, C, x)
  <2>1. NewSlot = <<"slot", slots>>
    BY DEF NewSlot
  <2> QED
    BY <1>5, <1>6, <1>7, <1>8, <1>10, <1>11, <2>1, UsePhi
<1>13. PhiList(C, Tail(w))
  BY <1>4, <1>6, <1>7, <1>8, <1>12, PhiListStep
<1>14. UseAt(C, "phis", point, Tail(workList), entryAllocas')
  BY <1>3, <1>12, <1>13 DEF UseAt
<1> QED
  BY <1>1, <1>6, <1>12, <1>14, UseDemote

LEMMA UseEndStep ==
  ASSUME UseInv, DrEnd, UNCHANGED <<traced, globalSlots, slotPass, passes, entryAllocas>>
  PROVE  UseInv'
<1>1. PICK A : A = code[drFn]
  OBVIOUS
<1>2. /\ drStage = "phis" /\ drStage' = "demoted" /\ workList = <<>> /\ workList' = workList
      /\ UNCHANGED <<code, drFn, point, slots>>
  BY DEF DrEnd
<1>3. PhiList(A, <<>>) /\ LocalUses(A, {})
  BY <1>1, <1>2 DEF UseInv, UseAt
<1>4. NoPhi(A)
  BY <1>3, UsePhisDone
<1>5. UseAt(A, "demoted", point, workList', entryAllocas')
  BY <1>3, <1>4 DEF UseAt
<1>6. (slotPass # "none" => ~ Current("function-name-trace"))'
  BY DEF UseInv, Current
<1> QED
  BY <1>1, <1>2, <1>5, <1>6, UseSame

(* Either pass returns.                                                    *)
LEMMA UseReturnsStep ==
  ASSUME UseInv, StageOK, drStage \in {"demoted", "globals"}, drStage' = "idle", slotPass' = "none",
         UNCHANGED <<code, drFn, point, slots, traced, globalSlots>>
  PROVE  UseInv'
<1>1. LocalUses(code[drFn], {}) /\ NoPhi(code[drFn])
  BY DEF UseInv, UseAt
<1>2. GivenUses(code[drFn])
  BY <1>1, UseReturns
<1>3. \A g \in Fns : g # drFn \/ GivenUses(code[g])
  BY <1>2
<1> QED
  BY <1>3, UseSame

LEMMA UseCollectStep ==
  ASSUME SlotInv, UseInv, SgCollect, UNCHANGED <<traced, passes>>
  PROVE  UseInv'
<1>1. CodeOK /\ StageOK
  BY DEF SlotInv
<1>2. PICK A : A = code[drFn]
  OBVIOUS
<1>3. /\ drStage = "demoted" /\ drFn \in Fns /\ drStage' = "globals"
      /\ UNCHANGED <<code, drFn, point, slots, globalSlots, slotPass>>
  BY <1>1 DEF SgCollect, StageOK
<1>4. PICK l : l = CollectEntryAllocas(A[1])
  OBVIOUS
<1>5. entryAllocas' = l
  BY <1>2, <1>4 DEF SgCollect
<1>6. LocalUses(A, {}) /\ NoPhi(A)
  BY <1>2, <1>3 DEF UseInv, UseAt
<1>7. AllocaList(A, l)
  <2>1. Whole(A, slots, point[2], traced[drFn], globalSlots[drFn]) /\ OwnIds(A)
    BY <1>1, <1>2, <1>3, WholeNow
  <2> QED
    BY <1>4, <2>1, UseCollect DEF Whole
<1>8. UseAt(A, "globals", point, workList', l)
  BY <1>6, <1>7 DEF UseAt
<1>9. (slotPass # "none" => ~ Current("function-name-trace"))'
  BY <1>3 DEF UseInv, Current
<1>10. UseAt(code[drFn], drStage', point, workList', entryAllocas')
  BY <1>2, <1>3, <1>5, <1>8
<1> QED
  BY <1>3, <1>9, <1>10, UseSame

LEMMA UseReplaceStep ==
  ASSUME SlotInv, UseInv, SgReplace, UNCHANGED <<traced, passes>>
  PROVE  UseInv'
<1>1. CodeOK /\ StageOK /\ ListsOK
  BY DEF SlotInv
<1>2. PICK A : A = code[drFn]
  OBVIOUS
<1>3. PICK l : l = entryAllocas
  OBVIOUS
<1>4. PICK slot : slot = Head(l)
  OBVIOUS
<1>5. PICK C : C = Erase(A, slot)
  OBVIOUS
<1>6. /\ drStage = "globals" /\ drFn \in Fns /\ l # <<>> /\ code' = [code EXCEPT ![drFn] = C]
      /\ globalSlots' = [globalSlots EXCEPT ![drFn] = @ \cup {slot}] /\ entryAllocas' = Tail(l)
      /\ UNCHANGED <<drStage, drFn, point, slots, workList, slotPass>>
  BY <1>1, <1>2, <1>3, <1>4, <1>5 DEF SgReplace, StageOK
<1>7. Whole(A, slots, point[2], traced[drFn], globalSlots[drFn]) /\ DOMAIN code = Fns
  BY <1>1, <1>2, <1>6, WholeNow
<1>8. LocalUses(A, {}) /\ NoPhi(A) /\ AllocaList(A, l)
  BY <1>2, <1>3, <1>6 DEF UseInv, UseAt
<1>9. PICK S : S = Erasable(source[drFn])
  OBVIOUS
<1>10. l \in Seq(S)
  BY <1>1, <1>3, <1>6, <1>9 DEF ListsOK
<1>11. /\ Sound(C, slots, point[2], traced[drFn], globalSlots[drFn] \cup {slot})
       /\ LocalUses(C, {}) /\ NoPhi(C) /\ AllocaList(C, Tail(l))
  BY <1>4, <1>5, <1>6, <1>7, <1>8, <1>10, UseReplace
<1>12. PICK k \in Nat : point = <<"point", k>>
  BY DEF UseInv
<1>13. point[2] = k /\ point' = <<"point", k>>
  BY <1>6, <1>12
<1>14. code'[drFn] = C /\ \A g \in Fns : g # drFn => code'[g] = code[g]
  BY <1>6, <1>7
<1>15. /\ DOMAIN globalSlots' = Fns /\ globalSlots'[drFn] = globalSlots[drFn] \cup {slot}
       /\ \A g \in Fns : g # drFn => globalSlots'[g] = globalSlots[g]
  <2>1. DOMAIN globalSlots = Fns
    BY DEF UseInv
  <2> QED
    BY <1>6, <2>1
<1>16. Sound(C, slots', k, traced'[drFn], globalSlots'[drFn])
  BY <1>6, <1>11, <1>13, <1>15
<1>17. UseAt(C, drStage', point', workList', entryAllocas')
  BY <1>6, <1>11 DEF UseAt
<1>18. \A id, t : Old(id, slots, point[2], t) => Old(id, slots', k, t)
  BY <1>6, <1>13
<1>19. (slotPass # "none" => ~ Current("function-name-trace"))'
  BY <1>6 DEF UseInv, Current
<1> QED
  BY <1>6, <1>7, <1>13, <1>14, <1>15, <1>16, <1>17, <1>18, <1>19, UseStep

LEMMA UseTraceStep ==
  ASSUME CodeOK, StageOK, LinesKept, MapsOK, UseInv, drStage = "idle",
         NEW f \in Fns, TraceInstrument(f), UNCHANGED <<slotVars, passes>>
  PROVE  UseInv'
<1>1. PICK A : A = code[f]
  OBVIOUS
<1>2. PICK C : C = Trace(A, f)
  OBVIOUS
<1>3. code' = [code EXCEPT ![f] = C] /\ traced' = [traced EXCEPT ![f] = @ + 1]
  <2>1. /\ f \in DOMAIN enteringMap => enteringMap[f] = <<"enter", f>>
        /\ f \notin DOMAIN leavingMap
    BY DEF MapsOK
  <2> QED
    BY <1>1, <1>2, <2>1 DEF TraceInstrument, Trace
<1>4. BodyOK(source[f], f, A) /\ Given(source[f]) /\ DOMAIN code = Fns
  BY <1>1, CodeOf DEF CodeOK
<1>5. PICK k \in Nat : point = <<"point", k>>
  BY DEF UseInv
<1>6. point[2] = k
  BY <1>5
<1>7. traced \in [Fns -> Nat]
  BY DEF LinesKept
<1>8. Sound(A, slots, k, traced[f], globalSlots[f]) /\ GivenUses(A)
  BY <1>1, <1>6 DEF UseInv
<1>9. Sound(C, slots, k, traced[f] + 1, globalSlots[f]) /\ GivenUses(C)
  BY <1>2, <1>4, <1>7, <1>8, UseTrace
<1>10. code'[f] = C /\ \A g \in Fns : g # f => code'[g] = code[g]
  BY <1>3, <1>4
<1>11. traced'[f] = traced[f] + 1 /\ \A g \in Fns : g # f => traced'[g] = traced[g]
  BY <1>3, <1>7
<1>12. UNCHANGED <<drStage, drFn, point, slots, slotPass, globalSlots>>
  BY DEF slotVars, drVars, sgVars
<1>13. Sound(C, slots', k, traced'[f], globalSlots'[f])
  BY <1>9, <1>11, <1>12
<1>14. \A id, t : Old(id, slots, point[2], t) => Old(id, slots', k, t)
  BY <1>6, <1>12
<1>15. DOMAIN globalSlots' = Fns /\ point' = <<"point", k>>
       /\ (slotPass # "none" => ~ Current("function-name-trace"))'
  BY <1>5, <1>12 DEF UseInv, Current
<1> QED
  BY <1>4, <1>9, <1>10, <1>11, <1>12, <1>13, <1>14, <1>15, UseStep

LEMMA UseSlotStep ==
  ASSUME SlotInv, UseInv, SlotStep, UNCHANGED <<source, traced, passes>>
  PROVE  UseInv'
<1>1. StageOK
  BY DEF SlotInv
<1>2. CASE SlotDemote
  <2>1. DrStep /\ UNCHANGED <<globalSlots, slotPass, entryAllocas>>
    BY <1>2 DEF SlotDemote, sgVars
  <2> QED
    BY <2>1, UseImmediateStep, UseFindEscapedStep, UseRegisterStep, UseFindPhisStep,
       UsePhiStep, UseEndStep DEF DrStep
<1>3. CASE DemoteRegistersReturns
  BY <1>1, <1>3, UseReturnsStep DEF DemoteRegistersReturns
<1>4. CASE SgCollect
  BY <1>4, UseCollectStep
<1>5. CASE SgReplace
  BY <1>5, UseReplaceStep
<1>6. CASE StackToGlobalReturns
  BY <1>1, <1>6, UseReturnsStep DEF StackToGlobalReturns
<1> QED
  BY <1>2, <1>3, <1>4, <1>5, <1>6 DEF SlotStep

LEMMA UseStays ==
  ASSUME UseInv, UNCHANGED <<code, slotVars, traced>>,
         (slotPass # "none" => ~ Current("function-name-trace"))'
  PROVE  UseInv'
BY DEF UseInv, slotVars, drVars, sgVars

LEMMA StepUse ==
  ASSUME PipelineInv, UseInv, [Next]_vars
  PROVE  UseInv'
<1>1. SlotInv /\ CodeOK /\ StageOK /\ LinesKept /\ MapsOK /\ Queued
  BY DEF PipelineInv, SlotInv
<1>2. slotPass # "none" => ~ Current("function-name-trace")
  BY DEF UseInv
<1>3. CASE SkipFunction
  BY <1>3, UseStays DEF SkipFunction, slotVars, sgVars, traceVars
<1>4. CASE RunOnSlots
  <2>1. Head(next) \in Fns
    BY <1>1, <1>4, HeadNext DEF RunOnSlots
  <2>2. UNCHANGED <<source, traced, passes>>
    BY <1>4 DEF RunOnSlots, traceVars
  <2>3. ~ Current("function-name-trace") /\ ~ Current("function-name-trace")'
    BY <1>4, <2>2 DEF RunOnSlots, Current
  <2>4. CASE DemoteRegistersRun(Head(next))
    BY <1>1, <2>1, <2>2, <2>3, <2>4, UseStartStep DEF DemoteRegistersRun
  <2>5. CASE StackToGlobalRun(Head(next))
    BY <1>1, <2>1, <2>2, <2>3, <2>5, UseStartStep DEF StackToGlobalRun
  <2> QED
    BY <1>4, <2>4, <2>5 DEF RunOnSlots
<1>5. CASE StepOnSlots
  BY <1>1, <1>5, UseSlotStep DEF StepOnSlots, traceVars
<1>6. CASE RunTrace
  <2>1. Head(next) \in Fns
    BY <1>1, <1>6, HeadNext DEF RunTrace
  <2>2. Current("function-name-trace") /\ TraceInstrument(Head(next)) /\ UNCHANGED <<slotVars, passes>>
    BY <1>6 DEF RunTrace
  <2>3. drStage = "idle"
    BY <1>1, <1>2, <2>2 DEF StageOK
  <2> QED
    BY <1>1, <2>1, <2>2, <2>3, UseTraceStep
<1>7. CASE PassEnds
  <2>1. slotPass' = "none" /\ UNCHANGED <<code, slotVars, traced>>
    BY <1>7 DEF PassEnds, slotVars, sgVars
  <2> QED
    BY <2>1, UseStays
<1>8. CASE Execute
  <2>1. UNCHANGED <<code, slotVars, traceVars, source, passes, next>>
    BY <1>8 DEF Execute, Start, Compute, ExecAlloca, ExecLoad, ExecStore, ExecBranch, ExecCall,
         Throw, Unwind, Return, ExecPuts, Compiled
  <2>2. UNCHANGED <<code, slotVars, traced, slotPass, passes>>
    BY <2>1 DEF traceVars, slotVars, sgVars
  <2>3. (slotPass # "none" => ~ Current("function-name-trace"))'
    BY <1>2, <2>2 DEF Current
  <2> QED
    BY <2>2, <2>3, UseStays
<1>9. CASE Done \/ UNCHANGED vars
  <2>1. UNCHANGED <<code, slotVars, traced, slotPass, passes>>
    BY <1>9 DEF Done, vars, traceVars, slotVars, sgVars
  <2>2. (slotPass # "none" => ~ Current("function-name-trace"))'
    BY <1>2, <2>1 DEF Current
  <2> QED
    BY <2>1, <2>2, UseStays
<1> QED
  BY <1>3, <1>4, <1>5, <1>6, <1>7, <1>8, <1>9 DEF Next

(* What the property says of a function.                                   *)
LEMMA UseDemoted ==
  ASSUME CodeOK, StageOK, UseInv
  PROVE  DemotedCode
<1>1. SUFFICES ASSUME drStage = "demoted" PROVE DemotedCode
  BY DEF DemotedCode
<1>2. PICK A : A = code[drFn]
  OBVIOUS
<1>3. PICK gs : gs = globalSlots[drFn]
  OBVIOUS
<1>4. drFn \in Fns
  BY <1>1 DEF StageOK
<1>5. Whole(A, slots, point[2], traced[drFn], gs) /\ IsCode(A) /\ OwnIds(A)
  BY <1>2, <1>3, <1>4, WholeNow
<1>6. LocalUses(A, {}) /\ NoPhi(A)
  BY <1>1, <1>2 DEF UseInv, UseAt
<1>7. Homes(A, gs)
  BY <1>5 DEF Whole, Sound
<1>8. ASSUME NEW q \in Places(A), NEW x, x = InstAt(A, q)
      PROVE  /\ x.kind # "phi"
             /\ \A k \in DOMAIN x.args : x.args[k][1] = "imm" \/
                  \E p \in Places(A) : /\ InstAt(A, p).id = x.args[k][2]
                                       /\ Before(p, q) \/ InstAt(A, p).kind = "pad"
             /\ x.kind \in {"load", "store"} /\ x.ref \notin gs =>
                  \E p \in Places(A) :
                     /\ \A r \in Places(A) : InstAt(A, r) = Alloca(x.ref) <=> r = p
                     /\ p[1] = 1 /\ (q[1] = 1 => Before(p, q))
  <2>1. PICK b \in DOMAIN A : b = q[1]
    BY PlacePair
  <2>2. PICK i \in DOMAIN A[b] : i = q[2]
    BY <2>1, PlacePair
  <2>3. q = <<b, i>> /\ x = A[b][i] /\ x \in ToSet(A[b])
    BY <1>8, <2>1, <2>2, PlacePair, ElementAt
  <2>4. x.kind # "phi"
    BY <1>6, <2>3 DEF NoPhi
  <2>5. \A e \in DOMAIN A : \A c, d : InOrder(A[e], c, d) =>
          \E m \in DOMAIN A[e], j \in DOMAIN A[e] : m < j /\ A[e][m].id = c /\ A[e][j].id = d
    BY DEF InOrder
  <2>6. ASSUME NEW k \in DOMAIN x.args, x.args[k][1] # "imm"
        PROVE  \E p \in Places(A) : /\ InstAt(A, p).id = x.args[k][2]
                                    /\ Before(p, q) \/ InstAt(A, p).kind = "pad"
    <3>1. PICK arg : arg = x.args[k]
      OBVIOUS
    <3>2. PICK c : c = arg[2]
      OBVIOUS
    <3>3. LocalArg(A, {}, b, x, k, arg)
      BY <1>6, <2>3, <3>1 DEF LocalUses
    <3>4. NamesPad(A, c) \/ InOrder(A[b], c, x.id)
      BY <2>4, <2>6, <3>1, <3>2, <3>3 DEF LocalArg
    <3>5. CASE NamesPad(A, c)
      <4>1. PICK e \in DOMAIN A : \E y \in ToSet(A[e]) : y.id = c /\ y.kind = "pad"
        BY <3>5 DEF NamesPad
      <4>2. PICK y \in ToSet(A[e]) : y.id = c /\ y.kind = "pad"
        BY <4>1
      <4>3. PICK m \in DOMAIN A[e] : A[e][m] = y
        BY ElementAt
      <4>4. <<e, m>> \in Places(A) /\ InstAt(A, <<e, m>>) = y
        BY <4>3, InPlaces
      <4> QED
        BY <3>1, <3>2, <4>2, <4>4
    <3>6. CASE InOrder(A[b], c, x.id)
      <4>1. PICK m \in DOMAIN A[b], j \in DOMAIN A[b] : m < j /\ A[b][m].id = c /\ A[b][j].id = x.id
        BY <2>5, <3>6
      <4>2. j = i
        BY <1>5, <2>3, <4>1, OneIndex
      <4>3. <<b, m>> \in Places(A) /\ InstAt(A, <<b, m>>) = A[b][m]
        BY InPlaces
      <4>4. PICK p : p = <<b, m>>
        OBVIOUS
      <4>5. p[1] = q[1] /\ p[2] < q[2]
        BY <2>1, <2>2, <4>1, <4>2, <4>4
      <4> QED
        BY <3>1, <3>2, <4>1, <4>3, <4>4, <4>5 DEF Before
    <3> QED
      BY <3>4, <3>5, <3>6
  <2>7. ASSUME x.kind \in {"load", "store"}, x.ref \notin gs
        PROVE  \E p \in Places(A) :
                 /\ \A r \in Places(A) : InstAt(A, r) = Alloca(x.ref) <=> r = p
                 /\ p[1] = 1 /\ (q[1] = 1 => Before(p, q))
    <3>1. /\ Alloca(x.ref) \in ToSet(A[1]) /\ 1 \in DOMAIN A
          /\ b = 1 => InOrder(A[1], x.ref, x.id)
      BY <1>5, <1>7, <2>3, <2>7 DEF Homes, Slots, Whole
    <3>2. PICK m \in DOMAIN A[1] : A[1][m] = Alloca(x.ref)
      BY <3>1, ElementAt
    <3>3. PICK p : p = <<1, m>>
      OBVIOUS
    <3>4. p \in Places(A) /\ InstAt(A, p) = Alloca(x.ref) /\ p[1] = 1 /\ p[2] = m
      BY <3>1, <3>2, <3>3, InPlaces
    <3>5. \A r \in Places(A) : InstAt(A, r) = Alloca(x.ref) <=> r = p
      BY <1>5, <3>4, OnePlace
    <3>6. ASSUME b = 1 PROVE Before(p, q)
      <4>1. PICK l \in DOMAIN A[1], j \in DOMAIN A[1] :
              l < j /\ A[1][l].id = x.ref /\ A[1][j].id = x.id
        BY <2>5, <3>1, <3>6
      <4>2. j = i
        BY <1>5, <2>3, <3>6, <4>1, OneIndex
      <4>3. A[1][m].id = x.ref
        BY <3>2 DEF Alloca, Inst
      <4>4. l = m
        BY <1>5, <3>1, <4>1, <4>3, OneIndex
      <4> QED
        BY <2>1, <2>2, <3>4, <3>6, <4>1, <4>2, <4>4 DEF Before
    <3> QED
      BY <2>1, <3>4, <3>5, <3>6
  <2> QED
    BY <2>4, <2>6, <2>7
<1>9. ASSUME NEW q \in Places(A), NEW x, x = InstAt(A, q),
             x.kind \in {"load", "store"}, x.ref \notin gs
      PROVE  \E p \in {r \in Places(A) : InstAt(A, r) = Alloca(x.ref)} :
               /\ {r \in Places(A) : InstAt(A, r) = Alloca(x.ref)} = {p}
               /\ p[1] = 1 /\ (q[1] = 1 => Before(p, q))
  BY <1>8, <1>9
<1> QED
  BY <1>2, <1>3, <1>8, <1>9 DEF DemotedCode

(* Whenever DemoteRegisters is done with a function, whatever the modules  *)
(* the pipeline was given, as long as their functions are in SSA form, and *)
(* whatever passes it has run on them before: no PHI node is left, each    *)
(* register is defined earlier in the block it is used in, pads aside, and *)
(* each slot is a global or has one alloca, in the entry block, before its *)
(* uses there (demote-registers.cpp:183-227).                              *)
THEOREM DemotedIsLocal ==
  ASSUME AllWellUsed
  PROVE  Spec => []DemotedCode
<1>1. Init => PipelineInv /\ UseInv
  BY InitPipeline, InitUse
<1>2. PipelineInv /\ UseInv /\ [Next]_vars => (PipelineInv /\ UseInv)'
  BY StepPipeline, StepUse
<1>3. PipelineInv /\ UseInv => DemotedCode
  BY UseDemoted DEF PipelineInv
<1> QED
  BY <1>1, <1>2, <1>3, PTL DEF Spec

=============================================================================
