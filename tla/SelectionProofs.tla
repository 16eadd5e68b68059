-------------------------- MODULE SelectionProofs --------------------------
(***************************************************************************)
(* What flattening and selecting compute, for every sequence.  Both go     *)
(* through a sequence from its front; induction is over sets of numbers    *)
(* and of sequences, which needs no operator to be instantiated.           *)
(***************************************************************************)
EXTENDS Selection, SequenceTheorems, WellFoundedInduction, TLAPS

(* A set of numbers with 0 and all successors has every number.            *)
LEMMA SetInduction ==
  ASSUME NEW S \in SUBSET Nat, 0 \in S, \A n \in S : n + 1 \in S
  PROVE  S = Nat
<1>1. SUFFICES ASSUME Nat \ S # {} PROVE FALSE
  OBVIOUS
<1>2. PICK m \in Nat \ S : \A k \in Nat \ S : ~ (<<k, m>> \in OpToRel(<, Nat))
  BY <1>1, NatLessThanWellFounded, WFMin
<1>3. \A k \in Nat \ S : ~ (k < m)
  BY <1>2 DEF OpToRel
<1>4. m # 0 /\ m - 1 \in Nat
  OBVIOUS
<1>5. m - 1 \in S
  BY <1>3, <1>4
<1> QED
  BY <1>4, <1>5

(* A set of sequences with the empty one that is closed under appending    *)
(* has every sequence.                                                     *)
LEMMA SequenceInduction ==
  ASSUME NEW S, NEW P \in SUBSET Seq(S),
         <<>> \in P, \A s \in P, x \in S : Append(s, x) \in P
  PROVE  P = Seq(S)
<1> DEFINE L == {n \in Nat : \A s \in Seq(S) : Len(s) = n => s \in P}
<1>1. 0 \in L
  <2>1. \A s \in Seq(S) : Len(s) = 0 => s = <<>>
    OBVIOUS
  <2> QED
    BY <2>1
<1>2. ASSUME NEW n \in L PROVE n + 1 \in L
  <2>1. ASSUME NEW s \in Seq(S), Len(s) = n + 1 PROVE s \in P
    <3> DEFINE t == SubSeq(s, 1, n)
    <3>1. n \in Nat /\ \A i \in 1..n : s[i] \in S
      BY <2>1
    <3>2. t \in Seq(S) /\ Len(t) = n /\ \A i \in 1..n : t[i] = s[i]
      BY <3>1, SubSeqProperties
    <3>3. t \in P
      BY <3>2
    <3>4. s[n + 1] \in S
      BY <2>1, <3>1
    <3>5. s = Append(t, s[n + 1])
      <4> HIDE DEF t
      <4>1. Append(t, s[n + 1]) \in Seq(S) /\ Len(Append(t, s[n + 1])) = n + 1
        BY <3>1, <3>2, <3>4
      <4>2. ASSUME NEW i \in 1..(n + 1) PROVE s[i] = Append(t, s[n + 1])[i]
        <5>1. CASE i = n + 1
          BY <3>1, <3>2, <3>4, <5>1
        <5>2. CASE i # n + 1
          <6>1. i \in 1..n /\ i \in 1..Len(t)
            BY <3>1, <3>2, <5>2
          <6>2. Append(t, s[n + 1])[i] = t[i]
            BY <3>2, <3>4, <6>1
          <6> QED
            BY <3>2, <6>1, <6>2
        <5> QED
          BY <5>1, <5>2
      <4> QED
        BY <2>1, <4>1, <4>2, SeqEqual
    <3> QED
      BY <3>3, <3>4, <3>5
  <2> QED
    BY <2>1
<1>3. L = Nat
  <2> HIDE DEF L
  <2>1. L \in SUBSET Nat
    BY DEF L
  <2> QED
    BY <1>1, <1>2, <2>1, SetInduction
<1>4. \A s \in Seq(S) : Len(s) \in L
  BY <1>3
<1> QED
  BY <1>4
-----------------------------------------------------------------------------
(* The function that FlattenSeq defines recursively.                       *)
Flattens(f, ss) ==
  f = [i \in 1..Len(ss) |-> IF i = 1 THEN ss[i] ELSE f[i - 1] \o ss[i]]

LEMMA FlattenSeqDef ==
  ASSUME NEW ss, Len(ss) # 0
  PROVE  FlattenSeq(ss) = (CHOOSE f : Flattens(f, ss))[Len(ss)]
BY DEF FlattenSeq, Flattens

LEMMA FlattensAt ==
  ASSUME NEW f, NEW ss, Flattens(f, ss), NEW i \in 1..Len(ss), NEW k \in Nat,
         i = k + 1
  PROVE  f[i] = IF i = 1 THEN ss[i] ELSE f[k] \o ss[i]
<1>1. k = i - 1
  OBVIOUS
<1>2. f[i] = IF i = 1 THEN ss[i] ELSE f[i - 1] \o ss[i]
  BY DEF Flattens
<1> QED
  BY <1>1, <1>2

(* It exists, ...                                                          *)
LEMMA FlattensExists ==
  ASSUME NEW S, NEW ss \in Seq(Seq(S))
  PROVE  \E f : Flattens(f, ss)
<1> DEFINE F(g, k) == \A i \in 1..k : g[i] = IF i = 1 THEN ss[i] ELSE g[i - 1] \o ss[i]
           L == {k \in Nat : \E g : g = [i \in 1..k |-> g[i]] /\ F(g, k)}
<1>1. 0 \in L
  <2>1. F(<<>>, 0) /\ <<>> = [i \in 1..0 |-> <<>>[i]]
    OBVIOUS
  <2> QED
    BY <2>1
<1>2. ASSUME NEW k \in L PROVE k + 1 \in L
  <2>1. PICK g : g = [i \in 1..k |-> g[i]] /\ F(g, k)
    BY <1>2
  <2> DEFINE last == IF k = 0 THEN ss[1] ELSE g[k] \o ss[k + 1]
             h == [i \in 1..(k + 1) |-> IF i = k + 1 THEN last ELSE g[i]]
  <2>2. k \in Nat
    OBVIOUS
  <2>3. ASSUME NEW i \in 1..(k + 1)
        PROVE  h[i] = IF i = 1 THEN ss[i] ELSE h[i - 1] \o ss[i]
    <3>1. CASE i = k + 1
      BY <2>2, <3>1
    <3>2. CASE i # k + 1
      <4>1. i \in 1..k /\ (i # 1 => i - 1 \in 1..k)
        BY <2>2, <3>2
      <4>2. h[i] = g[i] /\ (i # 1 => h[i - 1] = g[i - 1])
        BY <2>2, <4>1
      <4> QED
        BY <2>1, <4>1, <4>2
    <3> QED
      BY <3>1, <3>2
  <2>4. h = [i \in 1..(k + 1) |-> h[i]]
    OBVIOUS
  <2>5. F(h, k + 1)
    BY <2>3
  <2>6. \E e : e = [i \in 1..(k + 1) |-> e[i]] /\ F(e, k + 1)
    <3> HIDE DEF h, F
    <3> QED
      BY <2>4, <2>5
  <2> HIDE DEF h, F
  <2> QED
    BY <2>2, <2>6
<1>3. L = Nat
  <2> HIDE DEF L
  <2>1. L \in SUBSET Nat
    BY DEF L
  <2> QED
    BY <1>1, <1>2, <2>1, SetInduction
<1>4. PICK g : g = [i \in 1..Len(ss) |-> g[i]] /\ F(g, Len(ss))
  <2>1. Len(ss) \in L
    <3>1. Len(ss) \in Nat
      OBVIOUS
    <3> HIDE DEF L
    <3> QED
      BY <1>3, <3>1
  <2> QED
    BY <2>1
<1>5. Flattens(g, ss)
  BY <1>4, ZenonT(30) DEF Flattens
<1> QED
  BY <1>5

LEMMA FlattensChosen ==
  ASSUME NEW S, NEW ss \in Seq(Seq(S)), ss # <<>>
  PROVE  \E f : Flattens(f, ss) /\ FlattenSeq(ss) = f[Len(ss)]
<1>1. Len(ss) # 0
  OBVIOUS
<1>2. Flattens(CHOOSE f : Flattens(f, ss), ss)
  BY FlattensExists
<1> QED
  BY <1>1, <1>2, FlattenSeqDef

(* ... and agrees with that of a longer sequence.                          *)
LEMMA FlattensPrefix ==
  ASSUME NEW S, NEW ss \in Seq(Seq(S)), NEW s \in Seq(S),
         NEW f, Flattens(f, ss), NEW g, Flattens(g, Append(ss, s))
  PROVE  \A i \in 1..Len(ss) : f[i] = g[i]
<1> DEFINE L == {k \in Nat : k \in 1..Len(ss) => f[k] = g[k]}
<1>0. Len(Append(ss, s)) = Len(ss) + 1 /\ Len(ss) \in Nat
      /\ \A i \in 1..Len(ss) : Append(ss, s)[i] = ss[i]
  OBVIOUS
<1>1. 0 \in L
  OBVIOUS
<1>2. ASSUME NEW k \in L PROVE k + 1 \in L
  <2>0. k \in Nat
    OBVIOUS
  <2>1. ASSUME NEW i \in 1..Len(ss), i = k + 1 PROVE f[i] = g[i]
    <3>1. f[i] = IF i = 1 THEN ss[i] ELSE f[k] \o ss[i]
      BY <2>0, <2>1, FlattensAt
    <3>2. i \in 1..Len(Append(ss, s)) /\ Append(ss, s)[i] = ss[i]
      BY <1>0
    <3>3. g[i] = IF i = 1 THEN ss[i] ELSE g[k] \o ss[i]
      <4> DEFINE tt == Append(ss, s)
      <4>1. g[i] = IF i = 1 THEN tt[i] ELSE g[k] \o tt[i]
        <5>1. Flattens(g, tt) /\ i \in 1..Len(tt)
          BY <3>2
        <5> HIDE DEF tt
        <5> QED
          BY <2>0, <2>1, <5>1, FlattensAt
      <4> QED
        BY <3>2, <4>1
    <3>4. i # 1 => k \in 1..Len(ss)
      BY <1>0, <2>1
    <3> QED
      BY <2>1, <3>1, <3>3, <3>4
  <2> QED
    BY <2>1
<1>3. L = Nat
  <2> HIDE DEF L
  <2>1. L \in SUBSET Nat
    BY DEF L
  <2> QED
    BY <1>1, <1>2, <2>1, SetInduction
<1>4. \A k \in 1..Len(ss) : k \in L
  <2> HIDE DEF L
  <2> QED
    BY <1>0, <1>3
<1> QED
  BY <1>4

LEMMA FlattenEmpty == FlattenSeq(<<>>) = <<>>
BY DEF FlattenSeq

LEMMA FlattenOne ==
  ASSUME NEW S, NEW s \in Seq(S)
  PROVE  FlattenSeq(<<s>>) = s
<1>1. <<s>> \in Seq(Seq(S)) /\ Len(<<s>>) = 1 /\ <<s>> # <<>> /\ <<s>>[1] = s
  OBVIOUS
<1>2. PICK f : Flattens(f, <<s>>) /\ FlattenSeq(<<s>>) = f[1]
  BY <1>1, FlattensChosen
<1> QED
  BY <1>1, <1>2 DEF Flattens

LEMMA FlattenAppend ==
  ASSUME NEW S, NEW ss \in Seq(Seq(S)), NEW s \in Seq(S)
  PROVE  FlattenSeq(Append(ss, s)) = FlattenSeq(ss) \o s
<1>1. CASE ss = <<>>
  <2>1. Append(ss, s) = <<s>>
    BY <1>1
  <2>2. <<>> \o s = s
    OBVIOUS
  <2> QED
    BY <1>1, <2>1, <2>2, FlattenEmpty, FlattenOne
<1>2. CASE ss # <<>>
  <2> DEFINE tt == Append(ss, s)
  <2>1. /\ tt \in Seq(Seq(S)) /\ tt # <<>> /\ Len(tt) = Len(ss) + 1
        /\ Len(ss) \in Nat \ {0} /\ tt[Len(ss) + 1] = s
    BY <1>2
  <2>2. PICK f : Flattens(f, ss) /\ FlattenSeq(ss) = f[Len(ss)]
    BY <1>2, FlattensChosen
  <2>3. PICK g : Flattens(g, tt) /\ FlattenSeq(tt) = g[Len(tt)]
    BY <2>1, FlattensChosen
  <2>4. g[Len(ss)] = f[Len(ss)]
    BY <2>1, <2>2, <2>3, FlattensPrefix
  <2>5. g[Len(ss) + 1] = g[Len(ss)] \o s
    <3>1. Len(ss) + 1 \in 1..Len(tt) /\ Len(ss) + 1 # 1
      BY <2>1
    <3> HIDE DEF tt
    <3>2. ASSUME NEW i \in 1..Len(tt), NEW k \in Nat, i = k + 1, i # 1
          PROVE  g[i] = g[k] \o tt[i]
      BY <2>3, <3>2, FlattensAt
    <3> QED
      BY <2>1, <3>1, <3>2
  <2> QED
    BY <2>1, <2>2, <2>3, <2>4, <2>5
<1> QED
  BY <1>1, <1>2

LEMMA AppendConcat ==
  ASSUME NEW S, NEW s \in Seq(S), NEW t \in Seq(S), NEW x \in S
  PROVE  s \o Append(t, x) = Append(s \o t, x)
<1>1. Append(t, x) = t \o <<x>> /\ Append(s \o t, x) = (s \o t) \o <<x>>
  OBVIOUS
<1>2. <<x>> \in Seq(S)
  OBVIOUS
<1> QED
  BY <1>1, <1>2, ConcatAssociative

LEMMA FlattenType ==
  ASSUME NEW S, NEW ss \in Seq(Seq(S))
  PROVE  FlattenSeq(ss) \in Seq(S)
<1> DEFINE P == {tt \in Seq(Seq(S)) : FlattenSeq(tt) \in Seq(S)}
<1>1. <<>> \in P
  <2>1. <<>> \in Seq(Seq(S)) /\ <<>> \in Seq(S)
    OBVIOUS
  <2> QED
    BY <2>1, FlattenEmpty
<1>2. ASSUME NEW tt \in P, NEW s \in Seq(S) PROVE Append(tt, s) \in P
  <2>0. tt \in Seq(Seq(S)) /\ FlattenSeq(tt) \in Seq(S)
    OBVIOUS
  <2>1. FlattenSeq(Append(tt, s)) = FlattenSeq(tt) \o s
    BY <2>0, FlattenAppend
  <2>2. FlattenSeq(tt) \o s \in Seq(S)
    BY <2>0
  <2>3. Append(tt, s) \in Seq(Seq(S))
    BY <2>0
  <2> QED
    BY <2>1, <2>2, <2>3
<1>3. P \in SUBSET Seq(Seq(S))
  OBVIOUS
<1> HIDE DEF P
<1>4. P = Seq(Seq(S))
  BY <1>1, <1>2, <1>3, SequenceInduction
<1> QED
  BY <1>4 DEF P

LEMMA FlattenConcat ==
  ASSUME NEW S, NEW ss \in Seq(Seq(S)), NEW tt \in Seq(Seq(S))
  PROVE  FlattenSeq(ss \o tt) = FlattenSeq(ss) \o FlattenSeq(tt)
<1> DEFINE P == {rr \in Seq(Seq(S)) :
                   FlattenSeq(ss \o rr) = FlattenSeq(ss) \o FlattenSeq(rr)}
<1>0. FlattenSeq(ss) \in Seq(S)
  BY FlattenType
<1>1. <<>> \in P
  <2>1. ss \o <<>> = ss /\ FlattenSeq(ss) \o <<>> = FlattenSeq(ss)
    BY <1>0, ConcatEmptySeq
  <2>2. <<>> \in Seq(Seq(S))
    OBVIOUS
  <2> QED
    BY <2>1, <2>2, FlattenEmpty
<1>2. ASSUME NEW rr \in P, NEW s \in Seq(S) PROVE Append(rr, s) \in P
  <2>0. /\ rr \in Seq(Seq(S)) /\ FlattenSeq(rr) \in Seq(S)
        /\ FlattenSeq(ss \o rr) = FlattenSeq(ss) \o FlattenSeq(rr)
    BY FlattenType
  <2>1. ss \o Append(rr, s) = Append(ss \o rr, s) /\ ss \o rr \in Seq(Seq(S))
    BY <2>0, AppendConcat, ConcatProperties, SMTT(30)
  <2>2. FlattenSeq(ss \o Append(rr, s)) = FlattenSeq(ss \o rr) \o s
    BY <2>1, FlattenAppend
  <2>3. FlattenSeq(Append(rr, s)) = FlattenSeq(rr) \o s
    BY <2>0, FlattenAppend
  <2>4. (FlattenSeq(ss) \o FlattenSeq(rr)) \o s
          = FlattenSeq(ss) \o (FlattenSeq(rr) \o s)
    BY <1>0, <2>0, ConcatAssociative, SMTT(30)
  <2>5. Append(rr, s) \in Seq(Seq(S))
    BY <2>0
  <2> QED
    BY <2>0, <2>2, <2>3, <2>4, <2>5
<1>3. P \in SUBSET Seq(Seq(S))
  OBVIOUS
<1> HIDE DEF P
<1>4. P = Seq(Seq(S))
  BY <1>1, <1>2, <1>3, SequenceInduction
<1> QED
  BY <1>4 DEF P

LEMMA ToSetOne ==
  ASSUME NEW x PROVE ToSet(<<x>>) = {x}
BY DEF ToSet

LEMMA ToSetEmpty == ToSet(<<>>) = {}
BY DEF ToSet

(* What is in the flattened sequence is in one of those that it is made of.*)
LEMMA ToSetConcat ==
  ASSUME NEW S, NEW s \in Seq(S), NEW t \in Seq(S)
  PROVE  ToSet(s \o t) = ToSet(s) \cup ToSet(t)
<1>1. /\ s \o t \in Seq(S) /\ Len(s \o t) = Len(s) + Len(t)
      /\ \A i \in 1..(Len(s) + Len(t)) :
           (s \o t)[i] = IF i <= Len(s) THEN s[i] ELSE t[i - Len(s)]
  BY ConcatProperties
<1>2. ASSUME NEW x \in ToSet(s \o t) PROVE x \in ToSet(s) \cup ToSet(t)
  <2>1. PICK i \in 1..(Len(s) + Len(t)) : x = (s \o t)[i]
    BY <1>1 DEF ToSet
  <2>2. i <= Len(s) => i \in DOMAIN s /\ x = s[i]
    BY <1>1, <2>1
  <2>3. ~ (i <= Len(s)) => i - Len(s) \in DOMAIN t /\ x = t[i - Len(s)]
    BY <1>1, <2>1
  <2> QED
    BY <2>2, <2>3 DEF ToSet
<1>3. ASSUME NEW i \in DOMAIN s PROVE s[i] \in ToSet(s \o t)
  <2>1. i \in DOMAIN (s \o t) /\ (s \o t)[i] = s[i]
    BY <1>1
  <2> QED
    BY <2>1 DEF ToSet
<1>4. ASSUME NEW i \in DOMAIN t PROVE t[i] \in ToSet(s \o t)
  <2>1. /\ i + Len(s) \in DOMAIN (s \o t) /\ ~ (i + Len(s) <= Len(s))
        /\ (i + Len(s)) - Len(s) = i
    BY <1>1
  <2>2. (s \o t)[i + Len(s)] = t[(i + Len(s)) - Len(s)]
    BY <1>1, <2>1
  <2> QED
    BY <2>1, <2>2 DEF ToSet
<1> QED
  BY <1>2, <1>3, <1>4 DEF ToSet

LEMMA FlattenElements ==
  ASSUME NEW S, NEW ss \in Seq(Seq(S))
  PROVE  ToSet(FlattenSeq(ss)) = UNION {ToSet(ss[k]) : k \in DOMAIN ss}
<1> DEFINE P == {tt \in Seq(Seq(S)) :
                   ToSet(FlattenSeq(tt)) = UNION {ToSet(tt[k]) : k \in DOMAIN tt}}
<1>1. <<>> \in P
  <2>1. <<>> \in Seq(Seq(S)) /\ DOMAIN <<>> = {}
    OBVIOUS
  <2>2. ToSet(FlattenSeq(<<>>)) = {}
    BY <2>1, FlattenEmpty DEF ToSet
  <2> QED
    BY <2>1, <2>2
<1>2. ASSUME NEW tt \in P, NEW s \in Seq(S) PROVE Append(tt, s) \in P
  <2>0. /\ tt \in Seq(Seq(S)) /\ FlattenSeq(tt) \in Seq(S)
        /\ ToSet(FlattenSeq(tt)) = UNION {ToSet(tt[k]) : k \in DOMAIN tt}
    BY FlattenType
  <2> HIDE DEF P
  <2>1. ToSet(FlattenSeq(Append(tt, s))) = ToSet(FlattenSeq(tt)) \cup ToSet(s)
    <3>1. FlattenSeq(Append(tt, s)) = FlattenSeq(tt) \o s
      BY <2>0, FlattenAppend
    <3> QED
      BY <2>0, <3>1, ToSetConcat
  <2> DEFINE uu == Append(tt, s)
  <2>2. /\ uu \in Seq(Seq(S)) /\ DOMAIN uu = DOMAIN tt \cup {Len(tt) + 1}
        /\ uu[Len(tt) + 1] = s /\ \A k \in DOMAIN tt : uu[k] = tt[k]
    BY <2>0
  <2>3. ToSet(FlattenSeq(uu)) = ToSet(FlattenSeq(tt)) \cup ToSet(s)
    BY <2>1
  <2> HIDE DEF uu
  <2>4. UNION {ToSet(uu[k]) : k \in DOMAIN uu}
          = (UNION {ToSet(tt[k]) : k \in DOMAIN tt}) \cup ToSet(s)
    <3>1. ASSUME NEW k \in DOMAIN tt PROVE k \in DOMAIN uu /\ ToSet(uu[k]) = ToSet(tt[k])
      BY <2>2
    <3>2. Len(tt) + 1 \in DOMAIN uu /\ ToSet(uu[Len(tt) + 1]) = ToSet(s)
      BY <2>2
    <3>3. ASSUME NEW k \in DOMAIN uu PROVE k \in DOMAIN tt \/ k = Len(tt) + 1
      BY <2>2
    <3> QED
      BY <3>1, <3>2, <3>3
  <2> QED
    BY <2>0, <2>2, <2>3, <2>4 DEF uu, P
<1>3. P \in SUBSET Seq(Seq(S))
  OBVIOUS
<1> HIDE DEF P
<1>4. P = Seq(Seq(S))
  BY <1>1, <1>2, <1>3, SequenceInduction
<1> QED
  BY <1>4 DEF P

LEMMA IsSequence ==
  ASSUME NEW S, NEW n \in Nat, NEW f \in [1..n -> S]
  PROVE  f \in Seq(S) /\ Len(f) = n
OBVIOUS

LEMMA PairIsConcat ==
  ASSUME NEW S, NEW x \in S, NEW y \in S
  PROVE  <<x, y>> \in Seq(S) /\ <<x>> \o <<y>> = <<x, y>>
<1> DEFINE u == <<x>>
           v == <<y>>
           w == <<x, y>>
<1>1. /\ u \in Seq(S) /\ v \in Seq(S) /\ Len(u) = 1 /\ Len(v) = 1
      /\ u[1] = x /\ v[1] = y
  OBVIOUS
<1>2. w \in Seq(S) /\ Len(w) = 2 /\ w[1] = x /\ w[2] = y
  OBVIOUS
<1> HIDE DEF u, v, w
<1>3. /\ u \o v \in Seq(S) /\ Len(u \o v) = Len(u) + Len(v)
      /\ \A i \in 1..(Len(u) + Len(v)) :
           (u \o v)[i] = IF i <= Len(u) THEN u[i] ELSE v[i - Len(u)]
  BY <1>1, ConcatProperties
<1>4. Len(u \o v) = 2 /\ (u \o v)[1] = x /\ (u \o v)[2] = y
  BY <1>1, <1>3
<1>5. \A i \in 1..2 : w[i] = (u \o v)[i]
  BY <1>2, <1>4
<1>6. w = u \o v
  BY <1>2, <1>3, <1>4, <1>5, SeqEqual
<1> QED
  BY <1>2, <1>6 DEF u, v, w

-----------------------------------------------------------------------------
(* Cutting a sequence at a place.                                          *)

LEMMA CutBefore ==
  ASSUME NEW S, NEW s \in Seq(S), NEW i \in 1..(Len(s) + 1)
  PROVE  /\ SubSeq(s, 1, i - 1) \in Seq(S) /\ SubSeq(s, i, Len(s)) \in Seq(S)
         /\ Len(SubSeq(s, 1, i - 1)) = i - 1
         /\ Len(SubSeq(s, i, Len(s))) = Len(s) - i + 1
         /\ \A k \in 1..(i - 1) : SubSeq(s, 1, i - 1)[k] = s[k]
         /\ \A k \in 1..(Len(s) - i + 1) : SubSeq(s, i, Len(s))[k] = s[i + k - 1]
         /\ s = SubSeq(s, 1, i - 1) \o SubSeq(s, i, Len(s))
<1>0. i \in Nat /\ i \in Int /\ i - 1 \in Int /\ Len(s) \in Nat /\ Len(s) \in Int
  OBVIOUS
<1>1. \A k \in 1..(i - 1) : s[k] \in S
  BY <1>0
<1>2. \A k \in i..Len(s) : s[k] \in S
  BY <1>0
<1>3. /\ SubSeq(s, 1, i - 1) \in Seq(S) /\ Len(SubSeq(s, 1, i - 1)) = i - 1
      /\ \A k \in 1..(i - 1) : SubSeq(s, 1, i - 1)[k] = s[k]
  BY <1>0, <1>1, SubSeqProperties
<1>4. /\ SubSeq(s, i, Len(s)) \in Seq(S)
      /\ Len(SubSeq(s, i, Len(s))) = Len(s) - i + 1
      /\ \A k \in 1..(Len(s) - i + 1) : SubSeq(s, i, Len(s))[k] = s[i + k - 1]
  BY <1>0, <1>2, SubSeqProperties
<1>5. s = SubSeq(s, 1, i - 1) \o SubSeq(s, i, Len(s))
  <2>1. /\ 1 \in 1..(Len(s) + 1) /\ i - 1 \in (1 - 1)..Len(s)
        /\ Len(s) \in (i - 1)..Len(s) /\ (i - 1) + 1 = i
    BY <1>0
  <2>2. SubSeq(s, 1, i - 1) \o SubSeq(s, (i - 1) + 1, Len(s)) = SubSeq(s, 1, Len(s))
    BY <2>1, ConcatAdjacentSubSeq
  <2> QED
    BY <2>1, <2>2, SubSeqFull
<1> QED
  BY <1>3, <1>4, <1>5

LEMMA CutAt ==
  ASSUME NEW S, NEW s \in Seq(S), NEW i \in DOMAIN s
  PROVE  /\ SubSeq(s, 1, i - 1) \in Seq(S) /\ SubSeq(s, i + 1, Len(s)) \in Seq(S)
         /\ s = SubSeq(s, 1, i - 1) \o <<s[i]>> \o SubSeq(s, i + 1, Len(s))
         /\ s[i] \in S /\ <<s[i]>> \in Seq(S)
<1>0. i \in 1..Len(s) /\ i \in 1..(Len(s) + 1) /\ i + 1 \in 1..(Len(s) + 1)
      /\ (i + 1) - 1 = i /\ Len(s) \in i..Len(s) /\ i \in Nat
  OBVIOUS
<1>1. /\ SubSeq(s, 1, i - 1) \in Seq(S) /\ SubSeq(s, i + 1, Len(s)) \in Seq(S)
      /\ SubSeq(s, 1, i) \in Seq(S)
      /\ s = SubSeq(s, 1, i) \o SubSeq(s, i + 1, Len(s))
  BY <1>0, CutBefore
<1>2. SubSeq(s, 1, i) = SubSeq(s, 1, i - 1) \o <<s[i]>>
  <2>1. 1 \in 1..Len(s) /\ i \in 1..Len(s)
    BY <1>0
  <2> QED
    BY <2>1, SubSeqRecursiveSecond
<1>3. s[i] \in S /\ <<s[i]>> \in Seq(S)
  BY <1>0
<1> QED
  BY <1>1, <1>2, <1>3

LEMMA ReplaceIsCut ==
  ASSUME NEW S, NEW s \in Seq(S), NEW i \in DOMAIN s, NEW x \in S
  PROVE  [s EXCEPT ![i] = x]
           = SubSeq(s, 1, i - 1) \o <<x>> \o SubSeq(s, i + 1, Len(s))
<1> DEFINE t == [s EXCEPT ![i] = x]
<1>1. /\ t \in Seq(S) /\ Len(t) = Len(s) /\ i \in DOMAIN t /\ t[i] = x
      /\ \A j \in 1..Len(s) : j # i => t[j] = s[j]
  BY ExceptSeq
<1> HIDE DEF t
<1>2. t = SubSeq(t, 1, i - 1) \o <<t[i]>> \o SubSeq(t, i + 1, Len(t))
  BY <1>1, CutAt
<1>3. i \in Nat /\ i - 1 \in Nat /\ i \in 1..(Len(s) + 1) /\ i + 1 \in 1..(Len(s) + 1)
      /\ (i + 1) - 1 = i /\ i \in 1..Len(s)
  OBVIOUS
<1>4. SubSeq(t, 1, i - 1) = SubSeq(s, 1, i - 1)
  <2>1. /\ SubSeq(t, 1, i - 1) \in Seq(S) /\ Len(SubSeq(t, 1, i - 1)) = i - 1
        /\ \A k \in 1..(i - 1) : SubSeq(t, 1, i - 1)[k] = t[k]
    BY <1>1, <1>3, CutBefore
  <2>2. /\ SubSeq(s, 1, i - 1) \in Seq(S) /\ Len(SubSeq(s, 1, i - 1)) = i - 1
        /\ \A k \in 1..(i - 1) : SubSeq(s, 1, i - 1)[k] = s[k]
    BY <1>3, CutBefore
  <2>3. ASSUME NEW k \in 1..(i - 1) PROVE t[k] = s[k]
    <3>1. k \in 1..Len(s) /\ k # i
      BY <1>3
    <3> QED
      BY <1>1, <3>1
  <2> QED
    BY <2>1, <2>2, <2>3, SeqEqual
<1>5. SubSeq(t, i + 1, Len(t)) = SubSeq(s, i + 1, Len(s))
  <2> DEFINE u == SubSeq(t, i + 1, Len(t))
             v == SubSeq(s, i + 1, Len(s))
  <2>1. /\ u \in Seq(S) /\ Len(u) = Len(s) - (i + 1) + 1
        /\ \A k \in 1..(Len(s) - (i + 1) + 1) : u[k] = t[(i + 1) + k - 1]
    BY <1>1, <1>3, CutBefore
  <2>2. /\ v \in Seq(S) /\ Len(v) = Len(s) - (i + 1) + 1
        /\ \A k \in 1..(Len(s) - (i + 1) + 1) : v[k] = s[(i + 1) + k - 1]
    BY <1>3, CutBefore
  <2> HIDE DEF u, v
  <2>3. ASSUME NEW k \in 1..Len(u) PROVE u[k] = v[k]
    <3>1. (i + 1) + k - 1 \in 1..Len(s) /\ (i + 1) + k - 1 # i
      <4>1. i \in Nat /\ k \in Nat /\ Len(s) \in Nat /\ 1 <= k /\ 1 <= i
        BY <1>3
      <4>2. k <= Len(s) - (i + 1) + 1
        BY <2>1
      <4> QED
        BY <4>1, <4>2
    <3> QED
      BY <1>1, <2>1, <2>2, <3>1
  <2>4. u = v
    BY <2>1, <2>2, <2>3, SeqEqual
  <2> QED
    BY <2>4 DEF u, v
<1> QED
  BY <1>1, <1>2, <1>4, <1>5 DEF t

-----------------------------------------------------------------------------
(* Each element gives a sequence, and these are flattened.                 *)

SeqMaps(S, R) == [S -> Seq(R)]
Parts(g, s) == [i \in DOMAIN s |-> g[s[i]]]
FlatMap(g, s) == FlattenSeq(Parts(g, s))

LEMMA FlatMapParts ==
  ASSUME NEW S, NEW R, NEW g \in SeqMaps(S, R), NEW s \in Seq(S)
  PROVE  /\ Parts(g, s) \in Seq(Seq(R)) /\ Len(Parts(g, s)) = Len(s)
         /\ \A i \in DOMAIN s : Parts(g, s)[i] = g[s[i]]
<1>1. DOMAIN s = 1..Len(s) /\ Len(s) \in Nat /\ \A i \in 1..Len(s) : s[i] \in S
  OBVIOUS
<1>2. Parts(g, s) \in [1..Len(s) -> Seq(R)]
  BY <1>1 DEF Parts, SeqMaps
<1>3. Parts(g, s) \in Seq(Seq(R)) /\ Len(Parts(g, s)) = Len(s)
  BY <1>1, <1>2, IsSequence
<1> QED
  BY <1>3 DEF Parts

LEMMA FlatMapType ==
  ASSUME NEW S, NEW R, NEW g \in SeqMaps(S, R), NEW s \in Seq(S)
  PROVE  FlatMap(g, s) \in Seq(R)
BY FlatMapParts, FlattenType DEF FlatMap

LEMMA FlatMapEmpty ==
  ASSUME NEW g PROVE FlatMap(g, <<>>) = <<>>
<1>1. Parts(g, <<>>) = <<>>
  BY DEF Parts
<1> QED
  BY <1>1, FlattenEmpty DEF FlatMap

LEMMA FlatMapOne ==
  ASSUME NEW S, NEW R, NEW g \in SeqMaps(S, R), NEW x \in S
  PROVE  FlatMap(g, <<x>>) = g[x]
<1>1. Parts(g, <<x>>) = <<g[x]>>
  BY DEF Parts
<1>2. g[x] \in Seq(R)
  BY DEF SeqMaps
<1> QED
  BY <1>1, <1>2, FlattenOne DEF FlatMap

LEMMA FlatMapConcat ==
  ASSUME NEW S, NEW R, NEW g \in SeqMaps(S, R), NEW s \in Seq(S), NEW t \in Seq(S)
  PROVE  FlatMap(g, s \o t) = FlatMap(g, s) \o FlatMap(g, t)
<1> DEFINE st == s \o t
           u == Parts(g, s)
           v == Parts(g, t)
           w == Parts(g, st)
<1>0. /\ st \in Seq(S) /\ Len(st) = Len(s) + Len(t)
      /\ \A i \in 1..(Len(s) + Len(t)) :
           st[i] = IF i <= Len(s) THEN s[i] ELSE t[i - Len(s)]
  BY ConcatProperties
<1> HIDE DEF st
<1>1. ASSUME NEW a \in Seq(S)
      PROVE  /\ Parts(g, a) \in Seq(Seq(R)) /\ Len(Parts(g, a)) = Len(a)
             /\ \A i \in DOMAIN a : Parts(g, a)[i] = g[a[i]]
  BY FlatMapParts
<1>2. /\ u \in Seq(Seq(R)) /\ Len(u) = Len(s)
      /\ v \in Seq(Seq(R)) /\ Len(v) = Len(t)
      /\ w \in Seq(Seq(R)) /\ Len(w) = Len(st)
      /\ \A i \in DOMAIN s : u[i] = g[s[i]]
      /\ \A i \in DOMAIN t : v[i] = g[t[i]]
      /\ \A i \in DOMAIN st : w[i] = g[st[i]]
  BY <1>0, <1>1
<1>3. FlatMap(g, s) = FlattenSeq(u) /\ FlatMap(g, t) = FlattenSeq(v)
      /\ FlatMap(g, st) = FlattenSeq(w)
  BY DEF FlatMap
<1> HIDE DEF u, v, w
<1>4. /\ u \o v \in Seq(Seq(R)) /\ Len(u \o v) = Len(u) + Len(v)
      /\ \A i \in 1..(Len(u) + Len(v)) :
           (u \o v)[i] = IF i <= Len(u) THEN u[i] ELSE v[i - Len(u)]
  <2>1. u \in Seq(Seq(R)) /\ v \in Seq(Seq(R))
    BY <1>2
  <2> QED
    BY <2>1, ConcatProperties
<1>5. ASSUME NEW i \in 1..Len(w) PROVE w[i] = (u \o v)[i]
  <2>1. i \in DOMAIN st /\ i \in 1..(Len(s) + Len(t)) /\ i \in 1..(Len(u) + Len(v))
    BY <1>0, <1>2
  <2>2. w[i] = g[st[i]]
    BY <1>2, <2>1
  <2>3. CASE i <= Len(s)
    <3>1. i \in DOMAIN s
      BY <2>1, <2>3
    <3>2. st[i] = s[i] /\ u[i] = g[s[i]] /\ (u \o v)[i] = u[i]
      BY <1>0, <1>2, <1>4, <2>1, <2>3, <3>1
    <3> QED
      BY <2>2, <3>2
  <2>4. CASE ~ (i <= Len(s))
    <3>1. i - Len(s) \in DOMAIN t
      BY <2>1, <2>4
    <3>2. st[i] = t[i - Len(s)] /\ v[i - Len(s)] = g[t[i - Len(s)]]
          /\ (u \o v)[i] = v[i - Len(s)]
      BY <1>0, <1>2, <1>4, <2>1, <2>4, <3>1
    <3> QED
      BY <2>2, <3>2
  <2> QED
    BY <2>3, <2>4
<1>6. w = u \o v
  <2>1. w \in Seq(Seq(R)) /\ u \o v \in Seq(Seq(R))
    BY <1>2, <1>4
  <2>2. Len(w) = Len(u \o v)
    BY <1>0, <1>2, <1>4
  <2> QED
    BY <1>5, <2>1, <2>2, SeqEqual
<1>7. FlattenSeq(u \o v) = FlattenSeq(u) \o FlattenSeq(v)
  BY <1>2, FlattenConcat
<1> QED
  BY <1>3, <1>6, <1>7 DEF st

LEMMA FlatMapElements ==
  ASSUME NEW S, NEW R, NEW g \in SeqMaps(S, R), NEW s \in Seq(S)
  PROVE  \A x : x \in ToSet(FlatMap(g, s))
                  <=> \E k \in DOMAIN s : x \in ToSet(g[s[k]])
<1>1. /\ Parts(g, s) \in Seq(Seq(R)) /\ DOMAIN Parts(g, s) = DOMAIN s
      /\ \A k \in DOMAIN s : Parts(g, s)[k] = g[s[k]]
  <2>1. /\ Parts(g, s) \in Seq(Seq(R)) /\ Len(Parts(g, s)) = Len(s)
        /\ \A i \in DOMAIN s : Parts(g, s)[i] = g[s[i]]
    BY FlatMapParts
  <2> QED
    BY <2>1
<1>2. ToSet(FlatMap(g, s)) = UNION {ToSet(Parts(g, s)[k]) : k \in DOMAIN Parts(g, s)}
  BY <1>1, FlattenElements DEF FlatMap
<1> QED
  BY <1>1, <1>2

-----------------------------------------------------------------------------
(* Selecting.                                                              *)

Picks(S, T) == [x \in S |-> IF x \in T THEN <<x>> ELSE <<>>]

LEMMA SelectIsFlatMap ==
  ASSUME NEW S, NEW s \in Seq(S), NEW T
  PROVE  /\ Picks(S, T) \in SeqMaps(S, S)
         /\ Select(s, T) = FlatMap(Picks(S, T), s)
<1>1. \A x \in S : (IF x \in T THEN <<x>> ELSE <<>>) \in Seq(S)
  OBVIOUS
<1>2. Picks(S, T) \in SeqMaps(S, S)
  BY <1>1 DEF Picks, SeqMaps
<1>3. \A i \in DOMAIN s : s[i] \in S
  OBVIOUS
<1>4. Parts(Picks(S, T), s)
        = [i \in DOMAIN s |-> IF s[i] \in T THEN <<s[i]>> ELSE <<>>]
  BY <1>3 DEF Picks, Parts
<1> QED
  BY <1>2, <1>4 DEF Select, FlatMap

LEMMA SelectType ==
  ASSUME NEW S, NEW s \in Seq(S), NEW T
  PROVE  Select(s, T) \in Seq(S)
BY SelectIsFlatMap, FlatMapType

LEMMA SelectEmpty ==
  ASSUME NEW T PROVE Select(<<>>, T) = <<>>
<1>1. [i \in DOMAIN <<>> |-> IF <<>>[i] \in T THEN <<<<>>[i]>> ELSE <<>>] = <<>>
  OBVIOUS
<1> QED
  BY <1>1, FlattenEmpty DEF Select

LEMMA SelectOne ==
  ASSUME NEW S, NEW x \in S, NEW T
  PROVE  Select(<<x>>, T) = IF x \in T THEN <<x>> ELSE <<>>
<1> DEFINE y == <<x>>
<1>1. y \in Seq(S)
  OBVIOUS
<1>2. Select(y, T) = FlatMap(Picks(S, T), y) /\ Picks(S, T) \in SeqMaps(S, S)
  <2> HIDE DEF y
  <2> QED
    BY <1>1, SelectIsFlatMap
<1>3. FlatMap(Picks(S, T), y) = Picks(S, T)[x]
  BY <1>2, FlatMapOne
<1> QED
  BY <1>2, <1>3 DEF Picks

LEMMA SelectConcat ==
  ASSUME NEW S, NEW s \in Seq(S), NEW t \in Seq(S), NEW T
  PROVE  Select(s \o t, T) = Select(s, T) \o Select(t, T)
<1> DEFINE st == s \o t
<1>1. st \in Seq(S)
  BY ConcatProperties
<1> DEFINE g == Picks(S, T)
<1>2. /\ g \in SeqMaps(S, S)
      /\ Select(s, T) = FlatMap(g, s) /\ Select(t, T) = FlatMap(g, t)
  BY SelectIsFlatMap
<1> HIDE DEF st
<1>3. Select(st, T) = FlatMap(g, st)
  BY <1>1, SelectIsFlatMap
<1> HIDE DEF g
<1>4. FlatMap(g, s \o t) = FlatMap(g, s) \o FlatMap(g, t)
  BY <1>2, FlatMapConcat
<1> QED
  BY <1>2, <1>3, <1>4 DEF st

LEMMA SelectAppend ==
  ASSUME NEW S, NEW s \in Seq(S), NEW x \in S, NEW T
  PROVE  Select(Append(s, x), T)
           = IF x \in T THEN Append(Select(s, T), x) ELSE Select(s, T)
<1>1. Append(s, x) = s \o <<x>> /\ <<x>> \in Seq(S)
  BY AppendIsConcat
<1> DEFINE y == <<x>>
<1>2. Select(Append(s, x), T) = Select(s, T) \o Select(<<x>>, T)
  <2>1. y \in Seq(S) /\ Append(s, x) = s \o y
    BY <1>1
  <2> HIDE DEF y
  <2>2. Select(s \o y, T) = Select(s, T) \o Select(y, T)
    BY <2>1, SelectConcat, SMTT(30)
  <2> QED
    BY <2>1, <2>2 DEF y
<1>3. Select(s, T) \in Seq(S)
  BY SelectType
<1>4. Select(s, T) \o <<>> = Select(s, T)
      /\ Select(s, T) \o <<x>> = Append(Select(s, T), x)
  BY <1>3, ConcatEmptySeq, AppendIsConcat
<1> QED
  BY <1>2, <1>4, SelectOne

LEMMA SelectElements ==
  ASSUME NEW S, NEW s \in Seq(S), NEW T
  PROVE  ToSet(Select(s, T)) = ToSet(s) \cap T
<1> DEFINE g == Picks(S, T)
<1>1. g \in SeqMaps(S, S) /\ Select(s, T) = FlatMap(g, s)
  BY SelectIsFlatMap
<1>2. ASSUME NEW k \in DOMAIN s
      PROVE  ToSet(g[s[k]]) = IF s[k] \in T THEN {s[k]} ELSE {}
  <2>1. ToSet(<<s[k]>>) = {s[k]} /\ ToSet(<<>>) = {} /\ s[k] \in S
    BY ToSetOne, ToSetEmpty
  <2> QED
    BY <2>1 DEF Picks
<1> HIDE DEF g
<1>3. \A x : x \in ToSet(FlatMap(g, s))
               <=> \E k \in DOMAIN s : x \in ToSet(g[s[k]])
  BY <1>1, FlatMapElements
<1>4. \A x : x \in ToSet(s) <=> \E k \in DOMAIN s : x = s[k]
  BY DEF ToSet
<1>5. ASSUME NEW x PROVE x \in ToSet(Select(s, T)) <=> x \in ToSet(s) \cap T
  <2>1. ASSUME NEW k \in DOMAIN s
        PROVE  x \in ToSet(g[s[k]]) <=> x = s[k] /\ x \in T
    BY <1>2
  <2> QED
    BY <1>1, <1>3, <1>4, <2>1
<1> QED
  BY <1>5

LEMMA SelectAll ==
  ASSUME NEW S, NEW s \in Seq(S), NEW T, ToSet(s) \subseteq T
  PROVE  Select(s, T) = s
<1> DEFINE P == {t \in Seq(S) : ToSet(t) \subseteq T => Select(t, T) = t}
<1>1. <<>> \in P
  BY SelectEmpty
<1>2. ASSUME NEW t \in P, NEW x \in S PROVE Append(t, x) \in P
  <2>1. t \in Seq(S) /\ (ToSet(t) \subseteq T => Select(t, T) = t)
    OBVIOUS
  <2>2. Append(t, x) \in Seq(S) /\ <<x>> \in Seq(S) /\ Append(t, x) = t \o <<x>>
    BY <2>1
  <2>3. ToSet(Append(t, x)) = ToSet(t) \cup ToSet(<<x>>) /\ ToSet(<<x>>) = {x}
    <3> DEFINE y == <<x>>
    <3>1. y \in Seq(S) /\ ToSet(y) = {x} /\ Append(t, x) = t \o y
      BY <2>2, ToSetOne
    <3> HIDE DEF y
    <3>2. ToSet(t \o y) = ToSet(t) \cup ToSet(y)
      BY <2>1, <3>1, ToSetConcat
    <3> QED
      BY <3>1, <3>2 DEF y
  <2>4. Select(Append(t, x), T)
           = IF x \in T THEN Append(Select(t, T), x) ELSE Select(t, T)
    BY <2>1, SelectAppend
  <2>5. ASSUME ToSet(Append(t, x)) \subseteq T
        PROVE  Select(Append(t, x), T) = Append(t, x)
    BY <2>1, <2>3, <2>4, <2>5
  <2> QED
    BY <2>2, <2>5
<1>3. P \in SUBSET Seq(S)
  OBVIOUS
<1> HIDE DEF P
<1>4. P = Seq(S)
  BY <1>1, <1>2, <1>3, SequenceInduction
<1> QED
  BY <1>4 DEF P

LEMMA SelectNone ==
  ASSUME NEW S, NEW s \in Seq(S), NEW T, ToSet(s) \cap T = {}
  PROVE  Select(s, T) = <<>>
<1>1. ToSet(Select(s, T)) = {} /\ Select(s, T) \in Seq(S)
  BY SelectElements, SelectType
<1>2. DOMAIN Select(s, T) = {}
  BY <1>1 DEF ToSet
<1> QED
  BY <1>1, <1>2

LEMMA SelectSelect ==
  ASSUME NEW S, NEW s \in Seq(S), NEW T, NEW U
  PROVE  Select(Select(s, T), U) = Select(s, T \cap U)
<1> DEFINE P == {t \in Seq(S) : Select(Select(t, T), U) = Select(t, T \cap U)}
<1>1. <<>> \in P
  BY SelectEmpty
<1>2. ASSUME NEW t \in P, NEW x \in S PROVE Append(t, x) \in P
  <2>1. /\ t \in Seq(S) /\ Select(Select(t, T), U) = Select(t, T \cap U)
        /\ Select(t, T) \in Seq(S) /\ Append(t, x) \in Seq(S)
    BY SelectType
  <2>2. Select(Append(t, x), T)
          = IF x \in T THEN Append(Select(t, T), x) ELSE Select(t, T)
    BY <2>1, SelectAppend
  <2>3. Select(Append(Select(t, T), x), U)
          = IF x \in U THEN Append(Select(Select(t, T), U), x)
                       ELSE Select(Select(t, T), U)
    <3>1. PICK r : r = Select(t, T)
      OBVIOUS
    <3>2. r \in Seq(S)
      BY <2>1, <3>1
    <3>3. Select(Append(r, x), U) = IF x \in U THEN Append(Select(r, U), x) ELSE Select(r, U)
      BY <3>2, SelectAppend
    <3> QED
      BY <3>1, <3>3
  <2>4. Select(Append(t, x), T \cap U)
          = IF x \in T \cap U THEN Append(Select(t, T \cap U), x)
                              ELSE Select(t, T \cap U)
    BY <2>1, SelectAppend
  <2> HIDE DEF P
  <2>5. Select(Select(Append(t, x), T), U) = Select(Append(t, x), T \cap U)
    <3>1. CASE x \in T /\ x \in U
      BY <2>1, <2>2, <2>3, <2>4, <3>1
    <3>3. CASE x \in T /\ x \notin U
      BY <2>1, <2>2, <2>3, <2>4, <3>3
    <3>2. CASE x \notin T
      BY <2>1, <2>2, <2>4, <3>2
    <3> QED
      BY <3>1, <3>2, <3>3
  <2> QED
    BY <2>1, <2>5 DEF P
<1>3. P \in SUBSET Seq(S)
  OBVIOUS
<1> HIDE DEF P
<1>4. P = Seq(S)
  BY <1>1, <1>2, <1>3, SequenceInduction
<1> QED
  BY <1>4 DEF P

(* Only what is in the sequence matters.                                   *)
LEMMA SelectSame ==
  ASSUME NEW S, NEW s \in Seq(S), NEW T, NEW U,
         ToSet(s) \cap T = ToSet(s) \cap U
  PROVE  Select(s, T) = Select(s, U)
<1>1. Select(s, ToSet(s)) = s
  BY SelectAll
<1>2. /\ Select(Select(s, ToSet(s)), T) = Select(s, ToSet(s) \cap T)
      /\ Select(Select(s, ToSet(s)), U) = Select(s, ToSet(s) \cap U)
  BY SelectSelect
<1> QED
  BY <1>1, <1>2

-----------------------------------------------------------------------------
(* The first of the sequences that is not empty begins the flattened one.  *)

LEMMA HeadConcat ==
  ASSUME NEW S, NEW s \in Seq(S), NEW t \in Seq(S), s # <<>>
  PROVE  s \o t # <<>> /\ Head(s \o t) = Head(s)
<1>1. /\ Len(s \o t) = Len(s) + Len(t) /\ s \o t \in Seq(S)
      /\ \A i \in 1..(Len(s) + Len(t)) :
           (s \o t)[i] = IF i <= Len(s) THEN s[i] ELSE t[i - Len(s)]
  BY ConcatProperties
<1>2. Len(s) \in Nat \ {0}
  BY EmptySeq
<1>3. (s \o t)[1] = s[1] /\ Len(s \o t) # 0
  BY <1>1, <1>2
<1> QED
  BY <1>1, <1>3

LEMMA FlattenNothing ==
  ASSUME NEW S, NEW ss \in Seq(Seq(S)), \A k \in DOMAIN ss : ss[k] = <<>>
  PROVE  FlattenSeq(ss) = <<>>
<1>1. ToSet(FlattenSeq(ss)) = UNION {ToSet(ss[k]) : k \in DOMAIN ss}
  BY FlattenElements
<1>2. ToSet(<<>>) = {}
  BY DEF ToSet
<1>3. ToSet(FlattenSeq(ss)) = {}
  BY <1>1, <1>2
<1>4. DOMAIN FlattenSeq(ss) = {} /\ FlattenSeq(ss) \in Seq(S)
  BY <1>3, FlattenType DEF ToSet
<1> QED
  BY <1>4

LEMMA FlattenHead ==
  ASSUME NEW S, NEW ss \in Seq(Seq(S)), NEW m \in DOMAIN ss,
         ss[m] # <<>>, \A k \in 1..(m - 1) : ss[k] = <<>>
  PROVE  FlattenSeq(ss) # <<>> /\ Head(FlattenSeq(ss)) = Head(ss[m])
<1> DEFINE p == SubSeq(ss, 1, m - 1)
           q == SubSeq(ss, m + 1, Len(ss))
<1>1. /\ p \in Seq(Seq(S)) /\ q \in Seq(Seq(S)) /\ ss[m] \in Seq(S)
      /\ <<ss[m]>> \in Seq(Seq(S))
      /\ ss = p \o <<ss[m]>> \o q
  BY CutAt
<1>2. FlattenSeq(p) = <<>>
  <2>1. m \in 1..(Len(ss) + 1)
    OBVIOUS
  <2>2. Len(p) = m - 1 /\ \A k \in 1..(m - 1) : p[k] = ss[k]
    BY <2>1, CutBefore
  <2>3. \A k \in DOMAIN p : p[k] = <<>>
    BY <1>1, <2>2
  <2> HIDE DEF p
  <2> QED
    BY <1>1, <2>3, FlattenNothing
<1> HIDE DEF p, q
<1>3. p \o <<ss[m]>> \in Seq(Seq(S))
  BY <1>1
<1>4. FlattenSeq(ss) = (FlattenSeq(p) \o FlattenSeq(<<ss[m]>>)) \o FlattenSeq(q)
  BY <1>1, <1>3, FlattenConcat
<1>5. FlattenSeq(<<ss[m]>>) = ss[m] /\ <<>> \o ss[m] = ss[m]
  BY <1>1, FlattenOne, ConcatEmptySeq
<1>6. FlattenSeq(ss) = ss[m] \o FlattenSeq(q)
  BY <1>2, <1>4, <1>5
<1> QED
  BY <1>1, <1>6, FlattenType, HeadConcat

-----------------------------------------------------------------------------
(* Sequences whose elements are told apart by a key.                       *)

Keys(s, key) == {key[x] : x \in ToSet(s)}
Distinct(s, key) == \A i, j \in DOMAIN s : key[s[i]] = key[s[j]] => i = j

LEMMA KeysConcat ==
  ASSUME NEW S, NEW s \in Seq(S), NEW t \in Seq(S), NEW key
  PROVE  Keys(s \o t, key) = Keys(s, key) \cup Keys(t, key)
<1>1. ToSet(s \o t) = ToSet(s) \cup ToSet(t)
  BY ToSetConcat
<1> QED
  BY <1>1 DEF Keys

LEMMA DistinctConcat ==
  ASSUME NEW S, NEW s \in Seq(S), NEW t \in Seq(S), NEW key
  PROVE  Distinct(s \o t, key)
           <=> /\ Distinct(s, key) /\ Distinct(t, key)
               /\ Keys(s, key) \cap Keys(t, key) = {}
<1> DEFINE u == s \o t
<1>1. /\ Len(s) \in Nat /\ Len(t) \in Nat /\ DOMAIN u = 1..(Len(s) + Len(t))
      /\ DOMAIN s = 1..Len(s) /\ DOMAIN t = 1..Len(t)
      /\ \A i \in 1..(Len(s) + Len(t)) :
           u[i] = IF i <= Len(s) THEN s[i] ELSE t[i - Len(s)]
  <2>1. /\ u \in Seq(S) /\ Len(u) = Len(s) + Len(t)
        /\ \A i \in 1..(Len(s) + Len(t)) :
             u[i] = IF i <= Len(s) THEN s[i] ELSE t[i - Len(s)]
    BY ConcatProperties
  <2> QED
    BY <2>1
<1> HIDE DEF u
<1>2. /\ \A i \in DOMAIN s : i \in DOMAIN u /\ u[i] = s[i]
      /\ \A j \in DOMAIN t : j + Len(s) \in DOMAIN u /\ u[j + Len(s)] = t[j]
  <2>1. ASSUME NEW i \in DOMAIN s PROVE i \in DOMAIN u /\ u[i] = s[i]
    <3>1. i \in 1..(Len(s) + Len(t)) /\ i <= Len(s)
      BY <1>1
    <3> QED
      BY <1>1, <3>1
  <2>2. ASSUME NEW j \in DOMAIN t
        PROVE  j + Len(s) \in DOMAIN u /\ u[j + Len(s)] = t[j]
    <3>1. j + Len(s) \in 1..(Len(s) + Len(t)) /\ ~ (j + Len(s) <= Len(s))
          /\ (j + Len(s)) - Len(s) = j
      BY <1>1
    <3> QED
      BY <1>1, <3>1
  <2> QED
    BY <2>1, <2>2
<1>3. ASSUME NEW k \in DOMAIN u
      PROVE  \/ k \in DOMAIN s
             \/ \E j \in DOMAIN t : k = j + Len(s)
  <2>1. ~ (k <= Len(s)) => k - Len(s) \in DOMAIN t /\ k = (k - Len(s)) + Len(s)
    BY <1>1
  <2> QED
    BY <1>1, <2>1
<1>4. \A j \in DOMAIN t : j + Len(s) \notin DOMAIN s
  BY <1>1
<1>5. \A i, j \in DOMAIN t : i + Len(s) = j + Len(s) => i = j
  BY <1>1
<1>6. ASSUME Distinct(u, key)
      PROVE  /\ Distinct(s, key) /\ Distinct(t, key)
             /\ Keys(s, key) \cap Keys(t, key) = {}
  <2>1. Distinct(s, key)
    BY <1>2, <1>6 DEF Distinct
  <2>2. Distinct(t, key)
    BY <1>2, <1>5, <1>6 DEF Distinct
  <2>3. ASSUME NEW i \in DOMAIN s, NEW j \in DOMAIN t PROVE key[s[i]] # key[t[j]]
    <3>1. /\ i \in DOMAIN u /\ u[i] = s[i] /\ i # j + Len(s)
          /\ j + Len(s) \in DOMAIN u /\ u[j + Len(s)] = t[j]
      BY <1>2, <1>4
    <3> QED
      BY <1>6, <3>1 DEF Distinct
  <2> QED
    BY <2>1, <2>2, <2>3 DEF Keys, ToSet
<1>7. ASSUME Distinct(s, key), Distinct(t, key), Keys(s, key) \cap Keys(t, key) = {}
      PROVE  Distinct(u, key)
  <2>1. \A i \in DOMAIN s, j \in DOMAIN t : key[s[i]] # key[t[j]]
    BY <1>7 DEF Keys, ToSet
  <2>2. ASSUME NEW k \in DOMAIN u, NEW l \in DOMAIN u, key[u[k]] = key[u[l]]
        PROVE  k = l
    <3>1. CASE k \in DOMAIN s /\ l \in DOMAIN s
      BY <1>2, <1>7, <2>2, <3>1 DEF Distinct
    <3>2. CASE k \in DOMAIN s /\ l \notin DOMAIN s
      BY <1>2, <1>3, <2>1, <2>2, <3>2
    <3>3. CASE k \notin DOMAIN s /\ l \in DOMAIN s
      BY <1>2, <1>3, <2>1, <2>2, <3>3
    <3>4. CASE k \notin DOMAIN s /\ l \notin DOMAIN s
      <4>1. PICK i \in DOMAIN t : k = i + Len(s)
        BY <1>3, <3>4
      <4>2. PICK j \in DOMAIN t : l = j + Len(s)
        BY <1>3, <3>4
      <4>3. i = j
        BY <1>2, <1>7, <2>2, <4>1, <4>2 DEF Distinct
      <4> QED
        BY <4>1, <4>2, <4>3
    <3> QED
      BY <3>1, <3>2, <3>3, <3>4
  <2> QED
    BY <2>2 DEF Distinct
<1> QED
  BY <1>6, <1>7 DEF u

LEMMA DistinctOne ==
  ASSUME NEW x, NEW key
  PROVE  Distinct(<<x>>, key) /\ Keys(<<x>>, key) = {key[x]}
<1>1. Distinct(<<x>>, key)
  BY DEF Distinct
<1> QED
  BY <1>1, ToSetOne DEF Keys

LEMMA SelectDistinct ==
  ASSUME NEW S, NEW s \in Seq(S), NEW T, NEW key, Distinct(s, key)
  PROVE  Distinct(Select(s, T), key)
<1> DEFINE P == {t \in Seq(S) : Distinct(t, key) => Distinct(Select(t, T), key)}
<1>1. <<>> \in P
  BY SelectEmpty
<1>2. ASSUME NEW t \in P, NEW x \in S PROVE Append(t, x) \in P
  <2> DEFINE y == <<x>>
  <2>1. /\ t \in Seq(S) /\ (Distinct(t, key) => Distinct(Select(t, T), key))
        /\ y \in Seq(S) /\ Append(t, x) = t \o y /\ Append(t, x) \in Seq(S)
        /\ Select(t, T) \in Seq(S)
    BY SelectType, AppendIsConcat
  <2>2. Select(y, T) = IF x \in T THEN y ELSE <<>>
    BY SelectOne
  <2> HIDE DEF y, P
  <2>3. Select(t \o y, T) = Select(t, T) \o Select(y, T)
    BY <2>1, SelectConcat, SMTT(30)
  <2>4. ASSUME Distinct(t \o y, key) PROVE Distinct(Select(t \o y, T), key)
    <3>1. /\ Distinct(t, key) /\ Distinct(y, key)
          /\ Keys(t, key) \cap Keys(y, key) = {}
      BY <2>1, <2>4, DistinctConcat
    <3>2. ToSet(Select(t, T)) \subseteq ToSet(t)
      BY <2>1, SelectElements
    <3>3. Keys(Select(t, T), key) \cap Keys(y, key) = {}
      BY <3>1, <3>2 DEF Keys
    <3>4. Distinct(Select(t, T) \o y, key)
      BY <2>1, <3>1, <3>3, DistinctConcat
    <3>5. Select(t, T) \o <<>> = Select(t, T)
      BY <2>1, ConcatEmptySeq
    <3> QED
      BY <2>1, <2>2, <2>3, <3>1, <3>4, <3>5
  <2> QED
    BY <2>1, <2>4 DEF P
<1>3. P \in SUBSET Seq(S)
  OBVIOUS
<1> HIDE DEF P
<1>4. P = Seq(S)
  BY <1>1, <1>2, <1>3, SequenceInduction
<1> QED
  BY <1>4 DEF P

-----------------------------------------------------------------------------
(* Inserting an element.                                                   *)

Inserted(s, i, x, t) ==
  \A k \in 1..(Len(s) + 1) :
    t[k] = IF k < i THEN s[k] ELSE IF k = i THEN x ELSE s[k - 1]

LEMMA InsertType ==
  ASSUME NEW S, NEW s \in Seq(S), NEW i \in 1..(Len(s) + 1), NEW x \in S
  PROVE  /\ InsertAt(s, i, x) \in Seq(S) /\ Len(InsertAt(s, i, x)) = Len(s) + 1
         /\ Inserted(s, i, x, InsertAt(s, i, x))
<1> DEFINE a == SubSeq(s, 1, i - 1)
           b == SubSeq(s, i, Len(s))
           y == <<x>>
<1>1. /\ a \in Seq(S) /\ b \in Seq(S) /\ Len(a) = i - 1 /\ Len(b) = Len(s) - i + 1
      /\ \A k \in 1..(i - 1) : a[k] = s[k]
      /\ \A k \in 1..(Len(s) - i + 1) : b[k] = s[i + k - 1]
  BY CutBefore
<1>2. y \in Seq(S) /\ Len(y) = 1 /\ y[1] = x
  OBVIOUS
<1>3. InsertAt(s, i, x) = (a \o y) \o b
  BY DEF InsertAt
<1>4. i \in Nat /\ 1 <= i /\ Len(s) \in Nat /\ i <= Len(s) + 1
  OBVIOUS
<1> HIDE DEF a, b, y
<1> DEFINE c == a \o y
<1>5. /\ c \in Seq(S) /\ Len(c) = i
      /\ \A k \in 1..i : c[k] = IF k < i THEN s[k] ELSE x
  <2>1. /\ c \in Seq(S) /\ Len(c) = Len(a) + Len(y)
        /\ \A k \in 1..(Len(a) + Len(y)) :
             c[k] = IF k <= Len(a) THEN a[k] ELSE y[k - Len(a)]
    BY <1>1, <1>2, ConcatProperties
  <2>2. ASSUME NEW k \in 1..i PROVE c[k] = IF k < i THEN s[k] ELSE x
    <3>1. k \in 1..(Len(a) + Len(y))
      BY <1>1, <1>2, <1>4
    <3>2. CASE k < i
      <4>1. k <= Len(a) /\ k \in 1..(i - 1)
        BY <1>1, <1>4, <3>2
      <4> QED
        BY <1>1, <2>1, <3>1, <3>2, <4>1
    <3>3. CASE ~ (k < i)
      <4>1. ~ (k <= Len(a)) /\ k - Len(a) = 1
        BY <1>1, <1>4, <3>3
      <4> QED
        BY <1>2, <2>1, <3>1, <3>3, <4>1
    <3> QED
      BY <3>2, <3>3
  <2> QED
    BY <1>1, <1>2, <1>4, <2>1, <2>2
<1> HIDE DEF c
<1>6. /\ c \o b \in Seq(S) /\ Len(c \o b) = Len(c) + Len(b)
      /\ \A k \in 1..(Len(c) + Len(b)) :
           (c \o b)[k] = IF k <= Len(c) THEN c[k] ELSE b[k - Len(c)]
  BY <1>1, <1>5, ConcatProperties
<1>7. Len(c) + Len(b) = Len(s) + 1
  BY <1>1, <1>4, <1>5
<1>8. ASSUME NEW k \in 1..(Len(s) + 1)
      PROVE  (c \o b)[k] = IF k < i THEN s[k] ELSE IF k = i THEN x ELSE s[k - 1]
  <2>1. CASE k <= i
    <3>1. k \in 1..i /\ k <= Len(c) /\ (~ (k < i) => k = i)
      BY <1>4, <1>5, <2>1
    <3>2. c[k] = IF k < i THEN s[k] ELSE x
      BY <1>5, <3>1
    <3>3. (c \o b)[k] = c[k]
      BY <1>6, <1>7, <3>1
    <3> QED
      BY <3>1, <3>2, <3>3
  <2>2. CASE ~ (k <= i)
    <3>1. /\ k - i \in 1..(Len(s) - i + 1) /\ ~ (k <= Len(c)) /\ ~ (k < i) /\ k # i
          /\ i + (k - i) - 1 = k - 1 /\ k - Len(c) = k - i
      BY <1>4, <1>5, <2>2
    <3>2. b[k - i] = s[k - 1]
      BY <1>1, <3>1
    <3>3. (c \o b)[k] = b[k - i]
      BY <1>6, <1>7, <3>1
    <3> QED
      BY <3>1, <3>2, <3>3
  <2> QED
    BY <2>1, <2>2
<1>9. Inserted(s, i, x, c \o b)
  BY <1>8 DEF Inserted
<1> QED
  BY <1>3, <1>6, <1>7, <1>9 DEF c

Pieces(S, s, i, x, a, b, y) ==
  /\ a \in Seq(S) /\ b \in Seq(S) /\ y \in Seq(S)
  /\ a \o y \in Seq(S) /\ s = a \o b
  /\ InsertAt(s, i, x) = (a \o y) \o b

LEMMA InsertParts ==
  ASSUME NEW S, NEW s \in Seq(S), NEW i \in 1..(Len(s) + 1), NEW x \in S
  PROVE  Pieces(S, s, i, x, SubSeq(s, 1, i - 1), SubSeq(s, i, Len(s)), <<x>>)
<1> DEFINE a == SubSeq(s, 1, i - 1)
           b == SubSeq(s, i, Len(s))
           y == <<x>>
<1>1. a \in Seq(S) /\ b \in Seq(S) /\ s = a \o b
  BY CutBefore
<1>2. y \in Seq(S)
  OBVIOUS
<1>3. InsertAt(s, i, x) = (a \o y) \o b
  BY DEF InsertAt
<1> HIDE DEF a, b, y
<1>4. a \o y \in Seq(S)
  BY <1>1, <1>2, ConcatProperties
<1> QED
  BY <1>1, <1>2, <1>3, <1>4 DEF Pieces, a, b, y

LEMMA InsertElements ==
  ASSUME NEW S, NEW s \in Seq(S), NEW i \in 1..(Len(s) + 1), NEW x \in S
  PROVE  ToSet(InsertAt(s, i, x)) = ToSet(s) \cup {x}
<1> DEFINE a == SubSeq(s, 1, i - 1)
           b == SubSeq(s, i, Len(s))
           y == <<x>>
<1>0. Pieces(S, s, i, x, a, b, y)
  BY InsertParts
<1>2. ToSet(y) = {x}
  BY ToSetOne
<1> HIDE DEF a, b, y
<1>1. /\ a \in Seq(S) /\ b \in Seq(S) /\ y \in Seq(S)
      /\ a \o y \in Seq(S) /\ s = a \o b
      /\ InsertAt(s, i, x) = (a \o y) \o b
  BY <1>0 DEF Pieces
<1>3. ToSet((a \o y) \o b) = ToSet(a \o y) \cup ToSet(b)
  <2>1. PICK ay : ay = a \o y
    OBVIOUS
  <2>2. ay \in Seq(S) /\ b \in Seq(S)
    BY <1>1, <2>1
  <2>3. ToSet(ay \o b) = ToSet(ay) \cup ToSet(b)
    BY <2>2, ToSetConcat
  <2> QED
    BY <2>1, <2>3
<1>4. ToSet(a \o y) = ToSet(a) \cup ToSet(y) /\ ToSet(a \o b) = ToSet(a) \cup ToSet(b)
  BY <1>1, ToSetConcat
<1> QED
  BY <1>1, <1>2, <1>3, <1>4

LEMMA InsertDistinct ==
  ASSUME NEW S, NEW s \in Seq(S), NEW i \in 1..(Len(s) + 1), NEW x \in S,
         NEW key, Distinct(s, key), key[x] \notin Keys(s, key)
  PROVE  Distinct(InsertAt(s, i, x), key)
<1> DEFINE a == SubSeq(s, 1, i - 1)
           b == SubSeq(s, i, Len(s))
           y == <<x>>
<1>0. Pieces(S, s, i, x, a, b, y)
  BY InsertParts
<1>2. Keys(y, key) = {key[x]} /\ Distinct(y, key)
  BY DistinctOne
<1> HIDE DEF a, b, y
<1>1. /\ a \in Seq(S) /\ b \in Seq(S) /\ y \in Seq(S)
      /\ a \o y \in Seq(S) /\ s = a \o b
      /\ InsertAt(s, i, x) = (a \o y) \o b
  BY <1>0 DEF Pieces
<1>3. /\ Distinct(a, key) /\ Distinct(b, key) /\ Keys(a, key) \cap Keys(b, key) = {}
  BY <1>1, DistinctConcat
<1>4. Keys(s, key) = Keys(a, key) \cup Keys(b, key)
  BY <1>1, KeysConcat
<1>5. Keys(a \o y, key) = Keys(a, key) \cup {key[x]}
  BY <1>1, <1>2, KeysConcat
<1>6. Keys(a, key) \cap Keys(y, key) = {}
  BY <1>2, <1>4
<1>7. Distinct(a \o y, key)
  BY <1>1, <1>2, <1>3, <1>6, DistinctConcat
<1>8. Keys(a \o y, key) \cap Keys(b, key) = {}
  BY <1>3, <1>4, <1>5
<1>9. Distinct((a \o y) \o b, key)
  BY <1>1, <1>3, <1>7, <1>8, DistinctConcat
<1> QED
  BY <1>1, <1>9

LEMMA SelectInsert ==
  ASSUME NEW S, NEW s \in Seq(S), NEW i \in 1..(Len(s) + 1), NEW x \in S,
         NEW T, x \notin T
  PROVE  Select(InsertAt(s, i, x), T) = Select(s, T)
<1> DEFINE a == SubSeq(s, 1, i - 1)
           b == SubSeq(s, i, Len(s))
           y == <<x>>
<1>0. Pieces(S, s, i, x, a, b, y)
  BY InsertParts
<1>2. Select(y, T) = <<>>
  BY SelectOne
<1> HIDE DEF a, b, y
<1>1. /\ a \in Seq(S) /\ b \in Seq(S) /\ y \in Seq(S)
      /\ a \o y \in Seq(S) /\ s = a \o b
      /\ InsertAt(s, i, x) = (a \o y) \o b
  BY <1>0 DEF Pieces
<1>3. Select((a \o y) \o b, T) = Select(a \o y, T) \o Select(b, T)
  <2> DEFINE c == a \o y
  <2>1. b \in Seq(S)
    BY <1>1
  <2>2. c \in Seq(S)
    BY <1>1
  <2> HIDE DEF c
  <2>3. Select(c \o b, T) = Select(c, T) \o Select(b, T)
    BY <2>1, <2>2, SelectConcat, SMTT(30)
  <2> QED
    BY <2>3 DEF c
<1>4. Select(a \o y, T) = Select(a, T) \o <<>>
  <2>1. a \in Seq(S) /\ y \in Seq(S)
    BY <1>1
  <2>2. Select(a \o y, T) = Select(a, T) \o Select(y, T)
    BY <2>1, SelectConcat, SMTT(30)
  <2> QED
    BY <1>2, <2>2
<1>5. Select(a, T) \in Seq(S)
  BY <1>1, SelectType
<1>6. Select(a, T) \o <<>> = Select(a, T)
  BY <1>5, ConcatEmptySeq
<1>7. Select(a \o b, T) = Select(a, T) \o Select(b, T)
  BY <1>1, SelectConcat, SMTT(30)
<1> QED
  BY <1>1, <1>3, <1>4, <1>6, <1>7

LEMMA AppendIsInsert ==
  ASSUME NEW S, NEW s \in Seq(S), NEW x \in S
  PROVE  Append(s, x) = InsertAt(s, Len(s) + 1, x)
<1> DEFINE y == <<x>>
           t == s \o y
<1>1. SubSeq(s, 1, (Len(s) + 1) - 1) = s
  <2>1. (Len(s) + 1) - 1 = Len(s)
    OBVIOUS
  <2>2. SubSeq(s, 1, Len(s)) = s
    BY SubSeqFull
  <2> QED
    BY <2>1, <2>2
<1>2. SubSeq(s, Len(s) + 1, Len(s)) = <<>>
  OBVIOUS
<1>3. Append(s, x) = t
  BY AppendIsConcat
<1>4. t \in Seq(S)
  OBVIOUS
<1>5. InsertAt(s, Len(s) + 1, x)
        = (SubSeq(s, 1, (Len(s) + 1) - 1) \o y) \o SubSeq(s, Len(s) + 1, Len(s))
  BY DEF InsertAt
<1>6. InsertAt(s, Len(s) + 1, x) = t \o <<>>
  BY <1>1, <1>2, <1>5
<1> HIDE DEF t
<1>7. t \o <<>> = t
  BY <1>4, ConcatEmptySeq
<1> QED
  BY <1>3, <1>6, <1>7
-----------------------------------------------------------------------------
(* The least of some numbers is one of them.                               *)
LEMMA MinOfSet ==
  ASSUME NEW S \in SUBSET Nat, S # {}
  PROVE  Min(S) \in S /\ \A k \in S : Min(S) <= k
<1>1. PICK m \in S : \A k \in S : ~ (<<k, m>> \in OpToRel(<, Nat))
  BY NatLessThanWellFounded, WFMin
<1>2. \A k \in S : ~ (k < m)
  BY <1>1 DEF OpToRel
<1>3. \A k \in S : m <= k
  BY <1>2
<1> QED
  BY <1>3 DEF Min

=============================================================================
