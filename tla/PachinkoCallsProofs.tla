------------------------ MODULE PachinkoCallsProofs ------------------------
(***************************************************************************)
(* Proofs about PachinkoCalls for any number of functions and any modules. *)
(***************************************************************************)
EXTENDS PachinkoCalls, TLAPS

(* The prize of a call is the id of the case that returns its callee, and  *)
(* only calls that have a prize are redirected.                            *)
PrizesMatch ==
  /\ \A c \in CallInsts : callPrizes[c] # NoPrize =>
       /\ callPrizes[c] + 1 \in 1..Len(cases)
       /\ cases[callPrizes[c] + 1] = Callee(c)
  /\ \A c \in redirected : callPrizes[c] # NoPrize

(* The switch has a case for every callee met so far, in that order.       *)
PrizeInv ==
  /\ PachinkoTypeOK /\ m \in Modules
  /\ Len(cases) = Len(mappedFuncs)
  /\ PrizesMatch

(* The pass starts with an empty switch.                                   *)
LEMMA PrizeInvInit == Init => PrizeInv
<1> SUFFICES ASSUME Init PROVE PrizeInv
  OBVIOUS
<1>1. m \in Modules /\ m \in Module
  BY ModulesAssumption DEF Init
<1>2. PachinkoTypeOK
  <2>1. 1 \in 1..(N + 1) /\ 1 \in 1..(MaxCalls + 1)
    BY NAssumption
  <2>2. callPrizes \in [CallInsts -> Nat \cup {NoPrize}]
    BY DEF Init
  <2>3. mappedFuncs \in Seq(Funcs) /\ cases \in Seq(Funcs)
    BY DEF Init
  <2> QED
    BY <1>1, <2>1, <2>2, <2>3 DEF Init, PachinkoTypeOK
<1>3. PrizesMatch
  BY DEF Init, PrizesMatch
<1> QED
  BY <1>1, <1>2, <1>3 DEF Init, PrizeInv

(* A new case goes behind the others and its id to the call it was made    *)
(* for; nothing else touches cases or prizes.                              *)
LEMMA PrizeInvStep == PrizeInv /\ [Next]_vars => PrizeInv'
<1> SUFFICES ASSUME PrizeInv, [Next]_vars PROVE PrizeInv'
  OBVIOUS
<1> USE DEF PrizeInv
<1>0. /\ m \in Module /\ N \in Nat /\ MaxCalls \in Nat
      /\ \A f \in Funcs : m.body[f] \in Seq(Funcs \cup {Unknown})
                          /\ Len(m.body[f]) \in 0..MaxCalls
  BY ModulesAssumption, NAssumption DEF Module
<1>1. CASE CreatePx \/ GetPxCrashes \/ EndCollect \/ Finish \/ RunAgain
  BY <1>1 DEF CreatePx, GetPxCrashes, EndCollect, Finish, RunAgain,
              PachinkoTypeOK, PrizesMatch, Callee
<1>2. CASE NextFunction
  BY <1>0, <1>2 DEF NextFunction, PachinkoTypeOK, PrizesMatch, Callee, Funcs
<1>3. CASE PassOver
  <2>1. inst' \in 1..(MaxCalls + 1)
    BY <1>0, <1>3 DEF PassOver, PachinkoTypeOK
  <2> QED
    BY <1>3, <2>1 DEF PassOver, PachinkoTypeOK, PrizesMatch, Callee
<1>4. CASE Award
  <2> DEFINE c == <<fn, inst>>
             g == Callee(c)
  <2>1. /\ fn \in Funcs /\ inst \in 1..MaxCalls /\ c \in CallInsts
        /\ g \in Funcs
    BY <1>0, <1>4 DEF Award, CallInsts, Candidate
  <2>2. /\ mappedFuncs' = Append(mappedFuncs, g)
        /\ cases' = Append(cases, g)
        /\ callPrizes' = [callPrizes EXCEPT ![c] = Len(mappedFuncs)]
        /\ inst' = inst + 1
        /\ UNCHANGED <<m, pxNode, phase, fn, redirected>>
    BY <1>4 DEF Award, PrizeId
  <2>3. /\ cases \in Seq(Funcs) /\ mappedFuncs \in Seq(Funcs)
        /\ callPrizes \in [CallInsts -> Nat \cup {NoPrize}]
    BY DEF PachinkoTypeOK
  <2>4. g = Callee(c)
    OBVIOUS
  <2> HIDE DEF g, c
  <2>5. /\ cases' \in Seq(Funcs) /\ mappedFuncs' \in Seq(Funcs)
        /\ Len(cases') = Len(cases) + 1 /\ Len(mappedFuncs') = Len(mappedFuncs) + 1
        /\ cases'[Len(cases) + 1] = g
        /\ \A i \in 1..Len(cases) : cases'[i] = cases[i]
    BY <2>1, <2>2, <2>3
  <2>6. callPrizes' \in [CallInsts -> Nat \cup {NoPrize}]
    BY <2>1, <2>2, <2>3
  <2>7. PachinkoTypeOK'
    BY <2>1, <2>2, <2>5, <2>6, <1>0 DEF PachinkoTypeOK
  <2>8. PrizesMatch'
    <3>1. \A d \in CallInsts : callPrizes'[d] # NoPrize =>
            /\ callPrizes'[d] + 1 \in 1..Len(cases')
            /\ cases'[callPrizes'[d] + 1] = Callee(d)'
      <4> SUFFICES ASSUME NEW d \in CallInsts, callPrizes'[d] # NoPrize
                   PROVE  /\ callPrizes'[d] + 1 \in 1..Len(cases')
                          /\ cases'[callPrizes'[d] + 1] = Callee(d)'
        OBVIOUS
      <4>1. Callee(d)' = Callee(d)
        BY <2>2 DEF Callee
      <4>2. CASE d = c
        BY <2>1, <2>2, <2>3, <2>4, <2>5, <4>1, <4>2
      <4>3. CASE d # c
        <5>1. callPrizes'[d] = callPrizes[d]
          BY <2>1, <2>2, <2>3, <4>3
        <5>2. callPrizes[d] + 1 \in 1..Len(cases) /\ cases[callPrizes[d] + 1] = Callee(d)
          BY <5>1 DEF PrizesMatch
        <5> QED
          BY <2>3, <2>5, <4>1, <5>1, <5>2
      <4> QED
        BY <4>2, <4>3
    <3>2. \A d \in redirected' : callPrizes'[d] # NoPrize
      <4>1. Len(mappedFuncs) # NoPrize
        BY <2>3, FreshAssumption
      <4>2. redirected \subseteq CallInsts
        BY DEF PachinkoTypeOK
      <4> QED
        BY <2>1, <2>2, <2>3, <4>1, <4>2 DEF PrizesMatch
    <3> QED
      BY <3>1, <3>2 DEF PrizesMatch
  <2> QED
    BY <2>2, <2>5, <2>7, <2>8
<1>5. ASSUME NEW c \in CallInsts, Redirect(c) PROVE PrizeInv'
  BY <1>5 DEF Redirect, PachinkoTypeOK, PrizesMatch, Callee
<1>6. CASE UNCHANGED vars
  BY <1>6 DEF vars, PachinkoTypeOK, PrizesMatch, Callee
<1> QED
  BY <1>1, <1>2, <1>3, <1>4, <1>5, <1>6 DEF Next, Crashed

(* Everything the pass holds has its type.                                 *)
THEOREM PachinkoTypeCorrect == Spec => []PachinkoTypeOK
<1>1. PrizeInv => PachinkoTypeOK
  BY DEF PrizeInv
<1> QED
  BY PrizeInvInit, PrizeInvStep, <1>1, PTL DEF Spec

(* However many calls and callees there are and in whatever order they are *)
(* redirected, every call still reaches its callee.                        *)
THEOREM CallsStayCorrect == Spec => []CallsReachTheirCallee
<1>1. PrizeInv => CallsReachTheirCallee
  <2> SUFFICES ASSUME PrizeInv, NEW c \in CallInsts, c \in redirected
               PROVE  Called(c) = Callee(c)
    BY DEF CallsReachTheirCallee, Called
  <2>1. /\ callPrizes[c] + 1 \in 1..Len(cases)
        /\ cases[callPrizes[c] + 1] = Callee(c)
    BY DEF PrizeInv, PrizesMatch
  <2>2. DOMAIN cases = 1..Len(cases)
    BY DEF PrizeInv, PachinkoTypeOK
  <2> QED
    BY <2>1, <2>2 DEF Called
<1> QED
  BY PrizeInvInit, PrizeInvStep, <1>1, PTL DEF Spec
-----------------------------------------------------------------------------
(* The calls in the order in which the pass comes to them.                 *)
Earlier(d, c) == d[1] < c[1] \/ (d[1] = c[1] /\ d[2] < c[2])

(* The calls in the functions the pass visits.                             *)
Collectable(c) == InModule(c) /\ Visited(c[1])

(* Every candidate that collecting has come past has a callee in the set,  *)
(* and a call with a prize is the first candidate with its callee.         *)
WalkInv ==
  /\ cases = mappedFuncs
  /\ phase \in {"rewrite", "done"} => fn = N + 1
  /\ \A c \in CallInsts :
       Collectable(c) /\ Candidate(c) /\ Earlier(c, <<fn, inst>>)
         => Mapped(Callee(c))
  /\ \A c \in CallInsts : callPrizes[c] # NoPrize =>
       /\ Visited(c[1]) /\ Candidate(c)
       /\ \A d \in CallInsts :
            Collectable(d) /\ Candidate(d) /\ Earlier(d, c)
              => Callee(d) # Callee(c)

(* Nothing has been met, no call has a prize.                              *)
LEMMA WalkInvInit == Init => WalkInv
<1> SUFFICES ASSUME Init PROVE WalkInv
  OBVIOUS
<1>1. \A c \in CallInsts : ~ Earlier(c, <<fn, inst>>)
  BY DEF Init, Earlier, CallInsts, Funcs
<1>2. \A c \in CallInsts : callPrizes[c] = NoPrize
  BY DEF Init
<1> QED
  BY <1>1, <1>2 DEF Init, WalkInv

(* What is true of a call for good: the module does not change.            *)
LEMMA SameModule ==
  ASSUME m' = m, NEW c
  PROVE  /\ Callee(c)' = Callee(c) /\ Visited(c[1])' = Visited(c[1])
         /\ Candidate(c)' = Candidate(c) /\ Collectable(c)' = Collectable(c)
BY DEF Callee, Visited, Candidate, Collectable, InModule

(* The next function is gone to when no call of this one is left; a call   *)
(* is gone past when it is no candidate, its callee is there already, or   *)
(* it has just been put there.                                             *)
LEMMA WalkInvStep == PrizeInv /\ WalkInv /\ [Next]_vars => WalkInv'
<1> SUFFICES ASSUME PrizeInv, WalkInv, [Next]_vars PROVE WalkInv'
  OBVIOUS
<1>0. /\ fn \in 1..(N + 1) /\ inst \in 1..(MaxCalls + 1) /\ N \in Nat
      /\ MaxCalls \in Nat /\ mappedFuncs \in Seq(Funcs)
      /\ callPrizes \in [CallInsts -> Nat \cup {NoPrize}]
  BY NAssumption DEF PrizeInv, PachinkoTypeOK
<1>1. CASE CreatePx \/ GetPxCrashes \/ EndCollect \/ Finish \/ RunAgain
  <2>1. UNCHANGED <<m, fn, inst, mappedFuncs, cases, callPrizes>>
    BY <1>1 DEF CreatePx, GetPxCrashes, EndCollect, Finish, RunAgain
  <2>2. phase' \in {"rewrite", "done"} => fn = N + 1
    BY <1>1 DEF CreatePx, GetPxCrashes, EndCollect, Finish, RunAgain, WalkInv
  <2> QED
    BY <2>1, <2>2, SameModule DEF WalkInv, Mapped
<1>2. CASE NextFunction
  <2>1. /\ phase = "collect" /\ fn \in Funcs /\ fn' = fn + 1 /\ inst' = 1
        /\ Visited(fn) => inst > Len(m.body[fn])
        /\ UNCHANGED <<m, phase, mappedFuncs, cases, callPrizes>>
    BY <1>2 DEF NextFunction
  <2>2. ASSUME NEW c \in CallInsts, Collectable(c), Earlier(c, <<fn + 1, 1>>)
        PROVE  Earlier(c, <<fn, inst>>)
    <3>0. c[1] \in 1..N /\ c[2] \in 1..MaxCalls
      BY DEF CallInsts, Funcs
    <3>1. c[1] < fn + 1 \/ (c[1] = fn + 1 /\ c[2] < 1)
      BY <2>2 DEF Earlier
    <3>2. c[1] < fn \/ c[1] = fn
      BY <1>0, <3>0, <3>1
    <3>3. c[1] = fn => c[2] < inst
      BY <1>0, <2>1, <2>2, <3>0 DEF Collectable, InModule
    <3> QED
      BY <3>2, <3>3 DEF Earlier
  <2> QED
    BY <2>1, <2>2, SameModule DEF WalkInv, Mapped
<1>3. ASSUME fn \in Funcs, inst \in 1..MaxCalls, fn' = fn, inst' = inst + 1,
             NEW c \in CallInsts, Earlier(c, <<fn', inst'>>)
      PROVE  Earlier(c, <<fn, inst>>) \/ c = <<fn, inst>>
  <2>1. c[1] \in 1..N /\ c[2] \in 1..MaxCalls /\ c = <<c[1], c[2]>>
    BY DEF CallInsts, Funcs
  <2>2. c[1] < fn \/ (c[1] = fn /\ c[2] < inst + 1)
    BY <1>3 DEF Earlier
  <2>3. c[1] < fn \/ (c[1] = fn /\ c[2] < inst) \/ (c[1] = fn /\ c[2] = inst)
    BY <1>0, <2>1, <2>2
  <2> QED
    BY <2>1, <2>3 DEF Earlier
<1>4. ASSUME fn \in Funcs, inst \in 1..Len(m.body[fn])
      PROVE  inst \in 1..MaxCalls /\ <<fn, inst>> \in CallInsts
  <2>1. Len(m.body[fn]) <= MaxCalls /\ m.body[fn] \in Seq(Funcs \cup {Unknown})
    BY <1>4, ModulesAssumption DEF PrizeInv, Module
  <2> QED
    BY <1>0, <1>4, <2>1 DEF CallInsts
<1>5. CASE PassOver
  <2>1. /\ phase = "collect" /\ fn \in Funcs /\ inst \in 1..Len(m.body[fn])
        /\ Candidate(<<fn, inst>>) => Mapped(Callee(<<fn, inst>>))
        /\ fn' = fn /\ inst' = inst + 1
        /\ UNCHANGED <<m, phase, mappedFuncs, cases, callPrizes>>
    BY <1>5 DEF PassOver
  <2>2. \A c \in CallInsts : Collectable(c) /\ Candidate(c)
          /\ Earlier(c, <<fn', inst'>>) => Mapped(Callee(c))
    BY <1>3, <1>4, <2>1 DEF WalkInv
  <2> QED
    BY <2>1, <2>2, SameModule DEF WalkInv, Mapped
<1>6. CASE Award
  <2> DEFINE a == <<fn, inst>>
             g == Callee(a)
  <2>1. /\ phase = "collect" /\ fn \in Funcs /\ inst \in 1..Len(m.body[fn])
        /\ Visited(fn) /\ Candidate(a) /\ ~ Mapped(g)
        /\ mappedFuncs' = Append(mappedFuncs, g) /\ cases' = Append(cases, g)
        /\ callPrizes' = [callPrizes EXCEPT ![a] = PrizeId(g)]
        /\ fn' = fn /\ inst' = inst + 1 /\ m' = m /\ phase' = phase
    BY <1>6 DEF Award
  <2>2. a \in CallInsts /\ inst \in 1..MaxCalls /\ g \in Funcs /\ a[1] = fn
    BY <1>4, <2>1 DEF Candidate
  <2> HIDE DEF g
  <2>3. /\ \E i \in DOMAIN mappedFuncs' : mappedFuncs'[i] = g
        /\ \A h \in {mappedFuncs[i] : i \in DOMAIN mappedFuncs} :
             \E i \in DOMAIN mappedFuncs' : mappedFuncs'[i] = h
    <3>1. /\ DOMAIN mappedFuncs' = 1..(Len(mappedFuncs) + 1)
          /\ DOMAIN mappedFuncs = 1..Len(mappedFuncs)
          /\ mappedFuncs'[Len(mappedFuncs) + 1] = g
          /\ \A i \in 1..Len(mappedFuncs) : mappedFuncs'[i] = mappedFuncs[i]
          /\ Len(mappedFuncs) \in Nat
      BY <1>0, <2>1, <2>2
    <3> QED
      BY <3>1
  <2>4. \A c \in CallInsts : Collectable(c) /\ Candidate(c)
          /\ Earlier(c, <<fn', inst'>>) => Mapped(Callee(c))'
    <3> SUFFICES ASSUME NEW c \in CallInsts, Collectable(c), Candidate(c),
                        Earlier(c, <<fn', inst'>>)
                 PROVE  Mapped(Callee(c))'
      OBVIOUS
    <3>1. CASE Earlier(c, a)
      <4>1. Mapped(Callee(c))
        BY <3>1 DEF WalkInv
      <4>2. Callee(c)' = Callee(c)
        BY <2>1, SameModule
      <4> QED
        BY <2>3, <4>1, <4>2 DEF Mapped
    <3>2. CASE c = a
      <4>1. Callee(c)' = g
        BY <2>1, <3>2, SameModule DEF g
      <4> QED
        BY <2>3, <4>1 DEF Mapped
    <3> QED
      BY <1>3, <2>1, <2>2, <3>1, <3>2
  <2>5. ASSUME NEW c \in CallInsts, callPrizes'[c] # NoPrize
        PROVE  /\ Visited(c[1]) /\ Candidate(c)
               /\ \A d \in CallInsts :
                    Collectable(d) /\ Candidate(d) /\ Earlier(d, c)
                      => Callee(d) # Callee(c)
    <3>1. CASE c = a
      <4>1. \A d \in CallInsts : Collectable(d) /\ Candidate(d) /\ Earlier(d, a)
              => Mapped(Callee(d))
        BY DEF WalkInv
      <4> QED
        BY <2>1, <2>2, <3>1, <4>1 DEF g
    <3>2. CASE c # a
      <4>1. callPrizes[c] # NoPrize
        BY <1>0, <2>1, <2>2, <2>5, <3>2
      <4> QED
        BY <4>1 DEF WalkInv
    <3> QED
      BY <3>1, <3>2
  <2>6. cases' = mappedFuncs' /\ phase' \notin {"rewrite", "done"}
    BY <2>1 DEF WalkInv
  <2> QED
    BY <2>1, <2>4, <2>5, <2>6, SameModule DEF WalkInv
<1>7. ASSUME NEW c \in CallInsts, Redirect(c) PROVE WalkInv'
  <2>1. UNCHANGED <<m, phase, fn, inst, mappedFuncs, cases, callPrizes>>
    BY <1>7 DEF Redirect
  <2> QED
    BY <2>1, SameModule DEF WalkInv, Mapped
<1>8. CASE UNCHANGED vars
  BY <1>8, SameModule DEF vars, WalkInv, Mapped
<1> QED
  BY <1>1, <1>2, <1>5, <1>6, <1>7, <1>8 DEF Next, Crashed

(* A redirected call is the first with its callee that the pass could      *)
(* redirect, in every module.                                              *)
THEOREM FirstCallsStayFirst == Spec => []FirstCallsRedirected
<1>1. PrizeInv /\ WalkInv => FirstCallsRedirected
  <2> SUFFICES ASSUME PrizeInv, WalkInv, NEW c \in redirected,
                      NEW d \in CallInsts, InModule(d), Visited(d[1]),
                      Callee(d) = Callee(c), Earlier(d, c)
               PROVE  d[1] = Callee(d)
    BY DEF FirstCallsRedirected, Earlier
  <2>1. c \in CallInsts /\ callPrizes[c] # NoPrize
    BY DEF PrizeInv, PrizesMatch, PachinkoTypeOK
  <2>2. Candidate(c) /\ ~ Candidate(d)
    BY <2>1 DEF WalkInv, Collectable
  <2> QED
    BY <2>2 DEF Candidate
<1> QED
  BY PrizeInvInit, PrizeInvStep, WalkInvInit, WalkInvStep, <1>1, PTL DEF Spec

(* In every module each callee that is called in a way the pass looks for  *)
(* has a case once collecting is done, and only calls in functions that    *)
(* may be changed are redirected.                                          *)
THEOREM NoCalleeIsMissed == Spec => []EveryCalleeHasAPrize
<1>1. PrizeInv /\ WalkInv => EveryCalleeHasAPrize
  <2> SUFFICES ASSUME PrizeInv, WalkInv, phase \in {"rewrite", "done"}
               PROVE  /\ \A c \in CallInsts :
                           InModule(c) /\ Visited(c[1]) /\ Candidate(c) =>
                             \E i \in DOMAIN cases : cases[i] = Callee(c)
                      /\ \A c \in redirected : m.kind[c[1]] = "plain"
    BY DEF EveryCalleeHasAPrize
  <2>1. ASSUME NEW c \in CallInsts, InModule(c), Visited(c[1]), Candidate(c)
        PROVE  \E i \in DOMAIN cases : cases[i] = Callee(c)
    <3>1. fn = N + 1 /\ c[1] < N + 1
      BY NAssumption DEF WalkInv, CallInsts, Funcs
    <3>2. Mapped(Callee(c))
      BY <2>1, <3>1 DEF WalkInv, Collectable, Earlier
    <3> QED
      BY <3>2 DEF WalkInv, Mapped
  <2>2. ASSUME NEW c \in redirected PROVE m.kind[c[1]] = "plain"
    <3>1. c \in CallInsts /\ callPrizes[c] # NoPrize
      BY <2>2 DEF PrizeInv, PrizesMatch, PachinkoTypeOK
    <3> QED
      BY <3>1 DEF WalkInv, Visited
  <2> QED
    BY <2>1, <2>2
<1> QED
  BY PrizeInvInit, PrizeInvStep, WalkInvInit, WalkInvStep, <1>1, PTL DEF Spec
=============================================================================
