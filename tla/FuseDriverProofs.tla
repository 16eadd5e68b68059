-------------------------- MODULE FuseDriverProofs --------------------------
(***************************************************************************)
(* Proofs about FuseDriver for any number of functions, any call graph,    *)
(* recursive ones included, and both values of the option.                 *)
(***************************************************************************)
EXTENDS FuseDriver, TLAPS

(* While the loop runs nothing has been erased.                            *)
NothingErasedYet == phase \in {"combine", "inline"} => alive = Funcs

(* After the loop, functions the pass may change only call themselves and  *)
(* declarations, apart from the calls that failed.                         *)
Drained ==
  phase \in {"erase", "done"} =>
    \A f, g \in Funcs :
      /\ ~ queued[f][g]
      /\ Caller(f) /\ g # f /\ kind[g] # "declaration" => ~ (calls[f][g] > 0)

DriverInv ==
  /\ TypeOK
  /\ NothingErasedYet
  /\ WorkListValid
  /\ OneSiteWhenCombining
  /\ Drained
  /\ ErasedHaveNoCallers

(* Counts are natural numbers.                                             *)
LEMMA ManyRange == 0..Many \subseteq Nat
BY DEF Many

(* A count stays a count.                                                  *)
LEMMA SatType == ASSUME NEW n \in Nat PROVE Sat(n) \in 0..Many
BY DEF Sat, Many

(* What a clone brings along is a natural number of calls.                 *)
LEMMA ClonedCallsType ==
  ASSUME TypeOK, NEW g \in Funcs, NEW h \in Funcs
  PROVE  ClonedCalls(g, h) \in Nat
<1>1. calls[g][h] \in Nat /\ failed[g][h] \in Nat /\ queued[g][h] \in BOOLEAN
  <2>1. calls[g][h] \in 0..Many /\ failed[g][h] \in 0..Many
    BY DEF TypeOK
  <2>2. queued[g][h] \in BOOLEAN
    BY DEF TypeOK
  <2> QED
    BY <2>1, <2>2, ManyRange
<1> QED
  BY <1>1 DEF ClonedCalls

(* The module starts with nothing queued, no sites and nothing erased.     *)
LEMMA DriverInvInit == Init => DriverInv
<1> SUFFICES ASSUME Init PROVE DriverInv
  OBVIOUS
<1>1. TypeOK
  <2>1. calls \in [Funcs -> [Funcs -> 0..Many]] /\ kind \in [Funcs -> Kinds]
    BY DEF Init
  <2>2. queued \in [Funcs -> [Funcs -> BOOLEAN]]
    BY DEF Init
  <2>3. failed \in [Funcs -> [Funcs -> 0..Many]] /\ sites \in [Funcs -> [Funcs -> 0..Many]]
    BY DEF Init, Many
  <2>4. targets \in Seq(Funcs)
    BY DEF Init
  <2> QED
    BY <2>1, <2>2, <2>3, <2>4 DEF Init, TypeOK
<1>2. NothingErasedYet /\ WorkListValid /\ OneSiteWhenCombining /\ Drained
  BY DEF Init, NothingErasedYet, WorkListValid, OneSiteWhenCombining, Drained
<1>3. ErasedHaveNoCallers
  BY DEF Init, ErasedHaveNoCallers
<1> QED
  BY <1>1, <1>2, <1>3 DEF DriverInv

(* Every action keeps every count below Many and every field in its range. *)
LEMMA DriverTypeStep == TypeOK /\ [Next]_vars => TypeOK'
<1> SUFFICES ASSUME TypeOK, [Next]_vars PROVE TypeOK'
  OBVIOUS
<1>0. /\ kind \in [Funcs -> Kinds] /\ calls \in [Funcs -> [Funcs -> 0..Many]]
      /\ queued \in [Funcs -> [Funcs -> BOOLEAN]]
      /\ failed \in [Funcs -> [Funcs -> 0..Many]]
      /\ sites \in [Funcs -> [Funcs -> 0..Many]]
      /\ targets \in Seq(Funcs) /\ alive \subseteq Funcs
  BY DEF TypeOK
<1>1. CASE CombineCalls
  <2>1. queued' \in [Funcs -> [Funcs -> BOOLEAN]]
    BY <1>0, <1>1 DEF CombineCalls, Candidate
  <2>2. sites' \in [Funcs -> [Funcs -> 0..Many]]
    BY <1>0, <1>1 DEF CombineCalls, Many
  <2>3. calls' \in [Funcs -> [Funcs -> 0..Many]]
    BY <1>0, <1>1 DEF CombineCalls, Many
  <2>4. phase' \in {"inline", "erase"}
    BY <1>1 DEF CombineCalls
  <2> QED
    BY <1>0, <1>1, <2>1, <2>2, <2>3, <2>4 DEF CombineCalls, TypeOK
<1>2. ASSUME NEW f \in Funcs, NEW g \in Funcs, InlineCall(f, g) PROVE TypeOK'
  <2>1. queued' \in [Funcs -> [Funcs -> BOOLEAN]]
    BY <1>0, <1>2 DEF InlineCall
  <2>2. [h \in Funcs |-> Sat(calls[f][h] + ClonedCalls(g, h))] \in [Funcs -> 0..Many]
    <3> SUFFICES ASSUME NEW h \in Funcs
                 PROVE  Sat(calls[f][h] + ClonedCalls(g, h)) \in 0..Many
      OBVIOUS
    <3>1. calls[f][h] \in 0..Many
      BY <1>0
    <3>2. calls[f][h] \in Nat /\ ClonedCalls(g, h) \in Nat
      BY <3>1, ClonedCallsType, ManyRange
    <3>3. calls[f][h] + ClonedCalls(g, h) \in Nat
      BY <3>2
    <3> QED
      BY <3>3, SatType
  <2>3. [h \in Funcs |-> Sat(sites[f][h] + sites[g][h])] \in [Funcs -> 0..Many]
    <3> SUFFICES ASSUME NEW h \in Funcs
                 PROVE  Sat(sites[f][h] + sites[g][h]) \in 0..Many
      OBVIOUS
    <3>1. sites[f][h] \in 0..Many /\ sites[g][h] \in 0..Many
      BY <1>0
    <3>2. sites[f][h] \in Nat /\ sites[g][h] \in Nat
      BY <3>1, ManyRange
    <3>3. sites[f][h] + sites[g][h] \in Nat
      BY <3>2
    <3> QED
      BY <3>3, SatType
  <2>4. calls' \in [Funcs -> [Funcs -> 0..Many]] /\ sites' \in [Funcs -> [Funcs -> 0..Many]]
    BY <1>0, <1>2, <2>2, <2>3 DEF InlineCall
  <2>5. targets' \in Seq(Funcs)
    BY <1>0, <1>2 DEF InlineCall
  <2>6. UNCHANGED <<kind, phase, failed, alive>>
    BY <1>2 DEF InlineCall
  <2> QED
    BY <2>1, <2>4, <2>5, <2>6 DEF TypeOK
<1>3. ASSUME NEW f \in Funcs, NEW g \in Funcs, InlineFails(f, g) PROVE TypeOK'
  <2>1. queued' \in [Funcs -> [Funcs -> BOOLEAN]]
    BY <1>0, <1>3 DEF InlineFails
  <2>2. Sat(failed[f][g] + 1) \in 0..Many
    <3>1. failed[f][g] \in 0..Many
      BY <1>0
    <3>2. failed[f][g] + 1 \in Nat
      BY <3>1, ManyRange
    <3> QED
      BY <3>2, SatType
  <2>3. failed' \in [Funcs -> [Funcs -> 0..Many]]
    BY <1>0, <1>3, <2>2 DEF InlineFails
  <2> QED
    BY <1>3, <2>1, <2>3 DEF InlineFails, TypeOK
<1>4. CASE CleanUp
  <2>1. sites' \in [Funcs -> [Funcs -> 0..Many]]
    BY <1>0, <1>4 DEF CleanUp, Many
  <2> QED
    BY <1>4, <2>1 DEF CleanUp, TypeOK
<1>5. CASE EraseTarget
  <2>1. targets' \in Seq(Funcs)
    BY <1>0, <1>5 DEF EraseTarget
  <2> QED
    BY <1>5, <2>1 DEF EraseTarget, TypeOK, bodyVars
<1>6. CASE GlobalDCE
  BY <1>6 DEF GlobalDCE, Reachable, TypeOK, bodyVars
<1>7. CASE UNCHANGED vars
  BY <1>7 DEF vars, bodyVars, TypeOK
<1> QED
  BY <1>1, <1>2, <1>3, <1>4, <1>5, <1>6, <1>7 DEF Next, Done

(* One case per action.  The loop only ends when no calls are left to      *)
(* combine, and from then on functions are erased but no call appears.     *)
LEMMA DriverInvStep == DriverInv /\ [Next]_vars => DriverInv'
<1> SUFFICES ASSUME DriverInv, [Next]_vars PROVE DriverInv'
  OBVIOUS
<1> USE DEF DriverInv
<1>0. TypeOK'
  BY DriverTypeStep
<1>t. /\ kind \in [Funcs -> Kinds] /\ calls \in [Funcs -> [Funcs -> 0..Many]]
      /\ queued \in [Funcs -> [Funcs -> BOOLEAN]]
      /\ sites \in [Funcs -> [Funcs -> 0..Many]] /\ alive \subseteq Funcs
  BY DEF TypeOK
<1>1. CASE CombineCalls
  <2>1. phase = "combine" /\ alive = Funcs /\ alive' = alive /\ kind' = kind
    BY <1>1 DEF CombineCalls, NothingErasedYet
  <2>2. phase' \in {"inline", "erase"}
    BY <1>1 DEF CombineCalls
  <2>3. \A f, g \in Funcs : Caller(f)' = Caller(f)
    BY <2>1 DEF Caller
  <2>4. \A f, g \in Funcs :
           queued'[f][g] = (Candidate(f, g) /\ (calls[f][g] = 1 \/ sites[f][g] = 0))
    BY <1>1 DEF CombineCalls
  <2>5. \A f, g \in Funcs :
           calls'[f][g] = IF Candidate(f, g) THEN 0 ELSE calls[f][g]
    BY <1>1 DEF CombineCalls
  <2>6. WorkListValid'
    BY <2>1, <2>3, <2>4 DEF WorkListValid, Candidate
  <2>7. Drained'
    <3> SUFFICES ASSUME phase' = "erase", NEW f \in Funcs, NEW g \in Funcs
                 PROVE  /\ ~ queued'[f][g]
                        /\ Caller(f)' /\ g # f /\ kind'[g] # "declaration"
                             => ~ (calls'[f][g] > 0)
      BY <2>2 DEF Drained
    <3>1. \A w \in Funcs \X Funcs : ~ queued'[w[1]][w[2]]
      BY <1>1 DEF CombineCalls
    <3>2. ~ queued'[f][g]
      <4>1. <<f, g>> \in Funcs \X Funcs
        OBVIOUS
      <4> QED
        BY <3>1, <4>1
    <3>3. ASSUME Caller(f), g # f, kind[g] # "declaration"
          PROVE  ~ (calls'[f][g] > 0)
      <4>1. CASE Candidate(f, g)
        BY <2>5, <4>1
      <4>2. CASE ~ Candidate(f, g)
        BY <2>1, <2>5, <3>3, <4>2 DEF Candidate
      <4> QED
        BY <4>1, <4>2
    <3> QED
      BY <2>1, <2>3, <3>2, <3>3
  <2>8. ErasedHaveNoCallers'
    BY <2>1 DEF ErasedHaveNoCallers
  <2> QED
    BY <1>0, <2>1, <2>2, <2>6, <2>7, <2>8
    DEF NothingErasedYet, OneSiteWhenCombining
<1>2. ASSUME NEW f \in Funcs, NEW g \in Funcs, InlineCall(f, g) \/ InlineFails(f, g)
      PROVE  DriverInv'
  <2>1. /\ phase = "inline" /\ phase' = "inline" /\ alive = Funcs /\ alive' = Funcs
        /\ kind' = kind
    BY <1>2 DEF InlineCall, InlineFails, NothingErasedYet
  <2>2. queued' = [queued EXCEPT ![f][g] = FALSE]
    BY <1>2 DEF InlineCall, InlineFails
  <2>3. \A a, b \in Funcs : queued'[a][b] => queued[a][b]
    BY <1>t, <2>2
  <2>4. WorkListValid'
    BY <2>1, <2>3 DEF WorkListValid, Caller
  <2> QED
    BY <1>0, <2>1, <2>4
    DEF NothingErasedYet, OneSiteWhenCombining, Drained, ErasedHaveNoCallers
<1>3. CASE CleanUp
  <2>1. /\ phase = "inline" /\ phase' = "combine" /\ alive = Funcs /\ alive' = Funcs
        /\ UNCHANGED <<kind, calls, queued, failed>>
    BY <1>3 DEF CleanUp, NothingErasedYet
  <2>2. \A f, g \in Funcs : Candidate(f, g)' => f \in CallMap
    BY <2>1 DEF Candidate, Caller, CallMap
  <2>3. \A f, g \in Funcs :
           sites'[f][g] = IF f \in CallMap /\ sites[f][g] > 1 THEN 1 ELSE sites[f][g]
    BY <1>3 DEF CleanUp
  <2>4. \A f, g \in Funcs : sites[f][g] \in Nat
    <3>1. \A f, g \in Funcs : sites[f][g] \in 0..Many
      BY <1>t
    <3> QED
      BY <3>1, ManyRange
  <2>5. OneSiteWhenCombining'
    BY <2>2, <2>3, <2>4 DEF OneSiteWhenCombining
  <2>6. WorkListValid'
    BY <2>1 DEF WorkListValid, Caller
  <2> QED
    BY <1>0, <2>1, <2>5, <2>6
    DEF NothingErasedYet, Drained, ErasedHaveNoCallers
<1>4. CASE EraseTarget \/ GlobalDCE
  <2>1. /\ phase = "erase" /\ phase' \in {"erase", "done"} /\ alive' \subseteq alive
        /\ UNCHANGED <<kind, calls, queued, failed>>
    BY <1>4 DEF EraseTarget, GlobalDCE, Reachable, bodyVars
  <2>2. WorkListValid' /\ Drained'
    BY <2>1 DEF WorkListValid, Drained, Caller
  <2>3. \A f, g : Calls(f, g)' = Calls(f, g)
    BY <2>1 DEF Calls
  <2>4. ErasedHaveNoCallers'
    <3> SUFFICES ASSUME NEW f \in alive', NEW g \in Funcs \ alive'
                 PROVE  ~ Calls(f, g)
      BY <2>3 DEF ErasedHaveNoCallers
    <3>1. CASE g \notin alive
      BY <2>1, <3>1 DEF ErasedHaveNoCallers
    <3>2. CASE g \in alive /\ EraseTarget
      BY <2>1, <3>2 DEF EraseTarget, TriviallyDead
    <3>3. CASE g \in alive /\ GlobalDCE
      <4>1. alive' = Reachable
        BY <3>3 DEF GlobalDCE
      <4>2. PICK S \in SUBSET alive : Closed(S) /\ g \notin S
        BY <3>3, <4>1 DEF Reachable
      <4>3. f \in S
        BY <4>1, <4>2 DEF Reachable
      <4> QED
        BY <3>3, <4>2, <4>3 DEF Closed
    <3> QED
      BY <1>4, <3>1, <3>2, <3>3
  <2> QED
    BY <1>0, <2>1, <2>2, <2>4 DEF NothingErasedYet, OneSiteWhenCombining
<1>5. CASE UNCHANGED vars
  BY <1>0, <1>5
  DEF vars, bodyVars, NothingErasedYet, WorkListValid, OneSiteWhenCombining,
      Drained, ErasedHaveNoCallers, Candidate, Caller, Calls
<1> QED
  BY <1>1, <1>2, <1>3, <1>4, <1>5 DEF Next, Done

(* The strengthened invariant holds of every run of the pass.              *)
LEMMA DriverInvHolds == Spec => []DriverInv
BY DriverInvInit, DriverInvStep, PTL DEF Spec

(* Everything the driver keeps is in its range.                            *)
THEOREM DriverTypeCorrect == Spec => []TypeOK
<1>1. DriverInv => TypeOK
  BY DEF DriverInv
<1> QED
  BY DriverInvHolds, <1>1, PTL

(* Every call put in the worklist is one that may be inlined.              *)
THEOREM WorkListStaysValid == Spec => []WorkListValid
<1>1. DriverInv => WorkListValid
  BY DEF DriverInv
<1> QED
  BY DriverInvHolds, <1>1, PTL

(* Whatever inlining clones, calls are only combined where there is at     *)
(* most one site for their callee.                                         *)
THEOREM OneSiteWheneverCombining == Spec => []OneSiteWhenCombining
<1>1. DriverInv => OneSiteWhenCombining
  BY DEF DriverInv
<1> QED
  BY DriverInvHolds, <1>1, PTL

(* If the loop ends, it has overlooked no call.                            *)
THEOREM LoopDrains == Spec => []DoneMeansDrained
<1>1. DriverInv => DoneMeansDrained
  BY DEF DriverInv, TypeOK, Drained, DoneMeansDrained, Candidate
<1> QED
  BY DriverInvHolds, <1>1, PTL

(* No call of an erased function is left.                                  *)
THEOREM ErasingIsSafe == Spec => []ErasedHaveNoCallers
<1>1. DriverInv => ErasedHaveNoCallers
  BY DEF DriverInv
<1> QED
  BY DriverInvHolds, <1>1, PTL

(* The bodies of functions the pass must not change: they are no callers   *)
(* of a candidate, so nothing of theirs is combined, queued or cleaned up. *)
LEMMA NonCallersStep ==
  DriverInv /\ [Next]_vars =>
    \A f \in Funcs : ~ Caller(f) =>
      /\ calls'[f] = calls[f] /\ queued'[f] = queued[f]
      /\ failed'[f] = failed[f] /\ sites'[f] = sites[f]
<1> SUFFICES ASSUME DriverInv, [Next]_vars, NEW f \in Funcs, ~ Caller(f)
             PROVE  /\ calls'[f] = calls[f] /\ queued'[f] = queued[f]
                    /\ failed'[f] = failed[f] /\ sites'[f] = sites[f]
  OBVIOUS
<1>0. /\ calls \in [Funcs -> [Funcs -> 0..Many]]
      /\ queued \in [Funcs -> [Funcs -> BOOLEAN]]
      /\ failed \in [Funcs -> [Funcs -> 0..Many]]
      /\ sites \in [Funcs -> [Funcs -> 0..Many]]
  BY DEF DriverInv, TypeOK
<1>1. \A g \in Funcs : ~ Candidate(f, g) /\ ~ queued[f][g]
  BY DEF DriverInv, WorkListValid, Candidate
<1>2. CASE CombineCalls
  <2>1. \A g \in Funcs : calls'[f][g] = calls[f][g] /\ sites'[f][g] = sites[f][g]
    BY <1>1, <1>2 DEF CombineCalls
  <2>2. \A g \in Funcs : queued'[f][g] = FALSE /\ queued[f][g] = FALSE
    BY <1>0, <1>1, <1>2 DEF CombineCalls
  <2>3. /\ calls'[f] = [g \in Funcs |-> calls'[f][g]]
        /\ sites'[f] = [g \in Funcs |-> sites'[f][g]]
        /\ queued'[f] = [g \in Funcs |-> queued'[f][g]]
    BY <1>2 DEF CombineCalls
  <2>4. /\ calls[f] = [g \in Funcs |-> calls[f][g]]
        /\ sites[f] = [g \in Funcs |-> sites[f][g]]
        /\ queued[f] = [g \in Funcs |-> queued[f][g]]
    BY <1>0
  <2>5. calls'[f] = calls[f] /\ sites'[f] = sites[f]
    BY <2>1, <2>3, <2>4
  <2>6. queued'[f] = queued[f]
    <3>1. [g \in Funcs |-> queued'[f][g]] = [g \in Funcs |-> FALSE]
      BY <2>2
    <3>2. [g \in Funcs |-> queued[f][g]] = [g \in Funcs |-> FALSE]
      BY <2>2
    <3> QED
      BY <2>3, <2>4, <3>1, <3>2
  <2> QED
    BY <1>2, <2>5, <2>6 DEF CombineCalls
<1>3. ASSUME NEW e \in Funcs, NEW g \in Funcs, InlineCall(e, g) \/ InlineFails(e, g)
      PROVE  /\ calls'[f] = calls[f] /\ queued'[f] = queued[f]
             /\ failed'[f] = failed[f] /\ sites'[f] = sites[f]
  <2>1. queued[e][g]
    BY <1>3 DEF InlineCall, InlineFails, OnTop, WorkList
  <2>2. e # f
    BY <1>1, <2>1
  <2> QED
    BY <1>0, <1>3, <2>2 DEF InlineCall, InlineFails
<1>4. CASE CleanUp
  <2>1. f \notin CallMap
    BY <1>1 DEF CallMap
  <2>2. sites'[f] = [g \in Funcs |-> sites[f][g]]
    BY <1>4, <2>1 DEF CleanUp
  <2> QED
    BY <1>0, <1>4, <2>2 DEF CleanUp
<1>5. CASE EraseTarget \/ GlobalDCE \/ UNCHANGED vars
  BY <1>5 DEF EraseTarget, GlobalDCE, bodyVars, vars
<1> QED
  BY <1>2, <1>3, <1>4, <1>5 DEF Next, Done

(* optnone functions are never changed, and noinline ones only on request. *)
THEOREM NonCallersStayUntouched == Spec => NonCallersUntouched
<1>1. DriverInv /\ [Next]_vars =>
        [\A f \in Funcs : ~ Caller(f) =>
           /\ calls'[f] = calls[f] /\ queued'[f] = queued[f]
           /\ failed'[f] = failed[f] /\ sites'[f] = sites[f]]_vars
  BY NonCallersStep
<1> QED
  BY DriverInvHolds, <1>1, PTL DEF Spec, NonCallersUntouched
=============================================================================
