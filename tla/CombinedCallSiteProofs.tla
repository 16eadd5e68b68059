----------------------- MODULE CombinedCallSiteProofs -----------------------
(***************************************************************************)
(* Proofs about CombinedCallSite, for every set of calls and of sites,     *)
(* and then about FusedExecution, for every set of arguments and every     *)
(* callee besides: whatever surgery was carried out, running its result    *)
(* makes direct calls, as far as the caller can tell.                      *)
(***************************************************************************)
EXTENDS FusedExecution, FiniteSetTheorems, TLAPS

(* The caller starts with plain calls and no site.                         *)
LEMMA TypeOKInit == Init => TypeOK
<1> SUFFICES ASSUME Init PROVE TypeOK
  OBVIOUS
<1>1. PICK P \in SUBSET Calls :
        call = [c \in Calls |-> IF c \in P THEN "plain" ELSE "absent"]
  BY DEF Init
<1>2. call \in [Calls -> {"absent", "plain", "single", "fused", "absorbed",
                         "merged", "inlined", "failed"}]
  BY <1>1
<1> QED
  BY <1>2 DEF Init, TypeOK, Phases, Targets, Slots, NoTarget, NoSlot

(* Making a site keeps every field well typed.                             *)
LEMMA TypeOKMakeSite ==
  ASSUME TypeOK,
         NEW s \in Sites, NEW C \in SUBSET Calls, NEW ids \in FreshIds(C),
         NEW condition \in {"phi", "load"}, NEW inlined \in {"call", "inlined"},
         MakeSite(s, C, ids, condition, inlined)
  PROVE  /\ call' \in [Calls -> {"absent", "plain", "single", "fused",
                                 "absorbed", "merged", "inlined", "failed"}]
         /\ site' \in [Sites -> {"none", "live", "orphaned", "deleted"}]
         /\ body' \in [Sites -> {"none", "call", "inlined", "failed"}]
         /\ cond' \in [Sites -> {"phi", "load", "reload"}]
         /\ cases' \in [Sites -> SUBSET (Nat \X Calls)]
         /\ branch' \in [Calls -> Targets]
         /\ blockId' \in [Calls -> Nat]
         /\ idSlot' \in [Calls -> Slots]
         /\ argSlot' \in [Calls -> Sites \cup {NoSite}]
         /\ result' \in [Calls -> Sites \cup {"call", "erased"}]
<1>1. \A c \in C : ids[c] \in Nat
  BY DEF FreshIds
<1>2. NewCases(C, ids) \in SUBSET (Nat \X Calls)
  BY <1>1 DEF NewCases
<1>3. [to |-> "callblock", site |-> s] \in Targets
  BY DEF Targets
<1>4. [kind |-> "phi", site |-> s] \in Slots
  BY DEF Slots
<1>5. cases' \in [Sites -> SUBSET (Nat \X Calls)]
  BY <1>2 DEF MakeSite, TypeOK
<1>6. branch' \in [Calls -> Targets]
  BY <1>3 DEF MakeSite, TypeOK
<1>7. idSlot' \in [Calls -> Slots]
  BY <1>4 DEF MakeSite, TypeOK
<1>8. blockId' \in [Calls -> Nat]
  BY <1>1 DEF MakeSite, TypeOK
<1> QED
  BY <1>5, <1>6, <1>7, <1>8 DEF MakeSite, TypeOK

(* The cases a merge adds are cases.                                       *)
LEMMA ShiftedCasesType ==
  ASSUME TypeOK, NEW s \in Sites, NEW start \in Nat
  PROVE  ShiftedCases(s, start) \in SUBSET (Nat \X Calls)
BY DEF TypeOK, ShiftedCases

(* What is read back from a switch is a target and a slot.                 *)
LEMMA EntryAndSlotType ==
  ASSUME TypeOK, NEW s \in Sites
  PROVE  Entry(s) \in Targets /\ Slot(s) \in Slots
BY DEF TypeOK, Entry, Slot, Targets, Slots

(* Demotion leaves a condition that is one of the three.                   *)
LEMMA DemotedCondType ==
  ASSUME TypeOK, NEW s \in Sites
  PROVE  DemotedCond(s) \in {"phi", "load", "reload"}
BY DEF TypeOK, DemotedCond

(* Every action keeps every field well typed.                              *)
LEMMA TypeOKNext == TypeOK /\ [Next]_vars => TypeOK'
<1> SUFFICES ASSUME TypeOK, [Next]_vars PROVE TypeOK'
  OBVIOUS
<1> USE DEF siteVars, callVars, Phases
<1>1. CASE NoCandidates \/ NoDemote \/ NextRound \/ Finish \/ EndAbsorb
           \/ EndMerge \/ Terminated
  BY <1>1 DEF NoCandidates, NoDemote, NextRound, Finish, EndAbsorb, EndMerge,
              Terminated, TypeOK, Live, vars
<1>2. CASE LeaveSingle
  BY <1>2 DEF LeaveSingle, TypeOK, Live
<1>3. ASSUME NEW s \in Sites, CreateSite(s) PROVE TypeOK'
  <2>1. PICK ids \in FreshIds(Plain) : MakeSite(s, Plain, ids, "phi", "call")
    BY <1>3 DEF CreateSite
  <2>2. Plain \in SUBSET Calls
    BY DEF Plain
  <2> QED
    BY <1>3, <2>1, <2>2, TypeOKMakeSite DEF CreateSite, TypeOK
<1>4. ASSUME NEW s \in Sites, StartAbsorb(s) PROVE TypeOK'
  BY <1>4 DEF StartAbsorb, TypeOK, Live
<1>5. ASSUME NEW c \in Calls, CombineCall(c) PROVE TypeOK'
  <2>1. PICK n \in BlockIds :
          /\ blockId' = [blockId EXCEPT ![c] = n]
          /\ cases' = [cases EXCEPT ![main] = @ \cup {<<n, c>>}]
    BY <1>5 DEF CombineCall
  <2>2. n \in Nat
    BY BlockIdBound DEF BlockIds
  <2>3. main \in Sites
    BY <1>5 DEF CombineCall, TypeOK, Live
  <2>4. cases' \in [Sites -> SUBSET (Nat \X Calls)]
    BY <2>1, <2>2, <2>3 DEF TypeOK
  <2>5. idSlot' \in [Calls -> Slots] /\ branch' \in [Calls -> Targets]
    BY <1>5, <2>3, EntryAndSlotType
       DEF CombineCall, TypeOK, OwnRetBlock, Targets
  <2>6. argSlot' \in [Calls -> Sites \cup {NoSite}]
    BY <1>5, <2>3 DEF CombineCall, ArgumentSites, TypeOK
  <2>7. result' \in [Calls -> Sites \cup {"call", "erased"}]
    BY <1>5, <2>3 DEF CombineCall, ReadBack, TypeOK
  <2> QED
    BY <1>5, <2>1, <2>2, <2>3, <2>4, <2>5, <2>6, <2>7
       DEF CombineCall, TypeOK, Live
<1>6. ASSUME NEW c \in Calls, CombineCallAborts(c) PROVE TypeOK'
  BY <1>6 DEF CombineCallAborts, TypeOK, Live
<1>7. ASSUME NEW s \in Sites, SplitBody(s) PROVE TypeOK'
  BY <1>7 DEF SplitBody, TypeOK, Live
<1>8. CASE Demote \/ Redemote
  <2>1. /\ phase' \in {"test", "combine"} /\ modified' = FALSE
        /\ cond' = [s \in Sites |-> DemotedCond(s)]
        /\ UNCHANGED <<main, site, body, split, cases, callVars>>
    BY <1>8 DEF Demote, Redemote
  <2>2. cond' \in [Sites -> {"phi", "load", "reload"}]
    BY <2>1, DemotedCondType
  <2> QED
    BY <2>1, <2>2 DEF TypeOK, Live, Phases, callVars
<1>9. ASSUME NEW c \in Calls, InlineSingle(c) \/ Arrive(c) PROVE TypeOK'
  BY <1>9 DEF InlineSingle, Arrive, TypeOK, Live
<1>10. ASSUME NEW s \in Sites, InlineSite(s) PROVE TypeOK'
  BY <1>10 DEF InlineSite, TypeOK, Live
<1>11. ASSUME NEW s \in Sites, ArriveSite(s) PROVE TypeOK'
  <2>1. PICK C \in SUBSET Calls : \E ids \in FreshIds(C) :
          MakeSite(s, C, ids, "load", "inlined")
    BY <1>11 DEF ArriveSite
  <2>2. PICK ids \in FreshIds(C) : MakeSite(s, C, ids, "load", "inlined")
    BY <2>1
  <2> QED
    BY <1>11, <2>2, TypeOKMakeSite DEF ArriveSite, TypeOK
<1>12. CASE EndInline
  BY <1>12 DEF EndInline, TypeOK, Live
<1>13. ASSUME NEW o \in Sites, Combine(o) PROVE TypeOK'
  <2>1. PICK start \in BlockIds :
          /\ blockId' = [c \in Calls |-> IF c \in IdStores(o)
                                         THEN blockId[c] + start ELSE blockId[c]]
          /\ cases' = [cases EXCEPT ![main] = @ \cup ShiftedCases(o, start),
                                    ![o] = {}]
    BY <1>13 DEF Combine
  <2>2. start \in Nat
    BY BlockIdBound DEF BlockIds
  <2>3. main \in Sites /\ main # o
    BY <1>13 DEF Combine, TypeOK, Live
  <2>4. cases' \in [Sites -> SUBSET (Nat \X Calls)]
    BY <2>1, <2>2, <2>3, ShiftedCasesType DEF TypeOK
  <2>5. branch' \in [Calls -> Targets]
    BY <1>13, <2>3, EntryAndSlotType DEF Combine, TypeOK
  <2>6. blockId' \in [Calls -> Nat]
    BY <2>1, <2>2 DEF TypeOK
  <2>7. site' \in [Sites -> {"none", "live", "orphaned", "deleted"}]
    BY <1>13 DEF Combine, TypeOK
  <2>8. site'[main] = "live"
    BY <1>13, <2>3 DEF Combine, TypeOK, Live
  <2> QED
    BY <1>13, <2>3, <2>4, <2>5, <2>6, <2>7, <2>8 DEF Combine, TypeOK, Live
<1>14. CASE UNCHANGED vars
  BY <1>14 DEF TypeOK, Live, vars
<1> QED
  BY <1>1, <1>2, <1>3, <1>4, <1>5, <1>6, <1>7, <1>8, <1>9, <1>10, <1>11,
     <1>12, <1>13, <1>14 DEF Next, CombineCalls, Rounds

(* Every field of the surgery stays in its range, and whenever a site is   *)
(* absorbing calls or other sites it is one whose switch still exists.     *)
THEOREM TypeCorrect == Spec => []TypeOK
<1>1. Init => TypeOK
  BY TypeOKInit
<1>2. TypeOK /\ [Next]_vars => TypeOK'
  BY TypeOKNext
<1> QED
  BY <1>1, <1>2, PTL DEF Spec

-----------------------------------------------------------------------------
(* The inductive invariant behind CasesDistinct and RoundTripWhileLive.    *)

(* A return block is a case of at most one switch.                         *)
OneSwitchPerRetBlock ==
  \A s, t \in Sites : \A x \in cases[s], y \in cases[t] : x[2] = y[2] => s = t

(* Only live sites have a switch, and only calls that were taken into a    *)
(* site have a case.                                                       *)
CasesWellOwned ==
  \A s \in Sites : \A x \in cases[s] :
    /\ site[s] = "live"
    /\ call[x[2]] \in {"fused", "absorbed", "merged"}

(* Nothing refers to a site before it is made.                             *)
UnmadeSitesUnused ==
  \A s \in Sites : site[s] = "none" =>
    \A c \in Calls : branch[c].site # s

SwitchInv ==
  /\ TypeOK
  /\ CasesDistinct
  /\ OneSwitchPerRetBlock
  /\ CasesWellOwned
  /\ UnmadeSitesUnused
  /\ RoundTripWhileLive

(* No site is made yet, so no switch has a case.                           *)
LEMMA SwitchInvInit == Init => SwitchInv
<1> SUFFICES ASSUME Init PROVE SwitchInv
  OBVIOUS
<1>1. TypeOK
  BY TypeOKInit
<1>2. \A s \in Sites : cases[s] = {} /\ site[s] = "none"
  BY DEF Init
<1>3. \A c \in Calls : branch[c] = NoTarget
  BY DEF Init
<1>4. UnmadeSitesUnused
  BY <1>3, NoSiteIsFresh DEF UnmadeSitesUnused, NoTarget
<1> QED
  BY <1>1, <1>2, <1>4 DEF SwitchInv, CasesDistinct, OneSwitchPerRetBlock,
     CasesWellOwned, RoundTripWhileLive, Live

(* Steps that leave the switches, the fields of the calls and the set of   *)
(* made sites alone preserve the invariant.                                *)
LEMMA SwitchInvFrame ==
  ASSUME SwitchInv, TypeOK',
         UNCHANGED <<site, cases, branch, blockId, idSlot, argSlot, result>>,
         \A c \in Calls : call[c] \in {"fused", "absorbed", "merged"}
                           => call'[c] = call[c]
  PROVE  SwitchInv'
<1>1. Live' = Live
  BY DEF Live
<1>2. CasesWellOwned'
  <2> SUFFICES ASSUME NEW s \in Sites, NEW x \in cases[s]
               PROVE  site[s] = "live" /\ call'[x[2]] \in {"fused", "absorbed", "merged"}
    BY DEF CasesWellOwned
  <2>1. x[2] \in Calls
    BY DEF SwitchInv, TypeOK
  <2> QED
    BY <2>1 DEF SwitchInv, CasesWellOwned
<1> QED
  BY <1>1, <1>2 DEF SwitchInv, CasesDistinct, OneSwitchPerRetBlock,
     UnmadeSitesUnused, RoundTripWhileLive

(* A new site gets distinct ids for calls that no switch knew.             *)
LEMMA SwitchInvMakeSite ==
  ASSUME SwitchInv, TypeOK',
         NEW s \in Sites, NEW C \in SUBSET Calls, NEW ids \in FreshIds(C),
         NEW condition, NEW inlined,
         \A c \in C : call[c] \in {"plain", "absent"},
         MakeSite(s, C, ids, condition, inlined)
  PROVE  SwitchInv'
<1>1. /\ site[s] = "none" /\ cases[s] = {}
      /\ cases'[s] = NewCases(C, ids)
      /\ \A t \in Sites \ {s} : cases'[t] = cases[t] /\ site'[t] = site[t]
      /\ site'[s] = "live"
  BY DEF MakeSite, SwitchInv, TypeOK, CasesWellOwned
<1>2. \A x \in cases'[s] : \E c \in C : x = <<ids[c], c>>
  BY <1>1 DEF NewCases
<1>3. \A c, d \in C : ids[c] = ids[d] => c = d
  BY DEF FreshIds, IsInjective
<1>4. \A t \in Sites : \A x \in cases[t] : x[2] \notin C /\ x[2] \in Calls
  BY DEF SwitchInv, CasesWellOwned, TypeOK
<1>5. CasesDistinct'
  BY <1>1, <1>2, <1>3 DEF CasesDistinct, SwitchInv, Live
<1>6. OneSwitchPerRetBlock'
  <2> SUFFICES ASSUME NEW t \in Sites, NEW u \in Sites,
                      NEW x \in cases'[t], NEW y \in cases'[u], x[2] = y[2]
               PROVE  t = u
    BY DEF OneSwitchPerRetBlock
  <2>1. CASE t # s /\ u # s
    BY <2>1, <1>1 DEF SwitchInv, OneSwitchPerRetBlock
  <2>2. CASE t = s /\ u # s
    BY <2>2, <1>1, <1>2, <1>4
  <2>3. CASE t # s /\ u = s
    BY <2>3, <1>1, <1>2, <1>4
  <2> QED
    BY <2>1, <2>2, <2>3
<1>7. CasesWellOwned'
  <2> SUFFICES ASSUME NEW t \in Sites, NEW x \in cases'[t]
               PROVE  site'[t] = "live"
                      /\ call'[x[2]] \in {"fused", "absorbed", "merged"}
    BY DEF CasesWellOwned
  <2>1. CASE t = s
    <3>1. PICK c \in C : x = <<ids[c], c>>
      BY <2>1, <1>2
    <3>2. call'[c] = "fused"
      BY DEF MakeSite
    <3> QED
      BY <2>1, <1>1, <3>1, <3>2
  <2>2. CASE t # s
    <3>1. x \in cases[t] /\ x[2] \in Calls \ C
      BY <2>2, <1>1, <1>4
    <3>2. call'[x[2]] = call[x[2]]
      BY <3>1 DEF MakeSite
    <3> QED
      BY <2>2, <1>1, <3>1, <3>2 DEF SwitchInv, CasesWellOwned
  <2> QED
    BY <2>1, <2>2
<1>8. UnmadeSitesUnused'
  <2> SUFFICES ASSUME NEW t \in Sites, site'[t] = "none", NEW c \in Calls
               PROVE  branch'[c].site # t
    BY DEF UnmadeSitesUnused
  <2>1. t # s /\ site[t] = "none"
    BY <1>1
  <2>2. branch'[c] = IF c \in C THEN [to |-> "callblock", site |-> s]
                                ELSE branch[c]
    BY DEF MakeSite
  <2> QED
    BY <2>1, <2>2 DEF SwitchInv, UnmadeSitesUnused
<1>9. RoundTripWhileLive'
  <2> SUFFICES ASSUME NEW c \in Calls, NEW t \in Sites, site'[t] = "live",
                      branch'[c] = [to |-> "callblock", site |-> t],
                      idSlot'[c] = [kind |-> "phi", site |-> t]
               PROVE  /\ <<blockId'[c], c>> \in cases'[t]
                      /\ argSlot'[c] = t /\ result'[c] = t
    BY DEF RoundTripWhileLive, Live
  <2>1. CASE c \in C
    <3>1. t = s
      BY <2>1 DEF MakeSite
    <3> QED
      BY <2>1, <3>1, <1>1 DEF MakeSite, NewCases
  <2>2. CASE c \notin C
    <3>1. /\ branch[c] = [to |-> "callblock", site |-> t]
          /\ idSlot[c] = [kind |-> "phi", site |-> t]
          /\ blockId'[c] = blockId[c] /\ argSlot'[c] = argSlot[c]
          /\ result'[c] = result[c]
      BY <2>2 DEF MakeSite
    <3>2. t # s
      BY <3>1, <1>1 DEF SwitchInv, UnmadeSitesUnused
    <3>3. t \in Live
      BY <3>2, <1>1 DEF Live
    <3> QED
      BY <3>1, <3>2, <3>3, <1>1 DEF SwitchInv, RoundTripWhileLive
  <2> QED
    BY <2>1, <2>2
<1> QED
  BY <1>5, <1>6, <1>7, <1>8, <1>9 DEF SwitchInv

(* combine_call adds one case, under an id above all others, for a call    *)
(* that no switch knew; the call itself goes round the call block.         *)
LEMMA SwitchInvCombineCall ==
  ASSUME SwitchInv, TypeOK', NEW c \in Calls, CombineCall(c)
  PROVE  SwitchInv'
<1>1. PICK n \in BlockIds :
        /\ IsNextBlockId(main, n)
        /\ blockId' = [blockId EXCEPT ![c] = n]
        /\ cases' = [cases EXCEPT ![main] = @ \cup {<<n, c>>}]
  BY DEF CombineCall
<1>2. main \in Sites /\ site[main] = "live" /\ site' = site
  BY DEF CombineCall, SwitchInv, TypeOK, Live
<1>3. /\ cases'[main] = cases[main] \cup {<<n, c>>}
      /\ \A s \in Sites \ {main} : cases'[s] = cases[s]
  BY <1>1, <1>2 DEF SwitchInv, TypeOK
<1>4. n \in Nat /\ \A x \in cases[main] : x[1] < n /\ x[1] \in Nat
  BY <1>1, <1>2, BlockIdBound DEF BlockIds, IsNextBlockId, SwitchInv, TypeOK
<1>5. \A s \in Sites : \A x \in cases[s] : x[2] # c /\ x[2] \in Calls
  BY DEF CombineCall, SwitchInv, CasesWellOwned, TypeOK
<1>6. CasesDistinct'
  <2> SUFFICES ASSUME NEW s \in Live, NEW x \in cases'[s], NEW y \in cases'[s]
               PROVE  (x[1] = y[1]) <=> (x[2] = y[2])
    BY <1>2 DEF CasesDistinct, Live
  <2>1. s \in Sites
    BY DEF Live
  <2>2. CASE x \in cases[s] /\ y \in cases[s]
    BY <2>2 DEF SwitchInv, CasesDistinct
  <2>3. CASE s = main /\ x = <<n, c>> /\ y \in cases[s]
    BY <2>3, <2>1, <1>4, <1>5
  <2>4. CASE s = main /\ y = <<n, c>> /\ x \in cases[s]
    BY <2>4, <2>1, <1>4, <1>5
  <2>5. CASE x = <<n, c>> /\ y = <<n, c>>
    BY <2>5
  <2> QED
    BY <2>1, <2>2, <2>3, <2>4, <2>5, <1>3
<1>7. OneSwitchPerRetBlock'
  <2> SUFFICES ASSUME NEW s \in Sites, NEW t \in Sites,
                      NEW x \in cases'[s], NEW y \in cases'[t], x[2] = y[2]
               PROVE  s = t
    BY DEF OneSwitchPerRetBlock
  <2>1. CASE x \in cases[s] /\ y \in cases[t]
    BY <2>1 DEF SwitchInv, OneSwitchPerRetBlock
  <2>2. CASE x \notin cases[s] \/ y \notin cases[t]
    BY <2>2, <1>3, <1>5
  <2> QED
    BY <2>1, <2>2
<1>8. CasesWellOwned'
  <2> SUFFICES ASSUME NEW s \in Sites, NEW x \in cases'[s]
               PROVE  site[s] = "live"
                      /\ call'[x[2]] \in {"fused", "absorbed", "merged"}
    BY <1>2 DEF CasesWellOwned
  <2>1. call' = [call EXCEPT ![c] = "absorbed"]
    BY DEF CombineCall
  <2>2. CASE x \in cases[s]
    BY <2>1, <2>2, <1>5 DEF SwitchInv, CasesWellOwned, TypeOK
  <2>3. CASE s = main /\ x = <<n, c>>
    BY <2>1, <2>3, <1>2 DEF SwitchInv, TypeOK
  <2> QED
    BY <2>2, <2>3, <1>3
<1>9. branch' = [branch EXCEPT ![c] = OwnRetBlock]
  BY DEF CombineCall
<1>10. UnmadeSitesUnused'
  <2> SUFFICES ASSUME NEW s \in Sites, site[s] = "none", NEW d \in Calls
               PROVE  branch'[d].site # s
    BY <1>2 DEF UnmadeSitesUnused
  <2> QED
    BY <1>9, NoSiteIsFresh
       DEF SwitchInv, TypeOK, UnmadeSitesUnused, OwnRetBlock
<1>11. RoundTripWhileLive'
  <2> SUFFICES ASSUME NEW d \in Calls, NEW s \in Live,
                      branch'[d] = [to |-> "callblock", site |-> s],
                      idSlot'[d] = [kind |-> "phi", site |-> s]
               PROVE  /\ <<blockId'[d], d>> \in cases'[s]
                      /\ argSlot'[d] = s /\ result'[d] = s
    BY <1>2 DEF RoundTripWhileLive, Live
  <2>1. d # c
    BY <1>9 DEF SwitchInv, TypeOK, OwnRetBlock
  <2>2. /\ branch'[d] = branch[d] /\ idSlot'[d] = idSlot[d]
        /\ blockId'[d] = blockId[d] /\ argSlot'[d] = argSlot[d]
        /\ result'[d] = result[d]
    BY <2>1, <1>1 DEF CombineCall, SwitchInv, TypeOK
  <2>3. <<blockId[d], d>> \in cases[s] /\ argSlot[d] = s /\ result[d] = s
    BY <2>2 DEF SwitchInv, RoundTripWhileLive
  <2> QED
    BY <2>2, <2>3, <1>3 DEF Live
<1> QED
  BY <1>6, <1>7, <1>8, <1>10, <1>11 DEF SwitchInv

(* The shifted cases are cases of the other site, with ids from `start` on.*)
LEMMA ShiftedCasesElement ==
  ASSUME TypeOK, NEW s \in Sites, NEW start \in Nat,
         NEW x \in ShiftedCases(s, start)
  PROVE  \E y \in cases[s] :
           /\ x[1] = y[1] + start /\ x[2] = y[2]
           /\ y[1] \in Nat /\ x[1] >= start
BY DEF TypeOK, ShiftedCases

(* Merging moves cases from a switch that goes away to the main one, above *)
(* its ids, and leaves the calls of the main site untouched.               *)
LEMMA SwitchInvCombine ==
  ASSUME SwitchInv, TypeOK', NEW o \in Sites, Combine(o)
  PROVE  SwitchInv'
<1>1. PICK start \in BlockIds :
        /\ IsNextBlockId(main, start)
        /\ blockId' = [c \in Calls |-> IF c \in IdStores(o)
                                       THEN blockId[c] + start ELSE blockId[c]]
        /\ cases' = [cases EXCEPT ![main] = @ \cup ShiftedCases(o, start),
                                  ![o] = {}]
  BY DEF Combine
<1>2. main \in Sites /\ main # o /\ site[main] = "live" /\ site[o] = "live"
  BY DEF Combine, SwitchInv, TypeOK, Live
<1>3. /\ cases'[main] = cases[main] \cup ShiftedCases(o, start)
      /\ cases'[o] = {}
      /\ \A s \in Sites \ {main, o} : cases'[s] = cases[s]
  BY <1>1, <1>2 DEF SwitchInv, TypeOK
<1>4. /\ site'[o] \in {"orphaned", "deleted"}
      /\ \A s \in Sites \ {o} : site'[s] = site[s]
  BY DEF Combine, SwitchInv, TypeOK
<1>5. start \in Nat /\ \A x \in cases[main] : x[1] < start /\ x[1] \in Nat
  BY <1>1, <1>2, BlockIdBound DEF BlockIds, IsNextBlockId, SwitchInv, TypeOK
<1>6. \A x \in ShiftedCases(o, start) : \E y \in cases[o] :
        /\ x[1] = y[1] + start /\ x[2] = y[2]
        /\ y[1] \in Nat /\ x[1] >= start
  BY <1>5, ShiftedCasesElement DEF SwitchInv
<1>7. CasesDistinct'
  <2> SUFFICES ASSUME NEW s \in Sites, site'[s] = "live",
                      NEW x \in cases'[s], NEW y \in cases'[s]
               PROVE  (x[1] = y[1]) <=> (x[2] = y[2])
    BY DEF CasesDistinct, Live
  <2>1. s # o /\ s \in Live
    BY <1>4 DEF Live
  <2>2. CASE x \in cases[s] /\ y \in cases[s]
    BY <2>1, <2>2 DEF SwitchInv, CasesDistinct
  <2>3. CASE s = main /\ x \in ShiftedCases(o, start) /\ y \in cases[main]
    <3>1. x[1] # y[1]
      BY <2>3, <1>5, <1>6
    <3>2. x[2] # y[2]
      BY <2>3, <1>2, <1>6 DEF SwitchInv, OneSwitchPerRetBlock
    <3> QED
      BY <3>1, <3>2
  <2>4. CASE s = main /\ y \in ShiftedCases(o, start) /\ x \in cases[main]
    <3>1. x[1] # y[1]
      BY <2>4, <1>5, <1>6
    <3>2. x[2] # y[2]
      BY <2>4, <1>2, <1>6 DEF SwitchInv, OneSwitchPerRetBlock
    <3> QED
      BY <3>1, <3>2
  <2>5. CASE x \in ShiftedCases(o, start) /\ y \in ShiftedCases(o, start)
    <3>1. PICK v \in cases[o] : x[1] = v[1] + start /\ x[2] = v[2] /\ v[1] \in Nat
      BY <2>5, <1>6
    <3>2. PICK w \in cases[o] : y[1] = w[1] + start /\ y[2] = w[2] /\ w[1] \in Nat
      BY <2>5, <1>6
    <3>3. (v[1] = w[1]) <=> (v[2] = w[2])
      BY <1>2 DEF SwitchInv, CasesDistinct, Live
    <3> QED
      BY <3>1, <3>2, <3>3, <1>5
  <2> QED
    BY <2>1, <2>2, <2>3, <2>4, <2>5, <1>3
<1>8. OneSwitchPerRetBlock'
  <2>1. \A s \in Sites : \A x \in cases'[s] :
          \E t \in Sites : \E y \in cases[t] :
            /\ x[2] = y[2]
            /\ s = IF t = o THEN main ELSE t
    <3> SUFFICES ASSUME NEW s \in Sites, NEW x \in cases'[s]
                 PROVE  \E t \in Sites : \E y \in cases[t] :
                          x[2] = y[2] /\ s = IF t = o THEN main ELSE t
      OBVIOUS
    <3>1. s # o
      BY <1>3
    <3>2. CASE x \in cases[s]
      BY <3>1, <3>2
    <3>3. CASE s = main /\ x \in ShiftedCases(o, start)
      <4>1. PICK y \in cases[o] : x[2] = y[2]
        BY <3>3, <1>6
      <4> QED
        BY <4>1, <3>3
    <3> QED
      BY <3>1, <3>2, <3>3, <1>3
  <2> SUFFICES ASSUME NEW s \in Sites, NEW t \in Sites,
                      NEW x \in cases'[s], NEW y \in cases'[t], x[2] = y[2]
               PROVE  s = t
    BY DEF OneSwitchPerRetBlock
  <2>2. PICK u \in Sites : \E v \in cases[u] :
          x[2] = v[2] /\ s = IF u = o THEN main ELSE u
    BY <2>1
  <2>3. PICK w \in Sites : \E z \in cases[w] :
          y[2] = z[2] /\ t = IF w = o THEN main ELSE w
    BY <2>1
  <2>4. u = w
    BY <2>2, <2>3 DEF SwitchInv, OneSwitchPerRetBlock
  <2> QED
    BY <2>2, <2>3, <2>4
<1>9. CasesWellOwned'
  <2> SUFFICES ASSUME NEW s \in Sites, NEW x \in cases'[s]
               PROVE  site'[s] = "live"
                      /\ call'[x[2]] \in {"fused", "absorbed", "merged"}
    BY DEF CasesWellOwned
  <2>1. s # o
    BY <1>3
  <2>2. \E t \in {s, o} : \E y \in cases[t] : x[2] = y[2]
    BY <2>1, <1>3, <1>6
  <2>3. x[2] \in Calls /\ call[x[2]] \in {"fused", "absorbed", "merged"}
    BY <2>2 DEF SwitchInv, CasesWellOwned, TypeOK
  <2>4. call'[x[2]] \in {"fused", "absorbed", "merged"}
    BY <2>3 DEF Combine
  <2>5. site[s] = "live"
    BY <2>1, <1>2, <1>3 DEF SwitchInv, CasesWellOwned
  <2> QED
    BY <2>1, <2>4, <2>5, <1>4
<1>10. branch' = [c \in Calls |-> IF c \in IdStores(o) THEN Entry(main) ELSE branch[c]]
  BY DEF Combine
<1>11. UnmadeSitesUnused'
  <2> SUFFICES ASSUME NEW s \in Sites, site'[s] = "none", NEW c \in Calls
               PROVE  branch'[c].site # s
    BY DEF UnmadeSitesUnused
  <2>1. site[s] = "none" /\ s # main
    BY <1>2, <1>4
  <2>2. Entry(main).site = main
    BY DEF Entry
  <2> QED
    BY <1>10, <2>1, <2>2 DEF SwitchInv, UnmadeSitesUnused
<1>12. RoundTripWhileLive'
  <2> SUFFICES ASSUME NEW c \in Calls, NEW s \in Sites, site'[s] = "live",
                      branch'[c] = [to |-> "callblock", site |-> s],
                      idSlot'[c] = [kind |-> "phi", site |-> s]
               PROVE  /\ <<blockId'[c], c>> \in cases'[s]
                      /\ argSlot'[c] = s /\ result'[c] = s
    BY DEF RoundTripWhileLive, Live
  <2>1. idSlot' = idSlot /\ argSlot' = argSlot /\ result' = result
    BY DEF Combine
  <2>2. s # o /\ s \in Live
    BY <1>4 DEF Live
  <2>3. c \notin IdStores(o)
    BY <2>1, <2>2 DEF IdStores, Slot
  <2>4. branch[c] = branch'[c] /\ blockId'[c] = blockId[c]
    BY <2>3, <1>1, <1>10
  <2>5. <<blockId[c], c>> \in cases[s] /\ argSlot[c] = s /\ result[c] = s
    BY <2>1, <2>2, <2>4 DEF SwitchInv, RoundTripWhileLive
  <2> QED
    BY <2>1, <2>2, <2>4, <2>5, <1>3
<1> QED
  BY <1>7, <1>8, <1>9, <1>11, <1>12 DEF SwitchInv

(* One case per action; the lemmas above do the actions that touch cases.  *)
LEMMA SwitchInvNext == SwitchInv /\ [Next]_vars => SwitchInv'
<1> SUFFICES ASSUME SwitchInv, [Next]_vars PROVE SwitchInv'
  OBVIOUS
<1> USE DEF siteVars, callVars
<1>1. TypeOK'
  BY TypeOKNext DEF SwitchInv
<1>2. CASE NoCandidates \/ NoDemote \/ NextRound \/ Finish \/ EndAbsorb
           \/ EndMerge \/ Terminated \/ Demote \/ Redemote \/ EndInline
           \/ UNCHANGED vars
  BY <1>1, <1>2, SwitchInvFrame
     DEF NoCandidates, NoDemote, NextRound, Finish, EndAbsorb, EndMerge,
         Terminated, Demote, Redemote, EndInline, vars
<1>3. ASSUME NEW s \in Sites, StartAbsorb(s) \/ SplitBody(s) \/ InlineSite(s)
      PROVE  SwitchInv'
  BY <1>1, <1>3, SwitchInvFrame DEF StartAbsorb, SplitBody, InlineSite
<1>4. CASE LeaveSingle
  <2>1. PICK c \in Calls : Plain = {c} /\ call' = [call EXCEPT ![c] = "single"]
    BY <1>4 DEF LeaveSingle
  <2>2. call[c] = "plain"
    BY <2>1 DEF Plain
  <2> QED
    BY <1>1, <1>4, <2>1, <2>2, SwitchInvFrame
       DEF LeaveSingle, SwitchInv, TypeOK
<1>5. ASSUME NEW c \in Calls,
             CombineCallAborts(c) \/ InlineSingle(c) \/ Arrive(c)
      PROVE  SwitchInv'
  BY <1>1, <1>5, SwitchInvFrame
     DEF CombineCallAborts, InlineSingle, Arrive, SwitchInv, TypeOK
<1>6. ASSUME NEW s \in Sites, CreateSite(s) PROVE SwitchInv'
  <2>1. PICK ids \in FreshIds(Plain) : MakeSite(s, Plain, ids, "phi", "call")
    BY <1>6 DEF CreateSite
  <2> QED
    BY <1>1, <2>1, SwitchInvMakeSite DEF Plain
<1>7. ASSUME NEW s \in Sites, ArriveSite(s) PROVE SwitchInv'
  <2>1. PICK C \in SUBSET {c \in Calls : call[c] = "absent"} :
          \E ids \in FreshIds(C) : MakeSite(s, C, ids, "load", "inlined")
    BY <1>7 DEF ArriveSite
  <2>2. PICK ids \in FreshIds(C) : MakeSite(s, C, ids, "load", "inlined")
    BY <2>1
  <2> QED
    BY <1>1, <2>2, SwitchInvMakeSite
<1>8. ASSUME NEW c \in Calls, CombineCall(c) PROVE SwitchInv'
  BY <1>1, <1>8, SwitchInvCombineCall
<1>9. ASSUME NEW o \in Sites, Combine(o) PROVE SwitchInv'
  BY <1>1, <1>9, SwitchInvCombine
<1> QED
  BY <1>2, <1>3, <1>4, <1>5, <1>6, <1>7, <1>8, <1>9
     DEF Next, CombineCalls, Rounds

(* No sequence of creations, absorptions and merges puts two cases of one  *)
(* id, or of one return block, in a live switch.                           *)
THEOREM CasesStayDistinct == Spec => []CasesDistinct
<1>1. Init => SwitchInv
  BY SwitchInvInit
<1>2. SwitchInv /\ [Next]_vars => SwitchInv'
  BY SwitchInvNext
<1>3. SwitchInv => CasesDistinct
  BY DEF SwitchInv
<1> QED
  BY <1>1, <1>2, <1>3, PTL DEF Spec

(* A call that enters a live call block under that block's id slot comes   *)
(* back to its own return block, with its own arguments and result.        *)
THEOREM RoundTripsStay == Spec => []RoundTripWhileLive
<1>1. Init => SwitchInv
  BY SwitchInvInit
<1>2. SwitchInv /\ [Next]_vars => SwitchInv'
  BY SwitchInvNext
<1>3. SwitchInv => RoundTripWhileLive
  BY DEF SwitchInv
<1> QED
  BY <1>1, <1>2, <1>3, PTL DEF Spec

-----------------------------------------------------------------------------
(* A block-id PHI only survives until the demotion that follows its        *)
(* creation, and the caller is marked for that demotion.                   *)
PhiInv ==
  /\ TypeOK
  /\ \A s \in Live : cond[s] = "phi" => phase = "demote" /\ modified

(* A new site's PHI lasts until the demotion that its creation asked for.  *)
LEMMA PhiInvNext == PhiInv /\ [Next]_vars => PhiInv'
<1> SUFFICES ASSUME PhiInv, [Next]_vars PROVE PhiInv'
  OBVIOUS
<1> USE DEF siteVars, callVars
<1>1. TypeOK'
  BY TypeOKNext DEF PhiInv
<1>2. CASE NoCandidates \/ NoDemote \/ NextRound \/ Finish \/ EndAbsorb
           \/ EndMerge \/ Terminated \/ EndInline \/ LeaveSingle
           \/ UNCHANGED vars
  BY <1>1, <1>2
     DEF NoCandidates, NoDemote, NextRound, Finish, EndAbsorb, EndMerge,
         Terminated, EndInline, LeaveSingle, vars, PhiInv, Live
<1>3. CASE Demote \/ Redemote
  BY <1>1, <1>3 DEF Demote, Redemote, DemotedCond, PhiInv, TypeOK, Live
<1>4. ASSUME NEW s \in Sites, StartAbsorb(s) \/ SplitBody(s) \/ InlineSite(s)
      PROVE  PhiInv'
  BY <1>1, <1>4 DEF StartAbsorb, SplitBody, InlineSite, PhiInv, Live
<1>5. ASSUME NEW c \in Calls,
             \/ CombineCall(c) \/ CombineCallAborts(c)
             \/ InlineSingle(c) \/ Arrive(c)
      PROVE  PhiInv'
  BY <1>1, <1>5
     DEF CombineCall, CombineCallAborts, InlineSingle, Arrive, PhiInv, Live
<1>6. ASSUME NEW s \in Sites, CreateSite(s) PROVE PhiInv'
  <2>1. \A t \in Sites \ {s} : site'[t] = site[t] /\ cond'[t] = cond[t]
    BY <1>6 DEF CreateSite, MakeSite, PhiInv, TypeOK
  <2> QED
    BY <1>1, <1>6, <2>1 DEF CreateSite, PhiInv, Live
<1>7. ASSUME NEW s \in Sites, ArriveSite(s) PROVE PhiInv'
  <2>1. /\ \A t \in Sites \ {s} : site'[t] = site[t] /\ cond'[t] = cond[t]
        /\ cond'[s] = "load"
    BY <1>7 DEF ArriveSite, MakeSite, PhiInv, TypeOK
  <2> QED
    BY <1>1, <1>7, <2>1 DEF ArriveSite, PhiInv, Live
<1>8. ASSUME NEW o \in Sites, Combine(o) PROVE PhiInv'
  <2>1. \A t \in Sites : site'[t] = "live" => site[t] = "live"
    BY <1>8 DEF Combine, PhiInv, TypeOK, Live
  <2> QED
    BY <1>1, <1>8, <2>1 DEF Combine, PhiInv, Live
<1> QED
  BY <1>2, <1>3, <1>4, <1>5, <1>6, <1>7, <1>8 DEF Next, CombineCalls, Rounds

(* The cast of a switch condition to a load never meets a PHI: lookups     *)
(* happen only while absorbing, merging or combining.                      *)
THEOREM LookupsSeeLoads == Spec => []LookupSeesLoads
<1>1. Init => PhiInv
  BY TypeOKInit DEF Init, PhiInv, Live
<1>2. PhiInv /\ [Next]_vars => PhiInv'
  BY PhiInvNext
<1>3. PhiInv => LookupSeesLoads
  BY DEF PhiInv, LookupSeesLoads
<1> QED
  BY <1>1, <1>2, <1>3, PTL DEF Spec

-----------------------------------------------------------------------------
(* Calls are combined with at most one site about: the clean-up comes      *)
(* before, and only a combine that ends makes a site.                      *)
OneInv ==
  /\ TypeOK
  /\ OneSiteWhenCombining
  /\ phase = "redemote" => Cardinality(Live) <= 1

(* Sites come and go between two combines; a combine looks at one.         *)
LEMMA OneInvNext == OneInv /\ [Next]_vars => OneInv'
<1> SUFFICES ASSUME OneInv, [Next]_vars PROVE OneInv'
  OBVIOUS
<1> USE DEF siteVars, callVars
<1>1. TypeOK'
  BY TypeOKNext DEF OneInv
<1>2. CASE phase' \notin {"combine", "absorb", "redemote"}
  BY <1>1, <1>2 DEF OneInv, OneSiteWhenCombining
<1>3. ASSUME phase \in {"combine", "absorb"}, Live' = Live, Plain' \subseteq Plain,
             phase' \in {"combine", "absorb"}
      PROVE  OneInv'
  BY <1>1, <1>3 DEF OneInv, OneSiteWhenCombining
<1>4. CASE EndInline
  <2>1. Live' = Live /\ Plain' = Plain
    BY <1>4 DEF EndInline, Live, Plain
  <2>2. Cardinality(Live) \in Nat
    BY FiniteFunction, FS_Subset, FS_CardinalityType DEF Live
  <2>3. \/ phase' = "merge"
        \/ phase' = "combine" /\ (Plain = {} \/ ~ (Cardinality(Live) > 1))
    BY <1>4 DEF EndInline
  <2> QED
    BY <1>1, <2>1, <2>2, <2>3 DEF OneInv, OneSiteWhenCombining
<1>5. CASE EndMerge
  <2>1. Live' = {main} /\ phase' = "redemote"
    BY <1>5 DEF EndMerge, Live
  <2>2. Cardinality(Live') = 1
    BY <2>1, FS_Singleton
  <2> QED
    BY <1>1, <2>1, <2>2 DEF OneInv, OneSiteWhenCombining
<1>6. CASE Redemote
  <2>1. Live' = Live /\ phase = "redemote" /\ phase' = "combine"
    BY <1>6 DEF Redemote, Live
  <2> QED
    BY <1>1, <2>1 DEF OneInv, OneSiteWhenCombining
<1>7. ASSUME NEW s \in Sites, StartAbsorb(s) \/ SplitBody(s) PROVE OneInv'
  BY <1>3, <1>7 DEF StartAbsorb, SplitBody, Live, Plain
<1>8. ASSUME NEW c \in Calls, CombineCall(c) PROVE OneInv'
  <2>1. phase = "absorb" /\ phase' = phase /\ site' = site
        /\ call' = [call EXCEPT ![c] = "absorbed"]
    BY <1>8 DEF CombineCall
  <2>2. Plain' \subseteq Plain
    BY <2>1 DEF Plain, OneInv, TypeOK
  <2> QED
    BY <1>3, <2>1, <2>2 DEF Live
<1>9. ASSUME NEW c \in Calls, CombineCallAborts(c) \/ InlineSingle(c) \/ Arrive(c)
      PROVE  OneInv'
  BY <1>2, <1>9 DEF CombineCallAborts, InlineSingle, Arrive
<1>10. ASSUME NEW s \in Sites,
              CreateSite(s) \/ InlineSite(s) \/ ArriveSite(s) \/ Combine(s)
       PROVE  OneInv'
  BY <1>2, <1>10 DEF CreateSite, InlineSite, ArriveSite, Combine
<1>11. CASE NoCandidates \/ LeaveSingle \/ EndAbsorb \/ Demote \/ NoDemote
            \/ NextRound \/ Finish \/ Terminated
  BY <1>2, <1>11 DEF NoCandidates, LeaveSingle, EndAbsorb, Demote, NoDemote,
                     NextRound, Finish, Terminated, vars
<1>12. CASE UNCHANGED vars
  BY <1>1, <1>12 DEF vars, OneInv, OneSiteWhenCombining, Live, Plain
<1> QED
  BY <1>4, <1>5, <1>6, <1>7, <1>8, <1>9, <1>10, <1>11, <1>12
     DEF Next, CombineCalls, Rounds

(* front() of the callee's sites is the only one whenever calls are        *)
(* combined, however many sites the inlining before it brought in.         *)
THEOREM OneSiteStays == Spec => []OneSiteWhenCombining
<1>1. Init => OneInv
  <2>1. Init => Live = {} /\ phase = "combine"
    BY DEF Init, Live
  <2> QED
    BY <2>1, TypeOKInit, FS_EmptySet DEF OneInv, OneSiteWhenCombining
<1>2. OneInv => OneSiteWhenCombining
  BY DEF OneInv
<1> QED
  BY <1>1, <1>2, OneInvNext, PTL DEF Spec

-----------------------------------------------------------------------------
(* While no call block has been split, no condition is spilled, and a call *)
(* that was gathered branches to the block of a live site, where its id    *)
(* slot is.                                                                *)
FusedInv ==
  /\ \A s \in Sites : split[s] => body[s] = "inlined" /\ site[s] # "none"
  /\ (\A s \in Sites : ~ split[s]) =>
       /\ \A s \in Sites : cond[s] # "reload"
       /\ \A c \in Calls : call[c] = "fused" =>
            \E s \in Live :
              /\ branch[c] = [to |-> "callblock", site |-> s]
              /\ idSlot[c] = [kind |-> "phi", site |-> s]

(* Nothing changes for a gathered call as long as the sites stay and no    *)
(* other call is called gathered.                                          *)
LEMMA FusedInvFrame ==
  ASSUME FusedInv, UNCHANGED <<split, branch, idSlot>>,
         \A s \in Sites : split[s] => body'[s] = body[s],
         \A s \in Sites : site'[s] = site[s],
         (\A s \in Sites : ~ split[s]) =>
           \A s \in Sites : cond[s] # "reload" => cond'[s] # "reload",
         \A c \in Calls : call'[c] = "fused" => call[c] = "fused"
  PROVE  FusedInv'
BY SMTT(30) DEF FusedInv, Live

(* A new site has its calls branch to it.                                  *)
LEMMA FusedInvMakeSite ==
  ASSUME TypeOK, FusedInv, NEW s \in Sites, NEW C \in SUBSET Calls, NEW ids,
         NEW condition \in {"phi", "load"}, NEW inlined \in {"call", "inlined"},
         MakeSite(s, C, ids, condition, inlined), split' = split
  PROVE  FusedInv'
<1>1. /\ site' = [site EXCEPT ![s] = "live"] /\ site[s] = "none"
      /\ body' = [body EXCEPT ![s] = inlined]
      /\ cond' = [cond EXCEPT ![s] = condition]
  BY DEF MakeSite
<1>2. \A t \in Sites : split'[t] => body'[t] = "inlined" /\ site'[t] # "none"
  BY <1>1 DEF TypeOK, FusedInv
<1> SUFFICES ASSUME \A t \in Sites : ~ split[t]
             PROVE  /\ \A t \in Sites : cond'[t] # "reload"
                    /\ \A c \in Calls : call'[c] = "fused" =>
                         \E t \in Live' :
                           /\ branch'[c] = [to |-> "callblock", site |-> t]
                           /\ idSlot'[c] = [kind |-> "phi", site |-> t]
  BY <1>2 DEF FusedInv
<1>3. \A t \in Sites : cond'[t] # "reload"
  BY <1>1 DEF TypeOK, FusedInv
<1>4. s \in Live' /\ Live \subseteq Live'
  BY <1>1 DEF TypeOK, Live
<1>5. ASSUME NEW c \in Calls, call'[c] = "fused"
      PROVE  \E t \in Live' :
               /\ branch'[c] = [to |-> "callblock", site |-> t]
               /\ idSlot'[c] = [kind |-> "phi", site |-> t]
  <2>1. CASE c \in C
    BY <1>4, <2>1 DEF MakeSite
  <2>2. CASE c \notin C
    <3>1. call[c] = "fused" /\ branch'[c] = branch[c] /\ idSlot'[c] = idSlot[c]
      BY <1>5, <2>2 DEF MakeSite
    <3> QED
      BY <1>4, <3>1 DEF FusedInv
  <2> QED
    BY <2>1, <2>2
<1> QED
  BY <1>3, <1>5

(* A merge turns the gathered calls of the site it takes in into merged    *)
(* ones; those of every other site are left alone.                         *)
LEMMA FusedInvCombine ==
  ASSUME TypeOK, FusedInv, NEW o \in Sites, Combine(o)
  PROVE  FusedInv'
<1>1. UNCHANGED <<body, split, cond, idSlot>>
  BY DEF Combine
<1>2. \A s \in Sites \ {o} : site'[s] = site[s]
  BY DEF Combine, TypeOK
<1>0. \A s \in Sites : split[s] => site'[s] # "none"
  BY <1>1, <1>2 DEF Combine, FusedInv, TypeOK
<1> SUFFICES ASSUME \A s \in Sites : ~ split[s],
                    NEW c \in Calls, call'[c] = "fused"
             PROVE  \E s \in Live' :
                      /\ branch'[c] = [to |-> "callblock", site |-> s]
                      /\ idSlot'[c] = [kind |-> "phi", site |-> s]
  BY <1>0, <1>1 DEF FusedInv
<1>3. c \notin IdStores(o) /\ call[c] = "fused" /\ branch'[c] = branch[c]
  BY DEF Combine
<1>4. PICK s \in Live : /\ branch[c] = [to |-> "callblock", site |-> s]
                        /\ idSlot[c] = [kind |-> "phi", site |-> s]
  BY <1>3 DEF FusedInv
<1>5. s # o
  BY <1>3, <1>4 DEF FusedInv, IdStores, Slot, Entry
<1> QED
  BY <1>1, <1>2, <1>3, <1>4, <1>5 DEF Live

(* One case per action; the lemmas above do those that touch gathered      *)
(* calls, and splitting a call block is beyond the promise.                *)
LEMMA FusedInvNext == TypeOK /\ FusedInv /\ [Next]_vars => FusedInv'
<1> SUFFICES ASSUME TypeOK, FusedInv, [Next]_vars PROVE FusedInv'
  OBVIOUS
<1> USE DEF siteVars, callVars
<1>1. CASE NoCandidates \/ NoDemote \/ NextRound \/ Finish \/ EndAbsorb
           \/ EndMerge \/ Terminated \/ EndInline \/ UNCHANGED vars
  BY <1>1, FusedInvFrame
     DEF NoCandidates, NoDemote, NextRound, Finish, EndAbsorb, EndMerge,
         Terminated, EndInline, vars
<1>2. CASE LeaveSingle
  <2>1. \A c \in Calls : call'[c] = "fused" => call[c] = "fused"
    BY <1>2 DEF LeaveSingle, TypeOK
  <2> QED
    BY <1>2, <2>1, FusedInvFrame DEF LeaveSingle
<1>3. CASE Demote \/ Redemote
  <2>1. (\A s \in Sites : ~ split[s]) =>
           \A s \in Sites : cond[s] # "reload" => cond'[s] # "reload"
    BY <1>3 DEF Demote, Redemote, DemotedCond
  <2> QED
    BY <1>3, <2>1, FusedInvFrame DEF Demote, Redemote
<1>4. ASSUME NEW c \in Calls,
             CombineCallAborts(c) \/ InlineSingle(c) \/ Arrive(c)
      PROVE  FusedInv'
  <2>1. \A d \in Calls : call'[d] = "fused" => call[d] = "fused"
    BY <1>4 DEF CombineCallAborts, InlineSingle, Arrive, TypeOK
  <2> QED
    BY <1>4, <2>1, FusedInvFrame DEF CombineCallAborts, InlineSingle, Arrive
<1>5. ASSUME NEW c \in Calls, CombineCall(c) PROVE FusedInv'
  <2>1. \A d \in Calls : call'[d] = "fused" =>
           d # c /\ call[d] = "fused" /\ branch'[d] = branch[d]
             /\ idSlot'[d] = idSlot[d]
    BY <1>5 DEF CombineCall, TypeOK
  <2>2. UNCHANGED <<site, body, split, cond>>
    BY <1>5 DEF CombineCall
  <2>3. Live' = Live
    BY <2>2 DEF Live
  <2>4. \A d \in Calls : call'[d] = "fused" => \A s :
           /\ branch[d] = [to |-> "callblock", site |-> s]
                => branch'[d] = [to |-> "callblock", site |-> s]
           /\ idSlot[d] = [kind |-> "phi", site |-> s]
                => idSlot'[d] = [kind |-> "phi", site |-> s]
    BY <2>1
  <2>5. \A d \in Calls : call'[d] = "fused" => call[d] = "fused"
    BY <2>1
  <2> QED
    BY <2>2, <2>3, <2>4, <2>5 DEF FusedInv
<1>6. ASSUME NEW s \in Sites, StartAbsorb(s) PROVE FusedInv'
  BY <1>6, FusedInvFrame DEF StartAbsorb
<1>7. ASSUME NEW s \in Sites, SplitBody(s) PROVE FusedInv'
  <2>1. body[s] = "inlined" /\ split'[s] /\ body' = body /\ site' = site
        /\ site[s] = "live"
        /\ \A t \in Sites \ {s} : split'[t] = split[t]
    BY <1>7 DEF SplitBody, TypeOK, Live
  <2> QED
    BY <2>1 DEF FusedInv
<1>8. ASSUME NEW s \in Sites, InlineSite(s) PROVE FusedInv'
  <2>1. PICK outcome \in {"inlined", "failed"}, parted \in BOOLEAN :
          /\ parted => BodySplits /\ outcome = "inlined"
          /\ body' = [body EXCEPT ![s] = outcome]
          /\ split' = [split EXCEPT ![s] = parted]
    BY <1>8 DEF InlineSite
  <2>2. body[s] = "call" /\ ~ split[s]
    BY <1>8 DEF InlineSite, FusedInv
  <2>3. \A t \in Sites : split'[t] => body'[t] = "inlined" /\ site[t] # "none"
    BY <1>8, <2>1 DEF InlineSite, FusedInv, TypeOK, Live
  <2>4. (\A t \in Sites : ~ split'[t]) => \A t \in Sites : ~ split[t]
    BY <2>1, <2>2 DEF TypeOK
  <2>5. UNCHANGED <<site, cond, call, branch, idSlot>>
    BY <1>8 DEF InlineSite
  <2> QED
    BY <2>3, <2>4, <2>5 DEF FusedInv, Live
<1>9. ASSUME NEW s \in Sites, CreateSite(s) PROVE FusedInv'
  <2>1. PICK ids \in FreshIds(Plain) : MakeSite(s, Plain, ids, "phi", "call")
    BY <1>9 DEF CreateSite
  <2>2. split' = split /\ Plain \in SUBSET Calls
    BY <1>9 DEF CreateSite, Plain
  <2> QED
    BY <2>1, <2>2, FusedInvMakeSite
<1>10. ASSUME NEW s \in Sites, ArriveSite(s) PROVE FusedInv'
  <2>1. PICK C \in SUBSET Calls : \E ids \in FreshIds(C) :
          MakeSite(s, C, ids, "load", "inlined")
    BY <1>10 DEF ArriveSite
  <2>2. PICK ids \in FreshIds(C) : MakeSite(s, C, ids, "load", "inlined")
    BY <2>1
  <2>3. split' = split
    BY <1>10 DEF ArriveSite
  <2> QED
    BY <2>2, <2>3, FusedInvMakeSite
<1>11. ASSUME NEW o \in Sites, Combine(o) PROVE FusedInv'
  BY <1>11, FusedInvCombine
<1> QED
  BY <1>1, <1>2, <1>3, <1>4, <1>5, <1>6, <1>7, <1>8, <1>9, <1>10, <1>11
     DEF Next, CombineCalls, Rounds

(* Without split call blocks, a gathered call keeps its way back until its *)
(* own site is merged into another.                                        *)
THEOREM FusedCallsStay == Spec => []FusedCallsKeepTheirCase
<1>1. Init => FusedInv
  <2> SUFFICES ASSUME Init PROVE FusedInv
    OBVIOUS
  <2>1. \A c \in Calls : call[c] # "fused"
    BY DEF Init
  <2> QED
    BY <2>1 DEF Init, FusedInv
<1>2. TypeOK /\ FusedInv /\ RoundTripWhileLive => FusedCallsKeepTheirCase
  BY DEF FusedInv, RoundTripWhileLive, FusedCallsKeepTheirCase, Entry, Live
<1> QED
  BY <1>1, <1>2, FusedInvNext, TypeCorrect, RoundTripsStay, PTL DEF Spec

-----------------------------------------------------------------------------
(* The calls can be dealt out to the sites so that no switch has an id as  *)
(* large as the number of its calls: a new site gets those it was made     *)
(* for, an absorbed call goes to the main site, and a merge hands over     *)
(* what the other site has.                                                *)
Taken == {c \in Calls : call[c] \in {"fused", "absorbed", "merged"}}

IdsWithin(own) ==
  /\ \A s \in Sites : own[s] \subseteq Taken
  /\ \A s \in Sites : \A x \in cases[s] : x[1] < Cardinality(own[s])
  /\ \A s, t \in Sites : s # t => own[s] \cap own[t] = {}

IdsInv == \E own \in [Sites -> SUBSET Calls] : IdsWithin(own)

LEMMA CountCalls ==
  ASSUME NEW C \in SUBSET Calls
  PROVE  IsFiniteSet(C) /\ Cardinality(C) \in Nat
BY FiniteFunction, FS_Subset, FS_CardinalityType

(* No call is taken and no switch has a case: nobody owns anything.        *)
LEMMA IdsInvInit == Init => IdsInv
<1> SUFFICES ASSUME Init PROVE IdsInv
  OBVIOUS
<1> DEFINE own == [s \in Sites |-> {}]
<1>1. IdsWithin(own) /\ own \in [Sites -> SUBSET Calls]
  BY DEF IdsWithin, Init
<1> QED
  BY <1>1 DEF IdsInv

(* Steps that leave the switches alone leave the deal alone.               *)
LEMMA IdsInvFrame ==
  ASSUME IdsInv, cases' = cases, Taken \subseteq Taken'
  PROVE  IdsInv'
BY DEF IdsInv, IdsWithin

(* The ids of a new site are below the number of its calls.                *)
LEMMA IdsInvMakeSite ==
  ASSUME TypeOK, IdsInv,
         NEW s \in Sites, NEW C \in SUBSET Calls, NEW ids \in FreshIds(C),
         NEW condition, NEW inlined,
         \A c \in C : call[c] \in {"plain", "absent"},
         MakeSite(s, C, ids, condition, inlined)
  PROVE  IdsInv'
<1>1. PICK own \in [Sites -> SUBSET Calls] : IdsWithin(own)
  BY DEF IdsInv
<1> DEFINE owned == [own EXCEPT ![s] = C]
<1>2. owned \in [Sites -> SUBSET Calls]
  OBVIOUS
<1>3. C \cap Taken = {} /\ Taken' = Taken \cup C
  BY DEF Taken, MakeSite
<1>4. cases' = [cases EXCEPT ![s] = NewCases(C, ids)]
  BY DEF MakeSite
<1>5. \A x \in NewCases(C, ids) : x[1] < Cardinality(C)
  BY CountCalls DEF NewCases, FreshIds
<1>6. \A t \in Sites : owned[t] \subseteq Taken'
  BY <1>1, <1>3 DEF IdsWithin
<1>7. \A t \in Sites : \A x \in cases'[t] : x[1] < Cardinality(owned[t])
  BY <1>1, <1>4, <1>5 DEF IdsWithin, TypeOK
<1>8. \A t, u \in Sites : t # u => owned[t] \cap owned[u] = {}
  BY <1>1, <1>3 DEF IdsWithin
<1> QED
  BY <1>2, <1>6, <1>7, <1>8 DEF IdsInv, IdsWithin

(* The next id of a switch is at most the number of calls it owns.         *)
LEMMA NextIdWithin ==
  ASSUME TypeOK, NEW own \in [Sites -> SUBSET Calls], IdsWithin(own),
         NEW s \in Sites, NEW n \in Nat, IsNextBlockId(s, n)
  PROVE  n <= Cardinality(own[s])
<1>1. Cardinality(own[s]) \in Nat
  BY CountCalls
<1>2. CASE n = 0
  BY <1>1, <1>2
<1>3. CASE n # 0
  <2>1. PICK x \in cases[s] : x[1] = n - 1
    BY <1>3 DEF IsNextBlockId
  <2>2. n - 1 < Cardinality(own[s])
    BY <2>1 DEF IdsWithin
  <2> QED
    BY <1>1, <2>2
<1> QED
  BY <1>2, <1>3

(* An absorbed call raises the number of calls, and the largest id by one. *)
LEMMA IdsInvCombineCall ==
  ASSUME TypeOK, IdsInv, NEW c \in Calls, CombineCall(c)
  PROVE  IdsInv'
<1>1. PICK own \in [Sites -> SUBSET Calls] : IdsWithin(own)
  BY DEF IdsInv
<1>2. PICK n \in BlockIds :
        /\ IsNextBlockId(main, n)
        /\ cases' = [cases EXCEPT ![main] = @ \cup {<<n, c>>}]
  BY DEF CombineCall
<1>3. main \in Sites /\ n \in Nat
  BY BlockIdBound DEF CombineCall, TypeOK, Live, BlockIds
<1> DEFINE owned == [own EXCEPT ![main] = own[main] \cup {c}]
<1>4. owned \in [Sites -> SUBSET Calls]
  BY <1>3
<1>5. c \notin Taken /\ Taken' = Taken \cup {c}
  BY DEF Taken, CombineCall, TypeOK
<1>6. /\ Cardinality(own[main]) \in Nat
      /\ Cardinality(own[main] \cup {c}) = Cardinality(own[main]) + 1
  <2>1. c \notin own[main] /\ IsFiniteSet(own[main])
    BY <1>1, <1>3, <1>5, CountCalls DEF IdsWithin
  <2>2. Cardinality(own[main]) \in Nat
    BY <1>3, CountCalls
  <2> QED
    BY <2>1, <2>2, FS_AddElement
<1>7. n <= Cardinality(own[main])
  BY <1>1, <1>2, <1>3, NextIdWithin
<1>8. \A s \in Sites : owned[s] \subseteq Taken'
  BY <1>1, <1>5 DEF IdsWithin
<1>9. \A s \in Sites : \A x \in cases'[s] : x[1] < Cardinality(owned[s])
  <2> SUFFICES ASSUME NEW s \in Sites, NEW x \in cases'[s]
               PROVE  x[1] < Cardinality(owned[s])
    OBVIOUS
  <2>1. CASE s # main
    BY <1>1, <1>2, <2>1 DEF IdsWithin, TypeOK
  <2>2. CASE s = main
    <3>1. owned[s] = own[main] \cup {c}
      BY <1>3, <2>2
    <3>2. x \in cases[main] \/ x = <<n, c>>
      BY <1>2, <1>3, <2>2 DEF TypeOK
    <3>3. x \in cases[main] => x[1] < Cardinality(own[main]) /\ x[1] \in Nat
      BY <1>1, <1>3 DEF IdsWithin, TypeOK
    <3>4. Cardinality(owned[s]) = Cardinality(own[main]) + 1
      BY <1>6, <3>1
    <3>5. x[1] < Cardinality(own[main]) + 1
      BY <1>3, <1>6, <1>7, <3>2, <3>3
    <3> QED
      BY <3>4, <3>5
  <2> QED
    BY <2>1, <2>2
<1>10. \A s, t \in Sites : s # t => owned[s] \cap owned[t] = {}
  BY <1>1, <1>5 DEF IdsWithin
<1> QED
  BY <1>4, <1>8, <1>9, <1>10 DEF IdsInv, IdsWithin

(* A merge gives the main site the calls of the other one; shifted by at   *)
(* most the calls it had, the ids stay below the calls it has.             *)
LEMMA IdsInvCombine ==
  ASSUME TypeOK, IdsInv, NEW o \in Sites, Combine(o)
  PROVE  IdsInv'
<1>1. PICK own \in [Sites -> SUBSET Calls] : IdsWithin(own)
  BY DEF IdsInv
<1>2. PICK start \in BlockIds :
        /\ IsNextBlockId(main, start)
        /\ cases' = [cases EXCEPT ![main] = @ \cup ShiftedCases(o, start),
                                  ![o] = {}]
  BY DEF Combine
<1>3. main \in Sites /\ start \in Nat /\ main # o
  BY BlockIdBound DEF Combine, TypeOK, Live, BlockIds
<1> DEFINE owned == [s \in Sites |-> IF s = main THEN own[main] \cup own[o]
                                     ELSE IF s = o THEN {} ELSE own[s]]
<1>4. owned \in [Sites -> SUBSET Calls]
  BY <1>3
<1>5. Taken \subseteq Taken'
  BY DEF Taken, Combine, TypeOK
<1>6. /\ Cardinality(own[main]) \in Nat /\ Cardinality(own[o]) \in Nat
      /\ Cardinality(own[main] \cup own[o])
           = Cardinality(own[main]) + Cardinality(own[o])
  <2>1. /\ IsFiniteSet(own[main]) /\ IsFiniteSet(own[o])
        /\ Cardinality(own[main]) \in Nat /\ Cardinality(own[o]) \in Nat
    BY <1>3, CountCalls
  <2>2. own[main] \cap own[o] = {}
    BY <1>1, <1>3 DEF IdsWithin
  <2>3. Cardinality(own[main] \cap own[o]) = 0
    BY <2>2, FS_EmptySet
  <2>4. Cardinality(own[main] \cup own[o])
          = Cardinality(own[main]) + Cardinality(own[o])
              - Cardinality(own[main] \cap own[o])
    BY <2>1, FS_Union
  <2> QED
    BY <2>1, <2>3, <2>4
<1>7. start <= Cardinality(own[main])
  BY <1>1, <1>2, <1>3, NextIdWithin
<1>8. \A s \in Sites : owned[s] \subseteq Taken'
  BY <1>1, <1>3, <1>5 DEF IdsWithin
<1>9. \A s \in Sites : \A x \in cases'[s] : x[1] < Cardinality(owned[s])
  <2> SUFFICES ASSUME NEW s \in Sites, NEW x \in cases'[s]
               PROVE  x[1] < Cardinality(owned[s])
    OBVIOUS
  <2>1. CASE s \notin {main, o}
    BY <1>1, <1>2, <2>1 DEF IdsWithin, TypeOK
  <2>2. s # o
    BY <1>2, <1>3 DEF TypeOK
  <2>3. CASE s = main
    <3>1. owned[s] = own[main] \cup own[o]
      BY <1>3, <2>3
    <3>2. x \in cases[main] \/ x \in ShiftedCases(o, start)
      BY <1>2, <1>3, <2>3 DEF TypeOK
    <3>3. x \in cases[main] => x[1] < Cardinality(own[main]) /\ x[1] \in Nat
      BY <1>1, <1>3 DEF IdsWithin, TypeOK
    <3>4. CASE x \in ShiftedCases(o, start)
      <4>1. PICK y \in cases[o] : x[1] = y[1] + start /\ y[1] \in Nat
        BY <1>3, <3>4, ShiftedCasesElement
      <4>2. y[1] < Cardinality(own[o])
        BY <1>1 DEF IdsWithin
      <4>3. x[1] < Cardinality(own[main]) + Cardinality(own[o])
        BY <1>3, <1>6, <1>7, <4>1, <4>2
      <4> QED
        BY <1>6, <3>1, <4>3
    <3>5. CASE x \in cases[main]
      BY <1>6, <3>1, <3>3, <3>5
    <3> QED
      BY <3>2, <3>4, <3>5
  <2> QED
    BY <2>1, <2>2, <2>3
<1>10. \A s, t \in Sites : s # t => owned[s] \cap owned[t] = {}
  BY <1>1, <1>3 DEF IdsWithin
<1> QED
  BY <1>4, <1>8, <1>9, <1>10 DEF IdsInv, IdsWithin

(* One case per action; most leave the switches and the taken calls alone. *)
LEMMA IdsInvNext == TypeOK /\ IdsInv /\ [Next]_vars => IdsInv'
<1> SUFFICES ASSUME TypeOK, IdsInv, [Next]_vars PROVE IdsInv'
  OBVIOUS
<1> USE DEF siteVars, callVars
<1>1. CASE NoCandidates \/ NoDemote \/ NextRound \/ Finish \/ EndAbsorb
           \/ EndMerge \/ Terminated \/ EndInline \/ Demote \/ Redemote
           \/ UNCHANGED vars
  BY <1>1, IdsInvFrame
     DEF NoCandidates, NoDemote, NextRound, Finish, EndAbsorb, EndMerge,
         Terminated, EndInline, Demote, Redemote, vars, Taken
<1>2. CASE LeaveSingle
  <2>1. PICK c \in Calls : Plain = {c} /\ call' = [call EXCEPT ![c] = "single"]
    BY <1>2 DEF LeaveSingle
  <2>2. Taken \subseteq Taken'
    BY <2>1 DEF Taken, Plain, TypeOK
  <2> QED
    BY <1>2, <2>2, IdsInvFrame DEF LeaveSingle
<1>3. ASSUME NEW s \in Sites, StartAbsorb(s) \/ SplitBody(s) \/ InlineSite(s)
      PROVE  IdsInv'
  BY <1>3, IdsInvFrame DEF StartAbsorb, SplitBody, InlineSite, Taken
<1>4. ASSUME NEW c \in Calls,
             CombineCallAborts(c) \/ InlineSingle(c) \/ Arrive(c)
      PROVE  IdsInv'
  BY <1>4, IdsInvFrame
     DEF CombineCallAborts, InlineSingle, Arrive, Taken, TypeOK
<1>5. ASSUME NEW s \in Sites, CreateSite(s) PROVE IdsInv'
  <2>1. PICK ids \in FreshIds(Plain) : MakeSite(s, Plain, ids, "phi", "call")
    BY <1>5 DEF CreateSite
  <2> QED
    BY <2>1, IdsInvMakeSite DEF Plain
<1>6. ASSUME NEW s \in Sites, ArriveSite(s) PROVE IdsInv'
  <2>1. PICK C \in SUBSET {c \in Calls : call[c] = "absent"} :
          \E ids \in FreshIds(C) : MakeSite(s, C, ids, "load", "inlined")
    BY <1>6 DEF ArriveSite
  <2>2. PICK ids \in FreshIds(C) : MakeSite(s, C, ids, "load", "inlined")
    BY <2>1
  <2> QED
    BY <2>2, IdsInvMakeSite
<1>7. ASSUME NEW c \in Calls, CombineCall(c) PROVE IdsInv'
  BY <1>7, IdsInvCombineCall
<1>8. ASSUME NEW o \in Sites, Combine(o) PROVE IdsInv'
  BY <1>8, IdsInvCombine
<1> QED
  BY <1>1, <1>2, <1>3, <1>4, <1>5, <1>6, <1>7, <1>8
     DEF Next, CombineCalls, Rounds

(* However often sites absorb calls and are merged, an id is below the     *)
(* number of calls that there are.                                         *)
THEOREM IdsStayBelow == Spec => []IdsBelowCallCount
<1>1. TypeOK /\ IdsInv => IdsBelowCallCount
  <2> SUFFICES ASSUME TypeOK, NEW own \in [Sites -> SUBSET Calls],
                      IdsWithin(own), NEW s \in Sites, NEW x \in cases[s]
               PROVE  x[1] < Cardinality(Calls)
    BY DEF IdsInv, IdsBelowCallCount, Live
  <2>1. x[1] \in Nat /\ x[1] < Cardinality(own[s])
    BY DEF TypeOK, IdsWithin
  <2>2. Cardinality(own[s]) <= Cardinality(Calls)
    BY FiniteFunction, FS_Subset
  <2>3. Cardinality(own[s]) \in Nat /\ Cardinality(Calls) \in Nat
    BY CountCalls
  <2> QED
    BY <2>1, <2>2, <2>3
<1> QED
  BY <1>1, IdsInvInit, IdsInvNext, TypeCorrect, PTL DEF Spec
-----------------------------------------------------------------------------
(* From here on: the program that the surgery made, running.               *)

(* Running changes nothing of what the surgery made.                       *)
LEMMA FusedStepIsStep == [FusedNext]_<<vars, runVars>> => [Next]_vars
<1> SUFFICES ASSUME [FusedNext]_<<vars, runVars>> PROVE [Next]_vars
  OBVIOUS
<1>1. CASE Running
  BY <1>1 DEF Running, CallBlock, SwitchBack, ReadResult, ParentBlock,
              BypassingBlock
<1> QED
  BY <1>1 DEF FusedNext

(* So what holds of the surgery holds of the running program.              *)
LEMMA FusedSurgery ==
  FusedSpec => [](TypeOK /\ CasesDistinct /\ RoundTripWhileLive)
<1>1. FusedSpec => Spec
  <2>1. FusedInit => Init
    BY DEF FusedInit
  <2> QED
    BY <2>1, FusedStepIsStep, PTL DEF FusedSpec, Spec
<1> QED
  BY <1>1, TypeCorrect, CasesStayDistinct, RoundTripsStay, PTL
-----------------------------------------------------------------------------
(* A call that was gathered enters the block that its arguments and its id *)
(* are stored for.                                                         *)
FusedCallsEnter ==
  \A c \in Calls : call[c] = "fused" =>
    /\ argSlot[c] \in Sites
    /\ branch[c] = [to |-> "callblock", site |-> argSlot[c]]
    /\ idSlot[c] = [kind |-> "phi", site |-> argSlot[c]]

(* Gathering is where it begins; absorbing and merging, which change what  *)
(* a call stores or where it goes, call it something else.                 *)
LEMMA FusedCallsEnterNext ==
  TypeOK /\ FusedCallsEnter /\ [Next]_vars => FusedCallsEnter'
<1> SUFFICES ASSUME TypeOK, FusedCallsEnter, [Next]_vars,
                    NEW c \in Calls, call'[c] = "fused"
             PROVE  /\ argSlot'[c] \in Sites
                    /\ branch'[c] = [to |-> "callblock", site |-> argSlot'[c]]
                    /\ idSlot'[c] = [kind |-> "phi", site |-> argSlot'[c]]
  BY DEF FusedCallsEnter
<1> USE DEF siteVars, callVars
<1>1. ASSUME call[c] = "fused", argSlot'[c] = argSlot[c],
             branch'[c] = branch[c], idSlot'[c] = idSlot[c]
      PROVE  /\ argSlot'[c] \in Sites
             /\ branch'[c] = [to |-> "callblock", site |-> argSlot'[c]]
             /\ idSlot'[c] = [kind |-> "phi", site |-> argSlot'[c]]
  BY <1>1 DEF FusedCallsEnter
<1>2. CASE NoCandidates \/ NoDemote \/ NextRound \/ Finish \/ EndAbsorb
           \/ EndMerge \/ Terminated \/ EndInline \/ Demote \/ Redemote
           \/ UNCHANGED vars
  BY <1>1, <1>2
     DEF NoCandidates, NoDemote, NextRound, Finish, EndAbsorb, EndMerge,
         Terminated, EndInline, Demote, Redemote, vars
<1>3. CASE LeaveSingle
  BY <1>1, <1>3 DEF LeaveSingle, TypeOK
<1>4. ASSUME NEW s \in Sites, StartAbsorb(s) \/ SplitBody(s) \/ InlineSite(s)
      PROVE  call[c] = "fused" /\ UNCHANGED <<argSlot, branch, idSlot>>
  BY <1>4 DEF StartAbsorb, SplitBody, InlineSite
<1>5. ASSUME NEW d \in Calls,
             CombineCallAborts(d) \/ InlineSingle(d) \/ Arrive(d)
      PROVE  call[c] = "fused" /\ UNCHANGED <<argSlot, branch, idSlot>>
  BY <1>5 DEF CombineCallAborts, InlineSingle, Arrive, TypeOK
<1>6. ASSUME NEW d \in Calls, CombineCall(d)
      PROVE  /\ call[c] = "fused" /\ argSlot'[c] = argSlot[c]
             /\ branch'[c] = branch[c] /\ idSlot'[c] = idSlot[c]
  BY <1>6 DEF CombineCall, TypeOK
<1>7. ASSUME NEW s \in Sites, NEW C, NEW ids, NEW condition, NEW inlined,
             MakeSite(s, C, ids, condition, inlined)
      PROVE  /\ argSlot'[c] \in Sites
             /\ branch'[c] = [to |-> "callblock", site |-> argSlot'[c]]
             /\ idSlot'[c] = [kind |-> "phi", site |-> argSlot'[c]]
  <2>1. CASE c \in C
    BY <1>7, <2>1 DEF MakeSite
  <2>2. CASE c \notin C
    BY <1>1, <1>7, <2>2 DEF MakeSite
  <2> QED
    BY <2>1, <2>2
<1>8. ASSUME NEW s \in Sites, CreateSite(s)
      PROVE  \E C, ids, condition, inlined : MakeSite(s, C, ids, condition, inlined)
  BY <1>8 DEF CreateSite
<1>9. ASSUME NEW s \in Sites, ArriveSite(s)
      PROVE  \E C, ids, condition, inlined : MakeSite(s, C, ids, condition, inlined)
  BY <1>9 DEF ArriveSite
<1>10. ASSUME NEW o \in Sites, Combine(o)
       PROVE  /\ call[c] = "fused" /\ argSlot'[c] = argSlot[c]
              /\ branch'[c] = branch[c] /\ idSlot'[c] = idSlot[c]
  BY <1>10 DEF Combine
<1> QED
  BY <1>1, <1>2, <1>3, <1>4, <1>5, <1>6, <1>7, <1>8, <1>9, <1>10
     DEF Next, CombineCalls, Rounds

LEMMA FusedCallsAlwaysEnter == FusedSpec => []FusedCallsEnter
<1>1. FusedInit => FusedCallsEnter
  <2> SUFFICES ASSUME FusedInit PROVE FusedCallsEnter
    OBVIOUS
  <2>1. \A c \in Calls : call[c] # "fused"
    BY DEF FusedInit, Init
  <2> QED
    BY <2>1 DEF FusedCallsEnter
<1> QED
  BY <1>1, FusedCallsEnterNext, FusedStepIsStep, FusedSurgery, PTL
     DEF FusedSpec
-----------------------------------------------------------------------------
(* The way of the call being made: the id and the argument it stored are   *)
(* in its site's slots when the call block is entered, the id is what the  *)
(* switch goes by, and the result is in the buffer until the next call.    *)
Surgery == TypeOK /\ CasesDistinct /\ RoundTripWhileLive /\ FusedCallsEnter

OnItsWay ==
  LET s == argSlot[who] IN
  /\ phase = "done" /\ who \in Calls /\ Intact(who)
  /\ pc \in {"callblock", "switch"} => cur = s
  /\ pc = "callblock" => phiMem[s] = blockId[who] /\ argMem[s] = arg
  /\ pc = "switch" => SwitchCondition(s) = blockId[who]
  /\ pc \in {"switch", "caller"} => retMem[s] = Result[arg]
  /\ pc = "caller" => owed[who] = Result[arg]

RunInv ==
  /\ FusedTypeOK /\ NeverTraps
  /\ retMem = [s \in Sites |-> retMem[s]]
  /\ owed = [c \in Calls |-> owed[c]]
  /\ pc # "caller" => who # None
  /\ who # None => OnItsWay
  /\ who = None => \A c \in Calls : owed[c] = None

(* Where the call being made is.                                           *)
LEMMA IntactSite ==
  ASSUME Surgery, NEW c \in Calls, Intact(c)
  PROVE  /\ argSlot[c] \in Live /\ argSlot[c] \in Sites
         /\ branch[c].site = argSlot[c]
         /\ idSlot[c] = [kind |-> "phi", site |-> argSlot[c]]
         /\ <<blockId[c], c>> \in cases[argSlot[c]]
         /\ result[c] = argSlot[c]
<1>1. /\ argSlot[c] \in Sites
      /\ branch[c] = [to |-> "callblock", site |-> argSlot[c]]
      /\ idSlot[c] = [kind |-> "phi", site |-> argSlot[c]]
  BY DEF Surgery, FusedCallsEnter, Intact
<1>2. argSlot[c] \in Live
  BY <1>1 DEF Intact
<1> QED
  BY <1>1, <1>2 DEF Surgery, RoundTripWhileLive

(* The switch finds the case of the call being made, and no other.         *)
LEMMA SwitchFindsCall ==
  ASSUME Surgery, RunInv, pc = "switch"
  PROVE  /\ \E x \in cases[cur] : x[1] = SwitchCondition(cur)
         /\ \A x \in cases[cur] : x[1] = SwitchCondition(cur) => x[2] = who
<1>1. /\ who \in Calls /\ Intact(who) /\ cur = argSlot[who]
      /\ SwitchCondition(cur) = blockId[who]
  BY DEF RunInv, OnItsWay
<1>2. cur \in Live /\ <<blockId[who], who>> \in cases[cur]
  BY <1>1, IntactSite
<1> QED
  BY <1>1, <1>2 DEF Surgery, CasesDistinct

LEMMA RunInvInit == FusedInit => RunInv
BY DEF FusedInit, RunInit, RunInv, FusedTypeOK, NeverTraps

(* While a call is on its way the surgery is over and stays as it is.      *)
LEMMA RunInvNext ==
  Surgery /\ RunInv /\ [FusedNext]_<<vars, runVars>> => RunInv'
<1> SUFFICES ASSUME Surgery, RunInv, [FusedNext]_<<vars, runVars>>
             PROVE  RunInv'
  OBVIOUS
<1> USE DEF runVars, memVars, ghostVars, vars, siteVars, callVars
<1>1. CASE UNCHANGED <<vars, runVars>>
  BY <1>1 DEF RunInv, FusedTypeOK, NeverTraps, OnItsWay, Intact,
              SwitchCondition, Live
<1>2. CASE Next /\ UNCHANGED runVars
  <2>1. CASE who = None
    <3>1. pc = "caller"
      BY <2>1 DEF RunInv
    <3> QED
      BY <1>2, <2>1, <3>1 DEF RunInv, FusedTypeOK, NeverTraps
  <2>2. CASE who # None
    <3>1. phase = "done"
      BY <2>2 DEF RunInv, OnItsWay
    <3>2. UNCHANGED vars
      BY <1>2, <3>1 DEF Next, CombineCalls, Rounds, NoCandidates, LeaveSingle,
           EndAbsorb, CreateSite, StartAbsorb, SplitBody, CombineCall,
           CombineCallAborts, Demote, NoDemote, NextRound, Finish, EndInline,
           EndMerge, Redemote, Terminated, InlineSingle, Arrive, InlineSite,
           ArriveSite, Combine
    <3> QED
      BY <1>2, <3>2 DEF RunInv, FusedTypeOK, NeverTraps, OnItsWay, Intact,
                        SwitchCondition, Live
  <2> QED
    BY <2>1, <2>2
<1>3. ASSUME NEW c \in Calls, NEW a \in Vals, ParentBlock(c, a)
      PROVE  RunInv'
  <2> DEFINE s == argSlot[c]
  <2>1. /\ s \in Live /\ s \in Sites /\ branch[c].site = s
        /\ idSlot[c] = [kind |-> "phi", site |-> s] /\ Intact(c)
    BY <1>3, IntactSite DEF ParentBlock
  <2>2. /\ phiMem' = [phiMem EXCEPT ![s] = blockId[c]] /\ regMem' = regMem
        /\ argMem' = [argMem EXCEPT ![s] = a]
    BY <1>3, <2>1 DEF ParentBlock, StoreIdAndArgument
  <2>3. /\ UNCHANGED <<vars, condReg, retMem, ran, resumed, owed>>
        /\ pc' = "callblock" /\ cur' = s /\ who' = c /\ arg' = a
        /\ phase = "done"
    BY <1>3, <2>1 DEF ParentBlock
  <2> HIDE DEF s
  <2>4. blockId[c] \in Nat /\ Live' = Live
    BY <2>3 DEF Surgery, TypeOK, Live
  <2>5. FusedTypeOK'
    BY <2>1, <2>2, <2>3, <2>4 DEF RunInv, FusedTypeOK
  <2>6. phiMem'[s] = blockId[c] /\ argMem'[s] = a
    BY <2>1, <2>2 DEF RunInv, FusedTypeOK
  <2>7. OnItsWay'
    BY <2>1, <2>3, <2>4, <2>6 DEF OnItsWay, Intact, s
  <2>8. c # None
    BY NoneIsFresh
  <2> QED
    BY <2>3, <2>5, <2>7, <2>8 DEF RunInv, NeverTraps
<1>4. ASSUME NEW c \in Calls, NEW a \in Vals, BypassingBlock(c, a)
      PROVE  RunInv'
  <2>1. /\ UNCHANGED <<vars, pc, cur, condReg, retMem, ghostVars>>
        /\ pc = "caller"
    BY <1>4 DEF BypassingBlock
  <2>2. /\ phiMem' \in [Sites -> Nat \cup {None}]
        /\ regMem' \in [Sites -> Nat \cup {None}]
        /\ argMem' \in [Sites -> Vals \cup {None}]
    <3>1. /\ \/ regMem' = regMem
             \/ regMem' = [regMem EXCEPT ![idSlot[c].site] = blockId[c]]
          /\ \/ phiMem' = phiMem
             \/ phiMem' = [phiMem EXCEPT ![idSlot[c].site] = blockId[c]]
          /\ argMem' = [argMem EXCEPT ![argSlot[c]] = a]
      BY <1>4 DEF BypassingBlock, StoreIdAndArgument
    <3>2. blockId[c] \in Nat \cup {None} /\ a \in Vals \cup {None}
      BY DEF Surgery, TypeOK
    <3>3. /\ phiMem \in [Sites -> Nat \cup {None}]
          /\ regMem \in [Sites -> Nat \cup {None}]
          /\ argMem \in [Sites -> Vals \cup {None}]
      BY DEF RunInv, FusedTypeOK
    <3> QED
      BY <3>1, <3>2, <3>3
  <2> QED
    BY <2>1, <2>2 DEF RunInv, FusedTypeOK, NeverTraps, OnItsWay, Intact, Live
<1>5. CASE CallBlock
  <2> DEFINE s == argSlot[who]
  <2>1. /\ who # None /\ who \in Calls /\ Intact(who) /\ cur = s
        /\ phase = "done" /\ phiMem[s] = blockId[who] /\ argMem[s] = arg
    BY <1>5 DEF CallBlock, RunInv, OnItsWay
  <2>2. s \in Live /\ s \in Sites
    BY <2>1, IntactSite
  <2>3. /\ condReg' = [condReg EXCEPT ![s] = phiMem[s]]
        /\ regMem' = IF cond[s] = "reload"
                     THEN [regMem EXCEPT ![s] = phiMem[s]] ELSE regMem
        /\ ran' = arg /\ retMem' = [retMem EXCEPT ![s] = Result[arg]]
        /\ pc' = "switch"
        /\ UNCHANGED <<vars, cur, phiMem, argMem, who, arg, resumed, owed, seen>>
    BY <1>5, <2>1 DEF CallBlock
  <2> HIDE DEF s
  <2>4. FusedTypeOK'
    BY <2>1, <2>2, <2>3 DEF RunInv, FusedTypeOK, Live
  <2>5. SwitchCondition(s)' = blockId[who] /\ s' = s
    <3>1. /\ cond[s] = "reload" => regMem'[s] = phiMem[s]
          /\ condReg'[s] = phiMem[s] /\ cond' = cond
      BY <2>2, <2>3 DEF RunInv, FusedTypeOK
    <3>2. s' = s
      BY <2>3 DEF s
    <3> QED
      BY <2>1, <3>1, <3>2 DEF SwitchCondition
  <2>6. /\ retMem'[s] = Result[arg]
        /\ retMem' = [t \in Sites |-> retMem'[t]]
    BY <2>2, <2>3 DEF RunInv
  <2>7. OnItsWay'
    BY <2>1, <2>3, <2>5, <2>6 DEF OnItsWay, Intact, Live, s
  <2> QED
    BY <2>1, <2>3, <2>4, <2>6, <2>7 DEF RunInv, NeverTraps
<1>6. CASE SwitchBack
  <2>1. /\ who # None /\ who \in Calls /\ Intact(who) /\ cur = argSlot[who]
        /\ phase = "done" /\ retMem[cur] = Result[arg]
    BY <1>6 DEF SwitchBack, RunInv, OnItsWay
  <2>2. PICK x \in cases[cur] :
          x[1] = SwitchCondition(cur) /\ resumed' = x[2]
    BY <1>6, SwitchFindsCall DEF SwitchBack
  <2>3. /\ pc' = "caller" /\ owed' = [owed EXCEPT ![who] = Result[arg]]
        /\ UNCHANGED <<vars, cur, memVars, who, arg, ran, seen>>
    BY <1>6, SwitchFindsCall DEF SwitchBack
  <2>4. resumed' \in Calls
    BY <1>6, <2>1, <2>2, SwitchFindsCall DEF SwitchBack
  <2>5. /\ owed'[who] = Result[arg]
        /\ owed' = [c \in Calls |-> owed'[c]]
    BY <2>1, <2>3 DEF RunInv
  <2>6. FusedTypeOK'
    BY <2>3, <2>4 DEF RunInv, FusedTypeOK
  <2>7. OnItsWay'
    BY <2>1, <2>3, <2>5 DEF OnItsWay, Intact, Live
  <2> QED
    BY <2>1, <2>3, <2>5, <2>6, <2>7 DEF RunInv, NeverTraps
<1>7. ASSUME NEW c \in Calls, ReadResult(c) PROVE RunInv'
  BY <1>7 DEF ReadResult, RunInv, FusedTypeOK, NeverTraps, OnItsWay, Intact,
              SwitchCondition, Live
<1> QED
  BY <1>1, <1>2, <1>3, <1>4, <1>5, <1>6, <1>7 DEF FusedNext, Running

LEMMA RunInvAlways == FusedSpec => [](Surgery /\ RunInv)
<1>1. TypeOK /\ CasesDistinct /\ RoundTripWhileLive /\ FusedCallsEnter
        => Surgery
  BY DEF Surgery
<1> QED
  BY <1>1, FusedSurgery, FusedCallsAlwaysEnter, RunInvInit, RunInvNext, PTL
     DEF FusedSpec
-----------------------------------------------------------------------------
(* Slots hold ids and arguments, and the block being executed is that of a *)
(* live site, in every program that the surgery can make.                  *)
THEOREM FusedTypeCorrect == FusedSpec => []FusedTypeOK
<1>1. RunInv => FusedTypeOK
  BY DEF RunInv
<1> QED
  BY <1>1, RunInvAlways, PTL

(* An intact call never runs into the `unreachable` default of a switch.   *)
THEOREM SwitchesNeverTrap == FusedSpec => []NeverTraps
<1>1. RunInv => NeverTraps
  BY DEF RunInv
<1> QED
  BY <1>1, RunInvAlways, PTL
-----------------------------------------------------------------------------
(* Unless results are read after further calls, each step of the program   *)
(* is a step of direct calls, or none: the callee runs with the argument   *)
(* given, the caller resumes after the call it made, and it reads the      *)
(* result of that call.                                                    *)
THEOREM FusedStepsAreDirect ==
  ~ LiveAcross /\ FusedSpec
    => Direct!DInit /\ [][Direct!DNext]_(Direct!dvars)
<1> SUFFICES ASSUME ~ LiveAcross
             PROVE  FusedSpec => Direct!DInit /\ [][Direct!DNext]_(Direct!dvars)
  OBVIOUS
<1>1. FusedInit => Direct!DInit
  BY DEF FusedInit, RunInit, Direct!DInit
<1>2. ASSUME Surgery, RunInv, [FusedNext]_<<vars, runVars>>
      PROVE  [Direct!DNext]_(Direct!dvars)
  <2> USE <1>2 DEF runVars, memVars, ghostVars
  <2>1. CASE (Next /\ UNCHANGED runVars) \/ UNCHANGED <<vars, runVars>>
    BY <2>1 DEF Direct!dvars
  <2>2. ASSUME NEW c \in Calls, NEW a \in Vals, ParentBlock(c, a)
        PROVE  Direct!DNext
    <3>1. Direct!Enter(c, a)
      BY <2>2 DEF ParentBlock, Direct!Enter
    <3> QED
      BY <3>1 DEF Direct!DNext
  <2>3. ASSUME NEW c \in Calls, NEW a \in Vals, BypassingBlock(c, a)
        PROVE  UNCHANGED Direct!dvars
    BY <2>3 DEF BypassingBlock, Direct!dvars
  <2>4. CASE CallBlock
    <3>1. argMem[cur] = arg
      BY <2>4 DEF CallBlock, RunInv, OnItsWay
    <3>2. Direct!Run
      BY <2>4, <3>1 DEF CallBlock, Direct!Run
    <3> QED
      BY <3>2 DEF Direct!DNext
  <2>5. CASE SwitchBack
    <3>1. /\ pc' = "caller" /\ resumed' = who
          /\ owed' = [owed EXCEPT ![who] = Result[arg]]
      BY <2>5, SwitchFindsCall DEF SwitchBack
    <3>2. Direct!Return
      BY <2>5, <3>1 DEF SwitchBack, Direct!Return
    <3> QED
      BY <3>2 DEF Direct!DNext
  <2>6. ASSUME NEW c \in Calls, ReadResult(c)
        PROVE  Direct!DNext
    <3>1. who = c /\ owed[c] # None /\ pc = "caller"
      BY <2>6 DEF ReadResult
    <3>2. c # None
      BY NoneIsFresh
    <3>3. Intact(c) /\ retMem[argSlot[c]] = owed[c]
      BY <3>1, <3>2 DEF RunInv, OnItsWay
    <3>4. retMem[result[c]] = owed[c]
      BY <3>3, IntactSite
    <3>5. Direct!Read(c)
      BY <2>6, <3>1, <3>4 DEF ReadResult, Direct!Read
    <3> QED
      BY <3>5 DEF Direct!DNext
  <2> QED
    BY <2>1, <2>2, <2>3, <2>4, <2>5, <2>6 DEF FusedNext, Running
<1> QED
  BY <1>1, <1>2, RunInvAlways, PTL DEF FusedSpec
=============================================================================
