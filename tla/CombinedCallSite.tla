-------------------------- MODULE CombinedCallSite --------------------------
(***************************************************************************)
(* The control-flow surgery of the fuse-functions pass, for one caller     *)
(* function and one callee (src/lib/passes/fuse-functions).                *)
(*                                                                         *)
(* The pass gathers the calls of one callee in one "call block": each call *)
(* is replaced by stores (a block id, the arguments) and a branch to the   *)
(* call block, the callee is called there once, and a switch on the block  *)
(* id sends control back to the return block of the call.  Rounds follow:  *)
(* inline the combined calls, merge the call blocks that inlining cloned   *)
(* into the caller (CombinedCallSite::combine), then combine what calls    *)
(* are left, either into a new block (combine_calls) or into the existing  *)
(* one (CombinedCallSite::combine_call).                                   *)
(*                                                                         *)
(* The IR is abstracted to what the code reads back from it: which block a *)
(* call branches to, which slot it stores its id in, what cases a switch   *)
(* has, and what the condition of a switch is loaded from.  The return     *)
(* block of call c is named c.                                             *)
(***************************************************************************)
EXTENDS Integers, FiniteSets, Functions

CONSTANTS
  Calls,       \* call instructions of the callee that can occur in the caller
  Sites,       \* combined call sites (call block, slots and switch)
  NoSite,      \* stands for no site
  Ignored,     \* the calls whose result has no user
  Stored,      \* the calls whose result is only stored to a variable
  BodySplits,  \* may a call block be split between its load and its switch?
  BareReturn,  \* is the callee's return block a lone `ret`?
  MaxBlockId   \* bound on the block ids a run may use

ASSUME CallUsers == Ignored \subseteq Calls /\ Stored \subseteq Calls
ASSUME Flags == BodySplits \in BOOLEAN /\ BareReturn \in BOOLEAN
ASSUME NoSiteIsFresh == NoSite \notin Sites
ASSUME BlockIdBound == MaxBlockId \in Nat
ASSUME FiniteFunction == IsFiniteSet(Calls) /\ IsFiniteSet(Sites)

VARIABLES
  phase,     \* where FuseFunctionsPass::run is
  modified,  \* was the caller put in ModifiedCallers by this combine_calls?
  main,      \* the site that absorbs: front() of the callee's sites
  call,      \* call[c]: what has become of call c
  site,      \* site[s]: what has become of site s
  body,      \* body[s]: the combined call of s, before and after inlining
  split,     \* split[s]: are the load and the switch of s in two blocks?
  cond,      \* cond[s]: what the switch condition of s is
  cases,     \* cases[s]: the <<block id, return block>> cases of the switch
  branch,    \* branch[c]: where the block of call c branches to
  blockId,   \* blockId[c]: the id the block of c stores
  idSlot,    \* idSlot[c]: the slot it stores the id in
  argSlot,   \* argSlot[c]: the site whose argument slots it stores to
  result     \* result[c]: what the users of the call's result read

siteVars == <<site, body, split, cond, cases>>
callVars == <<call, branch, blockId, idSlot, argSlot, result>>
vars == <<phase, modified, main, siteVars, callVars>>

Phases == {"combine", "absorb", "demote", "test", "inline", "merge",
           "redemote", "done", "abort"}
BlockIds == 0..MaxBlockId
Targets == [to : {"none", "callblock", "switch", "retblock"},
            site : Sites \cup {NoSite}]
Slots == [kind : {"none", "phi", "reg"}, site : Sites \cup {NoSite}]

NoTarget == [to |-> "none", site |-> NoSite]
OwnRetBlock == [to |-> "retblock", site |-> NoSite]
NoSlot == [kind |-> "none", site |-> NoSite]

Live == {s \in Sites : site[s] = "live"}
Plain == {c \in Calls : call[c] = "plain"}

-----------------------------------------------------------------------------
(* What CombinedCallSite reads back from the IR.                           *)

(* The pointer operand of the switch's condition load.  As created, the    *)
(* condition is the block-id PHI, which demotion turns into a load of the  *)
(* PHI's slot.  If demotion finds that load in another block than the      *)
(* switch, it spills it too, and the switch then reads the spill slot.     *)
Slot(s) == [kind |-> IF cond[s] = "reload" THEN "reg" ELSE "phi", site |-> s]

(* The parent block of that load.                                          *)
Entry(s) == [to |-> IF cond[s] = "reload" THEN "switch" ELSE "callblock",
             site |-> s]

(* Mutant: block id zero is mistaken for no id.                            *)
NonzeroIdStores(s) ==
  {c \in Calls : idSlot[c] = Slot(s) /\ branch[c] = Entry(s) /\ blockId[c] # 0}

(* Stores of a constant id to the slot, in a predecessor of the load.      *)
IdStores(s) == {c \in Calls : idSlot[c] = Slot(s) /\ branch[c] = Entry(s)}

(* Mutant: the maximum itself is taken for the next id.                    *)
ReusesMaxBlockId(s, n) ==
  /\ \A x \in cases[s] : x[1] <= n
  /\ n = 0 \/ \E x \in cases[s] : x[1] = n

(* Mutant: the first id is one, and each further one leaves a gap.         *)
SkipsABlockId(s, n) ==
  /\ \A x \in cases[s] : x[1] + 1 < n
  /\ n = 1 \/ \E x \in cases[s] : x[1] = n - 2

(* n is get_max_block_id() + 1; without cases the maximum is the all-ones  *)
(* word, and adding one to it wraps around to zero.                        *)
IsNextBlockId(s, n) ==
  /\ \A x \in cases[s] : x[1] < n
  /\ n = 0 \/ \E x \in cases[s] : x[1] = n - 1

(* The calls a site was created for.                                       *)
Founders(s) == {c \in Calls : call[c] \in {"fused", "merged"} /\ argSlot[c] = s}

(* get_return_store() walks back from the switch but never looks at the    *)
(* first instruction of the block.  After a split the return store is that *)
(* instruction when the callee's return block was bare, unless demotion    *)
(* put a spill of a used result before it.                                 *)
ReturnStoreFound(s) ==
  ~ (BareReturn /\ split[s] /\ Founders(s) \subseteq Ignored)

(* The cases another site's switch must be given for the ids it takes over *)
(* from s; every id store has its case, so findCaseValue never returns the *)
(* default one.                                                            *)
ShiftedCases(s, start) ==
  {<<x[1] + start, x[2]>> :
      x \in {y \in cases[s] : \E c \in IdStores(s) : blockId[c] = y[1]}}

(* demote_registers on the caller: PHIs become loads, and a load that is   *)
(* used by a switch in another block is spilled and reloaded there.        *)
DemotedCond(s) ==
  IF site[s] # "live" THEN cond[s]
  ELSE IF cond[s] = "phi" THEN "load"
  ELSE IF split[s] THEN "reload" ELSE cond[s]

-----------------------------------------------------------------------------
Init ==
  /\ phase = "combine" /\ modified = FALSE /\ main = NoSite
  /\ \E P \in SUBSET Calls :
        call = [c \in Calls |-> IF c \in P THEN "plain" ELSE "absent"]
  /\ site = [s \in Sites |-> "none"]
  /\ body = [s \in Sites |-> "none"]
  /\ split = [s \in Sites |-> FALSE]
  /\ cond = [s \in Sites |-> "phi"]
  /\ cases = [s \in Sites |-> {}]
  /\ branch = [c \in Calls |-> NoTarget]
  /\ blockId = [c \in Calls |-> 0]
  /\ idSlot = [c \in Calls |-> NoSlot]
  /\ argSlot = [c \in Calls |-> NoSite]
  /\ result = [c \in Calls |-> "call"]

-----------------------------------------------------------------------------
(* combine_calls, for this callee.                                         *)

(* No candidate call of the callee.                                        *)
NoCandidates ==
  /\ phase = "combine" /\ Plain = {}
  /\ phase' = "demote"
  /\ UNCHANGED <<modified, main, siteVars, callVars>>

(* A lone call goes to the worklist as it is.                              *)
LeaveSingle ==
  /\ phase = "combine"
  /\ \E c \in Calls :
        /\ Plain = {c}
        /\ call' = [call EXCEPT ![c] = "single"]
  /\ phase' = "demote"
  /\ UNCHANGED <<modified, main, siteVars, branch, blockId, idSlot, argSlot,
                 result>>

(* Mutant: switchCount is incremented once too often.                      *)
OffByOneCases(C, ids) == {<<ids[c] + 1, c>> : c \in C}

(* The cases of a new switch.                                              *)
NewCases(C, ids) == {<<ids[c], c>> : c \in C}

(* Gives the calls of C a site s with the block ids `ids`.                 *)
MakeSite(s, C, ids, condition, inlined) ==
  /\ site[s] = "none"
  /\ site' = [site EXCEPT ![s] = "live"]
  /\ body' = [body EXCEPT ![s] = inlined]
  /\ cond' = [cond EXCEPT ![s] = condition]
  /\ cases' = [cases EXCEPT ![s] = NewCases(C, ids)]
  /\ call' = [c \in Calls |-> IF c \in C THEN "fused" ELSE call[c]]
  /\ branch' = [c \in Calls |->
        IF c \in C THEN [to |-> "callblock", site |-> s] ELSE branch[c]]
  /\ blockId' = [c \in Calls |-> IF c \in C THEN ids[c] ELSE blockId[c]]
  /\ idSlot' = [c \in Calls |->
        IF c \in C THEN [kind |-> "phi", site |-> s] ELSE idSlot[c]]
  /\ argSlot' = [c \in Calls |-> IF c \in C THEN s ELSE argSlot[c]]
  /\ result' = [c \in Calls |-> IF c \in C THEN s ELSE result[c]]

(* The ids of a new switch: switchCount counts them from zero.             *)
FreshIds(C) ==
  {ids \in [C -> 0..(Cardinality(C) - 1)] : IsInjective(ids)}

(* Several calls and no site yet: a call block of their own.               *)
CreateSite(s) ==
  /\ phase = "combine" /\ Cardinality(Plain) > 1 /\ Live = {}
  /\ \E ids \in FreshIds(Plain) : MakeSite(s, Plain, ids, "phi", "call")
  /\ modified' = TRUE
  /\ phase' = "demote"
  /\ UNCHANGED <<main, split>>

(* Mutant: the existing site is not taken for the absorbing one.           *)
StartAbsorbNowhere(s) ==
  /\ phase = "combine" /\ Cardinality(Plain) > 1 /\ s \in Live
  /\ modified' = TRUE
  /\ phase' = "absorb"
  /\ UNCHANGED <<main, siteVars, callVars>>

(* Several calls and a site for the callee: absorb them one by one.        *)
StartAbsorb(s) ==
  /\ phase = "combine" /\ Cardinality(Plain) > 1 /\ s \in Live
  /\ main' = s
  /\ modified' = TRUE
  /\ phase' = "absorb"
  /\ UNCHANGED <<siteVars, callVars>>

(* Loads replace the users of the call's result, except the stores: those  *)
(* are erased.                                                             *)
ReadBack(c, s) == IF c \in Stored THEN "erased" ELSE s

(* The sites with loads of the callee's arguments: get_argument_pointers   *)
(* also finds those of call blocks that a merge left behind, and which     *)
(* come last depends on the order of the blocks.                           *)
ArgumentSites(s) == {s} \cup {o \in Sites : site[o] = "orphaned"}

(* combine_call(c) on the main site.                                       *)
CombineCall(c) ==
  /\ phase = "absorb" /\ call[c] = "plain"
  /\ c \in Ignored \/ ReturnStoreFound(main)
  /\ \E n \in BlockIds :
        /\ IsNextBlockId(main, n)
        /\ blockId' = [blockId EXCEPT ![c] = n]
        /\ cases' = [cases EXCEPT ![main] = @ \cup {<<n, c>>}]
  /\ idSlot' = [idSlot EXCEPT ![c] = Slot(main)]
  /\ \E s \in ArgumentSites(main) : argSlot' = [argSlot EXCEPT ![c] = s]
  /\ result' = [result EXCEPT ![c] = ReadBack(c, main)]
  /\ branch' = [branch EXCEPT ![c] = OwnRetBlock]
  /\ call' = [call EXCEPT ![c] = "absorbed"]
  /\ UNCHANGED <<phase, modified, main, site, body, split, cond>>

(* combine_call(c) when the result is used and no return store is found:   *)
(* the assertion fails.                                                    *)
CombineCallAborts(c) ==
  /\ phase = "absorb" /\ call[c] = "plain"
  /\ c \notin Ignored /\ ~ ReturnStoreFound(main)
  /\ phase' = "abort"
  /\ UNCHANGED <<modified, main, siteVars, callVars>>

EndAbsorb ==
  /\ phase = "absorb" /\ Plain = {}
  /\ phase' = "demote"
  /\ UNCHANGED <<modified, main, siteVars, callVars>>

(* Fusing the calls an inlined body makes to another callee splits the     *)
(* call block around that body.                                            *)
SplitBody(s) ==
  /\ phase = "combine" /\ BodySplits
  /\ s \in Live /\ body[s] = "inlined" /\ ~ split[s]
  /\ split' = [split EXCEPT ![s] = TRUE]
  /\ modified' = TRUE
  /\ UNCHANGED <<phase, main, site, body, cond, cases, callVars>>

-----------------------------------------------------------------------------
(* The rounds of FuseFunctionsPass::run.                                   *)

(* Every caller that combine_calls modified, for this or for another       *)
(* callee, is demoted.                                                     *)
Demote ==
  /\ phase = "demote"
  /\ cond' = [s \in Sites |-> DemotedCond(s)]
  /\ modified' = FALSE
  /\ phase' = "test"
  /\ UNCHANGED <<main, site, body, split, cases, callVars>>

(* Mutant: a caller is left out of ModifiedCallers.                        *)
ForgetDemote ==
  /\ phase = "demote"
  /\ phase' = "test"
  /\ UNCHANGED <<modified, main, siteVars, callVars>>

NoDemote ==
  /\ phase = "demote" /\ ~ modified
  /\ phase' = "test"
  /\ UNCHANGED <<modified, main, siteVars, callVars>>

(* What combine_calls left in the worklist for this callee.                *)
WorkList ==
  {c \in Calls : call[c] = "single"} \cup {s \in Live : body[s] = "call"}

(* The loop goes on for this callee's calls, or for another's.             *)
NextRound ==
  /\ phase = "test"
  /\ phase' = "inline"
  /\ UNCHANGED <<modified, main, siteVars, callVars>>

Finish ==
  /\ phase = "test" /\ WorkList = {}
  /\ phase' = "done"
  /\ UNCHANGED <<modified, main, siteVars, callVars>>

(* InlineFunction succeeds or fails; a failed call is ignored from now on. *)
InlineSingle(c) ==
  /\ phase = "inline" /\ call[c] = "single"
  /\ \E outcome \in {"inlined", "failed"} :
        call' = [call EXCEPT ![c] = outcome]
  /\ UNCHANGED <<phase, modified, main, siteVars, branch, blockId, idSlot,
                 argSlot, result>>

(* A body of several blocks parts the load from the switch.                *)
InlineSite(s) ==
  /\ phase = "inline" /\ s \in Live /\ body[s] = "call"
  /\ \E outcome \in {"inlined", "failed"}, parted \in BOOLEAN :
        /\ parted => BodySplits /\ outcome = "inlined"
        /\ body' = [body EXCEPT ![s] = outcome]
        /\ split' = [split EXCEPT ![s] = parted]
  /\ UNCHANGED <<phase, modified, main, site, cond, cases, callVars>>

(* Inlining another callee brings a call of this callee into the caller... *)
Arrive(c) ==
  /\ phase = "inline" /\ call[c] = "absent"
  /\ call' = [call EXCEPT ![c] = "plain"]
  /\ UNCHANGED <<phase, modified, main, siteVars, branch, blockId, idSlot,
                 argSlot, result>>

(* ... or a clone of a site, demoted and inlined in the function it was    *)
(* made for.                                                               *)
ArriveSite(s) ==
  /\ phase = "inline"
  /\ \E C \in SUBSET {c \in Calls : call[c] = "absent"} :
        /\ Cardinality(C) > 1
        /\ \E ids \in FreshIds(C) : MakeSite(s, C, ids, "load", "inlined")
  /\ UNCHANGED <<phase, modified, main, split>>

(* Mutant: two sites of a callee are not thought worth a clean-up.         *)
EndInlineWithTwo ==
  /\ phase = "inline" /\ WorkList = {}
  /\ IF Cardinality(Live) > 2
     THEN \E s \in Live : main' = s /\ phase' = "merge"
     ELSE phase' = "combine" /\ UNCHANGED main
  /\ UNCHANGED <<modified, siteVars, callVars>>

(* The worklist is empty.  Sites are cleaned up only in callers that still *)
(* have candidate calls, of this callee or of another.                     *)
EndInline ==
  /\ phase = "inline" /\ WorkList = {}
  /\ IF Cardinality(Live) > 1
     THEN \/ \E s \in Live : main' = s /\ phase' = "merge"
          \/ Plain = {} /\ phase' = "combine" /\ UNCHANGED main
     ELSE phase' = "combine" /\ UNCHANGED main
  /\ UNCHANGED <<modified, siteVars, callVars>>

(* main.combine(o).  The new ids go to the slots of the old ones, and the  *)
(* blocks that stored them now branch to main.  The switch of o becomes    *)
(* `unreachable`; its entry block is deleted once nothing leads to it.     *)
Combine(o) ==
  /\ phase = "merge" /\ o \in Live \ {main}
  /\ \E start \in BlockIds :
        /\ IsNextBlockId(main, start)
        /\ blockId' = [c \in Calls |->
              IF c \in IdStores(o) THEN blockId[c] + start ELSE blockId[c]]
        /\ cases' = [cases EXCEPT ![main] = @ \cup ShiftedCases(o, start),
                                  ![o] = {}]
  /\ branch' = [c \in Calls |->
        IF c \in IdStores(o) THEN Entry(main) ELSE branch[c]]
  /\ call' = [c \in Calls |-> IF c \in IdStores(o) THEN "merged" ELSE call[c]]
  /\ site' = [site EXCEPT ![o] =
        IF cond[o] = "reload" \/ \E c \in Calls : branch'[c] = Entry(o)
        THEN "orphaned" ELSE "deleted"]
  /\ modified' = TRUE
  /\ UNCHANGED <<phase, main, body, split, cond, idSlot, argSlot, result>>

EndMerge ==
  /\ phase = "merge" /\ Live = {main}
  /\ phase' = "redemote"
  /\ UNCHANGED <<modified, main, siteVars, callVars>>

(* Callers whose sites were merged are demoted before they are combined.   *)
Redemote ==
  /\ phase = "redemote"
  /\ cond' = [s \in Sites |-> DemotedCond(s)]
  /\ modified' = FALSE
  /\ phase' = "combine"
  /\ UNCHANGED <<main, site, body, split, cases, callVars>>

Terminated ==
  /\ phase \in {"done", "abort"}
  /\ UNCHANGED vars

-----------------------------------------------------------------------------
CombineCalls ==
  \/ NoCandidates \/ LeaveSingle \/ EndAbsorb
  \/ \E s \in Sites : CreateSite(s) \/ StartAbsorb(s) \/ SplitBody(s)
  \/ \E c \in Calls : CombineCall(c) \/ CombineCallAborts(c)

Rounds ==
  \/ Demote \/ NoDemote \/ NextRound \/ Finish \/ EndInline \/ EndMerge
  \/ Redemote \/ Terminated
  \/ \E c \in Calls : InlineSingle(c) \/ Arrive(c)
  \/ \E s \in Sites : InlineSite(s) \/ ArriveSite(s) \/ Combine(s)

Next == CombineCalls \/ Rounds

Spec == Init /\ [][Next]_vars

-----------------------------------------------------------------------------
TypeOK ==
  /\ phase \in Phases /\ modified \in BOOLEAN
  /\ main \in Sites \cup {NoSite}
  /\ phase \in {"absorb", "merge"} => main \in Live
  /\ call \in [Calls -> {"absent", "plain", "single", "fused", "absorbed",
                         "merged", "inlined", "failed"}]
  /\ site \in [Sites -> {"none", "live", "orphaned", "deleted"}]
  /\ body \in [Sites -> {"none", "call", "inlined", "failed"}]
  /\ split \in [Sites -> BOOLEAN]
  /\ cond \in [Sites -> {"phi", "load", "reload"}]
  /\ cases \in [Sites -> SUBSET (Nat \X Calls)]
  /\ branch \in [Calls -> Targets]
  /\ blockId \in [Calls -> Nat]
  /\ idSlot \in [Calls -> Slots]
  /\ argSlot \in [Calls -> Sites \cup {NoSite}]
  /\ result \in [Calls -> Sites \cup {"call", "erased"}]

-----------------------------------------------------------------------------
(* Properties.                                                             *)

(* combine() says it adjusts the ids of the incoming site "so there is no  *)
(* overlap with the current block IDs" (combined-call-site.cpp:407): no    *)
(* sequence of creations, absorptions and merges gives a live switch two   *)
(* cases with one id, or two cases for one return block.                   *)
CasesDistinct ==
  \A s \in Live : \A x, y \in cases[s] : (x[1] = y[1]) <=> (x[2] = y[2])

(* As long as a call still branches to the call block of a live site whose *)
(* id slot it writes, the switch there has the case that brings it back    *)
(* under the id it stores, and its arguments and result go through that    *)
(* site's slots.  Absorbing calls, merging other sites into this one and   *)
(* spilling its condition must not disturb it.                             *)
RoundTripWhileLive ==
  \A c \in Calls, s \in Live :
    branch[c] = [to |-> "callblock", site |-> s]
      /\ idSlot[c] = [kind |-> "phi", site |-> s]
    => <<blockId[c], c>> \in cases[s] /\ argSlot[c] = s /\ result[c] = s

(* find_combined_call_sites casts the condition of every return switch to  *)
(* a LoadInst, which a block-id PHI is not: every new site is demoted      *)
(* before the next lookup, at a merge or at a combine.                     *)
LookupSeesLoads ==
  phase \in {"absorb", "merge", "combine"} => \A s \in Live : cond[s] # "phi"

(* combine_calls takes front() of the callee's sites; the clean-up before  *)
(* it must have left only one when there is a call to combine.             *)
OneSiteWhenCombining ==
  phase \in {"combine", "absorb"} /\ Plain # {} => Cardinality(Live) <= 1

(* Ids are stored as 32-bit constants.  Merging adds an offset to each id, *)
(* yet ids never outgrow the number of calls ever combined, so they cannot *)
(* be truncated before a function has 2^32 calls.                          *)
IdsBelowCallCount ==
  \A s \in Live : \A x \in cases[s] : x[1] < Cardinality(Calls)

(* Unless a call block is split around an inlined body, a call gathered by *)
(* combine_calls keeps its way back until its own site is merged into      *)
(* another one, whatever other calls and sites its site takes in: it still *)
(* branches to a live site whose switch has its case.  Hence what a merge  *)
(* leaves branching to an `unreachable` (combined-call-site.cpp:411-427)   *)
(* is a call that was merged before.                                       *)
FusedCallsKeepTheirCase ==
  (\A s \in Sites : ~ split[s]) =>
    \A c \in Calls : call[c] = "fused" =>
      \E s \in Live : branch[c] = Entry(s) /\ <<blockId[c], c>> \in cases[s]

(* What the code says and does not do; each is refuted by a run.           *)

(* combined-call-site.cpp:374 "replace the generated branch instruction    *)
(* with one that points to the existing call block".                       *)
AbsorbedCallsReachCallBlock ==
  \A c \in Calls : call[c] = "absorbed" => branch[c].to = "callblock"

(* combined-call-site.cpp:407 "adjust all the block IDs for the incoming   *)
(* CombinedCallSite": a merged call stores its id where the switch it      *)
(* branches to reads it.                                                   *)
MergedCallsStoreTheirId ==
  \A c \in Calls, s \in Live :
    call[c] = "merged" /\ branch[c] = Entry(s) => idSlot[c] = Slot(s)

=============================================================================
