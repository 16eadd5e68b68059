--------------------------- MODULE StackToGlobal ---------------------------
(***************************************************************************)
(* StackToGlobalPass::run on one function: everything is demoted to the    *)
(* stack, constants included, and the slots that the entry block begins    *)
(* with are made global variables (src/lib/passes/stack-to-global).        *)
(* Beside it DemoteRegistersPass::run, which only demotes.                 *)
(***************************************************************************)
EXTENDS DemoteRegisters

VARIABLES
  slotPass,      \* "none", "demote-registers" or "stack-to-global"
  entryAllocas,  \* the slots still to be made global
  globalSlots,   \* globalSlots[f]: those of f that are
  givenSlots,    \* givenSlots[f]: those that stack-to-global found at the
                 \* front of f before it demoted anything
  statistics     \* NumRegsDemoted and NumPhisDemoted

sgVars == <<slotPass, entryAllocas, globalSlots, givenSlots,
            statistics>>
slotVars == <<drVars, sgVars>>

SgInit ==
  /\ slotPass = "none" /\ entryAllocas = <<>>
  /\ globalSlots = [f \in Fns |-> {}] /\ givenSlots = globalSlots
  /\ statistics = <<0, 0>>

FrontAllocas(entry) == [i \in 1..LeadingAllocas(entry) |-> entry[i].id]

(* Mutant: the allocas of the whole entry block are collected.             *)
CollectAllAllocas(entry) ==
  LET allocas == Select(entry, {x \in ToSet(entry) : x.kind = "alloca"})
  IN [i \in DOMAIN allocas |-> allocas[i].id]

(* The allocas that the entry block begins with; what follows a first      *)
(* instruction of another kind is not looked at.                           *)
CollectEntryAllocas(entry) == FrontAllocas(entry)

SlotPassSkips(f) == f \in OptNone

DemoteRegistersRun(f) ==
  /\ slotPass = "none" /\ f \notin OptNone
  /\ DrStart(f, FALSE)
  /\ slotPass' = "demote-registers"
  /\ UNCHANGED <<entryAllocas, globalSlots, givenSlots, statistics>>

StackToGlobalRun(f) ==
  /\ slotPass = "none" /\ f \notin OptNone
  /\ DrStart(f, TRUE)
  /\ slotPass' = "stack-to-global"
  /\ givenSlots' = [givenSlots EXCEPT ![f] =
                     @ \cup ToSet(FrontAllocas(code[f][1]))]
  /\ UNCHANGED <<entryAllocas, globalSlots, statistics>>

SlotDemote ==
  /\ slotPass # "none"
  /\ DrStep
  /\ UNCHANGED sgVars

(* The statistics are those of the last function something was done in.    *)
DemoteRegistersReturns ==
  /\ slotPass = "demote-registers" /\ drStage = "demoted"
  /\ statistics' = IF demotedInstCount + demotedPhiNodes = 0 THEN statistics
                   ELSE <<demotedInstCount, demotedPhiNodes>>
  /\ slotPass' = "none" /\ drStage' = "idle"
  /\ UNCHANGED <<code, drFn, point, slots, workList, demotedInstCount,
                 demotedPhiNodes, entryAllocas, globalSlots, givenSlots>>

SgCollect ==
  /\ slotPass = "stack-to-global" /\ drStage = "demoted"
  /\ entryAllocas' = CollectEntryAllocas(code[drFn][1])
  /\ drStage' = "globals"
  /\ UNCHANGED <<code, drFn, point, slots, workList, demotedInstCount,
                 demotedPhiNodes, slotPass, globalSlots, givenSlots, statistics>>

(* All uses of the slot become uses of the new global variable.            *)
SgReplace ==
  /\ drStage = "globals" /\ entryAllocas # <<>>
  /\ LET slot == Head(entryAllocas) IN
       /\ code' = [code EXCEPT ![drFn] = Erase(@, slot)]
       /\ globalSlots' = [globalSlots EXCEPT ![drFn] = @ \cup {slot}]
  /\ entryAllocas' = Tail(entryAllocas)
  /\ UNCHANGED <<drStage, drFn, point, slots, workList, demotedInstCount,
                 demotedPhiNodes, slotPass, givenSlots, statistics>>

StackToGlobalReturns ==
  /\ drStage = "globals" /\ entryAllocas = <<>>
  /\ slotPass' = "none" /\ drStage' = "idle"
  /\ UNCHANGED <<code, drFn, point, slots, workList, demotedInstCount,
                 demotedPhiNodes, entryAllocas, globalSlots, givenSlots,
                 statistics>>

SlotStep ==
  SlotDemote \/ DemoteRegistersReturns \/ SgCollect \/ SgReplace
    \/ StackToGlobalReturns

=============================================================================
