-------------------------- MODULE DemoteRegisters --------------------------
(***************************************************************************)
(* jvs::DemoteRegisters on one function: operands that are constants, if   *)
(* asked to, registers and PHI nodes are moved to slots in the entry block *)
(* (src/lib/passes/demote-registers/demote-registers.cpp).                 *)
(***************************************************************************)
EXTENDS FrameCode

VARIABLES
  drStage,   \* "idle", "immediates", "registers", "phis" or "demoted"
  drFn,      \* the function that is demoted
  point,     \* the insertion point in its entry block
  slots,     \* how many slots have been made
  workList,  \* the uses, registers or PHI nodes still to be demoted
  demotedInstCount,
  demotedPhiNodes

drVars == <<drStage, drFn, point, slots, workList, demotedInstCount,
            demotedPhiNodes>>

DrInit ==
  /\ drStage = "idle" /\ drFn = (CHOOSE f \in Fns : TRUE) /\ point = <<"point", 0>>
  /\ slots = 0 /\ workList = <<>> /\ demotedInstCount = 0 /\ demotedPhiNodes = 0

(* An operand that demote_immediate has something to do for.               *)
IsImmediate(x, k) ==
  /\ x.args[k][1] = "imm"
  /\ x.kind \notin {"alloca", "pad", "exempt"}

(* The work lists are filled from the front, hence in reverse order.       *)
InstsInReverse(blocks, places) ==
  Reverse(Select(FlattenSeq(blocks), {InstAt(blocks, p) : p \in places}))

ImmediateUses(blocks) ==
  LET list == InstsInReverse(blocks, Places(blocks))
      of(x) == LET uses == [k \in DOMAIN x.args |-> <<x.id, k>>]
               IN Select(uses, {uses[k] : k \in {k \in DOMAIN uses : IsImmediate(x, k)}})
  IN FlattenSeq([i \in DOMAIN list |-> of(list[i])])

(* The insertion point is a cast of the constant 0, put before the first   *)
(* instruction of the entry block that is not an alloca; it is itself one  *)
(* of the instructions whose operands are demoted.                         *)
DrStart(f, demoteOperands) ==
  /\ drStage = "idle"
  /\ point' = <<"point", point[2] + 1>>
  /\ LET cast == Inst(point', "point", <<<<"imm", 0>>>>, <<>>, {})
     IN code' = [code EXCEPT ![f][1] = AfterAllocas(@, cast)]
  /\ workList' = IF demoteOperands THEN ImmediateUses(code'[f]) ELSE <<>>
  /\ drFn' = f /\ drStage' = "immediates"
  /\ demotedInstCount' = 0 /\ demotedPhiNodes' = 0
  /\ UNCHANGED slots

(* A slot before the insertion point, set just after it; the operand is    *)
(* read from it, in the predecessor when the user is a PHI node.           *)
DemoteImmediate(blocks, use, slot) ==
  LET p == PlaceOf(blocks, use[1])
      x == InstAt(blocks, p)
      k == use[2]
      at == ReadAt(blocks, p, k)
      load == Reload(slot, use[1], at[1])
  IN PutBefore(SetArg(blocks, p, k, Reg(load.id)),
       [q \in Places(blocks) |->
          When(AtPoint(blocks, q, point), Alloca(slot))
            \o When(AfterPoint(blocks, q, point), Store(<<"store", slot>>, x.args[k], slot))
            \o When(q = at, load)])

(* One of the work list is demoted to a new slot.                          *)
NewSlot == <<"slot", slots>>

Demote(stage, blocks) ==
  /\ drStage = stage /\ workList # <<>>
  /\ code' = [code EXCEPT ![drFn] = blocks]
  /\ workList' = Tail(workList) /\ slots' = slots + 1
  /\ UNCHANGED <<drStage, drFn, point, demotedInstCount, demotedPhiNodes>>

DrImmediate ==
  Demote("immediates", DemoteImmediate(code[drFn], Head(workList), NewSlot))

(* Mutant: a use in another block does not count.                          *)
ValueEscapesToPhiOnly(blocks, b, x) ==
  \E p \in UsersOf(blocks, x.id) : InstAt(blocks, p).kind = "phi"

(* valueEscapes, of an instruction in block b.                             *)
ValueEscapes(blocks, b, x) ==
  \E p \in UsersOf(blocks, x.id) :
    p[1] # b \/ InstAt(blocks, p).kind = "phi"

Escaped(blocks) ==
  InstsInReverse(blocks, {p \in Places(blocks) :
    LET x == InstAt(blocks, p) IN
    ~ (x.kind = "alloca" /\ p[1] = 1) /\ ValueEscapes(blocks, p[1], x)
      /\ x.kind # "pad"})

DrFindEscaped ==
  /\ drStage = "immediates" /\ workList = <<>>
  /\ workList' = Escaped(code[drFn]) /\ drStage' = "registers"
  /\ demotedInstCount' = Len(workList')
  /\ UNCHANGED <<code, drFn, point, slots, demotedPhiNodes>>

DrRegister ==
  Demote("registers",
         DemoteRegToStack(code[drFn], Head(workList).id, point, NewSlot))

DrFindPhis ==
  /\ drStage = "registers" /\ workList = <<>>
  /\ LET blocks == code[drFn] IN
     workList' = InstsInReverse(blocks,
                   {p \in Places(blocks) : InstAt(blocks, p).kind = "phi"})
  /\ drStage' = "phis" /\ demotedPhiNodes' = Len(workList')
  /\ UNCHANGED <<code, drFn, point, slots, demotedInstCount>>

(* Nothing has changed what a PHI node takes since it was found.            *)
DrPhi ==
  Demote("phis", DemotePHIToStack(code[drFn], Head(workList), point, NewSlot))

DrEnd ==
  /\ drStage = "phis" /\ workList = <<>>
  /\ drStage' = "demoted"
  /\ UNCHANGED <<code, drFn, point, slots, workList, demotedInstCount, demotedPhiNodes>>

DrStep == DrImmediate \/ DrFindEscaped \/ DrRegister \/ DrFindPhis \/ DrPhi \/ DrEnd

=============================================================================
