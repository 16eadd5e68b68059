----------------------------- MODULE FrameCode -----------------------------
(***************************************************************************)
(* The IR as demote-registers, stack-to-global and function-name-trace     *)
(* look at it: which register, PHI node or slot a value travels through.   *)
(* Blocks are sequences of instructions.  An instruction is                *)
(*   id      its identity, and the register it defines                     *)
(*   kind    one of Kinds; "exempt" is an atomic one, an intrinsic, a      *)
(*           getelementptr or a switch, "op" any other without a kind      *)
(*   args    the operands, <<"imm", c>> or <<"reg", id>>                   *)
(*   blocks  its successors, or the incoming blocks of a PHI node          *)
(*   ref     the slot of a load or store, or what a call may call          *)
(***************************************************************************)
EXTENDS Selection

CONSTANTS
  Fns,     \* the functions of the module that have a body
  OptNone  \* those marked optnone

ASSUME OptNoneAssumption == OptNone \subseteq Fns

VARIABLE code  \* code[f]: the blocks of f

Kinds == {"alloca", "phi", "pad", "op", "exempt", "point", "load", "store",
          "call", "puts", "br", "invoke", "ret", "resume"}
Slots == {"load", "store"}
Terminators == {"br", "invoke", "ret", "resume"}

Inst(id, kind, args, blocks, ref) ==
  [id |-> id, kind |-> kind, args |-> args, blocks |-> blocks, ref |-> ref]
Reg(id) == <<"reg", id>>
Alloca(slot) == Inst(slot, "alloca", <<>>, <<>>, {})
Load(id, slot) == Inst(id, "load", <<>>, <<>>, slot)
Store(id, arg, slot) == Inst(id, "store", <<arg>>, <<>>, slot)

Places(blocks) == UNION {{b} \X DOMAIN blocks[b] : b \in DOMAIN blocks}
InstAt(blocks, p) == blocks[p[1]][p[2]]
PlaceOf(blocks, id) == CHOOSE p \in Places(blocks) : InstAt(blocks, p).id = id
InstOf(blocks, id) == InstAt(blocks, PlaceOf(blocks, id))
InstIds(blocks) == {InstAt(blocks, p).id : p \in Places(blocks)}
InstsOf(blocks) == UNION {ToSet(blocks[b]) : b \in DOMAIN blocks}

(* What is new, new[p], is put before the instruction at each place p.     *)
PutBefore(blocks, new) ==
  [b \in DOMAIN blocks |->
     FlattenSeq([i \in DOMAIN blocks[b] |-> Append(new[<<b, i>>], blocks[b][i])])]
When(cond, inst) == IF cond THEN <<inst>> ELSE <<>>

Erase(blocks, id) ==
  [b \in DOMAIN blocks |->
     Select(blocks[b], {x \in ToSet(blocks[b]) : x.id # id})]
WithArgs(x, args) == Inst(x.id, x.kind, args, x.blocks, x.ref)
SetArg(blocks, p, k, arg) ==
  [blocks EXCEPT ![p[1]][p[2]] = WithArgs(@, [@.args EXCEPT ![k] = arg])]

(* The first place from <<b, i>> on that has neither PHI node nor pad.     *)
FirstInsertionPoint(blocks, b, i) ==
  <<b, Min({j \in i..Len(blocks[b]) : blocks[b][j].kind \notin {"phi", "pad"}})>>

LeadingAllocas(entry) ==
  Min({i \in DOMAIN entry : entry[i].kind # "alloca"}) - 1
AfterAllocas(entry, inst) == InsertAt(entry, LeadingAllocas(entry) + 1, inst)

(* The places just before and just after the insertion point.              *)
AtPoint(blocks, p, point) == InstAt(blocks, p).id = point
AfterPoint(blocks, p, point) ==
  p[2] > 1 /\ AtPoint(blocks, <<p[1], p[2] - 1>>, point)

-----------------------------------------------------------------------------
(* LLVM's own demotion utilities.                                          *)

(* An operand is read at the instruction that has it, one of a PHI node at *)
(* the end of the predecessor that it comes from.                          *)
ReadAt(blocks, p, k) ==
  LET x == InstAt(blocks, p) IN
  IF x.kind = "phi" THEN <<x.blocks[k], Len(blocks[x.blocks[k]])>> ELSE p

UsersOf(blocks, id) ==
  {p \in Places(blocks) : Reg(id) \in ToSet(InstAt(blocks, p).args)}

(* A reload of the slot is for one user, and for one predecessor of it if  *)
(* it is a PHI node.                                                       *)
Reload(slot, user, b) == Load(<<"reload", slot, user, b>>, slot)

(* The reloads of the slot of a register that are needed at a place.       *)
ReloadsAt(blocks, q, id, slot) ==
  LET users == {p \in UsersOf(blocks, id) :
                  \E k \in DOMAIN InstAt(blocks, p).args :
                    InstAt(blocks, p).args[k] = Reg(id) /\ ReadAt(blocks, p, k) = q}
      list == Select(FlattenSeq(blocks), {InstAt(blocks, p) : p \in users})
  IN [i \in DOMAIN list |-> Reload(slot, list[i].id, q[1])]

Reloading(blocks, id, slot) ==
  [b \in DOMAIN blocks |-> [i \in DOMAIN blocks[b] |->
     LET x == blocks[b][i] IN
     WithArgs(x, [k \in DOMAIN x.args |->
       IF x.args[k] # Reg(id) THEN x.args[k]
       ELSE Reg(Reload(slot, x.id, ReadAt(blocks, <<b, i>>, k)[1]).id)])]]

(* llvm::DemoteRegToStack: a slot at the insertion point, a store after    *)
(* the definition, a reload for each user.                                 *)
DemoteRegToStack(blocks, id, point, slot) ==
  LET p == PlaceOf(blocks, id)
      set == FirstInsertionPoint(blocks, p[1], p[2] + 1)
  IN PutBefore(Reloading(blocks, id, slot),
       [q \in Places(blocks) |->
          When(AtPoint(blocks, q, point), Alloca(slot))
            \o When(q = set, Store(<<"store", slot>>, Reg(id), slot))
            \o ReloadsAt(blocks, q, id, slot)])

(* The stores of what a PHI node takes from a predecessor, at its end.     *)
StoresAt(blocks, q, x, slot) ==
  LET edges == [k \in DOMAIN x.blocks |-> k]
      list == Select(edges, {k \in DOMAIN x.blocks :
                               q = <<x.blocks[k], Len(blocks[x.blocks[k]])>>})
  IN [i \in DOMAIN list |-> Store(<<"store", slot, list[i]>>, x.args[list[i]], slot)]

(* llvm::DemotePHIToStack: a store in each predecessor, and a load that    *)
(* takes the place of the PHI node; one without users is only erased.      *)
DemotePHIToStack(blocks, x, point, slot) ==
  LET p == PlaceOf(blocks, x.id)
      rest == Erase(blocks, x.id)
      first == FirstInsertionPoint(rest, p[1], p[2])
  IN IF UsersOf(blocks, x.id) = {} THEN rest
     ELSE PutBefore(rest,
            [q \in Places(rest) |->
               When(AtPoint(rest, q, point), Alloca(slot))
                 \o When(q = first, Load(x.id, slot))
                 \o StoresAt(rest, q, x, slot)])

=============================================================================
