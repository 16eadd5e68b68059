--------------------------- MODULE BreakpointNet ---------------------------
(***************************************************************************)
(* BreakpointNetPass::run on one function: a call of llvm.debugtrap before *)
(* every instruction (src/lib/passes/breakpoint-net).                      *)
(***************************************************************************)
EXTENDS FunctionBody

VARIABLES
  netFn,      \* the function the pass is run on, 0 when it is not running
  netBlock,   \* the block the walk has come to
  netInst,    \* the instruction there, 0 before the block is entered
  modified,   \* has a trap been inserted?
  preserved,  \* what the last run on each function said it preserved
  netGiven    \* netGiven[f]: the body the last run on f was given

netVars == <<netFn, netBlock, netInst, modified, preserved, netGiven>>

NetInit ==
  /\ netFn = 0 /\ netBlock = 0 /\ netInst = 0 /\ modified = FALSE
  /\ preserved = [f \in Funcs |-> "unknown"]
  /\ netGiven = body

NetIdle == netFn = 0

NetReturn(what) ==
  /\ preserved' = [preserved EXCEPT ![netFn] = what]
  /\ netFn' = 0 /\ netBlock' = 0 /\ netInst' = 0

NetSkip(f) ==
  /\ NetIdle /\ f \in OptNone
  /\ preserved' = [preserved EXCEPT ![f] = "all"]
  /\ netGiven' = [netGiven EXCEPT ![f] = body[f]]
  /\ UNCHANGED <<body, nextId, netFn, netBlock, netInst, modified>>

NetStart(f) ==
  /\ NetIdle /\ f \notin OptNone
  /\ netFn' = f /\ netBlock' = 1 /\ netInst' = 0 /\ modified' = FALSE
  /\ netGiven' = [netGiven EXCEPT ![f] = body[f]]
  /\ UNCHANGED <<body, nextId, preserved>>

(* The instructions from i on that are of these kinds are passed over.     *)
SkipKinds(insts, i, kinds) ==
  LET stops == {j \in i..Len(insts) : insts[j].kind \notin kinds}
  IN IF stops = {} THEN Len(insts) + 1 ELSE Min(stops)

(* Allocas are passed over in the entry block only, then PHI nodes and     *)
(* pads.                                                                   *)
InsertionPoint(blocks, b) ==
  SkipKinds(blocks[b].insts,
            IF b = 1 THEN SkipKinds(blocks[b].insts, 1, {"alloca"}) ELSE 1,
            PhiOrPad)

AtBlock == netFn # 0 /\ netInst = 0 /\ netBlock \in DOMAIN body[netFn]

NetEnterBlock ==
  /\ AtBlock
  /\ LET i == InsertionPoint(body[netFn], netBlock) IN
       /\ i <= Len(body[netFn][netBlock].insts)
       /\ netInst' = i
  /\ UNCHANGED <<body, nextId, netFn, netBlock, modified, preserved, netGiven>>

(* A block that has nothing but pads, a catchswitch for one, ends the pass.*)
NetGiveUp ==
  /\ AtBlock
  /\ InsertionPoint(body[netFn], netBlock) > Len(body[netFn][netBlock].insts)
  /\ NetReturn("all")
  /\ UNCHANGED <<body, nextId, modified, netGiven>>

(* Mutant: the walk goes on with the instruction after the next.           *)
NetTrapEverySecond ==
  /\ netFn # 0 /\ netInst # 0 /\ netInst <= Len(body[netFn][netBlock].insts)
  /\ body' = [body EXCEPT ![netFn][netBlock].insts =
        InsertAt(@, netInst, NewInst(nextId, "trap"))]
  /\ nextId' = nextId + 1
  /\ netInst' = netInst + 3 /\ modified' = TRUE
  /\ UNCHANGED <<netFn, netBlock, preserved, netGiven>>

NetTrap ==
  /\ netFn # 0 /\ netInst # 0 /\ netInst <= Len(body[netFn][netBlock].insts)
  /\ body' = [body EXCEPT ![netFn][netBlock].insts =
        InsertAt(@, netInst, NewInst(nextId, "trap"))]
  /\ nextId' = nextId + 1
  /\ netInst' = netInst + 2 /\ modified' = TRUE
  /\ UNCHANGED <<netFn, netBlock, preserved, netGiven>>

NetNextBlock ==
  /\ netFn # 0 /\ netInst # 0 /\ netInst > Len(body[netFn][netBlock].insts)
  /\ netBlock' = netBlock + 1 /\ netInst' = 0
  /\ UNCHANGED <<body, nextId, netFn, modified, preserved, netGiven>>

NetFinish ==
  /\ netFn # 0 /\ netBlock > Len(body[netFn])
  /\ NetReturn(IF modified THEN "cfg" ELSE "all")
  /\ UNCHANGED <<body, nextId, modified, netGiven>>

NetWalk ==
  NetEnterBlock \/ NetGiveUp \/ NetTrap \/ NetNextBlock \/ NetFinish

-----------------------------------------------------------------------------
(* Is every instruction after the pads preceded by a trap of this run?     *)
Guarded(given, blocks, b) ==
  LET old == Ids(given[b].insts)
      insts == blocks[b].insts
  IN \A i \in DOMAIN insts :
       insts[i].id \in old /\ i >= InsertionPoint(given, b)
       => i > 1 /\ insts[i - 1].kind = "trap" /\ insts[i - 1].id \notin old

(* The traps of this run aside, a block is as it was given.                *)
OnlyTrapsAdded(given, blocks, b) ==
  LET old == Ids(given[b].insts)
  IN /\ Select(blocks[b].insts, {x \in Inst : x.id \in old}) = given[b].insts
     /\ \A i \in DOMAIN blocks[b].insts :
          blocks[b].insts[i].id \notin old => blocks[b].insts[i].kind = "trap"

StopsAt(given) ==
  {b \in DOMAIN given : InsertionPoint(given, b) > Len(given[b].insts)}

=============================================================================
