--------------------------- MODULE PromoteBlocks ---------------------------
(***************************************************************************)
(* PromoteBlocksPass::run on a module: every block, or every instruction   *)
(* after a block of its own was split off for it, is extracted to a        *)
(* function (src/lib/passes/promote-blocks).                               *)
(***************************************************************************)
EXTENDS FunctionBody

CONSTANT MaxBadInputs  \* bound on a block's inputs of unsupported type

ASSUME BadInputsAssumption == MaxBadInputs \in Nat

VARIABLES
  prPhase,          \* "idle", "collect", "split" or "extract"
  perInstruction,   \* PerInstruction
  prFn,             \* the function the pass has come to
  insts,            \* the instructions of it that are still to be split off
  blocksToPromote,  \* the labels of the candidate blocks
  stats,            \* the four statistics of the pass
  promoted,         \* the blocks that were extracted, each in its function
  considered,       \* candidates dealt with, in all runs of the pass
  badInputs,        \* inputs of unsupported type met, in all runs
  prGiven           \* the body the pass was given

prVars == <<prPhase, perInstruction, prFn, insts, blocksToPromote, stats,
            promoted, considered, badInputs, prGiven>>

PrInit ==
  /\ prPhase = "idle" /\ perInstruction = FALSE /\ prFn = 0
  /\ insts = <<>> /\ blocksToPromote = <<>> /\ promoted = <<>>
  /\ stats = [candidates |-> 0, ineligible |-> 0, failed |-> 0, promoted |-> 0]
  /\ considered = 0 /\ badInputs = 0
  /\ prGiven = body

PrStart(each) ==
  /\ prPhase = "idle"
  /\ prPhase' = "collect" /\ perInstruction' = each /\ prFn' = 1
  /\ blocksToPromote' = <<>> /\ prGiven' = body
  /\ UNCHANGED <<body, nextId, insts, stats, promoted, considered, badInputs>>

PrSkipFunction ==
  /\ prPhase = "collect" /\ prFn \in Funcs
  /\ prFn \in OptNone
  /\ prFn' = prFn + 1
  /\ UNCHANGED <<body, nextId, prPhase, perInstruction, insts, blocksToPromote,
                 stats, promoted, considered, badInputs, prGiven>>

PrTakeBlocks ==
  /\ prPhase = "collect" /\ prFn \in Funcs \ OptNone /\ ~ perInstruction
  /\ blocksToPromote' =
       blocksToPromote \o [b \in DOMAIN body[prFn] |-> body[prFn][b].label]
  /\ prFn' = prFn + 1
  /\ UNCHANGED <<body, nextId, prPhase, perInstruction, insts, stats, promoted,
                 considered, badInputs, prGiven>>

(* llvm::PrepareToSplitEntryBlock moves what has to stay in the entry      *)
(* block to its start.                                                     *)
KeptInEntry == {"alloca", "required"}

(* Mutant: what has to stay is moved behind the rest.                      *)
PrepareAtEnd(entry) ==
  Select(entry, OfKinds(Kinds \ KeptInEntry)) \o Select(entry, OfKinds(KeptInEntry))

PrepareToSplitEntryBlock(entry) ==
  Select(entry, OfKinds(KeptInEntry)) \o Select(entry, OfKinds(Kinds \ KeptInEntry))

NotSplit == {"alloca", "phi", "catchpad", "landingpad", "dbg"} \cup Terminators
Splittable == OfKinds(Kinds \ NotSplit)

PrTakeInstructions ==
  /\ prPhase = "collect" /\ prFn \in Funcs \ OptNone /\ perInstruction
  /\ body' = [body EXCEPT ![prFn][1].insts = PrepareToSplitEntryBlock(@)]
  /\ insts' = Select(InstsOf(body'[prFn]), Splittable)
  /\ prPhase' = "split"
  /\ UNCHANGED <<nextId, perInstruction, prFn, blocksToPromote, stats,
                 promoted, considered, badInputs, prGiven>>

(* llvm::SplitBlock: PHI nodes and pads stay in the old block, whatever    *)
(* instruction is asked for.                                               *)
SplitPoint(s, id) ==
  CHOOSE i \in DOMAIN s :
    /\ s[i].kind \notin PhiOrPad
    /\ \E j \in 1..i : s[j].id = id
                         /\ \A k \in j..(i - 1) : s[k].kind \in PhiOrPad

UpTo(block, i, branch) ==
  [block EXCEPT !.insts = Append(SubSeq(@, 1, i - 1), branch)]
From(block, i, label) ==
  [label |-> label, insts |-> SubSeq(block.insts, i, Len(block.insts))]

(* Mutant: the new block is put in front of the old one.                   *)
SplitBlockBefore(blocks, b, id, label, branch) ==
  LET i == SplitPoint(blocks[b].insts, id) IN
  SubSeq(blocks, 1, b - 1)
    \o <<From(blocks[b], i, label), UpTo(blocks[b], i, branch)>>
    \o SubSeq(blocks, b + 1, Len(blocks))

SplitBlock(blocks, b, id, label, branch) ==
  LET i == SplitPoint(blocks[b].insts, id) IN
  SubSeq(blocks, 1, b - 1)
    \o <<UpTo(blocks[b], i, branch), From(blocks[b], i, label)>>
    \o SubSeq(blocks, b + 1, Len(blocks))

ParentOf(blocks, id) ==
  CHOOSE b \in DOMAIN blocks :
    \E i \in DOMAIN blocks[b].insts : blocks[b].insts[i].id = id

PrSplit ==
  /\ prPhase = "split" /\ insts # <<>>
  /\ LET id == Head(insts).id IN
       body' = [body EXCEPT ![prFn] =
                  SplitBlock(@, ParentOf(@, id), id, nextId,
                             NewInst(nextId + 1, "term"))]
  /\ blocksToPromote' = Append(blocksToPromote, nextId)
  /\ insts' = Tail(insts) /\ nextId' = nextId + 2
  /\ UNCHANGED <<prPhase, perInstruction, prFn, stats, promoted, considered,
                 badInputs, prGiven>>

(* Mutant: the last instruction is left where it is.                       *)
PrEndSplitEarly ==
  /\ prPhase = "split" /\ Len(insts) <= 1
  /\ prPhase' = "collect" /\ prFn' = prFn + 1
  /\ UNCHANGED <<body, nextId, perInstruction, insts, blocksToPromote, stats,
                 promoted, considered, badInputs, prGiven>>

PrEndSplit ==
  /\ prPhase = "split" /\ insts = <<>>
  /\ prPhase' = "collect" /\ prFn' = prFn + 1
  /\ UNCHANGED <<body, nextId, perInstruction, insts, blocksToPromote, stats,
                 promoted, considered, badInputs, prGiven>>

PrEndCollect ==
  /\ prPhase = "collect" /\ prFn > N
  /\ prPhase' = "extract"
  /\ stats' = [stats EXCEPT !.candidates = Len(blocksToPromote)]
  /\ UNCHANGED <<body, nextId, perInstruction, prFn, insts, blocksToPromote,
                 promoted, considered, badInputs, prGiven>>

-----------------------------------------------------------------------------
(* Extraction.  Candidates are taken from the list in order.               *)

FuncOf(label) ==
  CHOOSE f \in Funcs : \E b \in DOMAIN body[f] : body[f][b].label = label
Candidate ==
  LET blocks == body[FuncOf(Head(blocksToPromote))] IN
  blocks[CHOOSE b \in DOMAIN blocks : blocks[b].label = Head(blocksToPromote)]

(* isEHPad looks at the first instruction that is not a PHI node.          *)
IsEHPad(block) ==
  \E i \in DOMAIN block.insts :
    /\ block.insts[i].kind \in EHPads
    /\ \A j \in 1..(i - 1) : block.insts[j].kind = "phi"

AtCandidate == prPhase = "extract" /\ blocksToPromote # <<>>

Considered ==
  /\ blocksToPromote' = Tail(blocksToPromote) /\ considered' = considered + 1
  /\ UNCHANGED <<prPhase, perInstruction, prFn, insts, prGiven>>

PrSkipPad ==
  /\ AtCandidate /\ IsEHPad(Candidate)
  /\ Considered
  /\ stats' = [stats EXCEPT !.ineligible = @ + 1]
  /\ UNCHANGED <<body, nextId, promoted, badInputs>>

(* Mutant: the `continue` were that of the loop over blocks.               *)
CountBadInputsOnce(k, stat) ==
  /\ badInputs' = badInputs + k
  /\ stats' = [stats EXCEPT ![IF k > 0 THEN "ineligible" ELSE stat] = @ + 1]

(* Each of the inputs of unsupported type is counted: the `continue` is    *)
(* that of the loop over inputs, and the candidate is tried all the same.  *)
CountBadInputs(k, stat) ==
  /\ badInputs' = badInputs + k
  /\ stats' = [[stats EXCEPT ![stat] = @ + 1] EXCEPT !.ineligible = @ + k]

PrIneligible(k) ==
  /\ AtCandidate /\ ~ IsEHPad(Candidate)
  /\ CountBadInputs(k, "ineligible") /\ Considered
  /\ UNCHANGED <<body, nextId, promoted>>

(* The extractor takes no block with an alloca.                            *)
Eligible(block) ==
  \A i \in DOMAIN block.insts : block.insts[i].kind # "alloca"

PrFail(k) ==
  /\ AtCandidate /\ ~ IsEHPad(Candidate) /\ Eligible(Candidate)
  /\ CountBadInputs(k, "failed") /\ Considered
  /\ UNCHANGED <<body, nextId, promoted>>

(* The block moves to a function of its own; a block that calls it takes   *)
(* its place.                                                              *)
CallOfPromoted ==
  [label |-> nextId,
   insts |-> <<NewInst(nextId + 1, "op"), NewInst(nextId + 2, "term")>>]

PrExtract(k) ==
  /\ AtCandidate /\ ~ IsEHPad(Candidate) /\ Eligible(Candidate)
  /\ CountBadInputs(k, "promoted") /\ Considered
  /\ body' = [body EXCEPT ![FuncOf(Head(blocksToPromote))] =
        [b \in DOMAIN @ |-> IF @[b] = Candidate THEN CallOfPromoted ELSE @[b]]]
  /\ promoted' = Append(promoted, Candidate)
  /\ nextId' = nextId + 3

PrFinish ==
  /\ prPhase = "extract" /\ blocksToPromote = <<>>
  /\ prPhase' = "idle"
  /\ UNCHANGED <<body, nextId, perInstruction, prFn, insts, blocksToPromote,
                 stats, promoted, considered, badInputs, prGiven>>

PrCollect ==
  \/ PrSkipFunction \/ PrTakeBlocks \/ PrTakeInstructions
  \/ PrSplit \/ PrEndSplit \/ PrEndCollect

PrPromote ==
  \/ PrSkipPad \/ PrFinish
  \/ \E k \in 0..MaxBadInputs : PrIneligible(k) \/ PrFail(k) \/ PrExtract(k)

=============================================================================
