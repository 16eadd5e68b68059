---------------------------- MODULE MetadataUtil ----------------------------
(***************************************************************************)
(* The metadata helpers (src/lib/support/metadata-util.cpp): nodes are     *)
(* attached to instructions under a name, markers are calls of             *)
(* llvm.donothing that exist to carry one, and the lookups go through a    *)
(* block or a function.  Nodes hold strings.                               *)
(***************************************************************************)
EXTENDS FunctionBody

CONSTANT MaxInsts  \* bound on the instructions of a block while it is edited

(* setMetadata replaces the node an instruction has under that name.       *)
WithNode(inst, name, node) == [inst EXCEPT !.md[name] = node]

(* attach_metadata of a string.                                            *)
AttachMetadata(f, b, i, name, node) ==
  /\ b \in DOMAIN body[f] /\ i \in DOMAIN body[f][b].insts
  /\ body' = [body EXCEPT ![f][b].insts[i] = WithNode(@, name, node)]
  /\ UNCHANGED nextId

(* create_metadata before an instruction, which the verifier accepts of one *)
(* that is neither a PHI node nor a pad.                                   *)
CreateMetadata(f, b, i, name, s) ==
  /\ b \in DOMAIN body[f] /\ i \in DOMAIN body[f][b].insts
  /\ body[f][b].insts[i].kind \notin PhiOrPad
  /\ Len(body[f][b].insts) < MaxInsts
  /\ body' = [body EXCEPT ![f][b].insts =
        InsertAt(@, i, WithNode(NewInst(nextId, "donothing"), name, s))]
  /\ nextId' = nextId + 1

(* create_metadata at the end of a block that has no terminator yet.       *)
CreateMetadataAtEnd(f, b, name, s) ==
  /\ b \in DOMAIN body[f]
  /\ Len(body[f][b].insts) < MaxInsts
  /\ body[f][b].insts # <<>> => Last(body[f][b].insts).kind \notin Terminators
  /\ body' = [body EXCEPT ![f][b].insts =
        Append(@, WithNode(NewInst(nextId, "donothing"), name, s))]
  /\ nextId' = nextId + 1

-----------------------------------------------------------------------------
(* The lookups in a block give instructions in order.                      *)

Has(inst, name) == inst.md[name] # NoNode

HasMetadata(inst) == \E n \in MdNames : Has(inst, n)

With(name) == {inst \in Inst : Has(inst, name)}

(* The string, or no value.                                                *)
GetMetadata(inst, name) == inst.md[name]

WithOneOf(name, values) == {inst \in Inst : GetMetadata(inst, name) \in values}
Markers == {inst \in Inst : inst.kind = "donothing" /\ HasMetadata(inst)}

FindMetadata(block, name) ==
  Select(block.insts, With(name))

(* Mutant: the predicate is ignored.                                       *)
FindMetadataAny(block, name, values) == FindMetadata(block, name)

(* The predicate is the set of the strings that it accepts.                *)
FindMetadataIf(block, name, values) ==
  Select(FindMetadata(block, name), WithOneOf(name, values))

FindMarkers(block) == Select(block.insts, Markers)

FindNamedMarkers(block, name) == Select(FindMarkers(block), With(name))

FindMarkersIf(block, name, values) ==
  Select(FindNamedMarkers(block, name), WithOneOf(name, values))

(* The first match, as a sequence of at most one element.                  *)
FindMarkerIf(block, name, values) ==
  LET found == FindMarkersIf(block, name, values) IN
  IF found = <<>> THEN <<>> ELSE <<Head(found)>>

(* The lookups in a function append what they find block by block...       *)
FindMetadataIn(blocks, name) ==
  FlattenSeq([b \in DOMAIN blocks |-> FindMetadata(blocks[b], name)])

FindMetadataIfIn(blocks, name, values) ==
  FlattenSeq([b \in DOMAIN blocks |-> FindMetadataIf(blocks[b], name, values)])

FindMarkersIn(blocks) ==
  FlattenSeq([b \in DOMAIN blocks |-> FindMarkers(blocks[b])])

FindMarkersIfIn(blocks, name, values) ==
  FlattenSeq([b \in DOMAIN blocks |-> FindMarkersIf(blocks[b], name, values)])

(* Mutant: the search goes on to the last block with one.                  *)
FindLastMarkerIn(blocks, name, values) ==
  LET hits == {b \in DOMAIN blocks : FindMarkerIf(blocks[b], name, values) # <<>>}
  IN IF hits = {} THEN <<>> ELSE FindMarkerIf(blocks[Max(hits)], name, values)

(* ... and the search for one marker stops in the first block with one.    *)
FindMarkerIfIn(blocks, name, values) ==
  LET hits == {b \in DOMAIN blocks : FindMarkerIf(blocks[b], name, values) # <<>>}
  IN IF hits = {} THEN <<>> ELSE FindMarkerIf(blocks[Min(hits)], name, values)

=============================================================================
