---------------------------- MODULE FunctionBody ----------------------------
(***************************************************************************)
(* The IR that the instrumenting passes and the metadata helpers walk: the *)
(* functions of a module, their blocks, and the instructions in them.  Of  *)
(* an instruction only what the code asks about is kept: what kind it is   *)
(* and which metadata nodes are attached to it.                            *)
(***************************************************************************)
EXTENDS Selection

CONSTANTS
  N,        \* number of functions with a body; the module lists them as 1..N
  OptNone,  \* those marked optnone
  MdNames,  \* the names of metadata
  Strings,  \* the strings a node can hold
  NoNode    \* stands for no node

ASSUME FunctionsAssumption == N \in Nat /\ OptNone \subseteq 1..N
ASSUME NodesAssumption == NoNode \notin Strings

VARIABLES
  body,   \* body[f]: the blocks of f; the first one is the entry block
  nextId  \* the identity of the next instruction, or the next label, made

Funcs == 1..N

(* catchswitch is both a pad and a terminator; "term" is any other         *)
(* terminator, "required" an llvm.localescape, "op" anything not listed.   *)
EHPads == {"landingpad", "catchpad", "catchswitch", "cleanuppad"}
Terminators == {"term", "catchswitch"}
Kinds == EHPads \cup Terminators
           \cup {"alloca", "required", "phi", "dbg", "donothing", "trap", "op"}

Nodes == Strings \cup {NoNode}
Inst == [id : Nat, kind : Kinds, md : [MdNames -> Nodes]]
Block == [label : Nat, insts : Seq(Inst)]

NoMetadata == [n \in MdNames |-> NoNode]
NewInst(id, kind) == [id |-> id, kind |-> kind, md |-> NoMetadata]

InstsOf(blocks) == FlattenSeq([b \in DOMAIN blocks |-> blocks[b].insts])
Ids(found) == {found[i].id : i \in DOMAIN found}
Labels(blocks) == {blocks[b].label : b \in DOMAIN blocks}
OfKinds(kinds) == {x \in Inst : x.kind \in kinds}
Terminated(blocks) ==
  \A b \in DOMAIN blocks :
    blocks[b].insts # <<>> /\ Last(blocks[b].insts).kind \in Terminators

(* PHI nodes come first in a block, then pads; the entry block has none.   *)
PhiOrPad == EHPads \cup {"phi"}
PadsFirst(s) ==
  \A i \in DOMAIN s :
    s[i].kind \in PhiOrPad => \A j \in 1..(i - 1) : s[j].kind = "phi"
WellFormed(blocks) ==
  /\ blocks # <<>>
  /\ \A b \in DOMAIN blocks : PadsFirst(blocks[b].insts)
  /\ \A i \in DOMAIN blocks[1].insts : blocks[1].insts[i].kind \notin PhiOrPad

DistinctIds(s) == \A i, j \in DOMAIN s : s[i].id = s[j].id => i = j
DistinctLabels(blocks) ==
  \A b, c \in DOMAIN blocks : blocks[b].label = blocks[c].label => b = c

BodyTypeOK == body \in [Funcs -> Seq(Block)] /\ nextId \in Nat

=============================================================================
