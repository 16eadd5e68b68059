------------------------- MODULE InstrumentedModule -------------------------
(***************************************************************************)
(* A module on its way through opt: instructions are tagged, as            *)
(* fuse-functions does, then a pipeline is parsed and its passes are run   *)
(* on the module.  Of the passes, breakpoint-net and the two forms of      *)
(* promote-blocks are the ones that rearrange blocks and instructions; the *)
(* other names leave no trace in what is modelled of the IR.               *)
(***************************************************************************)
EXTENDS MetadataUtil, BreakpointNet, PromoteBlocks, PassPipeline, FiniteSets

CONSTANTS
  Bodies,    \* the modules to begin with
  FirstId,   \* above the identities and labels in them
  MaxEdits   \* bound on the number of times metadata is attached or created

ASSUME EditsAssumption == MaxEdits \in Nat
ASSUME BodiesAssumption ==
  /\ FirstId \in Nat
  /\ \A given \in Bodies :
       /\ given \in [Funcs -> Seq(Block)]
       /\ \A f \in Funcs :
            /\ WellFormed(given[f])
            /\ DistinctIds(InstsOf(given[f])) /\ DistinctLabels(given[f])
            /\ \A id \in Ids(InstsOf(given[f])) \cup Labels(given[f]) : id < FirstId
       /\ \A f, g \in Funcs : f # g =>
            /\ Ids(InstsOf(given[f])) \cap Ids(InstsOf(given[g])) = {}
            /\ Labels(given[f]) \cap Labels(given[g]) = {}

VARIABLES
  edits,  \* how many edits may still be made
  tags,   \* <<id, name, node>>: what was attached last, under each name
  cur     \* how far the current pass has got: the next function, or stage

imVars == <<edits, tags, cur>>
vars == <<body, nextId, netVars, prVars, pipeVars, imVars>>

TagsOf(found) ==
  UNION {{<<x.id, n, x.md[n]>> : n \in {m \in MdNames : Has(x, m)}} :
           x \in ToSet(found)}

Init ==
  /\ body \in Bodies /\ nextId = FirstId
  /\ NetInit /\ PrInit /\ PipeInit
  /\ edits \in 0..MaxEdits /\ cur = 1
  /\ tags = UNION {TagsOf(InstsOf(body[f])) : f \in Funcs}

Tag(id, name, node) ==
  tags' = {t \in tags : t[1] # id \/ t[2] # name} \cup {<<id, name, node>>}

(* What the passes will be given is what was edited.                       *)
BeforeThePasses ==
  /\ netGiven' = body' /\ prGiven' = body'
  /\ UNCHANGED <<netFn, netBlock, netInst, modified, preserved, cur,
                 prPhase, perInstruction, prFn, insts, blocksToPromote, stats,
                 promoted, considered, badInputs, pipeVars>>

Editing == pipePhase = "parse" /\ position = 1 /\ edits > 0

Attach ==
  /\ Editing
  /\ \E f \in Funcs, name \in MdNames, s \in Strings :
       \E b \in DOMAIN body[f] : \E i \in DOMAIN body[f][b].insts :
         /\ AttachMetadata(f, b, i, name, s)
         /\ Tag(body[f][b].insts[i].id, name, s)
  /\ edits' = edits - 1
  /\ BeforeThePasses

CreateMarker ==
  /\ Editing
  /\ \E f \in Funcs, name \in MdNames, s \in Strings :
       \E b \in DOMAIN body[f] :
         /\ \/ \E i \in DOMAIN body[f][b].insts : CreateMetadata(f, b, i, name, s)
            \/ CreateMetadataAtEnd(f, b, name, s)
         /\ Tag(nextId, name, s)
  /\ edits' = edits - 1
  /\ BeforeThePasses

(* A block that was under construction is given its terminator             *)
(* (fuse-functions.cpp:469).                                               *)
Terminate ==
  /\ pipePhase = "parse"
  /\ \E f \in Funcs : \E b \in DOMAIN body[f] :
        /\ Last(body[f][b].insts).kind \notin Terminators
        /\ body' = [body EXCEPT ![f][b].insts =
                      Append(@, NewInst(nextId, "term"))]
  /\ nextId' = nextId + 1
  /\ UNCHANGED <<edits, tags>>
  /\ BeforeThePasses

ParseStep ==
  /\ \A f \in Funcs : Terminated(body[f])
  /\ Parse
  /\ UNCHANGED <<body, nextId, netVars, prVars, imVars>>

-----------------------------------------------------------------------------
Current(name) == pipePhase = "run" /\ queue # <<>> /\ Head(queue) = name

(* A function pass is run on one function after the other.                 *)
RunNet ==
  /\ Current("breakpoint-net")
  /\ \/ cur \in Funcs /\ (NetSkip(cur) \/ NetStart(cur)) /\ cur' = cur + 1
     \/ NetWalk /\ UNCHANGED cur
  /\ UNCHANGED <<prVars, pipeVars, edits, tags>>

NetPassEnds ==
  /\ Current("breakpoint-net") /\ NetIdle /\ cur = N + 1
  /\ PassEnds /\ cur' = 1
  /\ UNCHANGED <<body, nextId, netVars, prVars, edits, tags>>

CurrentPromote == Current("promote-blocks") \/ Current("promote-instructions")

(* A module pass is run once.                                              *)
RunPromote ==
  /\ CurrentPromote
  /\ \/ cur = 1 /\ PrStart(Current("promote-instructions")) /\ cur' = 2
     \/ cur = 2 /\ (PrCollect \/ PrPromote) /\ UNCHANGED cur
  /\ UNCHANGED <<netVars, pipeVars, edits, tags>>

PromotePassEnds ==
  /\ CurrentPromote /\ cur = 2 /\ prPhase = "idle"
  /\ PassEnds /\ cur' = 1
  /\ UNCHANGED <<body, nextId, netVars, prVars, edits, tags>>

OtherPass ==
  /\ pipePhase = "run" /\ queue # <<>>
  /\ ~ Current("breakpoint-net") /\ ~ CurrentPromote
  /\ PassEnds
  /\ UNCHANGED <<body, nextId, netVars, prVars, imVars>>

PipelineEnds ==
  /\ RunEnds
  /\ UNCHANGED <<body, nextId, netVars, prVars, imVars>>

Done == pipePhase = "done" /\ UNCHANGED vars

Next ==
  \/ Attach \/ CreateMarker \/ Terminate
  \/ ParseStep \/ RunNet \/ NetPassEnds \/ RunPromote \/ PromotePassEnds
  \/ OtherPass \/ PipelineEnds \/ Done

Spec == Init /\ [][Next]_vars

-----------------------------------------------------------------------------
InstrumentTypeOK ==
  /\ BodyTypeOK /\ PipeTypeOK
  /\ netFn \in Funcs \cup {0} /\ modified \in BOOLEAN
  /\ preserved \in [Funcs -> {"unknown", "all", "cfg"}]
  /\ prPhase \in {"idle", "collect", "split", "extract"}
  /\ stats \in [{"candidates", "ineligible", "failed", "promoted"} -> Nat]
  /\ edits \in 0..MaxEdits /\ cur \in 1..(N + 2)

(* What was attached is found, by name and by value, in the function it    *)
(* was attached in or in a function promoted from it: traps and splits     *)
(* neither lose nor copy a tag, and a later attachment under a name        *)
(* replaces the earlier one (metadata-util.cpp:109-177; fuse-functions     *)
(* finds its call sites by nothing else).                                  *)
TagsAreFound ==
  \A name \in MdNames, s \in Strings :
    LET here(f) == FindMetadataIfIn(body[f], name, {s})
        there == FindMetadataIfIn(promoted, name, {s})
        tagged == {t[1] : t \in {u \in tags : u[2] = name /\ u[3] = s}}
    IN /\ (UNION {Ids(here(f)) : f \in Funcs}) \cup Ids(there) = tagged
       /\ \A f \in Funcs :
            /\ Cardinality(Ids(here(f))) = Len(here(f))
            /\ Ids(here(f)) \cap Ids(there) = {}
            /\ Ids(here(f)) \subseteq Ids(FindMetadataIn(body[f], name))

(* A marker is a call of llvm.donothing that carries a node.  Looking for  *)
(* one marker gives the first of those that looking for all gives          *)
(* (metadata-util.cpp:307-320 stops in a block, 273-286 does not), and no  *)
(* donothing call that was never tagged is taken for a marker.             *)
MarkerLookupsAgree ==
  \A f \in Funcs, name \in MdNames, s \in Strings :
    LET all == FindMarkersIfIn(body[f], name, {s})
    IN /\ FindMarkerIfIn(body[f], name, {s}) =
            IF all = <<>> THEN <<>> ELSE <<Head(all)>>
       /\ Ids(all) \subseteq Ids(FindMarkersIn(body[f]))
       /\ Ids(FindMarkersIn(body[f])) \subseteq {t[1] : t \in tags}

(* While breakpoint-net walks over a function, the blocks it has passed    *)
(* are guarded and those ahead are as they were.  When it has returned,    *)
(* "cfg" means that all are; "all", for a function it may change, means    *)
(* that it gave up at the first block without an insertion point, with     *)
(* what comes before guarded and what comes after not                      *)
(* (breakpoint-net.cpp:100-103).                                           *)
GuardedUpTo(f, b) ==
  \A k \in DOMAIN netGiven[f] :
    IF k < b THEN Guarded(netGiven[f], body[f], k)
             ELSE k > b => body[f][k] = netGiven[f][k]

TrappedBlocks ==
  Current("breakpoint-net") =>
    \A f \in 1..(cur - 1) :
      /\ Len(body[f]) = Len(netGiven[f])
      /\ \A k \in DOMAIN body[f] : OnlyTrapsAdded(netGiven[f], body[f], k)
      /\ IF netFn = f THEN GuardedUpTo(f, netBlock)
         ELSE IF f \in OptNone THEN body[f] = netGiven[f]
         ELSE IF preserved[f] = "cfg" THEN GuardedUpTo(f, Len(body[f]) + 1)
         ELSE /\ StopsAt(netGiven[f]) # {}
              /\ GuardedUpTo(f, Min(StopsAt(netGiven[f])))

Promoting(phases) == Current("promote-instructions") /\ prPhase \in phases

(* promote-blocks.cpp:165: every instruction that may be split off is      *)
(* alone in a block of its own when extraction begins; only a cleanuppad   *)
(* stays where it is, as SplitBlock splits after pads.                     *)
InstructionsAlone ==
  Promoting({"extract"}) =>
    \A f \in Funcs \ OptNone : \A b \in DOMAIN body[f] :
      LET s == Select(body[f][b].insts, Splittable)
      IN \A i \in DOMAIN s :
           \/ s[i].kind = "cleanuppad"
           \/ Len(s) = 1 /\ s[1] = body[f][b].insts[1]

(* Splitting changes neither which instructions a function executes nor    *)
(* their order, but for what has to come first in the entry block, and     *)
(* nothing of an optnone function.                                         *)
OrderKept ==
  Promoting({"split", "collect"}) =>
    \A f \in Funcs :
      LET given == InstsOf(prGiven[f])
          now == Select(InstsOf(body[f]), {x \in Inst : x.id \in Ids(given)})
          Moved == OfKinds(KeptInEntry)
          Stay == OfKinds(Kinds \ KeptInEntry)
      IN /\ f \in OptNone => body[f] = prGiven[f]
         /\ Select(now, Stay) = Select(given, Stay)
         /\ Select(now, Moved) = Select(given, Moved)

InEntry(f, x) == x.id \in Ids(body[f][1].insts)

(* An alloca outside the entry block is executed each time.  Those before  *)
(* the first llvm.localescape of an entry block never leave it.  The       *)
(* others do when the pass splits every instruction off: localescape is    *)
(* put at the front (promote-blocks.cpp:137-141), but is not among what    *)
(* splitting leaves alone (151-152), and takes with it what follows.       *)
AllocasStayInEntry ==
  \A f \in Funcs \ OptNone :
    LET entry == prGiven[f][1].insts
        Held(i) == \E j \in 1..(i - 1) : entry[j].kind = "required"
    IN \A i \in DOMAIN entry :
         entry[i].kind = "alloca" =>
           /\ ~ Held(i) => InEntry(f, entry[i])
           /\ Held(i) /\ Promoting({"extract"}) => ~ InEntry(f, entry[i])

(* promote-blocks.cpp:212-221: a candidate is counted ineligible once for  *)
(* each of its unsupported inputs and then once more for what becomes of   *)
(* it.  Without such inputs the three counts add up to the candidates.     *)
CountersAddUp ==
  stats.ineligible + stats.failed + stats.promoted = considered + badInputs

=============================================================================
