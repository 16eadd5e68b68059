------------------------- MODULE FunctionNameTrace -------------------------
(***************************************************************************)
(* FunctionNameTracePass::run: a function puts a line when it is entered   *)
(* and one when it returns (src/lib/passes/function-name-trace).           *)
(***************************************************************************)
EXTENDS FrameCode

CONSTANT Puts  \* the function that `puts` names

VARIABLES
  enteringMap,  \* the string that each function puts on entry
  leavingMap,   \* ... and on return
  traced        \* how often each function has been instrumented

traceVars == <<enteringMap, leavingMap, traced>>

TraceInit ==
  enteringMap = <<>> /\ leavingMap = <<>> /\ traced = [f \in Fns |-> 0]

(* The maps are local to a run of the pass.                                *)
TraceStart == enteringMap' = <<>> /\ leavingMap' = <<>>

TraceSkips(f) == f \in OptNone \/ f = Puts

PutsCall(id, f, line) == Inst(<<"puts", id, traced[f], line[1]>>, "puts", <<>>, <<>>, line)

(* llvm::PrepareToSplitEntryBlock moves the allocas to the front.          *)
AllocasFirst(entry) ==
  LET allocas == {x \in ToSet(entry) : x.kind = "alloca"}
  IN Select(entry, allocas) \o Select(entry, ToSet(entry) \ allocas)

PutsOnEntry(blocks, f, line) ==
  LET entry == AllocasFirst(blocks[1])
      first == entry[LeadingAllocas(entry) + 1].id
  IN [blocks EXCEPT ![1] = AfterAllocas(entry, PutsCall(first, f, line))]

(* Mutant: only the first return is seen.                                  *)
PutsBeforeFirstReturn(blocks, f, line) ==
  LET rets == {p \in Places(blocks) : InstAt(blocks, p).kind = "ret"}
      b == Min({p[1] : p \in rets})
  IN IF rets = {} THEN blocks
     ELSE [blocks EXCEPT ![b] =
             InsertAt(@, Len(@), PutsCall(Last(@).id, f, line))]

PutsBeforeReturns(blocks, f, line) ==
  [b \in DOMAIN blocks |->
     IF Last(blocks[b]).kind = "ret"
     THEN InsertAt(blocks[b], Len(blocks[b]),
                   PutsCall(Last(blocks[b]).id, f, line))
     ELSE blocks[b]]

(* Mutant: a string that is there is replaced.                             *)
InsertOrAssign(map, f, line) ==
  [g \in DOMAIN map \cup {f} |-> IF g = f THEN line ELSE map[g]]

TryEmplace(map, f, line) ==
  [g \in DOMAIN map \cup {f} |-> IF g \in DOMAIN map THEN map[g] ELSE line]

(* Each function is come to once, so neither map has a string for it yet;  *)
(* the one for leaving is offered to the map of entry strings.             *)
TraceInstrument(f) ==
  /\ ~ TraceSkips(f)
  /\ LET entering == IF f \in DOMAIN enteringMap THEN enteringMap[f]
                                                 ELSE <<"enter", f>>
         leaving == IF f \in DOMAIN leavingMap THEN leavingMap[f]
                                               ELSE <<"leave", f>>
         entered == TryEmplace(enteringMap, f, entering)
     IN /\ code' = [code EXCEPT ![f] =
             PutsBeforeReturns(PutsOnEntry(@, f, entering), f, leaving)]
        /\ enteringMap' = TryEmplace(entered, f, leaving)
  /\ traced' = [traced EXCEPT ![f] = @ + 1]
  /\ UNCHANGED leavingMap

=============================================================================
