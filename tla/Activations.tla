---------------------------- MODULE Activations ----------------------------
(***************************************************************************)
(* A module is given a pipeline of demote-registers, stack-to-global and   *)
(* function-name-trace and then executed.  An activation that executes the *)
(* changed code keeps beside it what it would hold executing the source:   *)
(* registers and locals of its own.                                        *)
(***************************************************************************)
EXTENDS StackToGlobal, FunctionNameTrace

CONSTANTS
  Modules,    \* the code to begin with: functions from Fns to blocks
  Pipelines,  \* sequences of names of passes
  MaxActs,    \* bound on the activations of a run
  MaxVisits   \* bound on the branches an activation takes

ASSUME BoundsAssumption == MaxActs \in Nat /\ MaxVisits \in Nat

(* The code to begin with is what LLVM's verifier lets pass; what the      *)
(* passes make has identities of its own.                                  *)
MadeIds == {"slot", "store", "reload", "point", "puts"}

GivenInst(blocks, x) ==
  /\ x = Inst(x.id, x.kind, x.args, x.blocks, x.ref)
  /\ x.kind \in Kinds \ {"point", "puts"} /\ x.id[1] \notin MadeIds
  /\ x.kind \in {"br", "invoke", "phi"} => x.blocks \in Seq(DOMAIN blocks)
  /\ x.kind \in {"br", "invoke"} => 1 \notin ToSet(x.blocks)
  /\ x.kind = "invoke" => Len(x.blocks) = 2
  /\ x.kind \in {"call", "invoke"} => x.ref \subseteq Fns

Given(blocks) ==
  /\ blocks # <<>> /\ blocks \in Seq(Seq(InstsOf(blocks)))
  /\ \A x \in InstsOf(blocks) : GivenInst(blocks, x)
  /\ \A b \in DOMAIN blocks : blocks[b] # <<>>
  /\ \A p \in Places(blocks) :
       /\ InstAt(blocks, p).kind \in Terminators <=> p[2] = Len(blocks[p[1]])
       /\ \A q \in Places(blocks) : InstAt(blocks, p).id = InstAt(blocks, q).id => p = q

PassNames == {"demote-registers", "stack-to-global", "function-name-trace"}

ASSUME PipelinesAssumption == Pipelines \subseteq Seq(PassNames)

ASSUME ModulesAssumption ==
  /\ IsFiniteSet(Fns)
  /\ \A m \in Modules : DOMAIN m = Fns /\ \A f \in Fns : Given(m[f])

VARIABLES
  source,     \* the code the pipeline was given
  passes,     \* the passes still to be run
  next,       \* the functions the current pass has still to come to
  stack,      \* the activations, the running one last
  globals,    \* what has been stored in the slots made global
  acts,       \* how many activations there have been
  unwinding,  \* is an exception on its way up?
  unwound,    \* has an exception left an activation that had put a line?
  open        \* the "Entering" lines no "Leaving" line has closed

runVars == <<stack, globals, acts, unwinding, unwound, open>>
vars == <<code, slotVars, traceVars, source, passes, next, runVars>>

Undef == <<"undef", 0>>

Init ==
  /\ code \in Modules /\ source = code
  /\ DrInit /\ SgInit /\ TraceInit
  /\ passes \in Pipelines /\ next = SetToSeq(Fns)
  /\ stack = <<>> /\ globals = <<>> /\ acts = 0
  /\ unwinding = FALSE /\ unwound = FALSE /\ open = <<>>

-----------------------------------------------------------------------------
(* The pipeline: each pass comes to each function.                         *)

Current(pass) == passes # <<>> /\ Head(passes) = pass
CurrentOnSlots == Current("demote-registers") \/ Current("stack-to-global")

SkipFunction ==
  /\ next # <<>> /\ slotPass = "none"
  /\ \/ CurrentOnSlots /\ SlotPassSkips(Head(next))
     \/ Current("function-name-trace") /\ TraceSkips(Head(next))
  /\ next' = Tail(next)
  /\ UNCHANGED <<code, slotVars, traceVars, source, passes, runVars>>

RunOnSlots ==
  /\ next # <<>>
  /\ \/ Current("demote-registers") /\ DemoteRegistersRun(Head(next))
     \/ Current("stack-to-global") /\ StackToGlobalRun(Head(next))
  /\ next' = Tail(next)
  /\ UNCHANGED <<traceVars, source, passes, runVars>>

StepOnSlots ==
  SlotStep /\ UNCHANGED <<traceVars, source, passes, next, runVars>>

RunTrace ==
  /\ next # <<>> /\ Current("function-name-trace")
  /\ TraceInstrument(Head(next))
  /\ next' = Tail(next)
  /\ UNCHANGED <<slotVars, source, passes, runVars>>

PassEnds ==
  /\ passes # <<>> /\ next = <<>> /\ slotPass = "none"
  /\ passes' = Tail(passes) /\ next' = SetToSeq(Fns) /\ TraceStart
  /\ UNCHANGED <<code, slotVars, traced, source, runVars>>

-----------------------------------------------------------------------------
(* Execution.                                                              *)

Top == Last(stack)
Cur == code[Top.fn][Top.b][Top.i]
Running == passes = <<>> /\ stack # <<>> /\ ~ unwinding
SetTop(frame) == stack' = Append(Front(stack), frame)
Compiled == UNCHANGED <<code, slotVars, traceVars, source, passes, next>>

Eval(values, arg) == IF arg[1] = "imm" THEN arg ELSE values[arg[2]]
Set(values, id, v) == (id :> v) @@ values
Get(values, slot) == IF slot \in DOMAIN values THEN values[slot] ELSE Undef

Content(frame, slot) ==
  IF slot \in globalSlots[frame.fn] THEN Get(globals, <<frame.fn, slot>>)
                                    ELSE Get(frame.mem, slot)

FromSource(frame, id) == id \in InstIds(source[frame.fn])

(* All PHI nodes of a block are evaluated at once, as it is branched to.   *)
PhisOf(block) == Select(block, {x \in ToSet(block) : x.kind = "phi"})
FirstNonPhi(block) == Min({i \in DOMAIN block : block[i].kind # "phi"})
WithPhis(values, phis, from) ==
  [id \in {phis[i].id : i \in DOMAIN phis} |->
     LET x == phis[CHOOSE i \in DOMAIN phis : phis[i].id = id]
     IN Eval(values, x.args[CHOOSE k \in DOMAIN x.args : x.blocks[k] = from])]
    @@ values

Branch(frame, to) ==
  LET phis == PhisOf(code[frame.fn][to]) IN
  [frame EXCEPT
     !.b = to, !.i = FirstNonPhi(code[frame.fn][to]), !.visits = @ + 1,
     !.regs = WithPhis(@, phis, frame.b),
     !.own = WithPhis(@, PhisOf(source[frame.fn][to]), frame.b)]

(* A function is entered; an activation of it that is not the running one  *)
(* any more has been reentered.                                            *)
Enter(f) ==
  /\ acts < MaxActs /\ acts' = acts + 1
  /\ stack' = Append(
       [i \in DOMAIN stack |->
          IF stack[i].fn = f THEN [stack[i] EXCEPT !.reentered = TRUE]
                             ELSE stack[i]],
       [fn |-> f, act |-> acts, b |-> 1, i |-> 1, visits |-> 0,
        regs |-> <<>>, mem |-> <<>>, own |-> <<>>, ownMem |-> <<>>,
        entered |-> FALSE, reentered |-> FALSE])

Start ==
  /\ passes = <<>> /\ stack = <<>> /\ ~ unwinding
  /\ \E f \in Fns : Enter(f)
  /\ Compiled /\ UNCHANGED <<globals, unwinding, unwound, open>>

(* A new value is told apart by activation and visit.                      *)
Computed(frame) ==
  LET x == code[frame.fn][frame.b][frame.i]
      v == <<x.id, frame.act, frame.visits>>
  IN [frame EXCEPT !.i = @ + 1, !.regs = Set(@, x.id, v),
                   !.own = Set(@, x.id, v)]

(* A call that returns at once is one of a function outside the module.    *)
Compute ==
  /\ Running /\ Cur.kind \in {"op", "exempt", "pad", "point", "call"}
  /\ SetTop(Computed(Top))
  /\ Compiled /\ UNCHANGED <<globals, acts, unwinding, unwound, open>>

ExecAlloca ==
  /\ Running /\ Cur.kind = "alloca"
  /\ SetTop([Top EXCEPT !.i = @ + 1])
  /\ Compiled /\ UNCHANGED <<globals, acts, unwinding, unwound, open>>

(* A PHI node that became a load has had its value in the source since the *)
(* branch.                                                                 *)
ExecLoad ==
  /\ Running /\ Cur.kind = "load"
  /\ SetTop([Top EXCEPT !.i = @ + 1,
       !.regs = Set(@, Cur.id, Content(Top, Cur.ref)),
       !.own = IF /\ FromSource(Top, Cur.id)
                  /\ InstOf(source[Top.fn], Cur.id).kind = "load"
               THEN Set(@, Cur.id, Get(Top.ownMem, Cur.ref)) ELSE @])
  /\ Compiled /\ UNCHANGED <<globals, acts, unwinding, unwound, open>>

ExecStore ==
  /\ Running /\ Cur.kind = "store"
  /\ LET v == Eval(Top.regs, Cur.args[1])
         isGlobal == Cur.ref \in globalSlots[Top.fn]
     IN /\ globals' = IF isGlobal THEN Set(globals, <<Top.fn, Cur.ref>>, v)
                                  ELSE globals
        /\ SetTop([Top EXCEPT !.i = @ + 1,
             !.mem = IF isGlobal THEN @ ELSE Set(@, Cur.ref, v),
             !.ownMem = IF FromSource(Top, Cur.id)
                        THEN Set(@, Cur.ref, Eval(Top.own,
                               InstOf(source[Top.fn], Cur.id).args[1]))
                        ELSE @])
  /\ Compiled /\ UNCHANGED <<acts, unwinding, unwound, open>>

ExecBranch ==
  /\ Running /\ Cur.kind \in {"br", "invoke"}
  /\ Top.visits < MaxVisits
  /\ \E to \in IF Cur.kind = "br" THEN ToSet(Cur.blocks) ELSE {Cur.blocks[1]} :
       SetTop(Branch(Top, to))
  /\ Compiled /\ UNCHANGED <<globals, acts, unwinding, unwound, open>>

ExecCall ==
  /\ Running /\ Cur.kind \in {"call", "invoke"}
  /\ \E f \in Cur.ref : Enter(f)
  /\ Compiled /\ UNCHANGED <<globals, unwinding, unwound, open>>

(* An exception is thrown by a function outside the module, or again.      *)
Throw ==
  /\ Running /\ Cur.kind \in {"call", "invoke", "resume"}
  /\ unwinding' = TRUE
  /\ IF Cur.kind = "resume" THEN stack' = Front(stack) /\ unwound' = (unwound \/ Top.entered)
                            ELSE UNCHANGED <<stack, unwound>>
  /\ Compiled /\ UNCHANGED <<globals, acts, open>>

(* The running activation is at the call the exception came out of.        *)
Unwind ==
  /\ unwinding
  /\ IF stack = <<>> THEN unwinding' = FALSE /\ UNCHANGED <<stack, unwound>>
     ELSE IF Cur.kind = "invoke" /\ Top.visits < MaxVisits
     THEN SetTop(Branch(Top, Cur.blocks[2])) /\ unwinding' = FALSE
            /\ UNCHANGED unwound
     ELSE stack' = Front(stack) /\ unwound' = (unwound \/ Top.entered) /\ UNCHANGED unwinding
  /\ Compiled /\ UNCHANGED <<globals, acts, open>>

Return ==
  /\ Running /\ Cur.kind = "ret"
  /\ stack' = IF Len(stack) = 1 THEN <<>>
              ELSE LET caller == Last(Front(stack))
                       x == code[caller.fn][caller.b][caller.i]
                   IN Append(Front(Front(stack)),
                        IF x.kind = "invoke" THEN Branch(caller, x.blocks[1])
                                             ELSE Computed(caller))
  /\ Compiled /\ UNCHANGED <<globals, acts, unwinding, unwound, open>>

(* How the lines are read: a "Leaving" line closes the last open line of   *)
(* its function and all lines after it.                                    *)
Closed(lines, f) ==
  SubSeq(lines, 1, Max({i \in DOMAIN lines : lines[i] = f} \cup {0}) - 1)

ExecPuts ==
  /\ Running /\ Cur.kind = "puts"
  /\ open' = IF Cur.ref[1] = "enter" THEN Append(open, Cur.ref[2])
                                     ELSE Closed(open, Cur.ref[2])
  /\ SetTop([Top EXCEPT !.i = @ + 1, !.entered = (Cur.ref[1] = "enter")])
  /\ Compiled /\ UNCHANGED <<globals, acts, unwinding, unwound>>

Execute ==
  \/ Start \/ Compute \/ ExecAlloca \/ ExecLoad \/ ExecStore \/ ExecBranch
  \/ ExecCall \/ Throw \/ Unwind \/ Return \/ ExecPuts

(* The program ends, or what it does next is beyond the bounds.            *)
Done ==
  /\ passes = <<>> /\ ~ unwinding
  /\ \/ stack = <<>> /\ acts = MaxActs
     \/ stack # <<>> /\ Top.visits >= MaxVisits
  /\ UNCHANGED vars

Next ==
  \/ SkipFunction \/ RunOnSlots \/ StepOnSlots \/ RunTrace \/ PassEnds
  \/ Execute \/ Done

Spec == Init /\ [][Next]_vars

-----------------------------------------------------------------------------
(* What the running activation would hold executing the source.            *)

Agrees(got, want) == want = Undef \/ got = want

AsInSource(frame) ==
  LET x == code[frame.fn][frame.b][frame.i] IN
  FromSource(frame, x.id) =>
    LET s == InstOf(source[frame.fn], x.id) IN
    s.kind # "phi" =>
      /\ \A k \in DOMAIN s.args :
           Agrees(Eval(frame.regs, x.args[k]), Eval(frame.own, s.args[k]))
      /\ s.kind = "load" => Agrees(Content(frame, x.ref),
                                   Get(frame.ownMem, s.ref))

(* Demotion is not seen by the program: every operand of an instruction    *)
(* of the source has the value it would have had, whatever way it went --  *)
(* unless the function has been entered again since, and its entry block   *)
(* began with slots of its own when stack-to-global came to it.  Constants *)
(* may be shared by all activations, and the registers that                *)
(* stack-to-global demotes itself never are: their slots come after a load *)
(* (stack-to-global.cpp:75-111, demote-registers.cpp:74-92).               *)
OperandsAsInSource ==
  Running => AsInSource(Top) \/ (Top.reentered /\ givenSlots[Top.fn] # {})

(* When DemoteRegisters is done with a function no PHI node is left, each  *)
(* register is defined earlier in the block it is used in, pads aside, and *)
(* each slot is a global or has one alloca, in the entry block, before its *)
(* uses there (demote-registers.cpp:183-227).                              *)
Before(p, q) == p[1] = q[1] /\ p[2] < q[2]

DemotedCode ==
  drStage = "demoted" =>
    LET blocks == code[drFn]
        Defined(q, id) ==
          \E p \in Places(blocks) :
            /\ InstAt(blocks, p).id = id
            /\ Before(p, q) \/ InstAt(blocks, p).kind = "pad"
        homes(slot) == {p \in Places(blocks) : InstAt(blocks, p) = Alloca(slot)}
    IN \A q \in Places(blocks) :
         LET x == InstAt(blocks, q) IN
         /\ x.kind # "phi"
         /\ \A k \in DOMAIN x.args : x.args[k][1] = "imm" \/ Defined(q, x.args[k][2])
         /\ x.kind \in {"load", "store"} /\ x.ref \notin globalSlots[drFn] =>
              \E p \in homes(x.ref) : homes(x.ref) = {p} /\ p[1] = 1
                                       /\ (q[1] = 1 => Before(p, q))

(* Beyond Given: a function is in SSA form, a use in the block of its      *)
(* definition comes after it, unless it is a PHI node's, and a local has   *)
(* its alloca in the entry block, before it is used there.                 *)
WellUsed(blocks) ==
  \A q \in Places(blocks) :
    LET x == InstAt(blocks, q)
        DefinedAt(p, arg) ==
          LET y == InstAt(blocks, p) IN
          /\ arg = Reg(y.id) /\ y.kind \notin Terminators \cup {"alloca"}
          /\ \/ y.kind = "pad"
             \/ x.kind # "pad" /\ (x.kind # "phi" /\ p[1] = q[1] => Before(p, q))
    IN
    /\ x.args \in Seq(ToSet(x.args))
    /\ x.kind \in {"alloca", "load"} => x.args = <<>>
    /\ x.kind = "alloca" => x = Alloca(x.id)
    /\ x.kind = "phi" => DOMAIN x.args = DOMAIN x.blocks
    /\ \A k \in DOMAIN x.args :
         x.args[k][1] = "imm" \/ \E p \in Places(blocks) : DefinedAt(p, x.args[k])
    /\ x.kind \in {"load", "store"} =>
         \E p \in Places(blocks) : /\ InstAt(blocks, p) = Alloca(x.ref) /\ p[1] = 1
                                   /\ q[1] = 1 => Before(p, q)

AllWellUsed == \A m \in Modules : \A f \in Fns : WellUsed(m[f])

Embeds(s, t) ==
  \E at \in [DOMAIN s -> DOMAIN t] :
    /\ \A i \in DOMAIN s : s[i] = t[at[i]]
    /\ \A i, j \in DOMAIN s : i < j => at[i] < at[j]

(* No pipeline has function-name-trace twice: the second would put its     *)
(* lines beside those of the first.                                        *)
Tracing == "function-name-trace"
OnceIn(p) == \A i, j \in DOMAIN p : p[i] = Tracing /\ p[j] = Tracing => i = j
TracedOnce == \A p \in Pipelines : OnceIn(p)

(* The lines tell which functions are active: as long as no exception      *)
(* leaves a function, the open "Entering" lines are those of the           *)
(* activations on the stack, in order, optnone functions aside; after one  *)
(* there may be more of them, but never fewer                              *)
(* (function-name-trace.cpp:107-188).                                      *)
TraceTellsStack ==
  LET names == FlattenSeq([i \in DOMAIN stack |-> When(stack[i].entered, stack[i].fn)])
  IN /\ ~ unwound => open = names
     /\ Embeds(names, open)

(* stack-to-global.cpp:78 says that it collects "all the static allocas in *)
(* the entry block".                                                       *)
EntryAllocasAllCollected ==
  drStage = "globals" /\ entryAllocas = <<>> =>
    \A i \in DOMAIN code[drFn][1] : code[drFn][1][i].kind # "alloca"

ActivationsTypeOK ==
  /\ drStage \in {"idle", "immediates", "registers", "phis", "demoted", "globals"}
  /\ slotPass \in {"none", "demote-registers", "stack-to-global"}
  /\ statistics \in Nat \X Nat
  /\ \A f \in DOMAIN enteringMap : f \in Fns /\ enteringMap[f] = <<"enter", f>>
  /\ leavingMap = <<>> /\ traced \in [Fns -> Nat]
  /\ acts \in 0..MaxActs /\ Len(stack) <= acts
  /\ \A i \in DOMAIN stack :
       LET fr == stack[i] IN
       fr.b \in DOMAIN code[fr.fn] /\ fr.i \in DOMAIN code[fr.fn][fr.b]
  /\ unwinding \in BOOLEAN /\ unwound \in BOOLEAN /\ open \in Seq(Fns)

=============================================================================
