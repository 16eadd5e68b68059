--------------------------- MODULE PachinkoCalls ---------------------------
(***************************************************************************)
(* PachinkoCallsPass::run on a module: the first direct call of every      *)
(* callee is made through a pointer that `prize_exchange` returns, a       *)
(* function with one switch from prize ids to functions                    *)
(* (src/lib/passes/pachinko-calls).                                        *)
(***************************************************************************)
EXTENDS Integers, Sequences

CONSTANTS
  N,        \* number of functions; the module lists them as 1..N
  Unknown,  \* the callee of an indirect call, or inline assembly
  NoPrize,  \* stands for no prize id
  MaxCalls, \* bound on the number of calls in a function
  Modules   \* the modules the pass is run on

Funcs == 1..N
Kinds == {"plain", "optnone", "declaration", "intrinsic"}

(* A module: what its functions are, and the callees they call in turn.    *)
Module ==
  [kind : [Funcs -> Kinds], body : [Funcs -> Seq(Funcs \cup {Unknown})]]

ASSUME NAssumption == N \in Nat /\ MaxCalls \in Nat
ASSUME FreshAssumption == Unknown \notin Funcs /\ NoPrize \notin Nat
ASSUME ModulesAssumption ==
  \A m \in Modules :
    /\ m \in Module
    /\ \A f \in Funcs : Len(m.body[f]) <= MaxCalls

VARIABLES
  m,            \* the module as given
  pxNode,       \* is there "prize.exchange" metadata?
  phase,        \* "enter", "collect", "rewrite", "done" or "crash"
  fn, inst,     \* the function and the call that collecting has come to
  mappedFuncs,  \* the callees in the order they were met (a SetVector)
  cases,        \* the switch: cases[k + 1] is the function of prize id k
  callPrizes,   \* callPrizes[c]: the prize id of call c, if it has one
  redirected    \* the calls whose callee is now the prize

vars ==
  <<m, pxNode, phase, fn, inst, mappedFuncs, cases, callPrizes, redirected>>

(* The i-th call of f is <<f, i>>.                                         *)
CallInsts == Funcs \X (1..MaxCalls)
InModule(c) == c[1] \in Funcs /\ c[2] \in 1..Len(m.body[c[1]])
Callee(c) == m.body[c[1]][c[2]]

Init ==
  /\ m \in Modules
  /\ pxNode = FALSE /\ phase = "enter"
  /\ fn = 1 /\ inst = 1
  /\ mappedFuncs = <<>> /\ cases = <<>>
  /\ callPrizes = [c \in CallInsts |-> NoPrize]
  /\ redirected = {}

(* get_or_create_px makes the metadata and the function...                 *)
CreatePx ==
  /\ phase = "enter" /\ ~ pxNode
  /\ pxNode' = TRUE /\ phase' = "collect"
  /\ UNCHANGED <<m, fn, inst, mappedFuncs, cases, callPrizes, redirected>>

(* ... but it does not find them again: the operand of the metadata is an  *)
(* MDNode, the dyn_cast to ValueAsMetadata gives null, and run() reads     *)
(* through it.                                                             *)
GetPxCrashes ==
  /\ phase = "enter" /\ pxNode
  /\ phase' = "crash"
  /\ UNCHANGED <<m, pxNode, fn, inst, mappedFuncs, cases, callPrizes,
                 redirected>>

(* Neither declarations, nor optnone functions, nor prize_exchange itself. *)
Visited(f) == m.kind[f] = "plain"

(* Mutant: the last call of a function is not looked at.                   *)
NextFunctionEarly ==
  /\ phase = "collect" /\ fn \in Funcs
  /\ Visited(fn) => inst >= Len(m.body[fn])
  /\ fn' = fn + 1 /\ inst' = 1
  /\ UNCHANGED <<m, pxNode, phase, mappedFuncs, cases, callPrizes, redirected>>

(* Mutant: the walk goes on after the last function.                       *)
NextFunctionPastEnd ==
  /\ phase = "collect"
  /\ fn \in Funcs => (Visited(fn) => inst > Len(m.body[fn]))
  /\ fn <= N + 1
  /\ fn' = fn + 1 /\ inst' = 1
  /\ UNCHANGED <<m, pxNode, phase, mappedFuncs, cases, callPrizes, redirected>>

NextFunction ==
  /\ phase = "collect" /\ fn \in Funcs
  /\ Visited(fn) => inst > Len(m.body[fn])
  /\ fn' = fn + 1 /\ inst' = 1
  /\ UNCHANGED <<m, pxNode, phase, mappedFuncs, cases, callPrizes, redirected>>

(* A direct call of another function that is no intrinsic.                 *)
Candidate(c) ==
  Callee(c) \in Funcs /\ m.kind[Callee(c)] # "intrinsic" /\ Callee(c) # c[1]

(* Mutant: only the last callee is compared.                               *)
JustMapped(g) == mappedFuncs # <<>> /\ mappedFuncs[Len(mappedFuncs)] = g

Mapped(g) == \E i \in DOMAIN mappedFuncs : mappedFuncs[i] = g

(* Mutant: the id is the size of the set, which has grown already.         *)
PrizeIdAfterInsert(g) == Len(mappedFuncs) + 1

(* mappedFuncs.size() - 1, after the callee was inserted.                  *)
PrizeId(g) == Len(mappedFuncs)

(* The first call of a callee gets a prize id and a case in the switch.    *)
Award ==
  /\ phase = "collect" /\ fn \in Funcs /\ Visited(fn)
  /\ inst \in 1..Len(m.body[fn])
  /\ Candidate(<<fn, inst>>) /\ ~ Mapped(Callee(<<fn, inst>>))
  /\ LET g == Callee(<<fn, inst>>) IN
       /\ mappedFuncs' = Append(mappedFuncs, g)
       /\ cases' = Append(cases, g)
       /\ callPrizes' = [callPrizes EXCEPT ![<<fn, inst>>] = PrizeId(g)]
  /\ inst' = inst + 1
  /\ UNCHANGED <<m, pxNode, phase, fn, redirected>>

PassOver ==
  /\ phase = "collect" /\ fn \in Funcs /\ Visited(fn)
  /\ inst \in 1..Len(m.body[fn])
  /\ Candidate(<<fn, inst>>) => Mapped(Callee(<<fn, inst>>))
  /\ inst' = inst + 1
  /\ UNCHANGED <<m, pxNode, phase, fn, mappedFuncs, cases, callPrizes,
                 redirected>>

EndCollect ==
  /\ phase = "collect" /\ fn = N + 1
  /\ phase' = "rewrite"
  /\ UNCHANGED <<m, pxNode, fn, inst, mappedFuncs, cases, callPrizes,
                 redirected>>

(* The calls are visited in the order of a DenseMap, which is any order.   *)
Redirect(c) ==
  /\ phase = "rewrite" /\ callPrizes[c] # NoPrize /\ c \notin redirected
  /\ redirected' = redirected \cup {c}
  /\ UNCHANGED <<m, pxNode, phase, fn, inst, mappedFuncs, cases, callPrizes>>

Finish ==
  /\ phase = "rewrite"
  /\ \A c \in CallInsts : callPrizes[c] # NoPrize => c \in redirected
  /\ phase' = "done"
  /\ UNCHANGED <<m, pxNode, fn, inst, mappedFuncs, cases, callPrizes,
                 redirected>>

(* The pass is named twice in the pipeline.                                *)
RunAgain ==
  /\ phase = "done"
  /\ phase' = "enter"
  /\ UNCHANGED <<m, pxNode, fn, inst, mappedFuncs, cases, callPrizes,
                 redirected>>

Crashed == phase = "crash" /\ UNCHANGED vars

Next ==
  \/ CreatePx \/ GetPxCrashes \/ NextFunction \/ Award \/ PassOver
  \/ EndCollect \/ Finish \/ RunAgain \/ Crashed
  \/ \E c \in CallInsts : Redirect(c)

Spec == Init /\ [][Next]_vars

-----------------------------------------------------------------------------
PachinkoTypeOK ==
  /\ m \in Module /\ pxNode \in BOOLEAN
  /\ phase \in {"enter", "collect", "rewrite", "done", "crash"}
  /\ fn \in 1..(N + 1) /\ inst \in 1..(MaxCalls + 1)
  /\ mappedFuncs \in Seq(Funcs) /\ cases \in Seq(Funcs)
  /\ callPrizes \in [CallInsts -> Nat \cup {NoPrize}]
  /\ redirected \subseteq CallInsts

(* What a call calls when it is executed: the prize of a redirected call   *)
(* goes through the switch, whose default is `unreachable`.                *)
Called(c) ==
  IF c \in redirected
  THEN IF callPrizes[c] + 1 \in DOMAIN cases THEN cases[callPrizes[c] + 1]
                                             ELSE Unknown
  ELSE Callee(c)

(* The pass changes how functions are called, not which: at every moment   *)
(* every call, redirected or not, still reaches its callee.                *)
CallsReachTheirCallee ==
  \A c \in CallInsts : InModule(c) => Called(c) = Callee(c)

(* A callee is redirected at most once, at the first of its calls in the   *)
(* functions the pass visits: earlier calls of it are in functions that    *)
(* are skipped, and later ones stay direct.                                *)
FirstCallsRedirected ==
  \A c \in redirected, d \in CallInsts :
    /\ InModule(d) /\ Visited(d[1]) /\ Callee(d) = Callee(c)
    /\ d[1] < c[1] \/ (d[1] = c[1] /\ d[2] < c[2])
    => d[1] = Callee(d)

(* Nothing is missed, nothing too much is changed: once the module has     *)
(* been walked, the callee of every candidate call in a visited function   *)
(* has a case, and only calls in such functions are redirected.            *)
EveryCalleeHasAPrize ==
  phase \in {"rewrite", "done"} =>
    /\ \A c \in CallInsts : InModule(c) /\ Visited(c[1]) /\ Candidate(c) =>
          \E i \in DOMAIN cases : cases[i] = Callee(c)
    /\ \A c \in redirected : m.kind[c[1]] = "plain"

=============================================================================
