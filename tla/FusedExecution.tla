--------------------------- MODULE FusedExecution ---------------------------
(***************************************************************************)
(* The program that the fuse-functions pass produced, running.  The        *)
(* surgery of CombinedCallSite is carried out first; then the caller makes *)
(* its calls through the blocks, slots and switches that it left behind.   *)
(***************************************************************************)
EXTENDS CombinedCallSite

CONSTANTS
  Vals,        \* arguments of the callee
  Result,      \* Result[a]: what the callee computes from a
  None,        \* no value: an uninitialized slot
  LiveAcross   \* may the caller read a result after making further calls?

ASSUME NoneIsFresh == None \notin Vals \cup Calls \cup Nat

VARIABLES
  pc,       \* "caller", "callblock", "switch" or "trap"
  cur,      \* the site being executed
  phiMem,   \* phiMem[s]: the id slot of site s
  regMem,   \* regMem[s]: the slot its condition was spilled to
  condReg,  \* condReg[s]: the register its condition was loaded to
  argMem,   \* argMem[s]: its argument slot
  retMem,   \* retMem[s]: its return buffer
  who, arg, \* the call being made and its argument
  ran,      \* the argument the callee last ran with
  resumed,  \* the call after whose return block the caller last continued
  owed,     \* owed[c]: the result that the last call made by c must have
  seen      \* the <<call, result>> last read, if read since the last call

memVars == <<phiMem, regMem, condReg, argMem, retMem>>
ghostVars == <<who, arg, ran, resumed, owed, seen>>
runVars == <<pc, cur, memVars, ghostVars>>

RunInit ==
  /\ pc = "caller" /\ cur = NoSite
  /\ phiMem = [s \in Sites |-> None] /\ regMem = [s \in Sites |-> None]
  /\ condReg = [s \in Sites |-> None]
  /\ argMem = [s \in Sites |-> None] /\ retMem = [s \in Sites |-> None]
  /\ who = None /\ arg = None /\ ran = None /\ resumed = None
  /\ owed = [c \in Calls |-> None]
  /\ seen = <<None, None>>

(* The calls whose way through a call block the later rounds left alone.   *)
(* The others are the subject of the refuted properties of                 *)
(* CombinedCallSite.                                                       *)
Intact(c) ==
  call[c] = "fused" /\ \E s \in Live : branch[c] = [to |-> "callblock", site |-> s]

(* Mutant: the argument is stored to the id slot.                          *)
StoreSwapped(c, a) ==
  /\ phiMem' = [phiMem EXCEPT ![idSlot[c].site] = a]
  /\ UNCHANGED <<regMem, argMem>>

(* The stores that replace call c with argument a.                         *)
StoreIdAndArgument(c, a) ==
  /\ IF idSlot[c].kind = "phi"
     THEN /\ phiMem' = [phiMem EXCEPT ![idSlot[c].site] = blockId[c]]
          /\ UNCHANGED regMem
     ELSE /\ regMem' = [regMem EXCEPT ![idSlot[c].site] = blockId[c]]
          /\ UNCHANGED phiMem
  /\ argMem' = [argMem EXCEPT ![argSlot[c]] = a]

(* The parent block of an intact call branches to the call block.          *)
ParentBlock(c, a) ==
  /\ phase = "done" /\ pc = "caller" /\ Intact(c)
  /\ StoreIdAndArgument(c, a)
  /\ pc' = "callblock" /\ cur' = branch[c].site
  /\ who' = c /\ arg' = a /\ seen' = <<None, None>>
  /\ UNCHANGED <<vars, condReg, retMem, ran, resumed, owed>>

(* That of an absorbed call stores, and goes straight to its return block. *)
BypassingBlock(c, a) ==
  /\ phase = "done" /\ pc = "caller" /\ call[c] = "absorbed"
  /\ StoreIdAndArgument(c, a)
  /\ UNCHANGED <<vars, pc, cur, condReg, retMem, ghostVars>>

(* Mutant: the demoted return value is stored, the buffer is not.          *)
CallBlockNoReturn ==
  /\ pc = "callblock"
  /\ condReg' = [condReg EXCEPT ![cur] = phiMem[cur]]
  /\ regMem' = IF cond[cur] = "reload"
               THEN [regMem EXCEPT ![cur] = phiMem[cur]] ELSE regMem
  /\ ran' = argMem[cur]
  /\ pc' = "switch"
  /\ UNCHANGED <<vars, cur, phiMem, argMem, retMem, who, arg, resumed, owed,
                 seen>>

(* Load the id, spill it if demotion said so, run the body on what the     *)
(* argument slots hold and store its result in the return buffer.          *)
CallBlock ==
  /\ pc = "callblock"
  /\ condReg' = [condReg EXCEPT ![cur] = phiMem[cur]]
  /\ regMem' = IF cond[cur] = "reload"
               THEN [regMem EXCEPT ![cur] = phiMem[cur]] ELSE regMem
  /\ ran' = argMem[cur]
  /\ retMem' = [retMem EXCEPT ![cur] = Result[argMem[cur]]]
  /\ pc' = "switch"
  /\ UNCHANGED <<vars, cur, phiMem, argMem, who, arg, resumed, owed, seen>>

(* Mutant: a spilled condition is not read back.                           *)
UnspilledCondition(s) == IF cond[s] = "reload" THEN None ELSE condReg[s]

(* The condition of the return switch.                                     *)
SwitchCondition(s) == IF cond[s] = "reload" THEN regMem[s] ELSE condReg[s]

(* The default destination of the switch is an `unreachable` block.        *)
SwitchBack ==
  /\ pc = "switch"
  /\ LET hit == {x \in cases[cur] : x[1] = SwitchCondition(cur)} IN
       IF hit = {}
       THEN pc' = "trap" /\ UNCHANGED <<resumed, owed>>
       ELSE /\ \E x \in hit : resumed' = x[2]
            /\ owed' = [owed EXCEPT ![who] = Result[arg]]
            /\ pc' = "caller"
  /\ UNCHANGED <<vars, cur, memVars, who, arg, ran, seen>>

(* A user of the result of c, which now reads the combined call's result.  *)
ReadResult(c) ==
  /\ phase = "done" /\ pc = "caller"
  /\ owed[c] # None /\ result[c] \in Sites
  /\ LiveAcross \/ who = c
  /\ seen' = <<c, retMem[result[c]]>>
  /\ UNCHANGED <<vars, pc, cur, memVars, who, arg, ran, resumed, owed>>

Running ==
  \/ CallBlock \/ SwitchBack
  \/ \E c \in Calls : \/ ReadResult(c)
                      \/ \E a \in Vals : ParentBlock(c, a) \/ BypassingBlock(c, a)

FusedInit == Init /\ RunInit
FusedNext == Running \/ (Next /\ UNCHANGED runVars)

(* A program that is running goes on running: inside the call block there  *)
(* is nothing to wait for.  Nothing obliges the caller to make a call.     *)
FusedSpec ==
  /\ FusedInit /\ [][FusedNext]_<<vars, runVars>>
  /\ WF_<<vars, runVars>>(CallBlock)
  /\ WF_<<vars, runVars>>(SwitchBack)

-----------------------------------------------------------------------------
FusedTypeOK ==
  /\ pc \in {"caller", "callblock", "switch", "trap"}
  /\ pc \in {"callblock", "switch"} => cur \in Live
  /\ phiMem \in [Sites -> Nat \cup {None}]
  /\ regMem \in [Sites -> Nat \cup {None}]
  /\ condReg \in [Sites -> Nat \cup {None}]
  /\ argMem \in [Sites -> Vals \cup {None}]
  /\ resumed \in Calls \cup {None}

(* The comment on the switch says "all cases are being accounted for"      *)
(* (fuse-functions.cpp:468): an intact call never runs into the default.   *)
NeverTraps == pc # "trap"

(* Calls through a call block are calls: the callee runs once, with the    *)
(* given argument, control comes back where the call was made, always, and *)
(* a result read before the next call is that of the call.                 *)
Direct == INSTANCE DirectCalls WITH
  at <- CASE pc = "callblock" -> "entered"
          [] pc = "switch"    -> "ran"
          [] OTHER            -> "caller",
  value <- owed

ImplementsDirectCalls == Direct!DSpec

(* fuse-functions.cpp:425 says the return store exists because "other      *)
(* calls may *not* ignore" the result: what a user of a call reads is the  *)
(* result of that call.                                                    *)
ReadsOwnResult == seen[1] # None => seen[2] = owed[seen[1]]

=============================================================================
