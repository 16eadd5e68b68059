----------------------------- MODULE DirectCalls -----------------------------
(***************************************************************************)
(* What a caller may expect of the calls it makes to one callee, however   *)
(* the calls are implemented: the callee runs once, with the arguments     *)
(* given; control resumes after the call that was made; and its result is  *)
(* the one of that call, no matter how many calls were made since.         *)
(***************************************************************************)
CONSTANTS
  Calls,    \* the call instructions
  Vals,     \* arguments
  Result,   \* Result[a]: what the callee returns for argument a
  None      \* no value

VARIABLES
  at,       \* "caller", "entered" or "ran"
  who, arg, \* the call being made and its argument
  ran,      \* the argument the callee last ran with
  resumed,  \* the call after which the caller last resumed
  value,    \* value[c]: the result of the last call made by c
  seen      \* the <<call, result>> last read, if read since the last call

dvars == <<at, who, arg, ran, resumed, value, seen>>

DInit ==
  /\ at = "caller" /\ who = None /\ arg = None
  /\ ran = None /\ resumed = None
  /\ value = [c \in Calls |-> None]
  /\ seen = <<None, None>>

Enter(c, a) ==
  /\ at = "caller"
  /\ at' = "entered" /\ who' = c /\ arg' = a
  /\ seen' = <<None, None>>
  /\ UNCHANGED <<ran, resumed, value>>

Run ==
  /\ at = "entered"
  /\ at' = "ran" /\ ran' = arg
  /\ UNCHANGED <<who, arg, resumed, value, seen>>

Return ==
  /\ at = "ran"
  /\ at' = "caller" /\ resumed' = who
  /\ value' = [value EXCEPT ![who] = Result[arg]]
  /\ UNCHANGED <<who, arg, ran, seen>>

Read(c) ==
  /\ at = "caller" /\ value[c] # None
  /\ seen' = <<c, value[c]>>
  /\ UNCHANGED <<at, who, arg, ran, resumed, value>>

DNext ==
  \/ Run \/ Return
  \/ \E c \in Calls : Read(c) \/ \E a \in Vals : Enter(c, a)

DSpec ==
  /\ DInit /\ [][DNext]_dvars
  /\ WF_dvars(Run) /\ WF_dvars(Return)

=============================================================================
