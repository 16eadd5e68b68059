---------------------------- MODULE PassPipeline ----------------------------
(***************************************************************************)
(* From the text of a pipeline to the passes that are run.  There are two  *)
(* hosts: `opt`, into which the plug-ins of this repository are loaded,    *)
(* and jvs::PassPipeline (src/lib/support/pass-pipeline.cpp), with which   *)
(* fuse-functions runs passes from inside a pass.                          *)
(***************************************************************************)
EXTENDS Integers, SequencesExt

CONSTANTS
  Names,    \* the names of passes, and what may be written for one
  Builtin,  \* Builtin[level]: the passes every llvm::PassBuilder knows
  Texts     \* the pipeline texts to consider

VARIABLES
  host,        \* "opt" or "inner"
  kind,        \* the manager that the text is parsed into
  text,        \* the elements of the text
  position,    \* the element that the parser has come to
  module_pass_manager,    \* the passes it has added to a module pipeline,
  function_pass_manager,  \* ... to a function pipeline,
  nested,      \* ... or to the function pipeline that a module one becomes
  parse_error, \* the element the parser failed on, 0 if there was none
  pipePhase,   \* "parse", "parsed", "run" or "done"
  queue,       \* the passes that are still to be run
  ran          \* the passes that have been run

pipeVars == <<host, kind, text, position, module_pass_manager,
              function_pass_manager, nested, parse_error, pipePhase, queue, ran>>

Levels == {"module", "function"}
Hosts == {"opt", "inner"}

(* An element is a name, or a name within `function(...)`.                 *)
Element == [wrap : {"none", "function"}, name : Names]

ASSUME NamesAssumption == {"sccp", "adce"} \subseteq Names
ASSUME TextsAssumption == \A t \in Texts : t \in Seq(Element) /\ t # <<>>

-----------------------------------------------------------------------------
(* The plug-ins register a callback each, on one level, which is given a   *)
(* name and says whether it added a pass.                                  *)
StackToGlobalCallback(level, name) ==
  level = "function" /\ name = "stack-to-global"
BreakpointNetCallback(level, name) ==
  level = "function" /\ name = "breakpoint-net"
DemoteRegistersCallback(level, name) ==
  level = "function" /\ name = "demote-registers"
FunctionNameTraceCallback(level, name) ==
  level = "module" /\ name = "function-name-trace"
PromoteBlocksCallback(level, name) ==
  level = "module" /\ name \in {"promote-blocks", "promote-instructions"}
PachinkoCallsCallback(level, name) ==
  level = "module" /\ name = "pachinko-calls"
FuseFunctionsCallback(level, name) ==
  /\ level = "module"
  /\ name \in {"fuse-functions", "fuse-functions<force>",
               "fuse-functions-force"}
ResizeMallocCallback(level, name) ==
  level = "function" /\ name = "resize-malloc"

Plugin(level, name) ==
  \/ StackToGlobalCallback(level, name)
  \/ BreakpointNetCallback(level, name)
  \/ DemoteRegistersCallback(level, name)
  \/ FunctionNameTraceCallback(level, name)
  \/ PromoteBlocksCallback(level, name)
  \/ PachinkoCallsCallback(level, name)
  \/ FuseFunctionsCallback(level, name)
  \/ ResizeMallocCallback(level, name)

(* The builder of a jvs::PassPipeline is made and used up by the           *)
(* constructor: no callback can be registered with it before it parses.    *)
Known(level, name) ==
  name \in Builtin[level] \/ (host = "opt" /\ Plugin(level, name))

-----------------------------------------------------------------------------
PipeInit ==
  /\ host \in Hosts /\ kind \in Levels /\ text \in Texts
  /\ host = "opt" => kind = "module"
  /\ position = 1 /\ parse_error = 0 /\ pipePhase = "parse"
  /\ module_pass_manager = <<>> /\ function_pass_manager = <<>>
  /\ nested = <<>> /\ queue = <<>> /\ ran = <<>>

(* A module pipeline that begins with the name of a function pass is read  *)
(* as if it were within `function(...)`, as a whole.                       *)
Wrapped ==
  /\ kind = "module" /\ text[1].wrap = "none"
  /\ Known("function", text[1].name) /\ ~ Known("module", text[1].name)

LevelOf(i) ==
  IF kind = "function" \/ Wrapped \/ text[i].wrap = "function"
  THEN "function" ELSE "module"

(* The callback of resize-malloc adds two other passes before its own.     *)
PassesOf(name) ==
  IF name = "resize-malloc" THEN <<"sccp", "adce", name>> ELSE <<name>>

AddPasses(passes) ==
  IF kind = "function"
  THEN function_pass_manager' = function_pass_manager \o passes
         /\ UNCHANGED <<module_pass_manager, nested>>
  ELSE IF Wrapped
  THEN nested' = nested \o passes
         /\ UNCHANGED <<module_pass_manager, function_pass_manager>>
  ELSE module_pass_manager' = module_pass_manager \o passes
         /\ UNCHANGED <<function_pass_manager, nested>>

ParseElement ==
  /\ pipePhase = "parse" /\ position \in DOMAIN text
  /\ Known(LevelOf(position), text[position].name)
  /\ AddPasses(PassesOf(text[position].name))
  /\ position' = position + 1
  /\ UNCHANGED <<host, kind, text, parse_error, pipePhase, queue, ran>>

(* Mutant: the error is forgotten.                                         *)
ParseFailsSilently ==
  /\ pipePhase = "parse" /\ position \in DOMAIN text
  /\ ~ Known(LevelOf(position), text[position].name)
  /\ pipePhase' = "parsed"
  /\ UNCHANGED <<host, kind, text, position, parse_error, module_pass_manager,
                 function_pass_manager, nested, queue, ran>>

(* Mutant: the error is put down to the element after.                     *)
ParseFailsAfter ==
  /\ pipePhase = "parse" /\ position \in DOMAIN text
  /\ ~ Known(LevelOf(position), text[position].name)
  /\ parse_error' = position + 1 /\ pipePhase' = "parsed"
  /\ UNCHANGED <<host, kind, text, position, module_pass_manager,
                 function_pass_manager, nested, queue, ran>>

(* The error is kept; the passes added so far stay where they are.         *)
ParseFails ==
  /\ pipePhase = "parse" /\ position \in DOMAIN text
  /\ ~ Known(LevelOf(position), text[position].name)
  /\ parse_error' = position /\ pipePhase' = "parsed"
  /\ UNCHANGED <<host, kind, text, position, module_pass_manager,
                 function_pass_manager, nested, queue, ran>>

(* A nested pipeline is added once all of it has been parsed.              *)
ParseEnds ==
  /\ pipePhase = "parse" /\ position > Len(text)
  /\ pipePhase' = "parsed"
  /\ module_pass_manager' = module_pass_manager \o nested
  /\ UNCHANGED <<host, kind, text, position, function_pass_manager, nested,
                 parse_error, queue, ran>>

(* PassPipeline::run does not look at the error.                           *)
Run(manager) ==
  /\ pipePhase = "parsed" /\ host = "inner"
  /\ queue' = manager /\ pipePhase' = "run"
  /\ UNCHANGED <<host, kind, text, position, module_pass_manager,
                 function_pass_manager, nested, parse_error, ran>>

(* opt reports an error and runs nothing.                                  *)
OptRun ==
  /\ pipePhase = "parsed" /\ host = "opt"
  /\ IF parse_error = 0 THEN queue' = module_pass_manager /\ pipePhase' = "run"
                        ELSE pipePhase' = "done" /\ UNCHANGED queue
  /\ UNCHANGED <<host, kind, text, position, module_pass_manager,
                 function_pass_manager, nested, parse_error, ran>>

(* run_pass_pipeline runs the manager that it had parsed.                  *)
RunPassPipeline ==
  Run(IF kind = "function" THEN function_pass_manager ELSE module_pass_manager)

PassEnds ==
  /\ pipePhase = "run" /\ queue # <<>>
  /\ ran' = Append(ran, Head(queue)) /\ queue' = Tail(queue)
  /\ UNCHANGED <<host, kind, text, position, module_pass_manager,
                 function_pass_manager, nested, parse_error, pipePhase>>

RunEnds ==
  /\ pipePhase = "run" /\ queue = <<>>
  /\ pipePhase' = "done"
  /\ UNCHANGED <<host, kind, text, position, module_pass_manager,
                 function_pass_manager, nested, parse_error, queue, ran>>

Parse == ParseElement \/ ParseFails \/ ParseEnds \/ RunPassPipeline \/ OptRun

-----------------------------------------------------------------------------
PipeTypeOK ==
  /\ host \in Hosts /\ kind \in Levels /\ text \in Texts
  /\ position \in 1..(Len(text) + 1) /\ parse_error \in 0..Len(text)
  /\ module_pass_manager \in Seq(Names)
  /\ function_pass_manager \in Seq(Names) /\ nested \in Seq(Names)
  /\ pipePhase \in {"parse", "parsed", "run", "done"}
  /\ queue \in Seq(Names) /\ ran \in Seq(Names)

PassesIn(t) == FlattenSeq([i \in DOMAIN t |-> PassesOf(t[i].name)])

(* A pipeline that does not parse is not without effect: from inside a     *)
(* pass everything before the element that failed is run, and only the     *)
(* error, looked at afterwards (fuse-functions.cpp:509), tells that the    *)
(* rest was not -- unless the pipeline began with a function pass, when    *)
(* nothing is run.  From opt it is all or nothing.                         *)
ErrorTellsWhatRan ==
  /\ IsPrefix(ran, PassesIn(text))
  /\ pipePhase = "done" =>
       /\ parse_error = 0 => ran = PassesIn(text)
       /\ parse_error # 0 =>
            ran = IF host = "opt" \/ Wrapped THEN <<>>
                  ELSE PassesIn(SubSeq(text, 1, parse_error - 1))

=============================================================================
