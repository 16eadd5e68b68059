------------------------ MODULE MCInstrumentedModule ------------------------
(* InstrumentedModule on a function whose entry block, second and third    *)
(* block take different shapes, beside an optnone function.  Tags are put  *)
(* on one of the bodies.                                                   *)
EXTENDS InstrumentedModule

B(label, kinds) ==
  [label |-> label,
   insts |-> [i \in DOMAIN kinds |-> NewInst(label + i, kinds[i])]]

Entries == {<<"alloca", "op", "term">>, <<"op", "alloca", "term">>,
            <<"alloca", "required", "alloca", "op", "term">>}
Seconds == {<<"phi", "op", "dbg", "term">>, <<"catchswitch">>,
            <<"cleanuppad", "op", "term">>, <<"landingpad", "term">>}
Thirds == {<<"op", "term">>, <<"catchpad", "donothing", "term">>}

Fn(e, s, t) == <<B(10, e), B(20, s), B(30, t)>>
OptNoneFn == <<B(40, <<"alloca", "op", "term">>)>>

(* Its entry block is still under construction.                            *)
Edited == Fn(<<"alloca", "op">>, <<"donothing", "term">>, <<"catchswitch">>)

MCBodies ==
  {<<Fn(e, s, t), OptNoneFn>> : e \in Entries, s \in Seconds, t \in Thirds}
    \cup {<<Edited, OptNoneFn>>}

At(wrap, name) == [wrap |-> wrap, name |-> name]
Net == At("function", "breakpoint-net")
Each == At("none", "promote-instructions")

(* Pipelines that parse and rearrange blocks ...                           *)
Pipelines == {<<Each>>, <<Net, Net>>, <<At("none", "promote-blocks")>>}

(* ... and others, among them many that fail to parse.                     *)
MCBuiltin == [level \in Levels |->
  IF level = "module" THEN {"mergefunc", "globaldce"} ELSE {"adce"}]
Elements ==
  {Net, At("none", "breakpoint-net"), At("none", "adce"),
   At("none", "resize-malloc"), At("function", "adce"),
   At("none", "mergefunc"), At("none", "globaldce"), At("none", "misspelt"),
   At("none", "stack-to-global"), At("none", "pachinko-calls"),
   At("function", "demote-registers"), At("none", "function-name-trace"),
   At("none", "fuse-functions<force>")}
MCNames ==
  {e.name : e \in Elements} \cup {"promote-blocks", "promote-instructions", "sccp"}
MCTexts ==
  Pipelines \cup (BoundedSeq(Elements, 2) \ {<<>>}) \cup {<<Net, Each>>}

MCInit ==
  /\ Init
  /\ \/ text \in Pipelines /\ host = "opt" /\ edits = 0
     \/ text \in {<<Each>>, <<Net>>} /\ host = "opt" /\ body[1] = Edited
          /\ edits = MaxEdits
     \/ body[1] = Edited /\ edits = 0
=============================================================================
