---------------------- MODULE InstrumentedModuleProofs ----------------------
(***************************************************************************)
(* Proofs about InstrumentedModule, for every module, every pipeline and   *)
(* every bound on the edits and on the inputs of unsupported type.         *)
(***************************************************************************)
EXTENDS InstrumentedModule, SelectionProofs, FiniteSetTheorems

-----------------------------------------------------------------------------
(* What a text stands for.                                                 *)

PassesMap == [x \in Element |-> PassesOf(x.name)]

LEMMA PassesOfType ==
  ASSUME NEW name \in Names PROVE PassesOf(name) \in Seq(Names)
<1>1. "sccp" \in Names /\ "adce" \in Names
  BY NamesAssumption
<1> QED
  BY <1>1 DEF PassesOf

LEMMA PassesInIsFlatMap ==
  ASSUME NEW t \in Seq(Element)
  PROVE  /\ PassesMap \in SeqMaps(Element, Names)
         /\ PassesIn(t) = FlatMap(PassesMap, t)
<1>1. PassesMap \in SeqMaps(Element, Names)
  BY PassesOfType DEF PassesMap, SeqMaps, Element
<1>2. \A i \in DOMAIN t : t[i] \in Element
  OBVIOUS
<1>3. Parts(PassesMap, t) = [i \in DOMAIN t |-> PassesOf(t[i].name)]
  BY <1>2 DEF Parts, PassesMap
<1> QED
  BY <1>1, <1>3 DEF PassesIn, FlatMap

LEMMA PassesInType ==
  ASSUME NEW t \in Seq(Element) PROVE PassesIn(t) \in Seq(Names)
BY PassesInIsFlatMap, FlatMapType

LEMMA PassesInConcat ==
  ASSUME NEW t \in Seq(Element), NEW u \in Seq(Element)
  PROVE  PassesIn(t \o u) = PassesIn(t) \o PassesIn(u)
<1>1. t \o u \in Seq(Element)
  BY ConcatProperties
<1>2. PassesMap \in SeqMaps(Element, Names)
      /\ PassesIn(t) = FlatMap(PassesMap, t) /\ PassesIn(u) = FlatMap(PassesMap, u)
  BY PassesInIsFlatMap
<1>3. PassesIn(t \o u) = FlatMap(PassesMap, t \o u)
  BY <1>1, PassesInIsFlatMap
<1> QED
  BY <1>2, <1>3, FlatMapConcat

LEMMA PassesInEmpty == PassesIn(<<>>) = <<>>
<1>1. <<>> \in Seq(Element)
  OBVIOUS
<1> QED
  BY <1>1, PassesInIsFlatMap, FlatMapEmpty

Before(t, i) == PassesIn(SubSeq(t, 1, i - 1))

(* What the first elements stand for begins what the text stands for.      *)
LEMMA PassesBefore ==
  ASSUME NEW t \in Seq(Element)
  PROVE  /\ \A i \in 1..(Len(t) + 1) :
              /\ Before(t, i) \in Seq(Names)
              /\ \E rest \in Seq(Names) : PassesIn(t) = Before(t, i) \o rest
         /\ Before(t, 1) = <<>> /\ Before(t, Len(t) + 1) = PassesIn(t)
         /\ \A i \in 1..Len(t) :
              Before(t, i + 1) = Before(t, i) \o PassesOf(t[i].name)
<1>1. ASSUME NEW i \in 1..(Len(t) + 1)
      PROVE  /\ Before(t, i) \in Seq(Names)
             /\ \E rest \in Seq(Names) : PassesIn(t) = Before(t, i) \o rest
  <2> DEFINE a == SubSeq(t, 1, i - 1)
             b == SubSeq(t, i, Len(t))
  <2>1. a \in Seq(Element) /\ b \in Seq(Element) /\ t = a \o b
    BY CutBefore
  <2> HIDE DEF a, b
  <2>2. PassesIn(t) = PassesIn(a) \o PassesIn(b)
    BY <2>1, PassesInConcat
  <2> QED
    BY <2>1, <2>2, PassesInType DEF a, Before
<1>2. Before(t, 1) = <<>>
  <2>1. SubSeq(t, 1, 1 - 1) = <<>>
    OBVIOUS
  <2> QED
    BY <2>1, PassesInEmpty DEF Before
<1>3. Before(t, Len(t) + 1) = PassesIn(t)
  <2>1. SubSeq(t, 1, (Len(t) + 1) - 1) = t
    BY SubSeqFull
  <2> QED
    BY <2>1 DEF Before
<1>4. ASSUME NEW i \in 1..Len(t)
      PROVE  Before(t, i + 1) = Before(t, i) \o PassesOf(t[i].name)
  <2> DEFINE a == SubSeq(t, 1, i - 1)
             y == <<t[i]>>
  <2>1. a \in Seq(Element) /\ t[i] \in Element /\ y \in Seq(Element)
    BY CutAt
  <2>2. SubSeq(t, 1, (i + 1) - 1) = a \o y
    <3>1. 1 \in 1..Len(t) /\ i \in 1..Len(t) /\ (i + 1) - 1 = i
      OBVIOUS
    <3> QED
      BY <3>1, SubSeqRecursiveSecond
  <2>3. PassesIn(y) = PassesOf(t[i].name)
    <3>1. PassesIn(y) = FlatMap(PassesMap, y) /\ PassesMap \in SeqMaps(Element, Names)
      <4> HIDE DEF y
      <4> QED
        BY <2>1, PassesInIsFlatMap
    <3>2. FlatMap(PassesMap, y) = PassesMap[t[i]]
      BY <2>1, <3>1, FlatMapOne
    <3> QED
      BY <2>1, <3>1, <3>2 DEF PassesMap
  <2> HIDE DEF a, y
  <2>4. PassesIn(a \o y) = PassesIn(a) \o PassesIn(y)
    BY <2>1, PassesInConcat
  <2> QED
    BY <2>2, <2>3, <2>4 DEF Before, a
<1> QED
  BY <1>1, <1>2, <1>3, <1>4

-----------------------------------------------------------------------------
(* What has been added, what will be run, and what has been.               *)

Added ==
  IF kind = "function" THEN function_pass_manager
  ELSE IF Wrapped THEN nested ELSE module_pass_manager

Manager == IF kind = "function" THEN function_pass_manager ELSE module_pass_manager

ToRun ==
  IF parse_error = 0 THEN PassesIn(text)
  ELSE IF Wrapped THEN <<>> ELSE Before(text, parse_error)

PipeInv ==
  /\ PipeTypeOK
  /\ host = "opt" => kind = "module"
  /\ pipePhase = "parse" =>
       /\ parse_error = 0
       /\ Added = Before(text, position)
       /\ kind = "module" =>
            IF Wrapped THEN module_pass_manager = <<>> ELSE nested = <<>>
  /\ pipePhase = "parsed" => Manager = ToRun
  /\ pipePhase \in {"parse", "parsed"} => queue = <<>> /\ ran = <<>>
  /\ pipePhase = "run" =>
       ran \o queue = ToRun /\ (host = "opt" => parse_error = 0)
  /\ pipePhase = "done" =>
       ran = IF host = "opt" /\ parse_error # 0 THEN <<>> ELSE ToRun

TextType == \A t \in Texts : t \in Seq(Element) /\ t # <<>>

LEMMA PipeInvInit == Init => PipeInv
<1> SUFFICES ASSUME Init PROVE PipeInv
  OBVIOUS
<1>1. PipeInit
  BY DEF Init
<1>2. text \in Seq(Element) /\ Len(text) \in Nat
  BY <1>1, TextsAssumption DEF PipeInit
<1>3. Before(text, 1) = <<>>
  BY <1>2, PassesBefore
<1>4. <<>> \in Seq(Names)
  OBVIOUS
<1>5. PipeTypeOK
  BY <1>1, <1>2, <1>4 DEF PipeInit, PipeTypeOK
<1> QED
  BY <1>1, <1>3, <1>5 DEF PipeInit, PipeInv, Added

Fixed == UNCHANGED <<host, kind, text>>

LEMMA WrappedFixed == ASSUME Fixed PROVE Wrapped' = Wrapped
BY DEF Fixed, Wrapped, Known

LEMMA PipeParseElement == ASSUME PipeInv, ParseElement PROVE PipeInv'
<1>1. /\ pipePhase = "parse" /\ position \in DOMAIN text
      /\ AddPasses(PassesOf(text[position].name)) /\ position' = position + 1
      /\ UNCHANGED <<host, kind, text, parse_error, pipePhase, queue, ran>>
  BY DEF ParseElement
<1>2. text \in Seq(Element) /\ position \in 1..Len(text)
  BY <1>1, TextsAssumption DEF PipeInv, PipeTypeOK
<1>3. Wrapped' = Wrapped
  BY <1>1, WrappedFixed DEF Fixed
<1> DEFINE more == PassesOf(text[position].name)
<1>4. more \in Seq(Names)
  <2>1. text[position] \in Element
    BY <1>2
  <2>2. text[position].name \in Names
    BY <2>1 DEF Element
  <2> QED
    BY <2>2, PassesOfType
<1>5. Before(text, position + 1) = Before(text, position) \o more
  BY <1>2, PassesBefore
<1> HIDE DEF more
<1>6. Added' = Added \o more
      /\ (kind = "module" =>
            IF Wrapped THEN module_pass_manager' = <<>> ELSE nested' = <<>>)
  BY <1>1, <1>3 DEF AddPasses, Added, PipeInv, PipeTypeOK, Levels, more
<1>7. PipeTypeOK'
  <2>1. /\ module_pass_manager' \in Seq(Names)
        /\ function_pass_manager' \in Seq(Names) /\ nested' \in Seq(Names)
    <3>1. /\ module_pass_manager \in Seq(Names) /\ nested \in Seq(Names)
          /\ function_pass_manager \in Seq(Names)
      BY DEF PipeInv, PipeTypeOK
    <3>2. /\ module_pass_manager \o more \in Seq(Names)
          /\ nested \o more \in Seq(Names)
          /\ function_pass_manager \o more \in Seq(Names)
      BY <1>4, <3>1
    <3> QED
      BY <1>1, <3>1, <3>2 DEF AddPasses, more
  <2>2. position' \in 1..(Len(text) + 1)
    BY <1>1, <1>2
  <2> QED
    BY <1>1, <2>1, <2>2 DEF PipeInv, PipeTypeOK
<1>8. Added' = Before(text', position')
  BY <1>1, <1>5, <1>6 DEF PipeInv
<1> QED
  BY <1>1, <1>3, <1>6, <1>7, <1>8 DEF PipeInv

LEMMA PipeParseFails == ASSUME PipeInv, ParseFails PROVE PipeInv'
<1>1. /\ pipePhase = "parse" /\ position \in DOMAIN text
      /\ parse_error' = position /\ pipePhase' = "parsed"
      /\ UNCHANGED <<host, kind, text, position, module_pass_manager,
                     function_pass_manager, nested, queue, ran>>
  BY DEF ParseFails
<1>2. text \in Seq(Element) /\ position \in 1..Len(text)
  BY <1>1, TextsAssumption DEF PipeInv, PipeTypeOK
<1>3. Wrapped' = Wrapped
  BY <1>1, WrappedFixed DEF Fixed
<1>4. PipeTypeOK'
  BY <1>1, <1>2 DEF PipeInv, PipeTypeOK
<1>5. Manager' = ToRun'
  <2>1. ToRun' = IF Wrapped THEN <<>> ELSE Before(text, position)
    BY <1>1, <1>2, <1>3 DEF ToRun
  <2>2. Manager' = Manager
    BY <1>1 DEF Manager
  <2>3. kind = "function" => ~ Wrapped
    BY DEF Wrapped
  <2> QED
    BY <1>1, <2>1, <2>2, <2>3 DEF PipeInv, PipeTypeOK, Manager, Added, Levels
<1> QED
  BY <1>1, <1>4, <1>5 DEF PipeInv

LEMMA PipeParseEnds == ASSUME PipeInv, ParseEnds PROVE PipeInv'
<1>1. /\ pipePhase = "parse" /\ position > Len(text) /\ pipePhase' = "parsed"
      /\ module_pass_manager' = module_pass_manager \o nested
      /\ UNCHANGED <<host, kind, text, position, function_pass_manager, nested,
                     parse_error, queue, ran>>
  BY DEF ParseEnds
<1>2. text \in Seq(Element) /\ position = Len(text) + 1
  BY <1>1, TextsAssumption DEF PipeInv, PipeTypeOK
<1>3. Wrapped' = Wrapped
  BY <1>1, WrappedFixed DEF Fixed
<1>4. /\ module_pass_manager \in Seq(Names) /\ nested \in Seq(Names)
      /\ module_pass_manager \o nested \in Seq(Names)
      /\ module_pass_manager \o <<>> = module_pass_manager
      /\ <<>> \o nested = nested
  BY DEF PipeInv, PipeTypeOK
<1>5. PipeTypeOK'
  BY <1>1, <1>4 DEF PipeInv, PipeTypeOK
<1>6. Manager' = ToRun'
  <2>1. ToRun' = PassesIn(text) /\ Before(text, position) = PassesIn(text)
    BY <1>1, <1>2, PassesBefore DEF ToRun, PipeInv
  <2>2. Manager' = Added
    BY <1>1, <1>4 DEF Manager, Added, PipeInv, PipeTypeOK, Levels
  <2> QED
    BY <1>1, <2>1, <2>2 DEF PipeInv
<1> QED
  BY <1>1, <1>5, <1>6 DEF PipeInv

LEMMA PipeRun == ASSUME PipeInv, RunPassPipeline \/ OptRun PROVE PipeInv'
<1>1. /\ pipePhase = "parsed"
      /\ UNCHANGED <<host, kind, text, position, module_pass_manager,
                     function_pass_manager, nested, parse_error, ran>>
  BY DEF RunPassPipeline, Run, OptRun
<1>2. /\ Wrapped' = Wrapped /\ ToRun' = ToRun
  BY <1>1, WrappedFixed DEF Fixed, ToRun
<1>3. /\ Manager = ToRun /\ ran = <<>> /\ queue = <<>>
      /\ Manager \in Seq(Names)
  BY <1>1 DEF PipeInv, PipeTypeOK, Manager
<1>4. <<>> \o Manager = Manager
  BY <1>3
<1>5. CASE RunPassPipeline
  <2>1. queue' = Manager /\ pipePhase' = "run" /\ host = "inner"
    BY <1>5 DEF RunPassPipeline, Run, Manager
  <2> QED
    BY <1>1, <1>2, <1>3, <1>4, <2>1 DEF PipeInv, PipeTypeOK
<1>6. CASE OptRun
  <2>1. host = "opt" /\ kind = "module"
    BY <1>6 DEF OptRun, PipeInv
  <2>2. CASE parse_error = 0
    <3>1. queue' = Manager /\ pipePhase' = "run"
      BY <1>6, <2>1, <2>2 DEF OptRun, Manager
    <3> QED
      BY <1>1, <1>2, <1>3, <1>4, <2>1, <2>2, <3>1 DEF PipeInv, PipeTypeOK
  <2>3. CASE parse_error # 0
    <3>1. queue' = queue /\ pipePhase' = "done"
      BY <1>6, <2>3 DEF OptRun
    <3> QED
      BY <1>1, <1>2, <1>3, <2>1, <2>3, <3>1 DEF PipeInv, PipeTypeOK
  <2> QED
    BY <2>2, <2>3
<1> QED
  BY <1>5, <1>6

LEMMA PipePassEnds == ASSUME PipeInv, PassEnds PROVE PipeInv'
<1>1. /\ pipePhase = "run" /\ queue # <<>>
      /\ ran' = Append(ran, Head(queue)) /\ queue' = Tail(queue)
      /\ UNCHANGED <<host, kind, text, position, module_pass_manager,
                     function_pass_manager, nested, parse_error, pipePhase>>
  BY DEF PassEnds
<1>2. Wrapped' = Wrapped /\ ToRun' = ToRun
  BY <1>1, WrappedFixed DEF Fixed, ToRun
<1>3. /\ queue \in Seq(Names) /\ ran \in Seq(Names)
      /\ Head(queue) \in Names /\ Tail(queue) \in Seq(Names)
  BY <1>1 DEF PipeInv, PipeTypeOK
<1>4. Append(ran, Head(queue)) \o Tail(queue) = ran \o queue
  <2>1. queue = <<Head(queue)>> \o Tail(queue) /\ <<Head(queue)>> \in Seq(Names)
        /\ Append(ran, Head(queue)) = ran \o <<Head(queue)>>
    BY <1>1, <1>3
  <2> QED
    BY <1>3, <2>1, ConcatAssociative
<1>5. PipeTypeOK'
  BY <1>1, <1>3 DEF PipeInv, PipeTypeOK
<1> QED
  BY <1>1, <1>2, <1>4, <1>5 DEF PipeInv

LEMMA PipeRunEnds == ASSUME PipeInv, RunEnds PROVE PipeInv'
<1>1. /\ pipePhase = "run" /\ queue = <<>> /\ pipePhase' = "done"
      /\ UNCHANGED <<host, kind, text, position, module_pass_manager,
                     function_pass_manager, nested, parse_error, queue, ran>>
  BY DEF RunEnds
<1>2. Wrapped' = Wrapped /\ ToRun' = ToRun
  BY <1>1, WrappedFixed DEF Fixed, ToRun
<1>3. ran \o <<>> = ran
  BY DEF PipeInv, PipeTypeOK
<1>4. PipeTypeOK'
  BY <1>1 DEF PipeInv, PipeTypeOK
<1> QED
  BY <1>1, <1>2, <1>3, <1>4 DEF PipeInv

LEMMA PipeInvNext == PipeInv /\ [Next]_vars => PipeInv'
<1> SUFFICES ASSUME PipeInv, [Next]_vars PROVE PipeInv'
  OBVIOUS
<1>1. CASE UNCHANGED pipeVars
  <2>1. UNCHANGED <<host, kind, text, position, module_pass_manager,
                    function_pass_manager, nested, parse_error, pipePhase,
                    queue, ran>>
    BY <1>1 DEF pipeVars
  <2>2. Wrapped' = Wrapped
    BY <2>1, WrappedFixed DEF Fixed
  <2> QED
    BY <2>1, <2>2 DEF PipeInv, PipeTypeOK, Added, Manager, ToRun
<1>2. CASE Parse
  BY <1>2, PipeParseElement, PipeParseFails, PipeParseEnds, PipeRun DEF Parse
<1>3. CASE PassEnds
  BY <1>3, PipePassEnds
<1>4. CASE RunEnds
  BY <1>4, PipeRunEnds
<1>5. UNCHANGED pipeVars \/ Parse \/ PassEnds \/ RunEnds
  BY DEF Next, vars, Attach, CreateMarker, Terminate, BeforeThePasses, ParseStep,
         RunNet, NetPassEnds, RunPromote, PromotePassEnds, OtherPass,
         PipelineEnds, Done
<1> QED
  BY <1>1, <1>2, <1>3, <1>4, <1>5

(* What has been run begins what a prefix of the text stands for.          *)
LEMMA PrefixOfConcat ==
  ASSUME NEW S, NEW s \in Seq(S), NEW t \in Seq(S)
  PROVE  IsPrefix(s, s \o t)
<1>1. /\ Len(s \o t) = Len(s) + Len(t) /\ s \o t \in Seq(S) /\ Len(s) \in Nat
      /\ Len(t) \in Nat
      /\ \A i \in 1..(Len(s) + Len(t)) :
           (s \o t)[i] = IF i <= Len(s) THEN s[i] ELSE t[i - Len(s)]
  BY ConcatProperties
<1> DEFINE u == SubSeq(s \o t, 1, Len(s))
<1>2. /\ u \in Seq(S) /\ Len(u) = Len(s)
      /\ \A k \in 1..Len(s) : u[k] = (s \o t)[k]
  <2> DEFINE st == s \o t
  <2>1. st \in Seq(S) /\ Len(s) + 1 \in 1..(Len(st) + 1) /\ (Len(s) + 1) - 1 = Len(s)
    BY <1>1
  <2> HIDE DEF st
  <2>2. /\ SubSeq(st, 1, Len(s)) \in Seq(S) /\ Len(SubSeq(st, 1, Len(s))) = Len(s)
        /\ \A k \in 1..Len(s) : SubSeq(st, 1, Len(s))[k] = st[k]
    BY <2>1, CutBefore
  <2> QED
    BY <2>2 DEF st
<1> HIDE DEF u
<1>3. u = s
  BY <1>1, <1>2, SeqEqual
<1>4. SubSeq(s, 1, Len(s)) = s
  BY SubSeqFull
<1> QED
  BY <1>1, <1>3, <1>4 DEF IsPrefix, u

LEMMA PipeInvTells == PipeInv => ErrorTellsWhatRan
<1> SUFFICES ASSUME PipeInv PROVE ErrorTellsWhatRan
  OBVIOUS
<1>1. /\ text \in Seq(Element) /\ parse_error \in 0..Len(text)
      /\ ran \in Seq(Names) /\ queue \in Seq(Names)
      /\ pipePhase \in {"parse", "parsed", "run", "done"} /\ host \in Hosts
  BY TextsAssumption DEF PipeInv, PipeTypeOK
<1>2. /\ ToRun \in Seq(Names)
      /\ \E rest \in Seq(Names) : PassesIn(text) = ToRun \o rest
  <2>1. PassesIn(text) \in Seq(Names)
    BY <1>1, PassesInType
  <2>2. <<>> \in Seq(Names) /\ PassesIn(text) \o <<>> = PassesIn(text)
        /\ <<>> \o PassesIn(text) = PassesIn(text)
    BY <2>1
  <2>3. CASE parse_error = 0
    BY <2>1, <2>2, <2>3 DEF ToRun
  <2>4. CASE parse_error # 0 /\ Wrapped
    BY <2>1, <2>2, <2>4 DEF ToRun
  <2>5. CASE parse_error # 0 /\ ~ Wrapped
    <3>1. parse_error \in 1..(Len(text) + 1) /\ ToRun = Before(text, parse_error)
      BY <1>1, <2>5 DEF ToRun
    <3> QED
      BY <1>1, <3>1, PassesBefore
  <2> QED
    BY <2>3, <2>4, <2>5
<1>3. PICK rest \in Seq(Names) : PassesIn(text) = ToRun \o rest
  BY <1>2
<1>4. \E more \in Seq(Names) : PassesIn(text) = ran \o more
  <2>1. CASE ran = <<>>
    <3>1. PassesIn(text) \in Seq(Names) /\ <<>> \o PassesIn(text) = PassesIn(text)
      BY <1>1, PassesInType
    <3> QED
      BY <2>1, <3>1
  <2>2. CASE ran = ToRun
    BY <1>3, <2>2
  <2>3. CASE ran \o queue = ToRun
    <3>1. (ran \o queue) \o rest = ran \o (queue \o rest) /\ queue \o rest \in Seq(Names)
      BY <1>1, <1>3, ConcatAssociative, SMTT(30)
    <3> QED
      BY <1>3, <2>3, <3>1
  <2> QED
    BY <1>1, <2>1, <2>2, <2>3 DEF PipeInv
<1>5. IsPrefix(ran, PassesIn(text))
  BY <1>1, <1>4, PrefixOfConcat
<1>6. ASSUME pipePhase = "done"
      PROVE  /\ parse_error = 0 => ran = PassesIn(text)
             /\ parse_error # 0 =>
                  ran = IF host = "opt" \/ Wrapped THEN <<>>
                        ELSE PassesIn(SubSeq(text, 1, parse_error - 1))
  BY <1>6 DEF PipeInv, ToRun, Before
<1> QED
  BY <1>5, <1>6 DEF ErrorTellsWhatRan

(* A pipeline that does not parse runs what comes before the element that  *)
(* failed, from inside a pass and unless it was read as one function       *)
(* pipeline, and nothing from opt; one that parses runs all of it.         *)
THEOREM ErrorsTellWhatRan == Spec => []ErrorTellsWhatRan
BY PipeInvInit, PipeInvNext, PipeInvTells, PTL DEF Spec

-----------------------------------------------------------------------------
(* Blocks and their instructions.                                          *)

LEMMA BlockParts ==
  ASSUME NEW B \in Seq(Block), NEW b \in DOMAIN B
  PROVE  B[b] \in Block /\ B[b].insts \in Seq(Inst) /\ B[b].label \in Nat
<1>1. B[b] \in Block
  OBVIOUS
<1> QED
  BY <1>1 DEF Block

LEMMA InstParts ==
  ASSUME NEW x \in Inst
  PROVE  x.id \in Nat /\ x.kind \in Kinds /\ x.md \in [MdNames -> Nodes]
BY DEF Inst

LEMMA ElementsTyped ==
  ASSUME NEW S, NEW s \in Seq(S) PROVE ToSet(s) \subseteq S
BY DEF ToSet

LEMMA NewInstType ==
  ASSUME NEW id \in Nat, NEW k \in Kinds
  PROVE  /\ NewInst(id, k) \in Inst
         /\ NewInst(id, k).id = id /\ NewInst(id, k).kind = k
         /\ \A n \in MdNames : ~ Has(NewInst(id, k), n)
<1>1. NoMetadata \in [MdNames -> Nodes]
  BY DEF NoMetadata, Nodes
<1>2. \A n \in MdNames : NoMetadata[n] = NoNode
  BY DEF NoMetadata
<1> QED
  BY <1>1, <1>2 DEF NewInst, Inst, Has

InstsMap == [x \in Block |-> x.insts]
IdKey == [x \in Inst |-> x.id]
LabelKey == [x \in Block |-> x.label]

LEMMA InstsIsFlatMap ==
  ASSUME NEW B \in Seq(Block)
  PROVE  InstsMap \in SeqMaps(Block, Inst) /\ InstsOf(B) = FlatMap(InstsMap, B)
<1>1. InstsMap \in SeqMaps(Block, Inst)
  BY DEF InstsMap, SeqMaps, Block
<1>2. \A i \in DOMAIN B : B[i] \in Block
  OBVIOUS
<1>3. Parts(InstsMap, B) = [b \in DOMAIN B |-> B[b].insts]
  BY <1>2 DEF Parts, InstsMap
<1> QED
  BY <1>1, <1>3 DEF InstsOf, FlatMap

LEMMA InstsType ==
  ASSUME NEW B \in Seq(Block) PROVE InstsOf(B) \in Seq(Inst)
BY InstsIsFlatMap, FlatMapType

LEMMA InstsEmpty == InstsOf(<<>>) = <<>>
<1>1. <<>> \in Seq(Block)
  OBVIOUS
<1> QED
  BY <1>1, InstsIsFlatMap, FlatMapEmpty

LEMMA InstsOne ==
  ASSUME NEW x \in Block PROVE InstsOf(<<x>>) = x.insts
<1> DEFINE y == <<x>>
<1>1. y \in Seq(Block)
  OBVIOUS
<1>2. InstsMap \in SeqMaps(Block, Inst) /\ InstsOf(y) = FlatMap(InstsMap, y)
  BY <1>1, InstsIsFlatMap
<1>3. FlatMap(InstsMap, y) = InstsMap[x]
  BY <1>2, FlatMapOne
<1>4. InstsMap[x] = x.insts
  BY DEF InstsMap
<1> QED
  BY <1>2, <1>3, <1>4

LEMMA InstsConcat ==
  ASSUME NEW B \in Seq(Block), NEW C \in Seq(Block)
  PROVE  InstsOf(B \o C) = InstsOf(B) \o InstsOf(C)
<1> DEFINE D == B \o C
<1>1. D \in Seq(Block)
  BY ConcatProperties
<1>2. InstsMap \in SeqMaps(Block, Inst)
      /\ InstsOf(B) = FlatMap(InstsMap, B) /\ InstsOf(C) = FlatMap(InstsMap, C)
  BY InstsIsFlatMap
<1> HIDE DEF D
<1>3. InstsOf(D) = FlatMap(InstsMap, D)
  BY <1>1, InstsIsFlatMap
<1>4. FlatMap(InstsMap, B \o C) = FlatMap(InstsMap, B) \o FlatMap(InstsMap, C)
  BY <1>2, FlatMapConcat
<1> QED
  BY <1>2, <1>3, <1>4 DEF D

LEMMA InstsElements ==
  ASSUME NEW B \in Seq(Block)
  PROVE  \A x : x \in ToSet(InstsOf(B))
                  <=> \E b \in DOMAIN B : x \in ToSet(B[b].insts)
<1>1. InstsMap \in SeqMaps(Block, Inst) /\ InstsOf(B) = FlatMap(InstsMap, B)
  BY InstsIsFlatMap
<1>2. \A x : x \in ToSet(FlatMap(InstsMap, B))
               <=> \E b \in DOMAIN B : x \in ToSet(InstsMap[B[b]])
  BY <1>1, FlatMapElements
<1>3. \A b \in DOMAIN B : InstsMap[B[b]] = B[b].insts
  BY BlockParts DEF InstsMap
<1> QED
  BY <1>1, <1>2, <1>3

LEMMA IdsAreKeys ==
  ASSUME NEW s \in Seq(Inst)
  PROVE  /\ Ids(s) = Keys(s, IdKey)
         /\ DistinctIds(s) <=> Distinct(s, IdKey)
<1>1. \A i \in DOMAIN s : s[i] \in Inst
  OBVIOUS
<1>2. \A i \in DOMAIN s : IdKey[s[i]] = s[i].id
  BY <1>1 DEF IdKey
<1>3. DistinctIds(s) <=> Distinct(s, IdKey)
  BY <1>2 DEF DistinctIds, Distinct
<1>4. Ids(s) = Keys(s, IdKey)
  BY <1>2 DEF Ids, Keys, ToSet
<1> QED
  BY <1>3, <1>4

LEMMA LabelsAreKeys ==
  ASSUME NEW B \in Seq(Block)
  PROVE  /\ Labels(B) = Keys(B, LabelKey)
         /\ DistinctLabels(B) <=> Distinct(B, LabelKey)
<1>1. \A i \in DOMAIN B : B[i] \in Block
  OBVIOUS
<1>2. \A i \in DOMAIN B : LabelKey[B[i]] = B[i].label
  BY <1>1 DEF LabelKey
<1>3. DistinctLabels(B) <=> Distinct(B, LabelKey)
  BY <1>2 DEF DistinctLabels, Distinct
<1>4. Labels(B) = Keys(B, LabelKey)
  BY <1>2 DEF Labels, Keys, ToSet
<1> QED
  BY <1>3, <1>4

LEMMA IdsOfElements ==
  ASSUME NEW s
  PROVE  \A id : id \in Ids(s) <=> \E x \in ToSet(s) : x.id = id
BY DEF Ids, ToSet

-----------------------------------------------------------------------------
(* The middle of a sequence is replaced.                                   *)

LEMMA MiddleElements ==
  ASSUME NEW S, NEW p \in Seq(S), NEW s \in Seq(S), NEW q \in Seq(S)
  PROVE  /\ (p \o s) \o q \in Seq(S)
         /\ ToSet((p \o s) \o q) = (ToSet(p) \cup ToSet(s)) \cup ToSet(q)
<1> DEFINE r == p \o s
<1>1. r \in Seq(S) /\ r \o q \in Seq(S)
  BY ConcatProperties
<1>2. ToSet(r) = ToSet(p) \cup ToSet(s)
  BY ToSetConcat
<1> HIDE DEF r
<1>3. ToSet(r \o q) = ToSet(r) \cup ToSet(q)
  BY <1>1, ToSetConcat
<1> QED
  BY <1>1, <1>2, <1>3 DEF r

LEMMA MiddleKeys ==
  ASSUME NEW S, NEW p \in Seq(S), NEW s \in Seq(S), NEW q \in Seq(S), NEW key
  PROVE  /\ Keys((p \o s) \o q, key)
              = (Keys(p, key) \cup Keys(s, key)) \cup Keys(q, key)
         /\ Distinct((p \o s) \o q, key)
              <=> /\ Distinct(p, key) /\ Distinct(s, key) /\ Distinct(q, key)
                  /\ Keys(p, key) \cap Keys(s, key) = {}
                  /\ (Keys(p, key) \cup Keys(s, key)) \cap Keys(q, key) = {}
<1> DEFINE r == p \o s
<1>1. r \in Seq(S)
  BY ConcatProperties
<1>2. Keys(r, key) = Keys(p, key) \cup Keys(s, key)
  BY KeysConcat
<1>3. Distinct(r, key) <=> /\ Distinct(p, key) /\ Distinct(s, key)
                           /\ Keys(p, key) \cap Keys(s, key) = {}
  BY DistinctConcat
<1> HIDE DEF r
<1>4. Keys(r \o q, key) = Keys(r, key) \cup Keys(q, key)
  BY <1>1, KeysConcat
<1>5. Distinct(r \o q, key) <=> /\ Distinct(r, key) /\ Distinct(q, key)
                                /\ Keys(r, key) \cap Keys(q, key) = {}
  BY <1>1, DistinctConcat
<1>6. Keys(r \o q, key) = (Keys(p, key) \cup Keys(s, key)) \cup Keys(q, key)
  BY <1>2, <1>4
<1>7. Distinct(r \o q, key)
        <=> /\ Distinct(p, key) /\ Distinct(s, key) /\ Distinct(q, key)
            /\ Keys(p, key) \cap Keys(s, key) = {}
            /\ (Keys(p, key) \cup Keys(s, key)) \cap Keys(q, key) = {}
  BY <1>2, <1>3, <1>5
<1> QED
  BY <1>6, <1>7 DEF r

(* The keys of what is put in are those of what it is put in for, or fresh.*)
LEMMA MiddleReplaced ==
  ASSUME NEW S, NEW p \in Seq(S), NEW s \in Seq(S), NEW q \in Seq(S),
         NEW t \in Seq(S), NEW key, NEW fresh,
         Distinct((p \o s) \o q, key), Distinct(t, key),
         Keys(t, key) \subseteq Keys(s, key) \cup fresh,
         Keys((p \o s) \o q, key) \cap fresh = {}
  PROVE  /\ Distinct((p \o t) \o q, key)
         /\ Keys((p \o t) \o q, key) \subseteq Keys((p \o s) \o q, key) \cup fresh
<1>1. /\ Keys((p \o s) \o q, key)
              = (Keys(p, key) \cup Keys(s, key)) \cup Keys(q, key)
      /\ Distinct(p, key) /\ Distinct(s, key) /\ Distinct(q, key)
      /\ Keys(p, key) \cap Keys(s, key) = {}
      /\ (Keys(p, key) \cup Keys(s, key)) \cap Keys(q, key) = {}
  BY MiddleKeys
<1>2. /\ Keys((p \o t) \o q, key)
              = (Keys(p, key) \cup Keys(t, key)) \cup Keys(q, key)
      /\ Distinct((p \o t) \o q, key)
           <=> /\ Distinct(p, key) /\ Distinct(t, key) /\ Distinct(q, key)
               /\ Keys(p, key) \cap Keys(t, key) = {}
               /\ (Keys(p, key) \cup Keys(t, key)) \cap Keys(q, key) = {}
  BY MiddleKeys
<1> QED
  BY <1>1, <1>2

Joined(p, s, q) == (p \o s) \o q

LEMMA MiddleSelect ==
  ASSUME NEW S, NEW p \in Seq(S), NEW s \in Seq(S), NEW q \in Seq(S), NEW T
  PROVE  Select(Joined(p, s, q), T)
           = Joined(Select(p, T), Select(s, T), Select(q, T))
<1> DEFINE r == p \o s
<1>1. r \in Seq(S)
  BY ConcatProperties
<1>2. Select(r, T) = Select(p, T) \o Select(s, T)
  BY SelectConcat
<1> HIDE DEF r
<1>3. Select(r \o q, T) = Select(r, T) \o Select(q, T)
  BY <1>1, SelectConcat, SMTT(30)
<1> QED
  BY <1>2, <1>3 DEF r, Joined

LEMMA MiddleInsts ==
  ASSUME NEW p \in Seq(Inst), NEW s \in Seq(Inst), NEW q \in Seq(Inst), NEW T
  PROVE  Select(Joined(p, s, q), T)
           = Joined(Select(p, T), Select(s, T), Select(q, T))
BY MiddleSelect

-----------------------------------------------------------------------------
(* A block is replaced by others.                                          *)

BlocksBefore(B, b) == SubSeq(B, 1, b - 1)
BlocksAfter(B, b) == SubSeq(B, b + 1, Len(B))
Splice(B, b, mid) == BlocksBefore(B, b) \o mid \o BlocksAfter(B, b)

LEMMA SpliceParts ==
  ASSUME NEW B \in Seq(Block), NEW b \in DOMAIN B
  PROVE  /\ BlocksBefore(B, b) \in Seq(Block) /\ BlocksAfter(B, b) \in Seq(Block)
         /\ Len(BlocksBefore(B, b)) = b - 1 /\ Len(BlocksAfter(B, b)) = Len(B) - b
         /\ \A k \in 1..(b - 1) : BlocksBefore(B, b)[k] = B[k]
         /\ \A k \in 1..(Len(B) - b) : BlocksAfter(B, b)[k] = B[b + k]
         /\ B = Splice(B, b, <<B[b]>>)
<1>1. b \in 1..(Len(B) + 1) /\ b + 1 \in 1..(Len(B) + 1) /\ b \in Nat /\ Len(B) \in Nat
  OBVIOUS
<1>2. /\ Len(BlocksBefore(B, b)) = b - 1
      /\ \A k \in 1..(b - 1) : BlocksBefore(B, b)[k] = B[k]
  BY <1>1, CutBefore DEF BlocksBefore
<1>3. /\ Len(BlocksAfter(B, b)) = Len(B) - (b + 1) + 1
      /\ \A k \in 1..(Len(B) - (b + 1) + 1) : BlocksAfter(B, b)[k] = B[(b + 1) + k - 1]
  BY <1>1, CutBefore DEF BlocksAfter
<1>4. /\ Len(B) - (b + 1) + 1 = Len(B) - b
      /\ \A k \in 1..(Len(B) - b) : (b + 1) + k - 1 = b + k
  <2>1. b \in Nat /\ Len(B) \in Nat
    BY <1>1
  <2> DEFINE n == Len(B)
  <2> HIDE DEF n
  <2>2. /\ n - (b + 1) + 1 = n - b
        /\ \A k \in 1..(n - b) : (b + 1) + k - 1 = b + k
    BY <2>1 DEF n
  <2> QED
    BY <2>2 DEF n
<1>5. /\ BlocksBefore(B, b) \in Seq(Block) /\ BlocksAfter(B, b) \in Seq(Block)
      /\ B = BlocksBefore(B, b) \o <<B[b]>> \o BlocksAfter(B, b)
  BY CutAt DEF BlocksBefore, BlocksAfter
<1> HIDE DEF BlocksBefore, BlocksAfter
<1> QED
  BY <1>2, <1>3, <1>4, <1>5 DEF Splice

LEMMA ThreeAt ==
  ASSUME NEW S, NEW p \in Seq(S), NEW m \in Seq(S), NEW q \in Seq(S)
  PROVE  /\ (p \o m) \o q \in Seq(S)
         /\ Len((p \o m) \o q) = Len(p) + Len(m) + Len(q)
         /\ \A k \in 1..Len(p) : ((p \o m) \o q)[k] = p[k]
         /\ \A k \in 1..Len(m) : ((p \o m) \o q)[Len(p) + k] = m[k]
         /\ \A k \in 1..Len(q) : ((p \o m) \o q)[Len(p) + Len(m) + k] = q[k]
<1> DEFINE r == p \o m
           i == Len(p)
           j == Len(m)
           n == Len(q)
<1>1. i \in Nat /\ j \in Nat /\ n \in Nat
  OBVIOUS
<1>2. /\ r \in Seq(S) /\ Len(r) = i + j
      /\ \A k \in 1..(i + j) : r[k] = IF k <= i THEN p[k] ELSE m[k - i]
  BY ConcatProperties
<1> HIDE DEF r
<1> DEFINE c == r \o q
<1>3. /\ c \in Seq(S) /\ Len(c) = Len(r) + n
      /\ \A k \in 1..(Len(r) + n) : c[k] = IF k <= Len(r) THEN r[k] ELSE q[k - Len(r)]
  <2>1. r \in Seq(S)
    BY <1>2
  <2> QED
    BY <2>1, ConcatProperties
<1> HIDE DEF c, i, j, n
<1>4. ASSUME NEW k \in 1..i PROVE c[k] = p[k]
  <2>1. k \in 1..(i + j) /\ k <= i /\ k \in 1..((i + j) + n) /\ k <= i + j
    BY <1>1
  <2> QED
    BY <1>2, <1>3, <2>1
<1>5. ASSUME NEW k \in 1..j PROVE c[i + k] = m[k]
  <2>1. /\ i + k \in 1..(i + j) /\ ~ (i + k <= i) /\ i + k \in 1..((i + j) + n)
        /\ i + k <= i + j /\ (i + k) - i = k
    BY <1>1
  <2>2. c[i + k] = r[i + k]
    BY <1>2, <1>3, <2>1
  <2>3. r[i + k] = m[(i + k) - i]
    BY <1>2, <2>1
  <2> QED
    BY <2>1, <2>2, <2>3
<1>6. ASSUME NEW k \in 1..n PROVE c[i + j + k] = q[k]
  <2>1. /\ i + j + k \in 1..((i + j) + n) /\ ~ (i + j + k <= i + j)
        /\ (i + j + k) - (i + j) = k
    BY <1>1
  <2>2. c[i + j + k] = q[(i + j + k) - (i + j)]
    BY <1>2, <1>3, <2>1
  <2> QED
    BY <2>1, <2>2
<1> QED
  BY <1>2, <1>3, <1>4, <1>5, <1>6 DEF c, r, i, j, n

(* The blocks of the result.                                               *)
LEMMA SpliceAt ==
  ASSUME NEW B \in Seq(Block), NEW b \in DOMAIN B, NEW mid \in Seq(Block)
  PROVE  /\ Splice(B, b, mid) \in Seq(Block)
         /\ Len(Splice(B, b, mid)) = Len(B) - 1 + Len(mid)
         /\ \A k \in 1..(b - 1) : Splice(B, b, mid)[k] = B[k]
         /\ \A j \in 1..Len(mid) : Splice(B, b, mid)[b - 1 + j] = mid[j]
         /\ \A k \in (b + 1)..Len(B) : Splice(B, b, mid)[k - 1 + Len(mid)] = B[k]
<1> DEFINE p == BlocksBefore(B, b)
           q == BlocksAfter(B, b)
           c == (p \o mid) \o q
           n == Len(B)
           j == Len(mid)
<1>1. /\ p \in Seq(Block) /\ q \in Seq(Block) /\ Len(p) = b - 1 /\ Len(q) = n - b
      /\ \A k \in 1..(b - 1) : p[k] = B[k]
      /\ \A k \in 1..(n - b) : q[k] = B[b + k]
  BY SpliceParts
<1>2. b \in Nat /\ 1 <= b /\ b <= n /\ n \in Nat /\ j \in Nat
  OBVIOUS
<1>3. Splice(B, b, mid) = c
  BY DEF Splice
<1> HIDE DEF p, q
<1>4. /\ c \in Seq(Block) /\ Len(c) = Len(p) + j + Len(q)
      /\ \A k \in 1..Len(p) : c[k] = p[k]
      /\ \A k \in 1..j : c[Len(p) + k] = mid[k]
      /\ \A k \in 1..Len(q) : c[Len(p) + j + k] = q[k]
  <2>1. p \in Seq(Block) /\ q \in Seq(Block)
    BY <1>1
  <2> QED
    BY <2>1, ThreeAt
<1> HIDE DEF c, n, j
<1>5. Len(c) = n - 1 + j
  BY <1>1, <1>2, <1>4, SMTT(30)
<1>6. ASSUME NEW k \in (b + 1)..n PROVE c[k - 1 + j] = B[k]
  <2>1. k - b \in 1..(n - b) /\ (b - 1) + j + (k - b) = k - 1 + j /\ b + (k - b) = k
    BY <1>2
  <2>2. c[(b - 1) + j + (k - b)] = q[k - b]
    BY <1>1, <1>4, <2>1
  <2>3. q[k - b] = B[b + (k - b)]
    BY <1>1, <2>1
  <2> QED
    BY <2>1, <2>2, <2>3
<1> QED
  BY <1>1, <1>3, <1>4, <1>5, <1>6 DEF n, j

LEMMA SpliceInsts ==
  ASSUME NEW B \in Seq(Block), NEW b \in DOMAIN B, NEW mid \in Seq(Block)
  PROVE  /\ InstsOf(BlocksBefore(B, b)) \in Seq(Inst) /\ InstsOf(BlocksAfter(B, b)) \in Seq(Inst)
         /\ InstsOf(mid) \in Seq(Inst)
         /\ InstsOf(Splice(B, b, mid))
              = (InstsOf(BlocksBefore(B, b)) \o InstsOf(mid)) \o InstsOf(BlocksAfter(B, b))
         /\ InstsOf(B)
              = (InstsOf(BlocksBefore(B, b)) \o B[b].insts) \o InstsOf(BlocksAfter(B, b))
<1> DEFINE p == BlocksBefore(B, b)
           q == BlocksAfter(B, b)
<1>1. p \in Seq(Block) /\ q \in Seq(Block) /\ B = Splice(B, b, <<B[b]>>)
  BY SpliceParts
<1>2. B[b] \in Block
  BY BlockParts
<1> HIDE DEF p, q
<1>3. InstsOf(p) \in Seq(Inst) /\ InstsOf(q) \in Seq(Inst)
  BY <1>1, InstsType
<1>4. ASSUME NEW m \in Seq(Block)
      PROVE  InstsOf((p \o m) \o q) = (InstsOf(p) \o InstsOf(m)) \o InstsOf(q)
  <2> DEFINE r == p \o m
  <2>1. r \in Seq(Block)
    BY <1>1, ConcatProperties
  <2>2. InstsOf(r) = InstsOf(p) \o InstsOf(m)
    BY <1>1, InstsConcat
  <2> HIDE DEF r
  <2>3. InstsOf(r \o q) = InstsOf(r) \o InstsOf(q)
    BY <1>1, <2>1, InstsConcat
  <2> QED
    BY <2>2, <2>3 DEF r
<1> DEFINE y == <<B[b]>>
<1>5. y \in Seq(Block) /\ InstsOf(y) = B[b].insts
  BY <1>2, InstsOne
<1>6. Splice(B, b, y) = (p \o y) \o q /\ Splice(B, b, mid) = (p \o mid) \o q
  BY DEF Splice, p, q
<1> HIDE DEF y
<1>7. InstsOf((p \o y) \o q) = (InstsOf(p) \o InstsOf(y)) \o InstsOf(q)
  BY <1>4, <1>5
<1>8. InstsOf((p \o mid) \o q) = (InstsOf(p) \o InstsOf(mid)) \o InstsOf(q)
  BY <1>4
<1>9. B = (p \o y) \o q
  BY <1>1, <1>6 DEF y
<1>10. InstsOf(B) = (InstsOf(p) \o B[b].insts) \o InstsOf(q)
  BY <1>5, <1>7, <1>9
<1>11. InstsOf(mid) \in Seq(Inst)
  BY InstsType
<1> QED
  BY <1>3, <1>6, <1>8, <1>10, <1>11 DEF p, q

-----------------------------------------------------------------------------
(* What is true of a function's body, the identities in use being below n, *)
(* and of blocks that can be put in for one of its blocks.                 *)

OK(B, n) ==
  /\ B \in Seq(Block) /\ WellFormed(B)
  /\ DistinctIds(InstsOf(B)) /\ DistinctLabels(B)
  /\ \A id \in Ids(InstsOf(B)) \cup Labels(B) : id < n

NoPads(s) == \A i \in DOMAIN s : s[i].kind \notin PhiOrPad

Fits(mid, block, first, n, m) ==
  /\ mid \in Seq(Block) /\ mid # <<>>
  /\ DistinctIds(InstsOf(mid)) /\ DistinctLabels(mid)
  /\ Ids(InstsOf(mid)) \subseteq Ids(block.insts) \cup n..(m - 1)
  /\ Labels(mid) \subseteq {block.label} \cup n..(m - 1)
  /\ \A c \in DOMAIN mid : PadsFirst(mid[c].insts)
  /\ first => NoPads(mid[1].insts)

LEMMA OKBelow ==
  ASSUME NEW B, NEW n \in Nat, NEW m \in Nat, OK(B, n), n <= m
  PROVE  OK(B, m)
<1>1. /\ B \in Seq(Block) /\ WellFormed(B)
      /\ DistinctIds(InstsOf(B)) /\ DistinctLabels(B)
      /\ \A id \in Ids(InstsOf(B)) \cup Labels(B) : id < n
  BY DEF OK
<1>2. \A id \in Ids(InstsOf(B)) : id \in Nat
  BY <1>1, InstsType, ElementsTyped, InstParts, IdsOfElements
<1>3. \A id \in Labels(B) : id \in Nat
  BY <1>1, BlockParts DEF Labels
<1>4. \A id \in Ids(InstsOf(B)) \cup Labels(B) : id < m
  BY <1>1, <1>2, <1>3
<1> QED
  BY <1>1, <1>4 DEF OK

LEMMA SpliceWellFormed ==
  ASSUME NEW B \in Seq(Block), WellFormed(B), NEW b \in DOMAIN B,
         NEW mid \in Seq(Block), mid # <<>>,
         \A c \in DOMAIN mid : PadsFirst(mid[c].insts),
         b = 1 => NoPads(mid[1].insts)
  PROVE  WellFormed(Splice(B, b, mid))
<1> DEFINE D == Splice(B, b, mid)
           n == Len(B)
           j == Len(mid)
<1>1. /\ D \in Seq(Block) /\ Len(D) = n - 1 + j
      /\ \A k \in 1..(b - 1) : D[k] = B[k]
      /\ \A k \in 1..j : D[b - 1 + k] = mid[k]
      /\ \A k \in (b + 1)..n : D[k - 1 + j] = B[k]
  BY SpliceAt
<1>2. /\ b \in Nat /\ 1 <= b /\ b <= n /\ n \in Nat /\ j \in Nat /\ 1 <= j
      /\ DOMAIN B = 1..n /\ DOMAIN mid = 1..j
  BY EmptySeq
<1>3. DOMAIN D = 1..(n - 1 + j)
  BY <1>1, <1>2
<1> HIDE DEF D, n, j
<1>4. \A k \in DOMAIN B : PadsFirst(B[k].insts)
  BY DEF WellFormed
<1>5. ASSUME NEW k \in DOMAIN D PROVE PadsFirst(D[k].insts)
  <2>1. CASE k <= b - 1
    <3>1. k \in 1..(b - 1) /\ k \in DOMAIN B
      BY <1>2, <1>3, <2>1
    <3> QED
      BY <1>1, <1>4, <3>1
  <2>2. CASE ~ (k <= b - 1) /\ k <= b - 1 + j
    <3>1. k - (b - 1) \in 1..j /\ b - 1 + (k - (b - 1)) = k
      BY <1>2, <1>3, <2>2
    <3>2. D[k] = mid[k - (b - 1)] /\ k - (b - 1) \in DOMAIN mid
      BY <1>1, <1>2, <3>1
    <3> QED
      BY <3>2
  <2>3. CASE ~ (k <= b - 1 + j)
    <3>1. /\ k - j + 1 \in (b + 1)..n /\ (k - j + 1) - 1 + j = k
          /\ k - j + 1 \in 1..n
      BY <1>2, <1>3, <2>3
    <3>2. D[k] = B[k - j + 1] /\ k - j + 1 \in DOMAIN B
      BY <1>1, <1>2, <3>1
    <3> QED
      BY <1>4, <3>2
  <2> QED
    BY <2>1, <2>2, <2>3
<1>6. NoPads(D[1].insts)
  <2>1. CASE b = 1
    <3>1. 1 \in 1..j /\ b - 1 + 1 = 1
      BY <1>2, <2>1
    <3>2. D[b - 1 + 1] = mid[1]
      BY <1>1, <3>1
    <3> QED
      BY <2>1, <3>1, <3>2
  <2>2. CASE b # 1
    <3>1. 1 \in 1..(b - 1)
      BY <1>2, <2>2
    <3> QED
      BY <1>1, <3>1 DEF WellFormed, NoPads
  <2> QED
    BY <2>1, <2>2
<1>7. D # <<>>
  <2>1. 1 \in DOMAIN D
    BY <1>2, <1>3
  <2> QED
    BY <2>1
<1> QED
  BY <1>5, <1>6, <1>7 DEF WellFormed, NoPads, D

LEMMA SpliceKeeps ==
  ASSUME NEW B, NEW n \in Nat, NEW m \in Nat, n <= m, OK(B, n),
         NEW b \in DOMAIN B, NEW mid, Fits(mid, B[b], b = 1, n, m)
  PROVE  /\ OK(Splice(B, b, mid), m)
         /\ Ids(InstsOf(Splice(B, b, mid))) \subseteq Ids(InstsOf(B)) \cup n..(m - 1)
         /\ Labels(Splice(B, b, mid)) \subseteq Labels(B) \cup n..(m - 1)
<1> DEFINE D == Splice(B, b, mid)
           p == BlocksBefore(B, b)
           q == BlocksAfter(B, b)
           fresh == n..(m - 1)
           y == <<B[b]>>
<1>1. B \in Seq(Block) /\ WellFormed(B) /\ DistinctIds(InstsOf(B))
      /\ DistinctLabels(B) /\ \A id \in Ids(InstsOf(B)) \cup Labels(B) : id < n
  BY DEF OK
<1>2. /\ mid \in Seq(Block) /\ mid # <<>>
      /\ DistinctIds(InstsOf(mid)) /\ DistinctLabels(mid)
      /\ Ids(InstsOf(mid)) \subseteq Ids(B[b].insts) \cup fresh
      /\ Labels(mid) \subseteq {B[b].label} \cup fresh
      /\ \A c \in DOMAIN mid : PadsFirst(mid[c].insts)
      /\ b = 1 => NoPads(mid[1].insts)
  BY DEF Fits
<1>3. D \in Seq(Block)
  BY <1>1, <1>2, SpliceAt
<1>4. WellFormed(D)
  BY <1>1, <1>2, SpliceWellFormed
<1>5. \A id \in fresh : id \in Nat /\ id < m /\ ~ (id < n)
  OBVIOUS
<1>6. Ids(InstsOf(B)) \cap fresh = {} /\ Labels(B) \cap fresh = {}
  BY <1>1, <1>5
<1>7. /\ Ids(InstsOf(D)) \subseteq Ids(InstsOf(B)) \cup fresh
      /\ DistinctIds(InstsOf(D))
  <2> DEFINE P == InstsOf(p)
             Q == InstsOf(q)
             s == B[b].insts
             t == InstsOf(mid)
  <2>1. /\ P \in Seq(Inst) /\ Q \in Seq(Inst) /\ t \in Seq(Inst)
        /\ InstsOf(D) = (P \o t) \o Q /\ InstsOf(B) = (P \o s) \o Q
    BY <1>1, <1>2, SpliceInsts
  <2>2. s \in Seq(Inst)
    BY <1>1, BlockParts
  <2>3. /\ InstsOf(B) \in Seq(Inst) /\ InstsOf(D) \in Seq(Inst)
    BY <1>1, <1>3, InstsType
  <2>4. /\ Ids(t) \subseteq Ids(s) \cup fresh /\ DistinctIds(t)
    BY <1>2
  <2> HIDE DEF P, Q, s, t, p, q, D, fresh
  <2>5. /\ Keys(t, IdKey) \subseteq Keys(s, IdKey) \cup fresh /\ Distinct(t, IdKey)
    BY <2>1, <2>2, <2>4, IdsAreKeys
  <2>6. /\ Distinct((P \o s) \o Q, IdKey)
        /\ Keys((P \o s) \o Q, IdKey) \cap fresh = {}
        /\ Keys((P \o s) \o Q, IdKey) = Ids(InstsOf(B))
    BY <1>1, <1>6, <2>1, <2>3, IdsAreKeys
  <2>7. /\ Distinct((P \o t) \o Q, IdKey)
        /\ Keys((P \o t) \o Q, IdKey) \subseteq Keys((P \o s) \o Q, IdKey) \cup fresh
    BY <2>1, <2>2, <2>5, <2>6, MiddleReplaced
  <2>8. Distinct(InstsOf(D), IdKey)
        /\ Keys(InstsOf(D), IdKey) \subseteq Ids(InstsOf(B)) \cup fresh
    BY <2>1, <2>6, <2>7
  <2> QED
    BY <2>3, <2>8, IdsAreKeys
<1>8. Labels(D) \subseteq Labels(B) \cup fresh /\ DistinctLabels(D)
  <2>1. p \in Seq(Block) /\ q \in Seq(Block) /\ B = Splice(B, b, y)
    BY <1>1, SpliceParts
  <2>2. y \in Seq(Block) /\ Keys(y, LabelKey) = {LabelKey[B[b]]}
    BY <1>1, BlockParts, DistinctOne
  <2>3. LabelKey[B[b]] = B[b].label
    BY <1>1, BlockParts DEF LabelKey
  <2>4. B = (p \o y) \o q /\ D = (p \o mid) \o q
    BY <2>1 DEF Splice
  <2> HIDE DEF p, q, D, fresh, y
  <2>5. /\ Keys(mid, LabelKey) \subseteq Keys(y, LabelKey) \cup fresh
        /\ Distinct(mid, LabelKey)
    BY <1>2, <2>2, <2>3, LabelsAreKeys
  <2>6. /\ Distinct(B, LabelKey) /\ Keys(B, LabelKey) \cap fresh = {}
        /\ Keys(B, LabelKey) = Labels(B)
    BY <1>1, <1>6, LabelsAreKeys
  <2>7. /\ Distinct((p \o y) \o q, LabelKey)
        /\ Keys((p \o y) \o q, LabelKey) \cap fresh = {}
        /\ Keys((p \o y) \o q, LabelKey) = Labels(B)
    BY <2>4, <2>6
  <2>8. /\ Distinct((p \o mid) \o q, LabelKey)
        /\ Keys((p \o mid) \o q, LabelKey) \subseteq Keys((p \o y) \o q, LabelKey) \cup fresh
    BY <1>2, <2>1, <2>2, <2>5, <2>7, MiddleReplaced
  <2>9. Distinct(D, LabelKey) /\ Keys(D, LabelKey) \subseteq Labels(B) \cup fresh
    BY <2>4, <2>7, <2>8
  <2> QED
    BY <1>3, <2>9, LabelsAreKeys
<1>9. \A id \in Ids(InstsOf(D)) \cup Labels(D) : id < m
  <2>1. \A id \in Ids(InstsOf(B)) \cup Labels(B) : id < m
    BY OKBelow DEF OK
  <2> QED
    BY <1>5, <1>7, <1>8, <2>1
<1> QED
  BY <1>3, <1>4, <1>7, <1>8, <1>9 DEF OK

(* One block takes the place of another.                                   *)
LEMMA ReplaceIsSplice ==
  ASSUME NEW B \in Seq(Block), NEW b \in DOMAIN B, NEW x \in Block
  PROVE  [B EXCEPT ![b] = x] = Splice(B, b, <<x>>)
BY ReplaceIsCut DEF Splice, BlocksBefore, BlocksAfter

LEMMA ReplaceKeeps ==
  ASSUME NEW B, NEW n \in Nat, NEW m \in Nat, n <= m, OK(B, n),
         NEW b \in DOMAIN B, NEW x \in Block,
         DistinctIds(x.insts), PadsFirst(x.insts), b = 1 => NoPads(x.insts),
         Ids(x.insts) \subseteq Ids(B[b].insts) \cup n..(m - 1),
         x.label \in {B[b].label} \cup n..(m - 1)
  PROVE  LET D == [B EXCEPT ![b] = x]
         IN /\ OK(D, m)
            /\ Ids(InstsOf(D)) \subseteq Ids(InstsOf(B)) \cup n..(m - 1)
            /\ Labels(D) \subseteq Labels(B) \cup n..(m - 1)
<1> DEFINE y == <<x>>
<1>1. y \in Seq(Block) /\ y # <<>> /\ DOMAIN y = {1} /\ y[1] = x
  OBVIOUS
<1>2. InstsOf(y) = x.insts
  BY InstsOne
<1>3. [B EXCEPT ![b] = x] = Splice(B, b, y)
  BY ReplaceIsSplice DEF OK
<1> HIDE DEF y
<1>4. Labels(y) = {x.label} /\ DistinctLabels(y)
  BY <1>1 DEF Labels, DistinctLabels
<1>5. Fits(y, B[b], b = 1, n, m)
  BY <1>1, <1>2, <1>4 DEF Fits
<1>6. /\ OK(Splice(B, b, y), m)
      /\ Ids(InstsOf(Splice(B, b, y))) \subseteq Ids(InstsOf(B)) \cup n..(m - 1)
      /\ Labels(Splice(B, b, y)) \subseteq Labels(B) \cup n..(m - 1)
  BY <1>5, SpliceKeeps
<1> QED
  BY <1>3, <1>6

-----------------------------------------------------------------------------
(* An instruction is put into a block.                                     *)

LEMMA InsertInst ==
  ASSUME NEW s \in Seq(Inst), NEW i \in 1..(Len(s) + 1), NEW x \in Inst
  PROVE  /\ InsertAt(s, i, x) \in Seq(Inst) /\ Len(InsertAt(s, i, x)) = Len(s) + 1
         /\ Inserted(s, i, x, InsertAt(s, i, x))
BY InsertType

LEMMA InsertIds ==
  ASSUME NEW s \in Seq(Inst), NEW i \in 1..(Len(s) + 1), NEW x \in Inst
  PROVE  /\ Ids(InsertAt(s, i, x)) = Ids(s) \cup {x.id}
         /\ DistinctIds(s) /\ x.id \notin Ids(s) => DistinctIds(InsertAt(s, i, x))
<1> DEFINE t == InsertAt(s, i, x)
<1>1. t \in Seq(Inst)
  BY InsertInst
<1>2. ToSet(t) = ToSet(s) \cup {x}
  BY InsertElements
<1>3. Ids(t) = Ids(s) \cup {x.id}
  BY <1>2, IdsOfElements
<1>4. ASSUME DistinctIds(s), x.id \notin Ids(s) PROVE DistinctIds(t)
  <2>1. Distinct(s, IdKey) /\ IdKey[x] \notin Keys(s, IdKey)
    BY <1>4, IdsAreKeys DEF IdKey
  <2>2. Distinct(t, IdKey)
    BY <2>1, InsertDistinct
  <2> QED
    BY <1>1, <2>2, IdsAreKeys
<1> QED
  BY <1>3, <1>4

LEMMA InsertPads ==
  ASSUME NEW s \in Seq(Inst), NEW i \in 1..(Len(s) + 1), NEW x \in Inst,
         x.kind \notin PhiOrPad, i <= Len(s) => s[i].kind \notin PhiOrPad
  PROVE  /\ PadsFirst(s) => PadsFirst(InsertAt(s, i, x))
         /\ NoPads(s) => NoPads(InsertAt(s, i, x))
<1> DEFINE t == InsertAt(s, i, x)
           n == Len(s)
<1>0. t \in Seq(Inst) /\ Len(t) = n + 1 /\ Inserted(s, i, x, t)
  BY InsertInst
<1>1. /\ t \in Seq(Inst) /\ Len(t) = n + 1
      /\ \A k \in 1..(n + 1) : t[k] = IF k < i THEN s[k] ELSE IF k = i THEN x ELSE s[k - 1]
  <2> HIDE DEF t
  <2> QED
    BY <1>0 DEF Inserted
<1>2. n \in Nat /\ i \in Nat /\ 1 <= i /\ i <= n + 1 /\ DOMAIN s = 1..n
  OBVIOUS
<1>3. DOMAIN t = 1..(n + 1)
  BY <1>1
<1> HIDE DEF t
<1>4. ASSUME PadsFirst(s), NEW k \in DOMAIN t, t[k].kind \in PhiOrPad,
             NEW j \in 1..(k - 1)
      PROVE  t[j].kind = "phi"
  <2>0. n \in Nat
    BY <1>2
  <2> HIDE DEF n
  <2>1. k < i
    <3>1. k # i
      BY <1>1, <1>3, <1>4
    <3>2. ASSUME k > i PROVE FALSE
      <4>1. k - 1 \in 1..n /\ ~ (k < i) /\ k \in 1..(n + 1) /\ k - 1 >= i /\ i <= n
        BY <1>2, <1>3, <3>2
      <4>2. t[k] = s[k - 1]
        BY <1>1, <3>1, <4>1
      <4>3. \A l \in 1..((k - 1) - 1) : s[l].kind = "phi"
        BY <1>2, <1>4, <4>1, <4>2 DEF PadsFirst
      <4>4. s[i].kind \notin PhiOrPad
        BY <4>1 DEF n
      <4>5. i = k - 1 \/ i \in 1..((k - 1) - 1)
        BY <1>2, <4>1
      <4>6. s[i].kind # "phi"
        BY <4>4 DEF PhiOrPad
      <4> QED
        BY <1>4, <4>2, <4>3, <4>4, <4>5, <4>6
    <3> QED
      BY <1>2, <1>3, <3>1, <3>2
  <2>2. /\ k \in 1..n /\ j \in 1..(n + 1) /\ j < i /\ k \in 1..(n + 1)
    BY <1>2, <1>3, <2>1
  <2>3. t[k] = s[k] /\ t[j] = s[j]
    BY <1>1, <2>1, <2>2
  <2> QED
    BY <1>2, <1>4, <2>2, <2>3 DEF PadsFirst
<1>5. ASSUME NoPads(s), NEW k \in DOMAIN t PROVE t[k].kind \notin PhiOrPad
  <2>0. n \in Nat
    BY <1>2
  <2> HIDE DEF n
  <2>1. CASE k < i
    <3>1. k \in 1..n
      BY <1>2, <1>3, <2>1
    <3> QED
      BY <1>1, <1>2, <1>3, <1>5, <2>1, <3>1 DEF NoPads
  <2>2. CASE k = i
    BY <1>1, <1>3, <2>2
  <2>3. CASE ~ (k < i) /\ k # i
    <3>1. k - 1 \in 1..n
      BY <1>2, <1>3, <2>3
    <3>2. t[k] = s[k - 1]
      BY <1>1, <1>3, <2>3
    <3> QED
      BY <1>2, <1>5, <3>1, <3>2 DEF NoPads
  <2> QED
    BY <2>1, <2>2, <2>3
<1> QED
  BY <1>4, <1>5 DEF PadsFirst, NoPads, t

(* The parts of a block.                                                   *)
LEMMA PrefixPads ==
  ASSUME NEW s \in Seq(Inst), NEW i \in DOMAIN s
  PROVE  /\ SubSeq(s, 1, i - 1) \in Seq(Inst)
         /\ Len(SubSeq(s, 1, i - 1)) = i - 1
         /\ \A k \in 1..(i - 1) : SubSeq(s, 1, i - 1)[k] = s[k]
         /\ PadsFirst(s) => PadsFirst(SubSeq(s, 1, i - 1))
         /\ NoPads(s) => NoPads(SubSeq(s, 1, i - 1))
<1> DEFINE t == SubSeq(s, 1, i - 1)
<1>1. i \in 1..(Len(s) + 1) /\ i \in Nat /\ 1 <= i /\ Len(s) \in Nat /\ i <= Len(s)
      /\ DOMAIN s = 1..Len(s)
  OBVIOUS
<1>2. t \in Seq(Inst) /\ Len(t) = i - 1 /\ \A k \in 1..(i - 1) : t[k] = s[k]
  BY <1>1, CutBefore
<1> HIDE DEF t
<1>3. DOMAIN t = 1..(i - 1)
  BY <1>1, <1>2
<1>4. \A k \in DOMAIN t : k \in DOMAIN s /\ t[k] = s[k]
      /\ \A j \in 1..(k - 1) : j \in 1..(i - 1)
  BY <1>1, <1>2, <1>3
<1>5. PadsFirst(s) => PadsFirst(t)
  BY <1>2, <1>4 DEF PadsFirst
<1>6. NoPads(s) => NoPads(t)
  BY <1>4 DEF NoPads
<1> QED
  BY <1>2, <1>5, <1>6 DEF t

LEMMA SuffixPads ==
  ASSUME NEW s \in Seq(Inst), NEW i \in DOMAIN s
  PROVE  /\ SubSeq(s, i, Len(s)) \in Seq(Inst)
         /\ Len(SubSeq(s, i, Len(s))) = Len(s) - i + 1
         /\ \A k \in 1..(Len(s) - i + 1) : SubSeq(s, i, Len(s))[k] = s[i + k - 1]
         /\ PadsFirst(s) /\ s[i].kind \notin PhiOrPad => NoPads(SubSeq(s, i, Len(s)))
<1> DEFINE t == SubSeq(s, i, Len(s))
           n == Len(s)
<1>1. i \in 1..(n + 1) /\ i \in Nat /\ 1 <= i /\ n \in Nat /\ i <= n
      /\ DOMAIN s = 1..n
  OBVIOUS
<1>2. t \in Seq(Inst) /\ Len(t) = n - i + 1
      /\ \A k \in 1..(n - i + 1) : t[k] = s[i + k - 1]
  BY <1>1, CutBefore
<1>3. DOMAIN t = 1..(n - i + 1)
  BY <1>1, <1>2
<1> HIDE DEF t, n
<1>4. ASSUME PadsFirst(s), s[i].kind \notin PhiOrPad, NEW k \in DOMAIN t
      PROVE  t[k].kind \notin PhiOrPad
  <2>1. /\ i + k - 1 \in 1..n /\ k \in 1..(n - i + 1)
        /\ i + k - 1 = i \/ i \in 1..((i + k - 1) - 1)
    BY <1>1, <1>3
  <2>2. t[k] = s[i + k - 1]
    BY <1>2, <2>1
  <2>3. s[i].kind # "phi"
    BY <1>4 DEF PhiOrPad
  <2> QED
    BY <1>1, <1>4, <2>1, <2>2, <2>3 DEF PadsFirst
<1> QED
  BY <1>2, <1>4 DEF NoPads, t, n

LEMMA NoPadsFirst ==
  ASSUME NEW s, NoPads(s) PROVE PadsFirst(s)
BY DEF NoPads, PadsFirst

-----------------------------------------------------------------------------
(* The bodies of the functions, and the blocks extracted from them.        *)

BodiesInv ==
  /\ body \in [Funcs -> Seq(Block)] /\ nextId \in Nat /\ promoted \in Seq(Block)
  /\ \A f \in Funcs : OK(body[f], nextId)
  /\ \A f, g \in Funcs : f # g =>
       /\ Ids(InstsOf(body[f])) \cap Ids(InstsOf(body[g])) = {}
       /\ Labels(body[f]) \cap Labels(body[g]) = {}
  /\ DistinctIds(InstsOf(promoted))
  /\ \A id \in Ids(InstsOf(promoted)) : id < nextId
  /\ \A f \in Funcs : Ids(InstsOf(body[f])) \cap Ids(InstsOf(promoted)) = {}

Tagged(x) ==
  /\ HasMetadata(x)
  /\ \/ \E f \in Funcs : x \in ToSet(InstsOf(body[f]))
     \/ x \in ToSet(InstsOf(promoted))

TagInv ==
  /\ \A t \in tags : \E id, n, v : t = <<id, n, v>>
  /\ \A id, n, v :
       <<id, n, v>> \in tags
         <=> \E x \in Inst : /\ Tagged(x) /\ n \in MdNames /\ Has(x, n)
                             /\ x.id = id /\ x.md[n] = v

LEMMA IdsNat ==
  ASSUME NEW s \in Seq(Inst) PROVE Ids(s) \subseteq Nat
BY ElementsTyped, InstParts, IdsOfElements

LEMMA LabelsNat ==
  ASSUME NEW B \in Seq(Block) PROVE Labels(B) \subseteq Nat
BY BlockParts DEF Labels

LEMMA BodiesInvInit == Init => BodiesInv /\ TagInv
<1> SUFFICES ASSUME Init PROVE BodiesInv /\ TagInv
  OBVIOUS
<1>1. body \in Bodies /\ nextId = FirstId /\ promoted = <<>>
      /\ tags = UNION {TagsOf(InstsOf(body[f])) : f \in Funcs}
  BY DEF Init, PrInit
<1>2. /\ FirstId \in Nat
      /\ body \in [Funcs -> Seq(Block)]
      /\ \A f \in Funcs :
           /\ WellFormed(body[f])
           /\ DistinctIds(InstsOf(body[f])) /\ DistinctLabels(body[f])
           /\ \A id \in Ids(InstsOf(body[f])) \cup Labels(body[f]) : id < FirstId
      /\ \A f, g \in Funcs : f # g =>
           /\ Ids(InstsOf(body[f])) \cap Ids(InstsOf(body[g])) = {}
           /\ Labels(body[f]) \cap Labels(body[g]) = {}
  BY <1>1, BodiesAssumption
<1>3. \A f \in Funcs : OK(body[f], nextId)
  BY <1>1, <1>2 DEF OK
<1>4. InstsOf(promoted) = <<>> /\ promoted \in Seq(Block)
  BY <1>1, InstsEmpty
<1>5. Ids(InstsOf(promoted)) = {} /\ DistinctIds(InstsOf(promoted))
      /\ ToSet(InstsOf(promoted)) = {}
  BY <1>4 DEF Ids, DistinctIds, ToSet
<1>6. BodiesInv
  BY <1>1, <1>2, <1>3, <1>4, <1>5 DEF BodiesInv
<1>7. \A f \in Funcs : ToSet(InstsOf(body[f])) \subseteq Inst
  BY <1>2, InstsType, ElementsTyped
<1>8. \A t : t \in tags <=>
        \E f \in Funcs : \E x \in ToSet(InstsOf(body[f])) : \E n \in MdNames :
          Has(x, n) /\ t = <<x.id, n, x.md[n]>>
  BY <1>1 DEF TagsOf
<1>9. \A t \in tags : \E id, n, v : t = <<id, n, v>>
  BY <1>8
<1>10. ASSUME NEW id, NEW n, NEW v, <<id, n, v>> \in tags
       PROVE  \E x \in Inst : /\ Tagged(x) /\ n \in MdNames /\ Has(x, n)
                              /\ x.id = id /\ x.md[n] = v
  <2>0. PICK f \in Funcs : \E x \in ToSet(InstsOf(body[f])) : \E m \in MdNames :
          Has(x, m) /\ <<id, n, v>> = <<x.id, m, x.md[m]>>
    BY <1>8, <1>10
  <2>1. PICK x \in ToSet(InstsOf(body[f])), m \in MdNames :
          Has(x, m) /\ <<id, n, v>> = <<x.id, m, x.md[m]>>
    BY <2>0
  <2>2. x \in Inst /\ x.id = id /\ n = m /\ x.md[n] = v
    BY <1>7, <2>1
  <2>3. Tagged(x)
    BY <2>1 DEF Tagged, HasMetadata
  <2> QED
    BY <2>1, <2>2, <2>3
<1>11. ASSUME NEW x \in Inst, Tagged(x), NEW n \in MdNames, Has(x, n)
       PROVE  <<x.id, n, x.md[n]>> \in tags
  BY <1>5, <1>8, <1>11 DEF Tagged
<1>12. TagInv
  BY <1>9, <1>10, <1>11 DEF TagInv
<1> QED
  BY <1>6, <1>12

Edits(f, b, s) == body' = [body EXCEPT ![f][b].insts = s]
Puts(f, D) == body' = [body EXCEPT ![f] = D]

(* One function gets another body, made of what it had and fresh           *)
(* instructions and labels.                                                *)
LEMMA BodyStepApart ==
  ASSUME BodiesInv, NEW f \in Funcs, NEW D, Puts(f, D),
         nextId' \in Nat, nextId <= nextId', OK(D, nextId'),
         Ids(InstsOf(D)) \subseteq Ids(InstsOf(body[f])) \cup nextId..(nextId' - 1),
         Labels(D) \subseteq Labels(body[f]) \cup nextId..(nextId' - 1)
  PROVE  /\ body' \in [Funcs -> Seq(Block)]
         /\ \A g \in Funcs : body'[g] = IF g = f THEN D ELSE body[g]
         /\ \A g \in Funcs : OK(body'[g], nextId')
         /\ \A g, h \in Funcs : g # h =>
              /\ Ids(InstsOf(body'[g])) \cap Ids(InstsOf(body'[h])) = {}
              /\ Labels(body'[g]) \cap Labels(body'[h]) = {}
<1>1. /\ body \in [Funcs -> Seq(Block)] /\ nextId \in Nat
      /\ \A g \in Funcs : OK(body[g], nextId)
      /\ \A g, h \in Funcs : g # h =>
           /\ Ids(InstsOf(body[g])) \cap Ids(InstsOf(body[h])) = {}
           /\ Labels(body[g]) \cap Labels(body[h]) = {}
  BY DEF BodiesInv
<1>2. D \in Seq(Block)
  BY DEF OK
<1>3. /\ body' \in [Funcs -> Seq(Block)]
      /\ \A g \in Funcs : body'[g] = IF g = f THEN D ELSE body[g]
  BY <1>1, <1>2 DEF Puts
<1>4. \A g \in Funcs : OK(body'[g], nextId')
  BY <1>1, <1>3, OKBelow
<1>5. \A id \in nextId..(nextId' - 1) : ~ (id < nextId)
  BY <1>1
<1>6. \A g \in Funcs : \A id \in Ids(InstsOf(body[g])) \cup Labels(body[g]) : id < nextId
  BY <1>1 DEF OK
<1>7. ASSUME NEW g \in Funcs, g # f
      PROVE  /\ Ids(InstsOf(D)) \cap Ids(InstsOf(body[g])) = {}
             /\ Labels(D) \cap Labels(body[g]) = {}
  BY <1>1, <1>5, <1>6, <1>7
<1>8. \A g, h \in Funcs : g # h =>
        /\ Ids(InstsOf(body'[g])) \cap Ids(InstsOf(body'[h])) = {}
        /\ Labels(body'[g]) \cap Labels(body'[h]) = {}
  BY <1>1, <1>3, <1>7
<1> QED
  BY <1>3, <1>4, <1>8

LEMMA BodyStep ==
  ASSUME BodiesInv, NEW f \in Funcs, NEW D, Puts(f, D),
         nextId' \in Nat, nextId <= nextId', promoted' = promoted, OK(D, nextId'),
         Ids(InstsOf(D)) \subseteq Ids(InstsOf(body[f])) \cup nextId..(nextId' - 1),
         Labels(D) \subseteq Labels(body[f]) \cup nextId..(nextId' - 1)
  PROVE  BodiesInv'
<1>1. /\ nextId \in Nat /\ promoted \in Seq(Block)
      /\ DistinctIds(InstsOf(promoted))
      /\ \A id \in Ids(InstsOf(promoted)) : id < nextId
      /\ \A g \in Funcs : Ids(InstsOf(body[g])) \cap Ids(InstsOf(promoted)) = {}
  BY DEF BodiesInv
<1>2. /\ body' \in [Funcs -> Seq(Block)]
      /\ \A g \in Funcs : body'[g] = IF g = f THEN D ELSE body[g]
      /\ \A g \in Funcs : OK(body'[g], nextId')
      /\ \A g, h \in Funcs : g # h =>
           /\ Ids(InstsOf(body'[g])) \cap Ids(InstsOf(body'[h])) = {}
           /\ Labels(body'[g]) \cap Labels(body'[h]) = {}
  BY BodyStepApart
<1>3. \A id \in nextId..(nextId' - 1) : ~ (id < nextId)
  BY <1>1
<1>4. Ids(InstsOf(D)) \cap Ids(InstsOf(promoted)) = {}
  BY <1>1, <1>3
<1>5. \A id \in Ids(InstsOf(promoted)) : id < nextId'
  BY <1>1, InstsType, IdsNat
<1>6. \A g \in Funcs : Ids(InstsOf(body'[g])) \cap Ids(InstsOf(promoted)) = {}
  BY <1>1, <1>2, <1>4
<1> QED
  BY <1>1, <1>2, <1>5, <1>6 DEF BodiesInv

(* One block of one function does.                                         *)
LEMMA BlockStep ==
  ASSUME BodiesInv, NEW f \in Funcs, NEW b \in DOMAIN body[f], NEW x \in Block,
         Puts(f, [body[f] EXCEPT ![b] = x]),
         nextId' \in Nat, nextId <= nextId', promoted' = promoted,
         DistinctIds(x.insts), PadsFirst(x.insts), b = 1 => NoPads(x.insts),
         Ids(x.insts) \subseteq Ids(body[f][b].insts) \cup nextId..(nextId' - 1),
         x.label \in {body[f][b].label} \cup nextId..(nextId' - 1)
  PROVE  BodiesInv'
<1> DEFINE D == [body[f] EXCEPT ![b] = x]
<1>1. OK(body[f], nextId) /\ nextId \in Nat
  BY DEF BodiesInv
<1>2. /\ OK(D, nextId')
      /\ Ids(InstsOf(D)) \subseteq Ids(InstsOf(body[f])) \cup nextId..(nextId' - 1)
      /\ Labels(D) \subseteq Labels(body[f]) \cup nextId..(nextId' - 1)
  BY <1>1, ReplaceKeeps
<1> HIDE DEF D
<1>3. Puts(f, D)
  BY DEF D
<1> QED
  BY <1>2, <1>3, BodyStep

(* What is in the body then.                                               *)
LEMMA ReplaceElements ==
  ASSUME NEW B \in Seq(Block), NEW b \in DOMAIN B, NEW x \in Block
  PROVE  \A z : z \in ToSet(InstsOf([B EXCEPT ![b] = x]))
                  <=> \/ z \in ToSet(x.insts)
                      \/ \E c \in DOMAIN B \ {b} : z \in ToSet(B[c].insts)
<1> DEFINE D == [B EXCEPT ![b] = x]
<1>1. D \in Seq(Block) /\ DOMAIN D = DOMAIN B /\ D[b] = x
      /\ \A c \in DOMAIN B \ {b} : D[c] = B[c]
  OBVIOUS
<1> HIDE DEF D
<1>2. \A z : z \in ToSet(InstsOf(D)) <=> \E c \in DOMAIN D : z \in ToSet(D[c].insts)
  BY <1>1, InstsElements
<1>3. \A z : z \in ToSet(InstsOf(D))
               <=> \/ z \in ToSet(x.insts)
                   \/ \E c \in DOMAIN B \ {b} : z \in ToSet(B[c].insts)
  BY <1>1, <1>2
<1> QED
  BY <1>3 DEF D

LEMMA TagsKept ==
  ASSUME TagInv, tags' = tags, \A x \in Inst : Tagged(x)' <=> Tagged(x)
  PROVE  TagInv'
<1>1. \A t \in tags' : \E id, n, v : t = <<id, n, v>>
  BY DEF TagInv
<1>2. ASSUME NEW id, NEW n, NEW v
      PROVE  <<id, n, v>> \in tags'
               <=> \E x \in Inst : /\ Tagged(x)' /\ n \in MdNames /\ Has(x, n)
                                   /\ x.id = id /\ x.md[n] = v
  <2>1. <<id, n, v>> \in tags
          <=> \E x \in Inst : /\ Tagged(x) /\ n \in MdNames /\ Has(x, n)
                              /\ x.id = id /\ x.md[n] = v
    BY DEF TagInv
  <2> QED
    BY <2>1
<1> QED
  BY <1>1, <1>2 DEF TagInv, Has

(* The instructions of a block are edited.                                 *)
Edited(f, b, s) == [body[f][b] EXCEPT !.insts = s]

LEMMA EditedBlock ==
  ASSUME BodiesInv, NEW f \in Funcs, NEW b \in DOMAIN body[f], NEW s \in Seq(Inst),
         Edits(f, b, s)
  PROVE  /\ Edited(f, b, s) \in Block /\ Edited(f, b, s).insts = s
         /\ Edited(f, b, s).label = body[f][b].label
         /\ Puts(f, [body[f] EXCEPT ![b] = Edited(f, b, s)])
<1>1. body[f] \in Seq(Block)
  BY DEF BodiesInv
<1>2. body[f][b] \in Block
  BY <1>1, BlockParts
<1> QED
  BY <1>2 DEF Edited, Block, Edits, Puts

(* Functions keep all instructions but those of f, which are as in D.      *)
LEMMA TaggedWhere ==
  ASSUME BodiesInv, NEW f \in Funcs, NEW D, Puts(f, D),
         promoted' = promoted
  PROVE  \A z : Tagged(z)'
                  <=> /\ HasMetadata(z)
                      /\ \/ z \in ToSet(InstsOf(D))
                         \/ \E g \in Funcs \ {f} : z \in ToSet(InstsOf(body[g]))
                         \/ z \in ToSet(InstsOf(promoted))
<1>1. \A g \in Funcs : body'[g] = IF g = f THEN D ELSE body[g]
  BY DEF BodiesInv, Puts
<1> QED
  BY <1>1 DEF Tagged, HasMetadata, Has

LEMMA InsertStep ==
  ASSUME BodiesInv, NEW f \in Funcs, NEW b \in DOMAIN body[f],
         NEW i \in 1..(Len(body[f][b].insts) + 1), NEW x \in Inst,
         x.id = nextId, x.kind \notin PhiOrPad,
         i <= Len(body[f][b].insts) => body[f][b].insts[i].kind \notin PhiOrPad,
         Edits(f, b, InsertAt(body[f][b].insts, i, x)),
         nextId' = nextId + 1, promoted' = promoted
  PROVE  /\ BodiesInv'
         /\ \A z : Tagged(z)' <=> Tagged(z) \/ (z = x /\ HasMetadata(x))
<1> DEFINE s == body[f][b].insts
           t == InsertAt(s, i, x)
           y == Edited(f, b, t)
           D == [body[f] EXCEPT ![b] = y]
<1>1. /\ body[f] \in Seq(Block) /\ OK(body[f], nextId) /\ nextId \in Nat
  BY DEF BodiesInv
<1>2. s \in Seq(Inst) /\ WellFormed(body[f])
  BY <1>1, BlockParts DEF OK
<1>3. t \in Seq(Inst)
  BY <1>2, InsertInst
<1>4. /\ y \in Block /\ y.insts = t /\ y.label = body[f][b].label
      /\ Puts(f, D)
  BY <1>3, EditedBlock
<1>5. Ids(s) \subseteq Ids(InstsOf(body[f])) /\ \A id \in Ids(s) : id < nextId
  <2>1. \A z \in ToSet(s) : z \in ToSet(InstsOf(body[f]))
    BY <1>1, InstsElements
  <2> QED
    BY <1>1, <2>1, IdsOfElements DEF OK
<1>6. PadsFirst(s) /\ (b = 1 => NoPads(s))
  BY <1>2 DEF WellFormed, NoPads
<1>7. DistinctIds(s)
  <2>1. /\ InstsOf(BlocksBefore(body[f], b)) \in Seq(Inst)
        /\ InstsOf(BlocksAfter(body[f], b)) \in Seq(Inst)
        /\ InstsOf(body[f]) = (InstsOf(BlocksBefore(body[f], b)) \o s) \o InstsOf(BlocksAfter(body[f], b))
    BY <1>1, SpliceInsts
  <2>2. InstsOf(body[f]) \in Seq(Inst) /\ DistinctIds(InstsOf(body[f]))
    BY <1>1, InstsType DEF OK
  <2>3. Distinct(InstsOf(body[f]), IdKey)
    BY <2>2, IdsAreKeys
  <2> HIDE DEF s
  <2>4. Distinct(s, IdKey)
    BY <1>2, <2>1, <2>3, MiddleKeys
  <2> QED
    BY <1>2, <2>4, IdsAreKeys
<1> HIDE DEF s
<1>8. i \in 1..(Len(s) + 1) /\ (i <= Len(s) => s[i].kind \notin PhiOrPad)
  BY DEF s
<1>9. x.id \notin Ids(s)
  BY <1>1, <1>5
<1>10. Ids(t) = Ids(s) \cup {x.id} /\ DistinctIds(t)
  BY <1>2, <1>7, <1>8, <1>9, InsertIds
<1>11. PadsFirst(t) /\ (b = 1 => NoPads(t))
  BY <1>2, <1>6, <1>8, InsertPads
<1>12. nextId' \in Nat /\ nextId <= nextId' /\ nextId \in nextId..(nextId' - 1)
  BY <1>1
<1>13. ToSet(t) = ToSet(s) \cup {x}
  BY <1>2, <1>8, InsertElements
<1> HIDE DEF t, y
<1>14. BodiesInv'
  <2>1. Ids(y.insts) \subseteq Ids(body[f][b].insts) \cup nextId..(nextId' - 1)
    BY <1>4, <1>10, <1>12 DEF s
  <2>2. /\ DistinctIds(y.insts) /\ PadsFirst(y.insts) /\ (b = 1 => NoPads(y.insts))
        /\ y.label \in {body[f][b].label} \cup nextId..(nextId' - 1)
    BY <1>4, <1>10, <1>11
  <2> QED
    BY <1>4, <1>12, <2>1, <2>2, BlockStep
<1>15. \A z : z \in ToSet(InstsOf(D)) <=> z \in ToSet(InstsOf(body[f])) \/ z = x
  <2>1. \A z : z \in ToSet(InstsOf(D))
                <=> \/ z \in ToSet(y.insts)
                    \/ \E c \in DOMAIN body[f] \ {b} : z \in ToSet(body[f][c].insts)
    BY <1>1, <1>4, ReplaceElements
  <2>2. \A z : z \in ToSet(InstsOf(body[f]))
                <=> \E c \in DOMAIN body[f] : z \in ToSet(body[f][c].insts)
    BY <1>1, InstsElements
  <2> QED
    BY <1>4, <1>13, <2>1, <2>2 DEF s
<1> HIDE DEF D
<1>16. \A z : Tagged(z)' <=> Tagged(z) \/ (z = x /\ HasMetadata(x))
  <2>1. \A z : Tagged(z)'
                  <=> /\ HasMetadata(z)
                      /\ \/ z \in ToSet(InstsOf(D))
                         \/ \E g \in Funcs \ {f} : z \in ToSet(InstsOf(body[g]))
                         \/ z \in ToSet(InstsOf(promoted))
    BY <1>4, TaggedWhere
  <2> QED
    BY <1>15, <2>1 DEF Tagged
<1> QED
  BY <1>14, <1>16

-----------------------------------------------------------------------------
(* A block among the others of its function.                               *)
LEMMA BlockAlone ==
  ASSUME NEW B, NEW n, OK(B, n), NEW b \in DOMAIN B
  PROVE  /\ B[b].insts \in Seq(Inst) /\ DistinctIds(B[b].insts)
         /\ PadsFirst(B[b].insts) /\ (b = 1 => NoPads(B[b].insts))
         /\ Ids(B[b].insts) \subseteq Ids(InstsOf(B))
         /\ \A id \in Ids(B[b].insts) : id < n
         /\ \A c \in DOMAIN B \ {b} : Ids(B[c].insts) \cap Ids(B[b].insts) = {}
<1> DEFINE s == B[b].insts
           P == InstsOf(BlocksBefore(B, b))
           Q == InstsOf(BlocksAfter(B, b))
<1>1. B \in Seq(Block) /\ WellFormed(B) /\ DistinctIds(InstsOf(B))
      /\ \A id \in Ids(InstsOf(B)) : id < n
  BY DEF OK
<1>2. s \in Seq(Inst)
  BY <1>1, BlockParts
<1>3. \A z \in ToSet(s) : z \in ToSet(InstsOf(B))
  BY <1>1, InstsElements
<1>4. Ids(s) \subseteq Ids(InstsOf(B))
  BY <1>3, IdsOfElements
<1>5. PadsFirst(s) /\ (b = 1 => NoPads(s))
  BY <1>1 DEF WellFormed, NoPads
<1>6. P \in Seq(Inst) /\ Q \in Seq(Inst) /\ InstsOf(B) = (P \o s) \o Q
  BY <1>1, SpliceInsts
<1>7. InstsOf(B) \in Seq(Inst)
  BY <1>1, InstsType
<1>8. Distinct(InstsOf(B), IdKey)
  BY <1>1, <1>7, IdsAreKeys
<1> HIDE DEF s, P, Q
<1>9. /\ Distinct(s, IdKey)
      /\ Keys(P, IdKey) \cap Keys(s, IdKey) = {}
      /\ (Keys(P, IdKey) \cup Keys(s, IdKey)) \cap Keys(Q, IdKey) = {}
  BY <1>2, <1>6, <1>8, MiddleKeys
<1>10. /\ DistinctIds(s) /\ Ids(P) \cap Ids(s) = {} /\ Ids(Q) \cap Ids(s) = {}
  BY <1>2, <1>6, <1>9, IdsAreKeys
<1>11. ASSUME NEW c \in DOMAIN B \ {b} PROVE Ids(B[c].insts) \cap Ids(s) = {}
  <2>1. /\ BlocksBefore(B, b) \in Seq(Block) /\ BlocksAfter(B, b) \in Seq(Block)
        /\ Len(BlocksBefore(B, b)) = b - 1 /\ Len(BlocksAfter(B, b)) = Len(B) - b
        /\ \A k \in 1..(b - 1) : BlocksBefore(B, b)[k] = B[k]
        /\ \A k \in 1..(Len(B) - b) : BlocksAfter(B, b)[k] = B[b + k]
    BY <1>1, SpliceParts
  <2>2. /\ b \in Nat /\ 1 <= b /\ b <= Len(B) /\ Len(B) \in Nat /\ c \in 1..Len(B) /\ c # b
    BY <1>1
  <2>3. CASE c < b
    <3>1. c \in 1..(b - 1) /\ c \in DOMAIN BlocksBefore(B, b)
      BY <2>1, <2>2, <2>3
    <3>2. BlocksBefore(B, b)[c] = B[c]
      BY <2>1, <3>1
    <3>3. \A z \in ToSet(B[c].insts) : z \in ToSet(P)
      BY <2>1, <3>1, <3>2, InstsElements DEF P
    <3>4. Ids(B[c].insts) \subseteq Ids(P)
      BY <3>3, IdsOfElements
    <3> QED
      BY <1>10, <3>4
  <2>4. CASE ~ (c < b)
    <3>1. c - b \in 1..(Len(B) - b) /\ b + (c - b) = c
      BY <2>2, <2>4
    <3>2. c - b \in DOMAIN BlocksAfter(B, b) /\ BlocksAfter(B, b)[c - b] = B[c]
      BY <2>1, <3>1
    <3>3. \A z \in ToSet(B[c].insts) : z \in ToSet(Q)
      BY <2>1, <3>2, InstsElements DEF Q
    <3>4. Ids(B[c].insts) \subseteq Ids(Q)
      BY <3>3, IdsOfElements
    <3> QED
      BY <1>10, <3>4
  <2> QED
    BY <2>3, <2>4
<1>12. \A id \in Ids(s) : id < n
  BY <1>1, <1>4
<1> QED
  BY <1>2, <1>4, <1>5, <1>10, <1>11, <1>12 DEF s

(* An identity tells where an instruction is.                              *)
LEMMA SameInst ==
  ASSUME NEW s, DistinctIds(s), NEW x \in ToSet(s), NEW y \in ToSet(s), x.id = y.id
  PROVE  x = y
<1>1. PICK i \in DOMAIN s : s[i] = x
  BY DEF ToSet
<1>2. PICK j \in DOMAIN s : s[j] = y
  BY DEF ToSet
<1> QED
  BY <1>1, <1>2 DEF DistinctIds

(* The node under a name is set.                                           *)
LEMMA WithNodeType ==
  ASSUME NEW x \in Inst, NEW name \in MdNames, NEW node \in Strings
  PROVE  LET y == WithNode(x, name, node)
         IN /\ y \in Inst /\ y.id = x.id /\ y.kind = x.kind
            /\ y.md[name] = node /\ node # NoNode
            /\ \A n \in MdNames \ {name} : y.md[n] = x.md[n]
<1>1. node # NoNode /\ node \in Nodes
  BY NodesAssumption DEF Nodes
<1> QED
  BY <1>1, InstParts DEF WithNode, Inst

LEMMA SetStep ==
  ASSUME BodiesInv, NEW f \in Funcs, NEW b \in DOMAIN body[f],
         NEW i \in DOMAIN body[f][b].insts, NEW x \in Inst,
         x.id = body[f][b].insts[i].id, x.kind = body[f][b].insts[i].kind,
         HasMetadata(x), Edits(f, b, [body[f][b].insts EXCEPT ![i] = x]),
         nextId' = nextId, promoted' = promoted
  PROVE  /\ BodiesInv'
         /\ \A z : Tagged(z)' <=> (Tagged(z) /\ z.id # x.id) \/ z = x
<1> DEFINE s == body[f][b].insts
           t == [s EXCEPT ![i] = x]
           y == Edited(f, b, t)
           D == [body[f] EXCEPT ![b] = y]
<1>1. body[f] \in Seq(Block) /\ OK(body[f], nextId) /\ nextId \in Nat
  BY DEF BodiesInv
<1>2. /\ s \in Seq(Inst) /\ DistinctIds(s) /\ PadsFirst(s) /\ (b = 1 => NoPads(s))
      /\ \A c \in DOMAIN body[f] \ {b} : Ids(body[f][c].insts) \cap Ids(s) = {}
  BY <1>1, BlockAlone
<1>3. t \in Seq(Inst)
  BY <1>2
<1>4. /\ y \in Block /\ y.insts = t /\ y.label = body[f][b].label /\ Puts(f, D)
  BY <1>3, EditedBlock
<1> HIDE DEF s
<1>5. i \in DOMAIN s /\ x.id = s[i].id /\ x.kind = s[i].kind
  BY DEF s
<1>6. /\ DOMAIN t = DOMAIN s /\ t[i] = x /\ \A k \in DOMAIN s \ {i} : t[k] = s[k]
  BY <1>2, <1>5
<1> HIDE DEF t, y
<1>7. \A k \in DOMAIN s : t[k].id = s[k].id /\ t[k].kind = s[k].kind
  BY <1>5, <1>6
<1>8. Ids(t) = Ids(s) /\ DistinctIds(t)
  BY <1>2, <1>6, <1>7 DEF Ids, DistinctIds
<1>9. PadsFirst(t) /\ (b = 1 => NoPads(t))
  <2>1. \A k \in DOMAIN s : \A j \in 1..(k - 1) : j \in DOMAIN s
    BY <1>2
  <2> QED
    BY <1>2, <1>6, <1>7, <2>1 DEF PadsFirst, NoPads
<1>10. BodiesInv'
  <2>1. /\ nextId' \in Nat /\ nextId <= nextId'
        /\ Ids(y.insts) \subseteq Ids(body[f][b].insts) \cup nextId..(nextId' - 1)
        /\ y.label \in {body[f][b].label} \cup nextId..(nextId' - 1)
    BY <1>1, <1>4, <1>8 DEF s
  <2> QED
    BY <1>4, <1>8, <1>9, <2>1, BlockStep
<1>11. \A z : z \in ToSet(t) <=> (z \in ToSet(s) /\ z.id # x.id) \/ z = x
  <2>1. ASSUME NEW k \in DOMAIN s, k # i PROVE s[k].id # x.id
    BY <1>2, <1>5, <2>1 DEF DistinctIds
  <2> QED
    BY <1>5, <1>6, <2>1 DEF ToSet
<1>12. x.id \in Ids(s)
  BY <1>5 DEF Ids
<1>13. \A z : z \in ToSet(InstsOf(D))
                <=> (z \in ToSet(InstsOf(body[f])) /\ z.id # x.id) \/ z = x
  <2>1. \A z : z \in ToSet(InstsOf(D))
                <=> \/ z \in ToSet(y.insts)
                    \/ \E c \in DOMAIN body[f] \ {b} : z \in ToSet(body[f][c].insts)
    BY <1>1, <1>4, ReplaceElements
  <2>2. \A z : z \in ToSet(InstsOf(body[f]))
                <=> \E c \in DOMAIN body[f] : z \in ToSet(body[f][c].insts)
    BY <1>1, InstsElements
  <2>3. \A c \in DOMAIN body[f] \ {b} : \A z \in ToSet(body[f][c].insts) : z.id # x.id
    BY <1>2, <1>12, IdsOfElements
  <2> QED
    BY <1>4, <1>11, <2>1, <2>2, <2>3 DEF s
<1> HIDE DEF D
<1>14. /\ \A g \in Funcs \ {f} : \A z \in ToSet(InstsOf(body[g])) : z.id # x.id
       /\ \A z \in ToSet(InstsOf(promoted)) : z.id # x.id
  <2>1. x.id \in Ids(InstsOf(body[f]))
    BY <1>1, <1>12, BlockAlone DEF s
  <2>2. /\ \A g \in Funcs \ {f} : x.id \notin Ids(InstsOf(body[g]))
        /\ x.id \notin Ids(InstsOf(promoted))
    BY <2>1 DEF BodiesInv
  <2> QED
    BY <2>2, IdsOfElements
<1>15. \A z : Tagged(z)' <=> (Tagged(z) /\ z.id # x.id) \/ z = x
  <2>1. \A z : Tagged(z)'
                  <=> /\ HasMetadata(z)
                      /\ \/ z \in ToSet(InstsOf(D))
                         \/ \E g \in Funcs \ {f} : z \in ToSet(InstsOf(body[g]))
                         \/ z \in ToSet(InstsOf(promoted))
    BY <1>4, TaggedWhere
  <2> QED
    BY <1>13, <1>14, <2>1 DEF Tagged
<1> QED
  BY <1>10, <1>15

(* What has to stay in the entry block is moved to its start.              *)
LEMMA PrepareParts ==
  ASSUME NEW s \in Seq(Inst)
  PROVE  LET t == PrepareToSplitEntryBlock(s)
         IN /\ t \in Seq(Inst) /\ ToSet(t) = ToSet(s)
            /\ DistinctIds(s) => DistinctIds(t)
            /\ NoPads(s) => NoPads(t)
<1> DEFINE T == OfKinds(KeptInEntry)
           U == OfKinds(Kinds \ KeptInEntry)
           p == Select(s, T)
           q == Select(s, U)
           t == p \o q
<1>1. PrepareToSplitEntryBlock(s) = t
  BY DEF PrepareToSplitEntryBlock
<1>2. p \in Seq(Inst) /\ q \in Seq(Inst)
  BY SelectType
<1>3. ToSet(p) = ToSet(s) \cap T /\ ToSet(q) = ToSet(s) \cap U
  BY SelectElements
<1>4. ToSet(s) \subseteq Inst
  BY ElementsTyped
<1>5. T \cap U = {} /\ ToSet(s) \subseteq T \cup U
  BY <1>4, InstParts DEF OfKinds
<1> HIDE DEF p, q, T, U
<1>6. t \in Seq(Inst)
  BY <1>2, ConcatProperties
<1>7. ToSet(t) = ToSet(p) \cup ToSet(q)
  BY <1>2, ToSetConcat
<1>8. ToSet(t) = ToSet(s)
  BY <1>3, <1>5, <1>7
<1>9. ASSUME DistinctIds(s) PROVE DistinctIds(t)
  <2>1. Distinct(s, IdKey)
    BY <1>9, IdsAreKeys
  <2>2. Distinct(p, IdKey) /\ Distinct(q, IdKey)
    BY <2>1, SelectDistinct DEF p, q
  <2>3. Ids(p) \cap Ids(q) = {}
    <3>1. ASSUME NEW x \in ToSet(p), NEW y \in ToSet(q), x.id = y.id PROVE FALSE
      <4>1. x \in ToSet(s) /\ y \in ToSet(s) /\ x # y
        BY <1>3, <1>5, <3>1
      <4> QED
        BY <1>9, <3>1, <4>1, SameInst
    <3> QED
      BY <3>1, IdsOfElements
  <2>4. Keys(p, IdKey) \cap Keys(q, IdKey) = {}
    BY <1>2, <2>3, IdsAreKeys
  <2>5. Distinct(t, IdKey)
    BY <1>2, <2>2, <2>4, DistinctConcat
  <2> HIDE DEF t
  <2> QED
    BY <1>6, <2>5, IdsAreKeys
<1> HIDE DEF t
<1>10. ASSUME NoPads(s) PROVE NoPads(t)
  <2>1. \A x \in ToSet(s) : x.kind \notin PhiOrPad
    BY <1>10 DEF NoPads, ToSet
  <2>2. \A i \in DOMAIN t : t[i] \in ToSet(t)
    BY DEF ToSet
  <2> QED
    BY <1>8, <2>1, <2>2 DEF NoPads
<1> QED
  BY <1>1, <1>6, <1>8, <1>9, <1>10

LEMMA PrepareStep ==
  ASSUME BodiesInv, NEW f \in Funcs,
         Edits(f, 1, PrepareToSplitEntryBlock(body[f][1].insts)),
         nextId' = nextId, promoted' = promoted
  PROVE  BodiesInv' /\ \A z : Tagged(z)' <=> Tagged(z)
<1> DEFINE s == body[f][1].insts
           t == PrepareToSplitEntryBlock(s)
           y == Edited(f, 1, t)
           D == [body[f] EXCEPT ![1] = y]
<1>1. /\ body[f] \in Seq(Block) /\ OK(body[f], nextId) /\ nextId \in Nat
      /\ WellFormed(body[f])
  BY DEF BodiesInv, OK
<1>2. 1 \in DOMAIN body[f]
  <2>1. Len(body[f]) # 0 /\ Len(body[f]) \in Nat
    BY <1>1, EmptySeq DEF WellFormed
  <2> QED
    BY <1>1, <2>1
<1>3. s \in Seq(Inst) /\ DistinctIds(s) /\ NoPads(s)
  BY <1>1, <1>2, BlockAlone
<1> HIDE DEF s
<1>4. t \in Seq(Inst) /\ ToSet(t) = ToSet(s) /\ DistinctIds(t) /\ NoPads(t)
  BY <1>3, PrepareParts
<1>5. Edits(f, 1, t)
  BY DEF s
<1> HIDE DEF t
<1>6. /\ y \in Block /\ y.insts = t /\ y.label = body[f][1].label /\ Puts(f, D)
  BY <1>2, <1>4, <1>5, EditedBlock
<1> HIDE DEF y
<1>7. BodiesInv'
  <2>1. Ids(t) = Ids(s)
    <3>1. \A id : id \in Ids(t) <=> id \in Ids(s)
      BY <1>4, IdsOfElements
    <3> QED
      BY <3>1
  <2>2. /\ nextId' \in Nat /\ nextId <= nextId'
        /\ Ids(y.insts) \subseteq Ids(body[f][1].insts) \cup nextId..(nextId' - 1)
        /\ y.label \in {body[f][1].label} \cup nextId..(nextId' - 1)
    BY <1>1, <1>6, <2>1 DEF s
  <2>3. DistinctIds(y.insts) /\ PadsFirst(y.insts) /\ NoPads(y.insts)
    BY <1>4, <1>6, NoPadsFirst
  <2> QED
    BY <1>2, <1>6, <2>2, <2>3, BlockStep
<1>8. \A z : z \in ToSet(InstsOf(D)) <=> z \in ToSet(InstsOf(body[f]))
  <2>1. \A z : z \in ToSet(InstsOf(D))
                <=> \/ z \in ToSet(y.insts)
                    \/ \E c \in DOMAIN body[f] \ {1} : z \in ToSet(body[f][c].insts)
    BY <1>1, <1>2, <1>6, ReplaceElements
  <2>2. \A z : z \in ToSet(InstsOf(body[f]))
                <=> \E c \in DOMAIN body[f] : z \in ToSet(body[f][c].insts)
    BY <1>1, InstsElements
  <2> QED
    BY <1>2, <1>4, <1>6, <2>1, <2>2 DEF s
<1> HIDE DEF D
<1>9. \A z : Tagged(z)' <=> Tagged(z)
  <2>1. \A z : Tagged(z)'
                  <=> /\ HasMetadata(z)
                      /\ \/ z \in ToSet(InstsOf(D))
                         \/ \E g \in Funcs \ {f} : z \in ToSet(InstsOf(body[g]))
                         \/ z \in ToSet(InstsOf(promoted))
    BY <1>6, TaggedWhere
  <2> QED
    BY <1>8, <2>1 DEF Tagged
<1> QED
  BY <1>7, <1>9

(* A block is split before its i-th instruction.                           *)
LEMMA SplitParts ==
  ASSUME NEW block \in Block, NEW i \in DOMAIN block.insts,
         block.insts[i].kind \notin PhiOrPad, PadsFirst(block.insts),
         NEW label \in Nat, NEW br \in Inst, br.kind \notin PhiOrPad
  PROVE  LET u == UpTo(block, i, br)
             v == From(block, i, label)
         IN /\ u \in Block /\ v \in Block
            /\ u.label = block.label /\ v.label = label
            /\ u.insts = Append(SubSeq(block.insts, 1, i - 1), br)
            /\ v.insts = SubSeq(block.insts, i, Len(block.insts))
            /\ PadsFirst(u.insts) /\ NoPads(v.insts)
            /\ NoPads(block.insts) => NoPads(u.insts)
            /\ InstsOf(<<u, v>>) = InsertAt(block.insts, i, br)
<1> DEFINE s == block.insts
           p == SubSeq(s, 1, i - 1)
           q == SubSeq(s, i, Len(s))
           u == UpTo(block, i, br)
           v == From(block, i, label)
           y == <<br>>
<1>1. s \in Seq(Inst) /\ block.label \in Nat
  BY DEF Block
<1> HIDE DEF s
<1>2. i \in DOMAIN s /\ s[i].kind \notin PhiOrPad /\ PadsFirst(s)
  BY DEF s
<1>3. /\ p \in Seq(Inst) /\ Len(p) = i - 1 /\ PadsFirst(p) /\ (NoPads(s) => NoPads(p))
  BY <1>1, <1>2, PrefixPads
<1>4. q \in Seq(Inst) /\ NoPads(q)
  BY <1>1, <1>2, SuffixPads
<1>5. /\ u = [block EXCEPT !.insts = Append(p, br)]
      /\ v = [label |-> label, insts |-> q]
  BY DEF UpTo, From, s
<1>6. InsertAt(s, i, br) = (p \o y) \o q
  BY DEF InsertAt
<1> HIDE DEF p, q, u, v
<1>7. Append(p, br) \in Seq(Inst) /\ Append(p, br) = p \o y /\ y \in Seq(Inst)
  BY <1>3, AppendIsConcat
<1>8. /\ u \in Block /\ v \in Block /\ u.label = block.label /\ v.label = label
      /\ u.insts = Append(p, br) /\ v.insts = q
  BY <1>4, <1>5, <1>7 DEF Block
<1>9. PadsFirst(Append(p, br)) /\ (NoPads(s) => NoPads(Append(p, br)))
  <2> DEFINE n == Len(p) + 1
  <2>1. n \in 1..(Len(p) + 1) /\ ~ (n <= Len(p))
    BY <1>3
  <2>2. Append(p, br) = InsertAt(p, n, br)
    BY <1>3, AppendIsInsert
  <2> HIDE DEF n
  <2>3. /\ PadsFirst(p) => PadsFirst(InsertAt(p, n, br))
        /\ NoPads(p) => NoPads(InsertAt(p, n, br))
    BY <1>3, <2>1, InsertPads
  <2> QED
    BY <1>3, <2>2, <2>3
<1>10. InstsOf(<<u, v>>) = InsertAt(s, i, br)
  <2> DEFINE uu == <<u>>
             vv == <<v>>
  <2>0. u \in Block /\ v \in Block
    BY <1>8
  <2>1. <<u, v>> = uu \o vv
    BY <2>0, PairIsConcat
  <2>3. uu \in Seq(Block) /\ vv \in Seq(Block)
    BY <2>0
  <2>2. InstsOf(uu) = u.insts /\ InstsOf(vv) = v.insts
    BY <1>8, InstsOne
  <2> HIDE DEF uu, vv
  <2>4. InstsOf(uu \o vv) = InstsOf(uu) \o InstsOf(vv)
    BY <2>3, InstsConcat
  <2> QED
    BY <1>6, <1>7, <1>8, <2>1, <2>2, <2>4
<1> QED
  BY <1>8, <1>9, <1>10, <1>4 DEF s, p, q, u, v

LEMMA SplitStep ==
  ASSUME BodiesInv, NEW f \in Funcs, NEW b \in DOMAIN body[f],
         NEW i \in DOMAIN body[f][b].insts,
         body[f][b].insts[i].kind \notin PhiOrPad,
         NEW br, br = NewInst(nextId + 1, "term"),
         Puts(f, Splice(body[f], b,
                        <<UpTo(body[f][b], i, br), From(body[f][b], i, nextId)>>)),
         nextId' = nextId + 2, promoted' = promoted
  PROVE  BodiesInv' /\ \A z : Tagged(z)' <=> Tagged(z)
<1> DEFINE B == body[f]
           s == B[b].insts
           u == UpTo(B[b], i, br)
           v == From(B[b], i, nextId)
           mid == <<u, v>>
           D == Splice(B, b, mid)
           fresh == nextId..(nextId' - 1)
<1>1. B \in Seq(Block) /\ OK(B, nextId) /\ nextId \in Nat /\ B[b] \in Block
  BY BlockParts DEF BodiesInv
<1>2. /\ s \in Seq(Inst) /\ DistinctIds(s) /\ PadsFirst(s) /\ (b = 1 => NoPads(s))
      /\ \A id \in Ids(s) : id < nextId
  BY <1>1, BlockAlone
<1>3. /\ br \in Inst /\ br.id = nextId + 1 /\ br.kind \notin PhiOrPad
      /\ ~ HasMetadata(br)
  <2>1. "term" \in Kinds /\ "term" \notin PhiOrPad /\ nextId + 1 \in Nat
    BY <1>1 DEF Kinds, Terminators, PhiOrPad, EHPads
  <2> QED
    BY <2>1, NewInstType DEF HasMetadata
<1>4. /\ u \in Block /\ v \in Block /\ u.label = B[b].label /\ v.label = nextId
      /\ PadsFirst(u.insts) /\ NoPads(v.insts) /\ (NoPads(s) => NoPads(u.insts))
      /\ InstsOf(mid) = InsertAt(s, i, br)
  <2> DEFINE x == B[b]
             j == nextId
  <2>1. /\ x \in Block /\ i \in DOMAIN x.insts /\ x.insts[i].kind \notin PhiOrPad
        /\ PadsFirst(x.insts) /\ j \in Nat /\ br \in Inst /\ br.kind \notin PhiOrPad
    BY <1>1, <1>2, <1>3
  <2> HIDE DEF x, j
  <2>2. LET uu == UpTo(x, i, br)
            vv == From(x, i, j)
        IN /\ uu \in Block /\ vv \in Block /\ uu.label = x.label /\ vv.label = j
           /\ PadsFirst(uu.insts) /\ NoPads(vv.insts)
           /\ (NoPads(x.insts) => NoPads(uu.insts))
           /\ InstsOf(<<uu, vv>>) = InsertAt(x.insts, i, br)
    BY <2>1, SplitParts
  <2> QED
    BY <2>2 DEF x, j
<1> HIDE DEF u, v
<1>5. i \in 1..(Len(s) + 1)
  BY <1>2
<1>6. mid \in Seq(Block) /\ mid # <<>> /\ DOMAIN mid = {1, 2} /\ mid[1] = u /\ mid[2] = v
  <2>1. mid \in Seq(Block)
    BY <1>4, PairIsConcat
  <2> QED
    BY <2>1
<1>7. nextId' \in Nat /\ nextId <= nextId' /\ nextId + 1 \in fresh /\ nextId \in fresh
  BY <1>1
<1> HIDE DEF s, fresh
<1>8. ToSet(InstsOf(mid)) = ToSet(s) \cup {br}
  BY <1>2, <1>3, <1>4, <1>5, InsertElements
<1>9. DistinctIds(InstsOf(mid)) /\ Ids(InstsOf(mid)) = Ids(s) \cup {br.id}
  <2>1. br.id \notin Ids(s)
    BY <1>1, <1>2, <1>3
  <2> QED
    BY <1>2, <1>3, <1>4, <1>5, <2>1, InsertIds
<1> HIDE DEF mid
<1>10. Labels(mid) \subseteq {B[b].label} \cup fresh /\ DistinctLabels(mid)
  <2>1. B[b].label # nextId
    <3>1. B[b].label \in Labels(B)
      BY DEF Labels
    <3>2. B[b].label < nextId
      BY <1>1, <3>1 DEF OK
    <3> QED
      BY <1>1, <3>2
  <2> QED
    BY <1>4, <1>6, <1>7, <2>1 DEF Labels, DistinctLabels
<1>11. Fits(mid, B[b], b = 1, nextId, nextId')
  <2>1. \A c \in DOMAIN mid : PadsFirst(mid[c].insts)
    BY <1>4, <1>6, NoPadsFirst
  <2>2. b = 1 => NoPads(mid[1].insts)
    BY <1>2, <1>4, <1>6
  <2>3. Ids(InstsOf(mid)) \subseteq Ids(B[b].insts) \cup fresh
    BY <1>3, <1>7, <1>9 DEF s
  <2> QED
    BY <1>6, <1>9, <1>10, <2>1, <2>2, <2>3 DEF Fits, fresh
<1>12. /\ OK(D, nextId')
       /\ Ids(InstsOf(D)) \subseteq Ids(InstsOf(B)) \cup nextId..(nextId' - 1)
       /\ Labels(D) \subseteq Labels(B) \cup nextId..(nextId' - 1)
  BY <1>1, <1>7, <1>11, SpliceKeeps
<1>13. \A z : z \in ToSet(InstsOf(D)) <=> z \in ToSet(InstsOf(B)) \/ z = br
  <2> DEFINE P == InstsOf(BlocksBefore(B, b))
             Q == InstsOf(BlocksAfter(B, b))
             t == InstsOf(mid)
  <2>1. /\ P \in Seq(Inst) /\ Q \in Seq(Inst) /\ t \in Seq(Inst)
        /\ InstsOf(D) = (P \o t) \o Q /\ InstsOf(B) = (P \o s) \o Q
    BY <1>1, <1>6, SpliceInsts DEF s
  <2> HIDE DEF P, Q, t, D
  <2>2. /\ ToSet((P \o t) \o Q) = (ToSet(P) \cup ToSet(t)) \cup ToSet(Q)
        /\ ToSet((P \o s) \o Q) = (ToSet(P) \cup ToSet(s)) \cup ToSet(Q)
    BY <1>2, <2>1, MiddleElements
  <2> QED
    BY <1>8, <2>1, <2>2 DEF t
<1>14. Puts(f, D)
  BY DEF D, mid, u, v
<1> HIDE DEF D
<1>15. BodiesInv'
  BY <1>7, <1>12, <1>14, BodyStep
<1>16. \A z : Tagged(z)' <=> Tagged(z)
  <2>1. \A z : Tagged(z)'
                  <=> /\ HasMetadata(z)
                      /\ \/ z \in ToSet(InstsOf(D))
                         \/ \E g \in Funcs \ {f} : z \in ToSet(InstsOf(body[g]))
                         \/ z \in ToSet(InstsOf(promoted))
    BY <1>14, TaggedWhere
  <2> QED
    BY <1>3, <1>13, <2>1 DEF Tagged
<1> QED
  BY <1>15, <1>16

(* A block moves to a function of its own.                                 *)
LEMMA CallOfPromotedParts ==
  ASSUME nextId \in Nat
  PROVE  /\ CallOfPromoted \in Block /\ CallOfPromoted.label = nextId
         /\ DistinctIds(CallOfPromoted.insts) /\ NoPads(CallOfPromoted.insts)
         /\ Ids(CallOfPromoted.insts) = {nextId + 1, nextId + 2}
         /\ \A z \in ToSet(CallOfPromoted.insts) : ~ HasMetadata(z)
         /\ Len(CallOfPromoted.insts) = 2
         /\ CallOfPromoted.insts[1] = NewInst(nextId + 1, "op")
         /\ CallOfPromoted.insts[2] = NewInst(nextId + 2, "term")
<1> DEFINE x == NewInst(nextId + 1, "op")
           y == NewInst(nextId + 2, "term")
           s == <<x, y>>
<1>1. /\ x \in Inst /\ x.id = nextId + 1 /\ x.kind = "op" /\ ~ HasMetadata(x)
      /\ y \in Inst /\ y.id = nextId + 2 /\ y.kind = "term" /\ ~ HasMetadata(y)
  <2>1. "op" \in Kinds /\ "term" \in Kinds
    BY DEF Kinds, Terminators
  <2> QED
    BY <2>1, NewInstType DEF HasMetadata
<1>2. CallOfPromoted = [label |-> nextId, insts |-> s]
  BY DEF CallOfPromoted
<1> HIDE DEF x, y
<1>3. s \in Seq(Inst) /\ Len(s) = 2 /\ s[1] = x /\ s[2] = y /\ DOMAIN s = {1, 2}
  BY <1>1
<1> HIDE DEF s
<1>4. DistinctIds(s) /\ NoPads(s)
  BY <1>1, <1>3 DEF DistinctIds, NoPads, PhiOrPad, EHPads
<1>5. ToSet(s) = {x, y}
  BY <1>3 DEF ToSet
<1>6. Ids(s) = {nextId + 1, nextId + 2}
  BY <1>1, <1>3 DEF Ids
<1> QED
  BY <1>1, <1>2, <1>3, <1>4, <1>5, <1>6 DEF Block, x, y

LEMMA ExtractStep ==
  ASSUME BodiesInv, NEW f \in Funcs, NEW b \in DOMAIN body[f],
         Puts(f, [body[f] EXCEPT ![b] = CallOfPromoted]),
         promoted' = Append(promoted, body[f][b]), nextId' = nextId + 3
  PROVE  BodiesInv' /\ \A z : Tagged(z)' <=> Tagged(z)
<1> DEFINE B == body[f]
           x == CallOfPromoted
           D == [B EXCEPT ![b] = x]
           s == B[b].insts
           old == InstsOf(promoted)
<1>1. /\ B \in Seq(Block) /\ OK(B, nextId) /\ nextId \in Nat /\ B[b] \in Block
      /\ promoted \in Seq(Block) /\ DistinctIds(old)
      /\ \A id \in Ids(old) : id < nextId
      /\ \A g \in Funcs : Ids(InstsOf(body[g])) \cap Ids(old) = {}
  BY BlockParts DEF BodiesInv
<1>2. /\ s \in Seq(Inst) /\ DistinctIds(s) /\ Ids(s) \subseteq Ids(InstsOf(B))
      /\ \A c \in DOMAIN B \ {b} : Ids(B[c].insts) \cap Ids(s) = {}
      /\ \A id \in Ids(s) : id < nextId
  BY <1>1, BlockAlone
<1>3. /\ x \in Block /\ x.label = nextId
      /\ DistinctIds(x.insts) /\ NoPads(x.insts)
      /\ Ids(x.insts) = {nextId + 1, nextId + 2}
      /\ \A z \in ToSet(x.insts) : ~ HasMetadata(z)
  BY <1>1, CallOfPromotedParts
<1> HIDE DEF x
<1>4. /\ nextId' \in Nat /\ nextId <= nextId' /\ nextId \in nextId..(nextId' - 1)
      /\ nextId + 1 \in nextId..(nextId' - 1) /\ nextId + 2 \in nextId..(nextId' - 1)
  BY <1>1
<1>5. /\ OK(D, nextId')
      /\ Ids(InstsOf(D)) \subseteq Ids(InstsOf(B)) \cup nextId..(nextId' - 1)
      /\ Labels(D) \subseteq Labels(B) \cup nextId..(nextId' - 1)
  <2>1. /\ PadsFirst(x.insts) /\ (b = 1 => NoPads(x.insts))
        /\ Ids(x.insts) \subseteq Ids(B[b].insts) \cup nextId..(nextId' - 1)
        /\ x.label \in {B[b].label} \cup nextId..(nextId' - 1)
    BY <1>3, <1>4, NoPadsFirst
  <2> QED
    BY <1>1, <1>3, <1>4, <2>1, ReplaceKeeps
<1>6. \A z : z \in ToSet(InstsOf(D))
               <=> \/ z \in ToSet(x.insts)
                   \/ \E c \in DOMAIN B \ {b} : z \in ToSet(B[c].insts)
  BY <1>1, <1>3, ReplaceElements
<1>7. Ids(InstsOf(D)) \cap Ids(s) = {}
  <2>1. \A z \in ToSet(x.insts) : z.id \notin Ids(s)
    <3>1. nextId + 1 \notin Ids(s) /\ nextId + 2 \notin Ids(s)
      BY <1>1, <1>2
    <3>2. \A z \in ToSet(x.insts) : z.id \in Ids(x.insts)
      BY IdsOfElements
    <3> QED
      BY <1>3, <3>1, <3>2
  <2>2. \A c \in DOMAIN B \ {b} : \A z \in ToSet(B[c].insts) : z.id \notin Ids(s)
    BY <1>2, IdsOfElements
  <2>3. \A z \in ToSet(InstsOf(D)) : z.id \notin Ids(s)
    BY <1>6, <2>1, <2>2
  <2> QED
    BY <2>3, IdsOfElements
<1>8. Puts(f, D)
  BY DEF x
<1> DEFINE new == InstsOf(promoted')
<1>9. /\ promoted' \in Seq(Block) /\ new \in Seq(Inst) /\ DistinctIds(new)
      /\ ToSet(new) = ToSet(old) \cup ToSet(s)
      /\ Ids(new) = Ids(old) \cup Ids(s)
  <2> DEFINE y == <<B[b]>>
  <2>1. y \in Seq(Block) /\ promoted' = promoted \o y /\ promoted' \in Seq(Block)
    BY <1>1, AppendIsConcat
  <2>2. InstsOf(y) = s
    BY <1>1, InstsOne
  <2> HIDE DEF y, s
  <2>3. InstsOf(promoted \o y) = InstsOf(promoted) \o InstsOf(y)
    BY <1>1, <2>1, InstsConcat
  <2>4. new = old \o s
    BY <2>1, <2>2, <2>3
  <2>5. new \in Seq(Inst) /\ old \in Seq(Inst)
    BY <1>1, <2>1, InstsType
  <2> HIDE DEF new, old
  <2>6. ToSet(new) = ToSet(old) \cup ToSet(s)
    BY <1>2, <2>4, <2>5, ToSetConcat
  <2>7. Ids(new) = Ids(old) \cup Ids(s)
    BY <2>6, IdsOfElements
  <2>8. Ids(old) \cap Ids(s) = {}
    BY <1>1, <1>2
  <2>9. /\ Distinct(old, IdKey) /\ Distinct(s, IdKey)
        /\ Keys(old, IdKey) \cap Keys(s, IdKey) = {}
    BY <1>1, <1>2, <2>5, <2>8, IdsAreKeys
  <2>10. Distinct(new, IdKey)
    BY <1>2, <2>4, <2>5, <2>9, DistinctConcat
  <2>11. DistinctIds(new)
    BY <2>5, <2>10, IdsAreKeys
  <2> QED
    BY <2>1, <2>5, <2>6, <2>7, <2>11
<1> HIDE DEF D, new, old, s
<1>10. /\ body' \in [Funcs -> Seq(Block)]
       /\ \A g \in Funcs : body'[g] = IF g = f THEN D ELSE body[g]
       /\ \A g \in Funcs : OK(body'[g], nextId')
       /\ \A g, h \in Funcs : g # h =>
            /\ Ids(InstsOf(body'[g])) \cap Ids(InstsOf(body'[h])) = {}
            /\ Labels(body'[g]) \cap Labels(body'[h]) = {}
  BY <1>4, <1>5, <1>8, BodyStepApart
<1>11. \A id \in Ids(new) : id < nextId'
  <2>1. Ids(new) \subseteq Nat
    BY <1>9, IdsNat
  <2>2. \A id \in Ids(new) : id < nextId
    BY <1>1, <1>2, <1>9
  <2> QED
    BY <1>1, <2>1, <2>2
<1>12. ASSUME NEW g \in Funcs PROVE Ids(InstsOf(body'[g])) \cap Ids(new) = {}
  <2>1. CASE g = f
    <3>1. Ids(InstsOf(D)) \cap Ids(old) = {}
      <4>1. \A id \in nextId..(nextId' - 1) : ~ (id < nextId)
        BY <1>1
      <4> QED
        BY <1>1, <1>5, <4>1
    <3> QED
      BY <1>7, <1>9, <1>10, <2>1, <3>1
  <2>2. CASE g # f
    <3>1. Ids(InstsOf(body[g])) \cap Ids(InstsOf(B)) = {}
      BY <2>2 DEF BodiesInv
    <3> QED
      BY <1>1, <1>2, <1>9, <1>10, <2>2, <3>1
  <2> QED
    BY <2>1, <2>2
<1>13. BodiesInv'
  BY <1>4, <1>9, <1>10, <1>11, <1>12 DEF BodiesInv, new
<1>14. \A z : z \in ToSet(InstsOf(B))
                <=> \E c \in DOMAIN B : z \in ToSet(B[c].insts)
  BY <1>1, InstsElements
<1>15. \A z : HasMetadata(z) =>
         (z \in ToSet(InstsOf(D)) \/ z \in ToSet(s) <=> z \in ToSet(InstsOf(B)))
  BY <1>3, <1>6, <1>14 DEF s
<1>16. \A z : Tagged(z)' <=> Tagged(z)
  BY <1>9, <1>10, <1>15 DEF Tagged, HasMetadata, Has, new, old
<1> QED
  BY <1>13, <1>16

-----------------------------------------------------------------------------
(* Where the passes have got to.                                           *)

AtInst ==
  /\ netBlock \in DOMAIN body[netFn]
  /\ netInst \in 1..(Len(body[netFn][netBlock].insts) + 1)
  /\ netInst <= Len(body[netFn][netBlock].insts) =>
       body[netFn][netBlock].insts[netInst].kind \notin PhiOrPad

NetCtl ==
  /\ netFn \in Funcs \cup {0} /\ netBlock \in Nat /\ netInst \in Nat
  /\ modified \in BOOLEAN /\ preserved \in [Funcs -> {"unknown", "all", "cfg"}]
  /\ netFn # 0 =>
       /\ Current("breakpoint-net") /\ cur = netFn + 1 /\ netFn \notin OptNone
       /\ netBlock \in 1..(Len(body[netFn]) + 1)
       /\ netInst # 0 => AtInst

CurCtl ==
  /\ cur \in Nat /\ edits \in 0..MaxEdits
  /\ \/ cur = 1
     \/ Current("breakpoint-net") /\ cur \in 1..(N + 1)
     \/ CurrentPromote /\ cur = 2

PrCtl ==
  /\ prPhase \in {"idle", "collect", "split", "extract"}
  /\ perInstruction \in BOOLEAN
  /\ prPhase # "idle" =>
       CurrentPromote /\ cur = 2 /\ perInstruction = Current("promote-instructions")
  /\ prPhase = "idle" => blocksToPromote = <<>>
  /\ prPhase = "collect" => prFn \in 1..(N + 1)
  /\ prPhase = "split" => prFn \in Funcs \ OptNone /\ perInstruction
  /\ prPhase = "extract" => prFn = N + 1

Reached == IF prPhase = "split" THEN 1..prFn ELSE 1..(prFn - 1)

LabelsInv ==
  /\ blocksToPromote \in Seq(Nat)
  /\ \A i, j \in DOMAIN blocksToPromote :
       blocksToPromote[i] = blocksToPromote[j] => i = j
  /\ \A i \in DOMAIN blocksToPromote :
       \E f \in Reached \ OptNone :
         f \in Funcs /\ blocksToPromote[i] \in Labels(body[f])

PendingInv ==
  /\ insts \in Seq(Inst) /\ DistinctIds(insts)
  /\ IF prPhase = "split"
     THEN ToSet(insts) \subseteq ToSet(InstsOf(body[prFn])) \cap Splittable
     ELSE insts = <<>>

(* Once something was parsed no block is under construction.               *)
TermInv ==
  pipePhase # "parse" \/ position # 1 => \A f \in Funcs : Terminated(body[f])

-----------------------------------------------------------------------------
(* Editing.                                                                *)

(* A node is attached to x under a name; old is x as it was before.        *)
LEMMA TagStep ==
  ASSUME TagInv, NEW x \in Inst, NEW old \in Inst, NEW name \in MdNames, NEW node,
         node # NoNode, x.md[name] = node,
         \A n \in MdNames \ {name} : x.md[n] = old.md[n],
         Tag(x.id, name, node),
         \A z \in Inst : Tagged(z) /\ z.id = x.id <=> z = old /\ HasMetadata(old),
         \A z \in Inst : Tagged(z)' <=> (Tagged(z) /\ z.id # x.id) \/ z = x
  PROVE  TagInv'
<1>1. tags' = {t \in tags : t[1] # x.id \/ t[2] # name} \cup {<<x.id, name, node>>}
  BY DEF Tag
<1>2. \A t \in tags' : \E id, n, v : t = <<id, n, v>>
  BY <1>1 DEF TagInv
<1>3. Has(x, name)
  BY DEF Has
<1>4. ASSUME NEW id, NEW n, NEW v
      PROVE  <<id, n, v>> \in tags'
               <=> \E z \in Inst : /\ Tagged(z)' /\ n \in MdNames /\ Has(z, n)
                                   /\ z.id = id /\ z.md[n] = v
  <2>1. <<id, n, v>> \in tags
          <=> \E z \in Inst : /\ Tagged(z) /\ n \in MdNames /\ Has(z, n)
                              /\ z.id = id /\ z.md[n] = v
    BY DEF TagInv
  <2>2. <<id, n, v>> \in tags'
          <=> \/ <<id, n, v>> \in tags /\ (id # x.id \/ n # name)
              \/ id = x.id /\ n = name /\ v = node
    BY <1>1
  <2>3. CASE id # x.id
    BY <2>1, <2>2, <2>3
  <2>4. CASE id = x.id /\ n = name
    BY <1>3, <2>2, <2>4
  <2>5. CASE id = x.id /\ n # name
    <3>1. n \in MdNames => (Has(x, n) <=> Has(old, n)) /\ x.md[n] = old.md[n]
      BY <2>5 DEF Has
    <3>2. n \in MdNames /\ Has(old, n) => HasMetadata(old)
      BY DEF HasMetadata
    <3>3. <<id, n, v>> \in tags <=> n \in MdNames /\ Has(old, n) /\ old.md[n] = v
      BY <2>1, <2>5, <3>2
    <3>4. (\E z \in Inst : /\ Tagged(z)' /\ n \in MdNames /\ Has(z, n)
                           /\ z.id = id /\ z.md[n] = v)
            <=> n \in MdNames /\ Has(x, n) /\ x.md[n] = v
      BY <2>5
    <3> QED
      BY <2>2, <2>5, <3>1, <3>3, <3>4
  <2> QED
    BY <2>3, <2>4, <2>5
<1> QED
  BY <1>2, <1>4 DEF TagInv, Has

(* An identity tells which instruction it is, and where.                   *)
LEMMA TaggedSame ==
  ASSUME BodiesInv, NEW f \in Funcs, NEW x \in ToSet(InstsOf(body[f]))
  PROVE  \A z \in Inst : Tagged(z) /\ z.id = x.id <=> z = x /\ HasMetadata(x)
<1>1. /\ OK(body[f], nextId)
      /\ \A g \in Funcs \ {f} :
           Ids(InstsOf(body[f])) \cap Ids(InstsOf(body[g])) = {}
      /\ Ids(InstsOf(body[f])) \cap Ids(InstsOf(promoted)) = {}
  BY DEF BodiesInv
<1>2. x.id \in Ids(InstsOf(body[f]))
  BY IdsOfElements
<1>3. ASSUME NEW z, Tagged(z), z.id = x.id PROVE z = x /\ HasMetadata(x)
  <2>1. \/ \E g \in Funcs : z \in ToSet(InstsOf(body[g]))
        \/ z \in ToSet(InstsOf(promoted))
    BY <1>3 DEF Tagged
  <2>2. z \notin ToSet(InstsOf(promoted))
    BY <1>1, <1>2, <1>3, IdsOfElements
  <2>3. \A g \in Funcs \ {f} : z \notin ToSet(InstsOf(body[g]))
    BY <1>1, <1>2, <1>3, IdsOfElements
  <2>4. z \in ToSet(InstsOf(body[f]))
    BY <2>1, <2>2, <2>3
  <2>5. z = x
    BY <1>1, <1>3, <2>4, SameInst DEF OK
  <2> QED
    BY <1>3, <2>5 DEF Tagged
<1>4. HasMetadata(x) => Tagged(x)
  BY DEF Tagged
<1> QED
  BY <1>3, <1>4

LEMMA TaggedBelow ==
  ASSUME BodiesInv, NEW z, Tagged(z) PROVE z.id < nextId
<1>1. ASSUME NEW f \in Funcs, z \in ToSet(InstsOf(body[f])) PROVE z.id < nextId
  BY <1>1, IdsOfElements DEF BodiesInv, OK
<1>2. ASSUME z \in ToSet(InstsOf(promoted)) PROVE z.id < nextId
  BY <1>2, IdsOfElements DEF BodiesInv
<1> QED
  BY <1>1, <1>2 DEF Tagged

(* When no pass that rearranges is run, whatever becomes of the bodies.    *)
ctlVars == <<netFn, netBlock, netInst, modified, preserved, cur,
             prPhase, perInstruction, prFn, insts, blocksToPromote>>

Ctl == NetCtl /\ CurCtl /\ PrCtl /\ LabelsInv /\ PendingInv

LEMMA Quiet ==
  ASSUME Ctl, ~ Current("breakpoint-net"), ~ CurrentPromote
  PROVE  /\ netFn = 0 /\ cur = 1 /\ prPhase = "idle"
         /\ insts = <<>> /\ blocksToPromote = <<>>
<1>1. netFn = 0
  BY DEF Ctl, NetCtl
<1>2. cur = 1
  BY DEF Ctl, CurCtl
<1>3. prPhase = "idle"
  BY DEF Ctl, PrCtl
<1> QED
  BY <1>1, <1>2, <1>3 DEF Ctl, PrCtl, PendingInv

LEMMA QuietStep ==
  ASSUME Ctl, netFn = 0, cur = 1, prPhase = "idle", insts = <<>>,
         blocksToPromote = <<>>, UNCHANGED ctlVars, edits' \in 0..MaxEdits
  PROVE  Ctl'
<1>1. NetCtl'
  BY DEF Ctl, NetCtl, ctlVars
<1>2. CurCtl'
  BY DEF Ctl, CurCtl, ctlVars
<1>3. PrCtl'
  BY DEF Ctl, PrCtl, ctlVars
<1>4. LabelsInv' /\ PendingInv'
  BY DEF Ctl, LabelsInv, PendingInv, ctlVars, DistinctIds
<1> QED
  BY <1>1, <1>2, <1>3, <1>4 DEF Ctl

LEMMA BeforeQuiet ==
  ASSUME Ctl, pipePhase # "run"
  PROVE  /\ netFn = 0 /\ cur = 1 /\ prPhase = "idle"
         /\ insts = <<>> /\ blocksToPromote = <<>>
<1>1. ~ Current("breakpoint-net") /\ ~ CurrentPromote
  BY DEF Current, CurrentPromote
<1> QED
  BY <1>1, Quiet

LEMMA EditsBound ==
  ASSUME Ctl, edits > 0 PROVE edits - 1 \in 0..MaxEdits
<1>1. edits \in 0..MaxEdits /\ MaxEdits \in Nat
  BY EditsAssumption DEF Ctl, CurCtl
<1> QED
  BY <1>1

LEMMA AttachStep ==
  ASSUME BodiesInv, TagInv, Ctl, TermInv, Attach
  PROVE  BodiesInv' /\ TagInv' /\ Ctl' /\ TermInv'
<1>1. /\ pipePhase = "parse" /\ position = 1 /\ edits > 0 /\ edits' = edits - 1
      /\ UNCHANGED ctlVars /\ UNCHANGED pipeVars /\ promoted' = promoted
  BY DEF Attach, Editing, BeforeThePasses, ctlVars
<1>2. Ctl'
  BY <1>1, BeforeQuiet, QuietStep, EditsBound
<1>3. TermInv'
  BY <1>1 DEF TermInv, pipeVars
<1>4. PICK f \in Funcs, name \in MdNames, s \in Strings :
        \E b \in DOMAIN body[f] : \E i \in DOMAIN body[f][b].insts :
          /\ AttachMetadata(f, b, i, name, s)
          /\ Tag(body[f][b].insts[i].id, name, s)
  BY DEF Attach
<1>5. PICK b \in DOMAIN body[f] : \E i \in DOMAIN body[f][b].insts :
          /\ AttachMetadata(f, b, i, name, s)
          /\ Tag(body[f][b].insts[i].id, name, s)
  BY <1>4
<1>6. PICK i \in DOMAIN body[f][b].insts :
          /\ AttachMetadata(f, b, i, name, s)
          /\ Tag(body[f][b].insts[i].id, name, s)
  BY <1>5
<1> DEFINE old == body[f][b].insts[i]
           x == WithNode(old, name, s)
<1>7. /\ body[f] \in Seq(Block) /\ body[f][b].insts \in Seq(Inst)
  BY BlockParts DEF BodiesInv
<1>8. old \in Inst /\ old \in ToSet(InstsOf(body[f]))
  <2>1. old \in ToSet(body[f][b].insts)
    BY DEF ToSet
  <2> QED
    BY <1>7, <2>1, InstsElements
<1>9. Edits(f, b, [body[f][b].insts EXCEPT ![i] = x])
  BY <1>6 DEF AttachMetadata, Edits
<1> HIDE DEF old
<1>10. /\ x \in Inst /\ x.id = old.id /\ x.kind = old.kind
       /\ x.md[name] = s /\ s # NoNode
       /\ \A n \in MdNames \ {name} : x.md[n] = old.md[n]
  BY <1>8, WithNodeType
<1>11. HasMetadata(x) /\ nextId' = nextId
  BY <1>6, <1>10 DEF HasMetadata, Has, AttachMetadata
<1> HIDE DEF x
<1>12. /\ BodiesInv'
       /\ \A z : Tagged(z)' <=> (Tagged(z) /\ z.id # x.id) \/ z = x
  BY <1>1, <1>9, <1>10, <1>11, SetStep DEF old
<1>13. \A z \in Inst : Tagged(z) /\ z.id = x.id <=> z = old /\ HasMetadata(old)
  BY <1>8, <1>10, TaggedSame
<1>14. Tag(x.id, name, s)
  BY <1>6, <1>10 DEF old
<1>15. TagInv'
  BY <1>8, <1>10, <1>12, <1>13, <1>14, TagStep
<1> QED
  BY <1>2, <1>3, <1>12, <1>15

LEMMA MarkerPlaced ==
  ASSUME BodiesInv, NEW f \in Funcs, NEW b \in DOMAIN body[f],
         NEW name \in MdNames, NEW s \in Strings,
         \/ \E i \in DOMAIN body[f][b].insts : CreateMetadata(f, b, i, name, s)
         \/ CreateMetadataAtEnd(f, b, name, s)
  PROVE  /\ nextId' = nextId + 1
         /\ \E i \in 1..(Len(body[f][b].insts) + 1) :
              /\ i <= Len(body[f][b].insts) => body[f][b].insts[i].kind \notin PhiOrPad
              /\ Edits(f, b, InsertAt(body[f][b].insts, i,
                         WithNode(NewInst(nextId, "donothing"), name, s)))
<1> DEFINE t == body[f][b].insts
           x == WithNode(NewInst(nextId, "donothing"), name, s)
<1>1. t \in Seq(Inst) /\ nextId \in Nat
  BY BlockParts DEF BodiesInv
<1>2. x \in Inst
  <2>1. "donothing" \in Kinds
    BY DEF Kinds
  <2>2. NewInst(nextId, "donothing") \in Inst
    BY <1>1, <2>1, NewInstType
  <2> QED
    BY <2>2, WithNodeType
<1>3. ASSUME NEW i \in DOMAIN t, CreateMetadata(f, b, i, name, s)
      PROVE  /\ nextId' = nextId + 1 /\ i \in 1..(Len(t) + 1)
             /\ t[i].kind \notin PhiOrPad /\ Edits(f, b, InsertAt(t, i, x))
  BY <1>1, <1>3 DEF CreateMetadata, Edits
<1>4. ASSUME CreateMetadataAtEnd(f, b, name, s)
      PROVE  /\ nextId' = nextId + 1 /\ Len(t) + 1 \in 1..(Len(t) + 1)
             /\ ~ (Len(t) + 1 <= Len(t)) /\ Edits(f, b, InsertAt(t, Len(t) + 1, x))
  <2>1. nextId' = nextId + 1 /\ Edits(f, b, Append(t, x))
    BY <1>4 DEF CreateMetadataAtEnd, Edits
  <2> HIDE DEF t, x
  <2>2. Append(t, x) = InsertAt(t, Len(t) + 1, x)
    BY <1>1, <1>2, AppendIsInsert
  <2> QED
    BY <1>1, <2>1, <2>2
<1> HIDE DEF x
<1>5. \/ \E i \in DOMAIN t : CreateMetadata(f, b, i, name, s)
      \/ CreateMetadataAtEnd(f, b, name, s)
  OBVIOUS
<1> HIDE DEF t
<1>6. /\ nextId' = nextId + 1
      /\ \E i \in 1..(Len(t) + 1) :
           (i <= Len(t) => t[i].kind \notin PhiOrPad) /\ Edits(f, b, InsertAt(t, i, x))
  BY <1>3, <1>4, <1>5
<1> QED
  BY <1>6 DEF t, x

LEMMA CreateMarkerStep ==
  ASSUME BodiesInv, TagInv, Ctl, TermInv, CreateMarker
  PROVE  BodiesInv' /\ TagInv' /\ Ctl' /\ TermInv'
<1>1. /\ pipePhase = "parse" /\ position = 1 /\ edits > 0 /\ edits' = edits - 1
      /\ UNCHANGED ctlVars /\ UNCHANGED pipeVars /\ promoted' = promoted
  BY DEF CreateMarker, Editing, BeforeThePasses, ctlVars
<1>2. Ctl'
  BY <1>1, BeforeQuiet, QuietStep, EditsBound
<1>3. TermInv'
  BY <1>1 DEF TermInv, pipeVars
<1>4. PICK f \in Funcs, name \in MdNames, s \in Strings :
        \E b \in DOMAIN body[f] :
         /\ \/ \E i \in DOMAIN body[f][b].insts : CreateMetadata(f, b, i, name, s)
            \/ CreateMetadataAtEnd(f, b, name, s)
         /\ Tag(nextId, name, s)
  BY DEF CreateMarker
<1>5. PICK b \in DOMAIN body[f] :
         /\ \/ \E i \in DOMAIN body[f][b].insts : CreateMetadata(f, b, i, name, s)
            \/ CreateMetadataAtEnd(f, b, name, s)
         /\ Tag(nextId, name, s)
  BY <1>4
<1> DEFINE old == NewInst(nextId, "donothing")
           x == WithNode(old, name, s)
<1>6. /\ nextId' = nextId + 1
      /\ \E i \in 1..(Len(body[f][b].insts) + 1) :
           /\ i <= Len(body[f][b].insts) => body[f][b].insts[i].kind \notin PhiOrPad
           /\ Edits(f, b, InsertAt(body[f][b].insts, i, x))
  BY <1>5, MarkerPlaced
<1>7. old \in Inst /\ old.id = nextId /\ old.kind = "donothing" /\ ~ HasMetadata(old)
      /\ nextId \in Nat
  <2>1. "donothing" \in Kinds /\ nextId \in Nat
    BY DEF Kinds, BodiesInv
  <2> QED
    BY <2>1, NewInstType DEF HasMetadata
<1> HIDE DEF old
<1>8. /\ x \in Inst /\ x.id = old.id /\ x.kind = old.kind
      /\ x.md[name] = s /\ s # NoNode
      /\ \A n \in MdNames \ {name} : x.md[n] = old.md[n]
  BY <1>7, WithNodeType
<1>9. HasMetadata(x) /\ x.kind \notin PhiOrPad
  BY <1>7, <1>8 DEF HasMetadata, Has, PhiOrPad, EHPads
<1> HIDE DEF x
<1>10. PICK i \in 1..(Len(body[f][b].insts) + 1) :
           /\ i <= Len(body[f][b].insts) => body[f][b].insts[i].kind \notin PhiOrPad
           /\ Edits(f, b, InsertAt(body[f][b].insts, i, x))
  BY <1>6
<1>11. /\ BodiesInv'
       /\ \A z : Tagged(z)' <=> Tagged(z) \/ (z = x /\ HasMetadata(x))
  BY <1>1, <1>6, <1>7, <1>8, <1>9, <1>10, InsertStep
<1>12. \A z : Tagged(z) => z.id # x.id
  BY <1>7, <1>8, TaggedBelow
<1>13. TagInv'
  BY <1>5, <1>7, <1>8, <1>9, <1>11, <1>12, TagStep
<1> QED
  BY <1>2, <1>3, <1>11, <1>13

LEMMA TerminateStep ==
  ASSUME BodiesInv, TagInv, Ctl, TermInv, Terminate
  PROVE  BodiesInv' /\ TagInv' /\ Ctl' /\ TermInv'
<1>1. /\ pipePhase = "parse" /\ UNCHANGED <<edits, tags>> /\ nextId' = nextId + 1
      /\ UNCHANGED ctlVars /\ UNCHANGED pipeVars /\ promoted' = promoted
  BY DEF Terminate, BeforeThePasses, ctlVars
<1>2. Ctl'
  <2>1. edits' \in 0..MaxEdits
    BY <1>1 DEF Ctl, CurCtl
  <2> QED
    BY <1>1, <2>1, BeforeQuiet, QuietStep
<1>3. PICK f \in Funcs : \E b \in DOMAIN body[f] :
        /\ Last(body[f][b].insts).kind \notin Terminators
        /\ body' = [body EXCEPT ![f][b].insts =
                      Append(@, NewInst(nextId, "term"))]
  BY DEF Terminate
<1>4. PICK b \in DOMAIN body[f] :
        /\ Last(body[f][b].insts).kind \notin Terminators
        /\ body' = [body EXCEPT ![f][b].insts =
                      Append(@, NewInst(nextId, "term"))]
  BY <1>3
<1>5. position = 1
  BY <1>1, <1>4 DEF TermInv, Terminated
<1>6. TermInv'
  BY <1>1, <1>5 DEF TermInv, pipeVars
<1> DEFINE t == body[f][b].insts
           x == NewInst(nextId, "term")
           i == Len(t) + 1
<1>7. t \in Seq(Inst) /\ nextId \in Nat
  BY BlockParts DEF BodiesInv
<1>8. x \in Inst /\ x.id = nextId /\ x.kind \notin PhiOrPad /\ ~ HasMetadata(x)
  <2>1. "term" \in Kinds /\ "term" \notin PhiOrPad
    BY DEF Kinds, Terminators, PhiOrPad, EHPads
  <2> QED
    BY <1>7, <2>1, NewInstType DEF HasMetadata
<1>9. Edits(f, b, Append(t, x))
  BY <1>4 DEF Edits
<1> HIDE DEF x
<1>10. Append(t, x) = InsertAt(t, i, x)
  BY <1>7, <1>8, AppendIsInsert
<1>11. i \in 1..(Len(t) + 1) /\ ~ (i <= Len(t))
  BY <1>7
<1>12. /\ BodiesInv'
       /\ \A z : Tagged(z)' <=> Tagged(z) \/ (z = x /\ HasMetadata(x))
  BY <1>1, <1>8, <1>9, <1>10, <1>11, InsertStep
<1>13. TagInv'
  BY <1>1, <1>8, <1>12, TagsKept
<1> QED
  BY <1>2, <1>6, <1>12, <1>13

-----------------------------------------------------------------------------
(* Steps that leave most alone.                                            *)

LEMMA SameBodies ==
  ASSUME BodiesInv, TagInv, UNCHANGED <<body, nextId, promoted, tags>>
  PROVE  BodiesInv' /\ TagInv'
<1>1. \A f \in Funcs : OK(body'[f], nextId')
  BY DEF BodiesInv
<1>2. BodiesInv'
  BY <1>1 DEF BodiesInv, DistinctIds
<1>3. \A x \in Inst : Tagged(x)' <=> Tagged(x)
  BY DEF Tagged, HasMetadata, Has
<1> QED
  BY <1>2, <1>3, TagsKept

LEMMA SameTerminated ==
  ASSUME body' = body, TermInv, pipePhase # "parse" \/ position # 1
  PROVE  TermInv'
BY DEF TermInv, Terminated

LEMMA IdleStep ==
  ASSUME Ctl, prPhase = "idle",
         UNCHANGED <<prPhase, perInstruction, prFn, insts, blocksToPromote>>
  PROVE  PrCtl' /\ LabelsInv' /\ PendingInv'
<1>1. blocksToPromote = <<>> /\ insts = <<>>
  BY DEF Ctl, PrCtl, PendingInv
<1>2. PrCtl'
  BY DEF Ctl, PrCtl
<1> QED
  BY <1>1, <1>2 DEF Ctl, LabelsInv, PendingInv, DistinctIds

LEMMA PassEndStep ==
  ASSUME Ctl, netFn = 0, prPhase = "idle", cur' = 1, edits' = edits,
         UNCHANGED <<netFn, netBlock, netInst, modified, preserved>>,
         UNCHANGED <<prPhase, perInstruction, prFn, insts, blocksToPromote>>
  PROVE  Ctl'
<1>1. PrCtl' /\ LabelsInv' /\ PendingInv'
  BY IdleStep
<1>2. NetCtl'
  BY DEF Ctl, NetCtl
<1>3. CurCtl'
  BY DEF Ctl, CurCtl
<1> QED
  BY <1>1, <1>2, <1>3 DEF Ctl

LEMMA ParseStepStep ==
  ASSUME BodiesInv, TagInv, Ctl, TermInv, ParseStep
  PROVE  BodiesInv' /\ TagInv' /\ Ctl' /\ TermInv'
<1>1. /\ UNCHANGED <<body, nextId, promoted, tags>> /\ cur' = cur /\ edits' = edits
      /\ UNCHANGED <<netFn, netBlock, netInst, modified, preserved>>
      /\ UNCHANGED <<prPhase, perInstruction, prFn, insts, blocksToPromote>>
      /\ \A f \in Funcs : Terminated(body[f])
  BY DEF ParseStep, netVars, prVars, imVars
<1>2. pipePhase # "run"
  BY DEF ParseStep, Parse, ParseElement, ParseFails, ParseEnds,
         RunPassPipeline, Run, OptRun
<1>3. netFn = 0 /\ cur = 1 /\ prPhase = "idle"
  BY <1>2, BeforeQuiet
<1>4. Ctl'
  BY <1>1, <1>3, PassEndStep
<1>5. TermInv'
  BY <1>1 DEF TermInv, Terminated
<1> QED
  BY <1>1, <1>4, <1>5, SameBodies

LEMMA PassEndsStep ==
  ASSUME BodiesInv, TagInv, Ctl, TermInv,
         NetPassEnds \/ PromotePassEnds \/ OtherPass \/ PipelineEnds
  PROVE  BodiesInv' /\ TagInv' /\ Ctl' /\ TermInv'
<1>1. /\ UNCHANGED <<body, nextId, promoted, tags>> /\ edits' = edits
      /\ UNCHANGED <<netFn, netBlock, netInst, modified, preserved>>
      /\ UNCHANGED <<prPhase, perInstruction, prFn, insts, blocksToPromote>>
      /\ pipePhase = "run" /\ pipePhase' # "parse"
  BY DEF NetPassEnds, PromotePassEnds, OtherPass, PipelineEnds, netVars, prVars,
         imVars, PassEnds, RunEnds
<1>2. netFn = 0 /\ prPhase = "idle" /\ cur' = 1
  <2>1. CASE NetPassEnds
    BY <2>1 DEF NetPassEnds, NetIdle, Ctl, PrCtl, Current, CurrentPromote
  <2>2. CASE PromotePassEnds
    BY <2>2 DEF PromotePassEnds, Ctl, NetCtl, Current, CurrentPromote
  <2>3. CASE OtherPass
    BY <2>3, Quiet DEF OtherPass, imVars
  <2>4. CASE PipelineEnds
    <3>1. ~ Current("breakpoint-net") /\ ~ CurrentPromote
      BY <2>4 DEF PipelineEnds, RunEnds, Current, CurrentPromote
    <3> QED
      BY <2>4, <3>1, Quiet DEF PipelineEnds, imVars
  <2> QED
    BY <2>1, <2>2, <2>3, <2>4
<1>3. Ctl'
  BY <1>1, <1>2, PassEndStep
<1>4. TermInv'
  BY <1>1, SameTerminated
<1> QED
  BY <1>1, <1>3, <1>4, SameBodies

-----------------------------------------------------------------------------
(* breakpoint-net.                                                         *)

LEMMA SkipPoint ==
  ASSUME NEW s \in Seq(Inst), NEW i \in 1..(Len(s) + 1), NEW kinds
  PROVE  LET j == SkipKinds(s, i, kinds)
         IN /\ j \in i..(Len(s) + 1)
            /\ j <= Len(s) => s[j].kind \notin kinds
            /\ \A k \in i..(j - 1) : s[k].kind \in kinds
<1> DEFINE stops == {j \in i..Len(s) : s[j].kind \notin kinds}
           j == SkipKinds(s, i, kinds)
<1>1. stops \in SUBSET Nat /\ Len(s) \in Nat
  OBVIOUS
<1>2. j = IF stops = {} THEN Len(s) + 1 ELSE Min(stops)
  BY DEF SkipKinds
<1>3. \A k \in i..Len(s) : k \in stops <=> s[k].kind \notin kinds
  OBVIOUS
<1>4. \A k \in stops : k \in i..Len(s)
  OBVIOUS
<1>5. CASE stops = {}
  <2>1. j = Len(s) + 1
    BY <1>2, <1>5
  <2> HIDE DEF stops, j
  <2> QED
    BY <1>1, <1>3, <1>5, <2>1 DEF j
<1>6. CASE stops # {}
  <2>1. j \in stops /\ \A k \in stops : j <= k
    BY <1>1, <1>2, <1>6, MinOfSet
  <2> HIDE DEF stops, j
  <2>2. j \in i..Len(s) /\ s[j].kind \notin kinds
    BY <1>3, <1>4, <2>1
  <2>3. ASSUME NEW k \in i..(j - 1) PROVE s[k].kind \in kinds
    <3>1. k \in i..Len(s) /\ ~ (j <= k)
      BY <1>1, <2>2
    <3> QED
      BY <1>3, <2>1, <3>1
  <2> QED
    BY <1>1, <2>2, <2>3 DEF j
<1> QED
  BY <1>5, <1>6

LEMMA InsertionPointType ==
  ASSUME NEW B \in Seq(Block), NEW b \in DOMAIN B
  PROVE  /\ InsertionPoint(B, b) \in 1..(Len(B[b].insts) + 1)
         /\ InsertionPoint(B, b) <= Len(B[b].insts) =>
              B[b].insts[InsertionPoint(B, b)].kind \notin PhiOrPad
<1> DEFINE s == B[b].insts
           i == IF b = 1 THEN SkipKinds(s, 1, {"alloca"}) ELSE 1
<1>1. s \in Seq(Inst) /\ Len(s) \in Nat
  BY BlockParts
<1>2. i \in 1..(Len(s) + 1)
  <2>1. 1 \in 1..(Len(s) + 1)
    BY <1>1
  <2> HIDE DEF s
  <2>2. SkipKinds(s, 1, {"alloca"}) \in 1..(Len(s) + 1)
    BY <1>1, <2>1, SkipPoint
  <2> QED
    BY <2>1, <2>2
<1>3. InsertionPoint(B, b) = SkipKinds(s, i, PhiOrPad)
  BY DEF InsertionPoint
<1> HIDE DEF s, i
<1>4. /\ SkipKinds(s, i, PhiOrPad) \in i..(Len(s) + 1)
      /\ SkipKinds(s, i, PhiOrPad) <= Len(s) =>
           s[SkipKinds(s, i, PhiOrPad)].kind \notin PhiOrPad
  BY <1>1, <1>2, SkipPoint
<1> QED
  BY <1>1, <1>2, <1>3, <1>4 DEF s

(* Behind the pads there are no more pads.                                 *)
LEMMA AfterPads ==
  ASSUME NEW s \in Seq(Inst), PadsFirst(s), NEW i \in DOMAIN s, NEW j \in DOMAIN s,
         i <= j, s[i].kind \notin PhiOrPad
  PROVE  s[j].kind \notin PhiOrPad
<1>1. i \in 1..(j - 1) \/ i = j
  OBVIOUS
<1> QED
  BY <1>1 DEF PadsFirst, PhiOrPad

LEMMA InsertAtEnds ==
  ASSUME NEW s \in Seq(Inst), NEW i \in 1..Len(s), NEW x \in Inst
  PROVE  LET t == InsertAt(s, i, x)
         IN /\ t \in Seq(Inst) /\ t # <<>> /\ Len(t) = Len(s) + 1 /\ Last(t) = Last(s)
            /\ \A k \in 1..(Len(s) + 1) :
                 t[k] = IF k < i THEN s[k] ELSE IF k = i THEN x ELSE s[k - 1]
<1> DEFINE t == InsertAt(s, i, x)
           n == Len(s)
<1>1. i \in 1..(n + 1) /\ i \in 1..(Len(s) + 1) /\ n \in Nat /\ n >= 1
  OBVIOUS
<1>0. t \in Seq(Inst) /\ Len(t) = n + 1 /\ Inserted(s, i, x, t)
  BY <1>1, InsertInst
<1>2. /\ t \in Seq(Inst) /\ Len(t) = n + 1
      /\ \A k \in 1..(n + 1) : t[k] = IF k < i THEN s[k] ELSE IF k = i THEN x ELSE s[k - 1]
  <2> HIDE DEF t
  <2> QED
    BY <1>0 DEF Inserted
<1> HIDE DEF t
<1>3. t[n + 1] = s[n]
  <2>1. n + 1 \in 1..(n + 1) /\ ~ (n + 1 < i) /\ n + 1 # i /\ (n + 1) - 1 = n
    BY <1>1
  <2> QED
    BY <1>2, <2>1
<1>4. t # <<>>
  BY <1>1, <1>2
<1> QED
  BY <1>2, <1>3, <1>4 DEF t, Last

(* The function that is given another body ends its blocks as before.      *)
LEMMA OneTerminated ==
  ASSUME BodiesInv, TermInv, pipePhase = "run", NEW f \in Funcs, NEW D, Puts(f, D),
         Terminated(D)
  PROVE  TermInv'
<1>1. body \in [Funcs -> Seq(Block)] /\ \A g \in Funcs : Terminated(body[g])
  BY DEF BodiesInv, TermInv
<1>2. \A g \in Funcs : body'[g] = IF g = f THEN D ELSE body[g]
  BY <1>1 DEF Puts
<1>3. \A g \in Funcs : Terminated(body'[g])
  BY <1>1, <1>2
<1> QED
  BY <1>3 DEF TermInv, Terminated

LEMMA EditTerminated ==
  ASSUME BodiesInv, TermInv, pipePhase = "run",
         NEW f \in Funcs, NEW b \in DOMAIN body[f], NEW s \in Seq(Inst),
         Edits(f, b, s), s # <<>>, Last(s).kind \in Terminators
  PROVE  TermInv'
<1> DEFINE y == Edited(f, b, s)
           D == [body[f] EXCEPT ![b] = y]
<1>1. body[f] \in Seq(Block) /\ Terminated(body[f])
  BY DEF BodiesInv, TermInv
<1>2. y \in Block /\ y.insts = s /\ Puts(f, D)
  BY EditedBlock
<1> HIDE DEF y
<1>3. Terminated(D)
  BY <1>1, <1>2 DEF Terminated
<1> QED
  BY <1>2, <1>3, OneTerminated

LEMMA NetAlone ==
  ASSUME Ctl, Current("breakpoint-net")
  PROVE  /\ prPhase = "idle" /\ ~ CurrentPromote /\ pipePhase = "run"
         /\ cur \in 1..(N + 1) /\ edits \in 0..MaxEdits
<1>1. ~ CurrentPromote /\ pipePhase = "run"
  BY DEF Current, CurrentPromote
<1>2. 1 \in 1..(N + 1)
  BY FunctionsAssumption
<1> QED
  BY <1>1, <1>2 DEF Ctl, PrCtl, CurCtl

(* The pass is still the current one, and the others idle.                 *)
LEMMA NetCurrent ==
  ASSUME Ctl, Current("breakpoint-net"), UNCHANGED <<prVars, pipeVars, edits>>,
         NetCtl', cur' \in 1..(N + 1)
  PROVE  Ctl'
<1>1. prPhase = "idle" /\ edits \in 0..MaxEdits
  BY NetAlone
<1>2. UNCHANGED <<prPhase, perInstruction, prFn, insts, blocksToPromote>>
  BY DEF prVars
<1>3. PrCtl' /\ LabelsInv' /\ PendingInv'
  BY <1>1, <1>2, IdleStep
<1>4. Current("breakpoint-net")'
  BY DEF Current, pipeVars
<1>5. cur' \in Nat
  OBVIOUS
<1>6. CurCtl'
  BY <1>1, <1>4, <1>5 DEF CurCtl
<1> QED
  BY <1>3, <1>6 DEF Ctl

LEMMA NetSkipStep ==
  ASSUME BodiesInv, TagInv, Ctl, TermInv, Current("breakpoint-net"),
         cur \in Funcs, NetSkip(cur) \/ NetStart(cur), cur' = cur + 1,
         UNCHANGED <<prVars, pipeVars, edits, tags>>
  PROVE  BodiesInv' /\ TagInv' /\ Ctl' /\ TermInv'
<1>1. UNCHANGED <<body, nextId, promoted, tags>> /\ pipePhase = "run" /\ netFn = 0
      /\ netBlock \in Nat /\ netInst \in Nat
      /\ modified \in BOOLEAN /\ preserved \in [Funcs -> {"unknown", "all", "cfg"}]
  BY DEF NetSkip, NetStart, NetIdle, prVars, Current, Ctl, NetCtl
<1>2. cur \in 1..N /\ N \in Nat /\ cur + 1 \in 1..(N + 1)
  BY FunctionsAssumption DEF Funcs
<1>3. Current("breakpoint-net")'
  BY DEF Current, pipeVars
<1>4. ASSUME NetSkip(cur) PROVE NetCtl'
  <2>1. netFn' = 0 /\ netBlock' = netBlock /\ netInst' = netInst
        /\ modified' = modified /\ preserved' = [preserved EXCEPT ![cur] = "all"]
    BY <1>1, <1>4 DEF NetSkip
  <2> QED
    BY <1>1, <2>1 DEF NetCtl
<1>5. ASSUME NetStart(cur) PROVE NetCtl'
  <2>1. netFn' = cur /\ netBlock' = 1 /\ netInst' = 0 /\ modified' = FALSE
        /\ preserved' = preserved /\ cur \notin OptNone
    BY <1>5 DEF NetStart
  <2>2. 1 \in 1..(Len(body[cur]) + 1)
    <3>1. body[cur] \in Seq(Block)
      BY DEF BodiesInv
    <3> QED
      BY <3>1
  <2> QED
    BY <1>1, <1>3, <2>1, <2>2 DEF NetCtl
<1>6. NetCtl'
  BY <1>4, <1>5
<1>7. Ctl'
  BY <1>2, <1>6, NetCurrent
<1>8. TermInv'
  BY <1>1, SameTerminated
<1> QED
  BY <1>1, <1>7, <1>8, SameBodies

LEMMA NetMoveStep ==
  ASSUME BodiesInv, TagInv, Ctl, TermInv, Current("breakpoint-net"),
         NetEnterBlock \/ NetGiveUp \/ NetNextBlock \/ NetFinish, cur' = cur,
         UNCHANGED <<prVars, pipeVars, edits, tags>>
  PROVE  BodiesInv' /\ TagInv' /\ Ctl' /\ TermInv'
<1>1. UNCHANGED <<body, nextId, promoted, tags>> /\ netFn # 0
  BY DEF NetEnterBlock, NetGiveUp, NetNextBlock, NetFinish, AtBlock, prVars
<1>2. /\ netFn \in Funcs /\ netBlock \in Nat /\ netInst \in Nat
      /\ modified \in BOOLEAN /\ preserved \in [Funcs -> {"unknown", "all", "cfg"}]
      /\ cur = netFn + 1 /\ netFn \notin OptNone
      /\ netBlock \in 1..(Len(body[netFn]) + 1)
      /\ (netInst # 0 => AtInst)
  BY <1>1 DEF Ctl, NetCtl
<1>3. Current("breakpoint-net")' /\ pipePhase = "run"
  BY DEF Current, pipeVars
<1>4. body[netFn] \in Seq(Block)
  BY <1>2 DEF BodiesInv
<1>5. ASSUME NetEnterBlock PROVE NetCtl'
  <2>1. /\ netFn' = netFn /\ netBlock' = netBlock /\ modified' = modified
        /\ preserved' = preserved /\ netBlock \in DOMAIN body[netFn]
        /\ netInst' = InsertionPoint(body[netFn], netBlock)
    BY <1>5 DEF NetEnterBlock, AtBlock
  <2>2. /\ netInst' \in 1..(Len(body[netFn][netBlock].insts) + 1)
        /\ netInst' <= Len(body[netFn][netBlock].insts) =>
              body[netFn][netBlock].insts[netInst'].kind \notin PhiOrPad
    BY <1>4, <2>1, InsertionPointType
  <2>3. AtInst'
    BY <1>1, <2>1, <2>2 DEF AtInst
  <2>4. netInst' \in Nat
    BY <2>2
  <2> QED
    BY <1>1, <1>2, <1>3, <2>1, <2>3, <2>4 DEF NetCtl
<1>6. ASSUME NetGiveUp \/ NetFinish PROVE NetCtl'
  <2>1. PICK what \in {"all", "cfg"} : NetReturn(what) /\ modified' = modified
    BY <1>6 DEF NetGiveUp, NetFinish
  <2>2. netFn' = 0 /\ netBlock' = 0 /\ netInst' = 0
        /\ preserved' \in [Funcs -> {"unknown", "all", "cfg"}]
    BY <1>2, <2>1 DEF NetReturn
  <2> QED
    BY <1>2, <2>1, <2>2 DEF NetCtl
<1>7. ASSUME NetNextBlock PROVE NetCtl'
  <2>1. /\ netFn' = netFn /\ netBlock' = netBlock + 1 /\ netInst' = 0
        /\ modified' = modified /\ preserved' = preserved
        /\ netBlock \in DOMAIN body[netFn]
    BY <1>2, <1>7 DEF NetNextBlock, AtInst
  <2>2. netBlock' \in 1..(Len(body[netFn]) + 1) /\ netBlock' \in Nat
    BY <1>4, <2>1
  <2> QED
    BY <1>1, <1>2, <1>3, <2>1, <2>2 DEF NetCtl
<1>8. NetCtl'
  BY <1>5, <1>6, <1>7
<1>9. Ctl'
  BY <1>8, NetAlone, NetCurrent
<1>10. TermInv'
  BY <1>1, <1>3, SameTerminated
<1> QED
  BY <1>1, <1>9, <1>10, SameBodies

LEMMA NetTrapStep ==
  ASSUME BodiesInv, TagInv, Ctl, TermInv, Current("breakpoint-net"),
         NetTrap, cur' = cur, UNCHANGED <<prVars, pipeVars, edits, tags>>
  PROVE  BodiesInv' /\ TagInv' /\ Ctl' /\ TermInv'
<1> DEFINE f == netFn
           b == netBlock
           i == netInst
           s == body[f][b].insts
           x == NewInst(nextId, "trap")
           t == InsertAt(s, i, x)
<1>1. /\ nextId' = nextId + 1 /\ promoted' = promoted /\ netInst' = netInst + 2
      /\ netFn' = netFn /\ netBlock' = netBlock /\ preserved' = preserved
      /\ modified' = TRUE /\ Edits(f, b, t) /\ netFn # 0 /\ i # 0 /\ i <= Len(s)
  BY DEF NetTrap, Edits, prVars
<1>2. /\ netFn \in Funcs /\ netBlock \in Nat /\ netInst \in Nat
      /\ preserved \in [Funcs -> {"unknown", "all", "cfg"}]
      /\ cur = netFn + 1 /\ netFn \notin OptNone /\ AtInst
      /\ netBlock \in 1..(Len(body[netFn]) + 1)
  BY <1>1 DEF Ctl, NetCtl
<1>3. b \in DOMAIN body[f] /\ i \in 1..(Len(s) + 1) /\ s[i].kind \notin PhiOrPad
  BY <1>1, <1>2 DEF AtInst
<1>4. body[f] \in Seq(Block) /\ OK(body[f], nextId) /\ nextId \in Nat
      /\ Terminated(body[f])
  BY <1>2 DEF BodiesInv, TermInv, Current
<1>5. s \in Seq(Inst) /\ PadsFirst(s)
  BY <1>3, <1>4, BlockAlone
<1>6. x \in Inst /\ x.id = nextId /\ x.kind \notin PhiOrPad /\ ~ HasMetadata(x)
  <2>1. "trap" \in Kinds /\ "trap" \notin PhiOrPad
    BY DEF Kinds, PhiOrPad, EHPads
  <2> QED
    BY <1>4, <2>1, NewInstType DEF HasMetadata
<1> HIDE DEF x
<1>7. /\ BodiesInv'
      /\ \A z : Tagged(z)' <=> Tagged(z) \/ (z = x /\ HasMetadata(x))
  BY <1>1, <1>2, <1>3, <1>6, InsertStep
<1>8. TagInv'
  BY <1>6, <1>7, TagsKept
<1>9. s # <<>> /\ Last(s).kind \in Terminators
  BY <1>3, <1>4 DEF Terminated
<1>10. i \in 1..Len(s) /\ Len(s) \in Nat
  <2> HIDE DEF s, i
  <2> QED
    BY <1>1, <1>3, <1>5
<1> HIDE DEF s, i
<1>11. /\ t \in Seq(Inst) /\ t # <<>> /\ Len(t) = Len(s) + 1 /\ Last(t) = Last(s)
       /\ \A k \in 1..(Len(s) + 1) :
            t[k] = IF k < i THEN s[k] ELSE IF k = i THEN x ELSE s[k - 1]
  BY <1>5, <1>6, <1>10, InsertAtEnds
<1> HIDE DEF t
<1>13. Edits(f, b, t) /\ pipePhase = "run"
  BY <1>1 DEF Current
<1>14. TermInv'
  BY <1>2, <1>3, <1>9, <1>11, <1>13, EditTerminated
<1>15. i + 2 \in 1..(Len(t) + 1)
  BY <1>10, <1>11
<1>16. ASSUME i + 2 <= Len(t) PROVE t[i + 2].kind \notin PhiOrPad
  <2>1. i + 1 \in DOMAIN s /\ i \in DOMAIN s /\ i <= i + 1 /\ i + 2 \in 1..(Len(s) + 1)
        /\ (i + 2) - 1 = i + 1 /\ ~ (i + 2 < i) /\ i + 2 # i
    BY <1>5, <1>10, <1>11, <1>16
  <2>2. t[i + 2] = s[i + 1]
    BY <1>11, <2>1
  <2>3. s[i + 1].kind \notin PhiOrPad
    BY <1>3, <1>5, <2>1, AfterPads
  <2> QED
    BY <2>2, <2>3
<1>17. body'[f][b].insts = t /\ b \in DOMAIN body'[f] /\ Len(body'[f]) = Len(body[f])
  BY <1>2, <1>3, <1>4, <1>13 DEF Edits, BodiesInv
<1>18. AtInst'
  BY <1>1, <1>15, <1>16, <1>17 DEF AtInst, i
<1>19. Current("breakpoint-net")'
  BY DEF Current, pipeVars
<1>20. NetCtl'
  BY <1>1, <1>2, <1>17, <1>18, <1>19 DEF NetCtl
<1>21. Ctl'
  BY <1>20, NetAlone, NetCurrent
<1> QED
  BY <1>7, <1>8, <1>14, <1>21

LEMMA RunNetStep ==
  ASSUME BodiesInv, TagInv, Ctl, TermInv, RunNet
  PROVE  BodiesInv' /\ TagInv' /\ Ctl' /\ TermInv'
<1>1. /\ Current("breakpoint-net") /\ UNCHANGED <<prVars, pipeVars, edits, tags>>
      /\ \/ cur \in Funcs /\ (NetSkip(cur) \/ NetStart(cur)) /\ cur' = cur + 1
         \/ NetWalk /\ cur' = cur
  BY DEF RunNet
<1>2. CASE cur \in Funcs /\ (NetSkip(cur) \/ NetStart(cur)) /\ cur' = cur + 1
  BY <1>1, <1>2, NetSkipStep
<1>3. CASE NetTrap /\ cur' = cur
  BY <1>1, <1>3, NetTrapStep
<1>4. CASE (NetEnterBlock \/ NetGiveUp \/ NetNextBlock \/ NetFinish) /\ cur' = cur
  BY <1>1, <1>4, NetMoveStep
<1> QED
  BY <1>1, <1>2, <1>3, <1>4 DEF NetWalk

-----------------------------------------------------------------------------
(* promote-blocks.                                                         *)

(* The entry block ends as before.                                         *)
LEMMA PrepareEnds ==
  ASSUME NEW s \in Seq(Inst), s # <<>>, Last(s).kind \in Terminators
  PROVE  LET t == PrepareToSplitEntryBlock(s)
         IN t # <<>> /\ Last(t) = Last(s)
<1> DEFINE T == OfKinds(KeptInEntry)
           U == OfKinds(Kinds \ KeptInEntry)
           n == Len(s)
           p == SubSeq(s, 1, n - 1)
           x == s[n]
           t == PrepareToSplitEntryBlock(s)
<1>1. n \in 1..n /\ n \in Nat /\ DOMAIN s = 1..n /\ Last(s) = x
  BY EmptySeq DEF Last
<1>2. p \in Seq(Inst) /\ x \in Inst /\ s = Append(p, x)
  BY <1>1
<1>3. x \in U
  BY <1>1, <1>2 DEF OfKinds, Terminators, KeptInEntry, Kinds
<1> DEFINE u == Select(p, U)
           q == Select(s, T)
<1>4. u \in Seq(Inst) /\ q \in Seq(Inst)
  BY <1>2, SelectType
<1>5. Select(s, U) = Append(u, x)
  <2> HIDE DEF p, x, U
  <2>1. Select(Append(p, x), U) = Append(Select(p, U), x)
    BY <1>2, <1>3, SelectAppend
  <2> QED
    BY <1>2, <2>1
<1>6. t = q \o Append(u, x)
  BY <1>5 DEF PrepareToSplitEntryBlock
<1> HIDE DEF u, q, t, x
<1>7. t # <<>> /\ Last(t) = x
  BY <1>2, <1>4, <1>6 DEF Last
<1> QED
  BY <1>1, <1>7 DEF t

(* A block is split before the instruction, or behind a cleanuppad.        *)
LEMMA SplitPointAt ==
  ASSUME NEW s \in Seq(Inst), PadsFirst(s), DistinctIds(s),
         s # <<>>, Last(s).kind \in Terminators,
         NEW j \in DOMAIN s, s[j] \in Splittable
  PROVE  LET i == SplitPoint(s, s[j].id)
         IN /\ i \in DOMAIN s /\ s[i].kind \notin PhiOrPad
            /\ IF s[j].kind = "cleanuppad" THEN i = j + 1 ELSE i = j
<1> DEFINE Good(i) == /\ s[i].kind \notin PhiOrPad
                      /\ \E h \in 1..i : s[h].id = s[j].id
                            /\ \A k \in h..(i - 1) : s[k].kind \in PhiOrPad
           i0 == IF s[j].kind = "cleanuppad" THEN j + 1 ELSE j
<1>1. DOMAIN s = 1..Len(s) /\ Len(s) \in Nat /\ j \in 1..Len(s)
  OBVIOUS
<1>2. s[j].kind \in PhiOrPad => s[j].kind = "cleanuppad"
  BY DEF Splittable, NotSplit, OfKinds, PhiOrPad, EHPads, Terminators, Kinds
<1>3. CASE s[j].kind = "cleanuppad"
  <2>1. j # Len(s)
    BY <1>3 DEF Last, Terminators
  <2>2. j + 1 \in DOMAIN s /\ j \in 1..((j + 1) - 1)
    BY <1>1, <2>1
  <2>3. s[j + 1].kind \notin PhiOrPad
    BY <1>3, <2>2 DEF PadsFirst
  <2>4. j \in 1..(j + 1) /\ \A k \in j..((j + 1) - 1) : k = j
    BY <1>1
  <2>5. "cleanuppad" \in PhiOrPad
    BY DEF PhiOrPad, EHPads
  <2>6. Good(j + 1)
    BY <1>3, <2>3, <2>4, <2>5
  <2>7. ASSUME NEW i \in DOMAIN s, Good(i) PROVE i = j + 1
    <3>1. PICK h \in 1..i : s[h].id = s[j].id
                            /\ \A k \in h..(i - 1) : s[k].kind \in PhiOrPad
      BY <2>7
    <3>2. h = j
      BY <1>1, <2>7, <3>1 DEF DistinctIds
    <3>3. i # j
      BY <1>3, <2>5, <2>7
    <3>4. j + 1 \in j..(i - 1) \/ i = j + 1
      BY <1>1, <2>7, <3>1, <3>2, <3>3
    <3> QED
      BY <2>3, <3>1, <3>2, <3>4
  <2>8. SplitPoint(s, s[j].id) = CHOOSE i \in DOMAIN s : Good(i)
    BY DEF SplitPoint
  <2> HIDE DEF Good
  <2>9. SplitPoint(s, s[j].id) = j + 1
    BY <2>2, <2>6, <2>7, <2>8
  <2> QED
    BY <1>3, <2>2, <2>3, <2>9
<1>4. CASE s[j].kind # "cleanuppad"
  <2>1. s[j].kind \notin PhiOrPad
    BY <1>2, <1>4
  <2>2. Good(j)
    <3>1. j \in 1..j /\ \A k \in j..(j - 1) : FALSE
      BY <1>1
    <3> QED
      BY <2>1, <3>1
  <2>3. ASSUME NEW i \in DOMAIN s, Good(i) PROVE i = j
    <3>1. PICK h \in 1..i : s[h].id = s[j].id
                            /\ \A k \in h..(i - 1) : s[k].kind \in PhiOrPad
      BY <2>3
    <3>2. h = j
      BY <1>1, <2>3, <3>1 DEF DistinctIds
    <3>3. j \in j..(i - 1) \/ i = j
      BY <1>1, <2>3, <3>1, <3>2
    <3> QED
      BY <2>1, <3>1, <3>2, <3>3
  <2>4. SplitPoint(s, s[j].id) = CHOOSE i \in DOMAIN s : Good(i)
    BY DEF SplitPoint
  <2> HIDE DEF Good
  <2>5. SplitPoint(s, s[j].id) = j
    BY <2>2, <2>3, <2>4
  <2> QED
    BY <1>4, <2>1, <2>5
<1> QED
  BY <1>3, <1>4

Halves(block, i, label, br) == <<UpTo(block, i, br), From(block, i, label)>>

(* What becomes of the function.                                           *)
LEMMA SplitBody ==
  ASSUME NEW B, NEW n \in Nat, OK(B, n), NEW b \in DOMAIN B,
         NEW i \in DOMAIN B[b].insts, B[b].insts[i].kind \notin PhiOrPad,
         Terminated(B), NEW br \in Inst, br.kind \in Terminators \ PhiOrPad
  PROVE  LET D == Splice(B, b, Halves(B[b], i, n, br))
         IN /\ Labels(D) = Labels(B) \cup {n}
            /\ ToSet(InstsOf(D)) = ToSet(InstsOf(B)) \cup {br}
            /\ \A T : br \notin T =>
                 Select(InstsOf(D), T) = Select(InstsOf(B), T)
            /\ Terminated(D)
<1> DEFINE u == UpTo(B[b], i, br)
           v == From(B[b], i, n)
           mid == Halves(B[b], i, n, br)
           D == Splice(B, b, mid)
           s == B[b].insts
           P == InstsOf(BlocksBefore(B, b))
           Q == InstsOf(BlocksAfter(B, b))
           t == InsertAt(s, i, br)
<1>1. B \in Seq(Block) /\ B[b] \in Block /\ PadsFirst(s) /\ s \in Seq(Inst)
  BY BlockAlone, BlockParts DEF OK
<1>2. /\ u \in Block /\ v \in Block /\ u.label = B[b].label /\ v.label = n
      /\ u.insts = Append(SubSeq(s, 1, i - 1), br)
      /\ v.insts = SubSeq(s, i, Len(s))
      /\ InstsOf(<<u, v>>) = t
  <2> DEFINE x == B[b]
  <2>1. /\ x \in Block /\ i \in DOMAIN x.insts /\ x.insts[i].kind \notin PhiOrPad
        /\ PadsFirst(x.insts) /\ n \in Nat /\ br \in Inst /\ br.kind \notin PhiOrPad
    BY <1>1
  <2> HIDE DEF x
  <2>2. LET uu == UpTo(x, i, br)
            vv == From(x, i, n)
        IN /\ uu \in Block /\ vv \in Block /\ uu.label = x.label /\ vv.label = n
           /\ uu.insts = Append(SubSeq(x.insts, 1, i - 1), br)
           /\ vv.insts = SubSeq(x.insts, i, Len(x.insts))
           /\ InstsOf(<<uu, vv>>) = InsertAt(x.insts, i, br)
    BY <2>1, SplitParts
  <2> QED
    BY <2>2 DEF x
<1>3. mid = <<u, v>>
  BY DEF Halves
<1> HIDE DEF u, v, mid
<1>4. mid \in Seq(Block) /\ Len(mid) = 2 /\ mid[1] = u /\ mid[2] = v
  BY <1>2, <1>3
<1>5. InstsOf(D) = (P \o t) \o Q /\ InstsOf(B) = (P \o s) \o Q
      /\ P \in Seq(Inst) /\ Q \in Seq(Inst)
  <2>1. InstsOf(mid) = t
    BY <1>2, <1>3
  <2> HIDE DEF t
  <2> QED
    BY <1>1, <1>4, <2>1, SpliceInsts
<1>6. i \in 1..Len(s) /\ i \in 1..(Len(s) + 1) /\ Len(s) \in Nat
  BY <1>1
<1>7. Labels(D) = Labels(B) \cup {n}
  <2> DEFINE y == <<B[b]>>
             p == BlocksBefore(B, b)
             q == BlocksAfter(B, b)
  <2>1. y \in Seq(Block) /\ p \in Seq(Block) /\ q \in Seq(Block)
        /\ B = (p \o y) \o q /\ D = (p \o mid) \o q
    <3>1. p \in Seq(Block) /\ q \in Seq(Block) /\ B = Splice(B, b, y)
      BY <1>1, SpliceParts
    <3> QED
      BY <1>1, <3>1 DEF Splice
  <2>2. D \in Seq(Block)
    BY <1>1, <1>4, SpliceAt
  <2>3. Labels(y) = {B[b].label} /\ Labels(mid) = {B[b].label, n}
    <3>1. DOMAIN y = {1} /\ y[1] = B[b] /\ DOMAIN mid = {1, 2}
      BY <1>4
    <3> HIDE DEF y
    <3> QED
      BY <1>2, <1>4, <3>1 DEF Labels
  <2> HIDE DEF D, p, q, y
  <2>4. Keys((p \o y) \o q, LabelKey)
          = (Keys(p, LabelKey) \cup Keys(y, LabelKey)) \cup Keys(q, LabelKey)
    BY <2>1, MiddleKeys
  <2>5. Keys((p \o mid) \o q, LabelKey)
          = (Keys(p, LabelKey) \cup Keys(mid, LabelKey)) \cup Keys(q, LabelKey)
    BY <1>4, <2>1, MiddleKeys
  <2>6. Labels(D) = Keys(D, LabelKey) /\ Labels(B) = Keys(B, LabelKey)
        /\ Labels(y) = Keys(y, LabelKey) /\ Labels(mid) = Keys(mid, LabelKey)
    BY <1>1, <1>4, <2>1, <2>2, LabelsAreKeys
  <2> QED
    BY <2>1, <2>3, <2>4, <2>5, <2>6
<1>8. /\ t \in Seq(Inst) /\ ToSet(t) = ToSet(s) \cup {br}
      /\ \A T : br \notin T => Select(t, T) = Select(s, T)
  <2> HIDE DEF s, t
  <2>1. t \in Seq(Inst)
    BY <1>1, <1>6, InsertInst DEF t
  <2>2. ToSet(t) = ToSet(s) \cup {br}
    BY <1>1, <1>6, InsertElements DEF t
  <2>3. ASSUME NEW T, br \notin T PROVE Select(t, T) = Select(s, T)
    BY <1>1, <1>6, <2>3, SelectInsert DEF t
  <2> QED
    BY <2>1, <2>2, <2>3
<1>9. ToSet(InstsOf(D)) = ToSet(InstsOf(B)) \cup {br}
  <2> HIDE DEF s, t, P, Q, D
  <2>1. ToSet((P \o t) \o Q) = (ToSet(P) \cup ToSet(t)) \cup ToSet(Q)
        /\ ToSet((P \o s) \o Q) = (ToSet(P) \cup ToSet(s)) \cup ToSet(Q)
    BY <1>1, <1>5, <1>8, MiddleElements
  <2> QED
    BY <1>5, <1>8, <2>1
<1>10. ASSUME NEW T, br \notin T
       PROVE  Select(InstsOf(D), T) = Select(InstsOf(B), T)
  <2> HIDE DEF s, t, P, Q, D
  <2>0. /\ Select(Joined(P, t, Q), T) = Joined(Select(P, T), Select(t, T), Select(Q, T))
        /\ Select(Joined(P, s, Q), T) = Joined(Select(P, T), Select(s, T), Select(Q, T))
    BY <1>1, <1>5, <1>8, MiddleInsts
  <2>1. /\ Select((P \o t) \o Q, T) = (Select(P, T) \o Select(t, T)) \o Select(Q, T)
        /\ Select((P \o s) \o Q, T) = (Select(P, T) \o Select(s, T)) \o Select(Q, T)
    BY <2>0 DEF Joined
  <2>2. Select(t, T) = Select(s, T)
    BY <1>8, <1>10
  <2> QED
    BY <1>5, <2>1, <2>2
<1>11. Terminated(D)
  <2>1. u.insts # <<>> /\ Last(u.insts) = br
    <3> DEFINE w == SubSeq(s, 1, i - 1)
    <3>1. w \in Seq(Inst) /\ u.insts = Append(w, br)
      BY <1>1, <1>2, <1>6, CutBefore
    <3> HIDE DEF w
    <3> QED
      BY <3>1 DEF Last
  <2>2. v.insts # <<>> /\ Last(v.insts) = Last(s)
    <3> DEFINE w == SubSeq(s, i, Len(s))
    <3>1. /\ w \in Seq(Inst) /\ Len(w) = Len(s) - i + 1 /\ v.insts = w
          /\ \A k \in 1..(Len(s) - i + 1) : w[k] = s[i + k - 1]
      BY <1>1, <1>2, <1>6, CutBefore, ZenonT(60)
    <3> HIDE DEF w, s
    <3>2. Len(w) \in 1..(Len(s) - i + 1) /\ i + Len(w) - 1 = Len(s)
      BY <1>6, <3>1
    <3>3. w[Len(w)] = s[Len(s)]
      BY <3>1, <3>2
    <3> QED
      BY <3>1, <3>2, <3>3 DEF Last
  <2>3. /\ Len(D) = Len(B) - 1 + 2
        /\ \A k \in 1..(b - 1) : D[k] = B[k]
        /\ \A j \in 1..2 : D[b - 1 + j] = mid[j]
        /\ \A k \in (b + 1)..Len(B) : D[k - 1 + 2] = B[k]
        /\ D \in Seq(Block)
    <3>1. /\ Len(D) = Len(B) - 1 + Len(mid)
          /\ \A k \in 1..(b - 1) : D[k] = B[k]
          /\ \A j \in 1..Len(mid) : D[b - 1 + j] = mid[j]
          /\ \A k \in (b + 1)..Len(B) : D[k - 1 + Len(mid)] = B[k]
          /\ D \in Seq(Block)
      BY <1>1, <1>4, SpliceAt, ZenonT(60)
    <3> HIDE DEF D
    <3> QED
      BY <1>4, <3>1
  <2> HIDE DEF D
  <2>4. b \in 1..Len(B) /\ Len(B) \in Nat
    BY <1>1
  <2>5. ASSUME NEW k \in DOMAIN D
        PROVE  \/ k \in 1..(b - 1) /\ D[k] = B[k]
               \/ D[k] = u \/ D[k] = v
               \/ k - 1 \in 1..Len(B) /\ D[k] = B[k - 1]
    <3>1. k \in 1..(Len(B) + 1)
      BY <2>3, <2>4
    <3>2. CASE k \in 1..(b - 1)
      BY <2>3, <3>2
    <3>3. CASE k = b
      <4>1. 1 \in 1..2 /\ b - 1 + 1 = b
        BY <2>4
      <4> QED
        BY <1>4, <2>3, <3>3, <4>1
    <3>4. CASE k = b + 1
      <4>1. 2 \in 1..2 /\ b - 1 + 2 = b + 1
        BY <2>4
      <4> QED
        BY <1>4, <2>3, <3>4, <4>1
    <3>5. CASE k > b + 1
      <4>1. k - 1 \in (b + 1)..Len(B) /\ (k - 1) - 1 + 2 = k /\ k - 1 \in 1..Len(B)
        BY <2>4, <3>1, <3>5
      <4> QED
        BY <2>3, <4>1
    <3> QED
      BY <2>4, <3>1, <3>2, <3>3, <3>4, <3>5
  <2>6. \A k \in 1..Len(B) :
          B[k].insts # <<>> /\ Last(B[k].insts).kind \in Terminators
    BY <1>1 DEF Terminated
  <2>7. \A k \in 1..(b - 1) : k \in 1..Len(B)
    BY <2>4
  <2>8. Last(s).kind \in Terminators
    BY <2>4, <2>6
  <2> QED
    BY <2>1, <2>2, <2>5, <2>6, <2>7, <2>8 DEF Terminated
<1> QED
  BY <1>7, <1>9, <1>10, <1>11 DEF mid

LEMMA PromoteAlone ==
  ASSUME Ctl, CurrentPromote
  PROVE  /\ netFn = 0 /\ ~ Current("breakpoint-net") /\ pipePhase = "run"
         /\ edits \in 0..MaxEdits
BY DEF Current, CurrentPromote, Ctl, NetCtl, CurCtl

LEMMA PromoteCurrent ==
  ASSUME Ctl, CurrentPromote, cur' = 2, UNCHANGED <<netVars, pipeVars, edits>>,
         PrCtl', LabelsInv', PendingInv'
  PROVE  Ctl'
<1>1. netFn = 0 /\ edits \in 0..MaxEdits
  BY PromoteAlone
<1>2. UNCHANGED <<netFn, netBlock, netInst, modified, preserved>>
  BY DEF netVars
<1>3. NetCtl'
  BY <1>1, <1>2 DEF Ctl, NetCtl
<1>4. CurrentPromote'
  BY DEF Current, CurrentPromote, pipeVars
<1>5. CurCtl'
  BY <1>1, <1>4 DEF CurCtl
<1> QED
  BY <1>3, <1>5 DEF Ctl

(* The pass goes on, in the same form.                                     *)
LEMMA PromoteStays ==
  ASSUME Ctl, prPhase # "idle", UNCHANGED <<perInstruction, pipeVars>>
  PROVE  /\ CurrentPromote' /\ perInstruction' \in BOOLEAN
         /\ perInstruction' = Current("promote-instructions")'
BY DEF Ctl, PrCtl, CurrentPromote, Current, pipeVars

LEMMA PrStartStep ==
  ASSUME BodiesInv, TagInv, Ctl, TermInv, CurrentPromote,
         PrStart(Current("promote-instructions")), cur' = 2,
         UNCHANGED <<netVars, pipeVars, edits, tags>>
  PROVE  BodiesInv' /\ TagInv' /\ Ctl' /\ TermInv'
<1>1. /\ UNCHANGED <<body, nextId, promoted, tags>> /\ insts' = insts
      /\ prPhase = "idle" /\ prPhase' = "collect" /\ prFn' = 1
      /\ perInstruction' = Current("promote-instructions") /\ blocksToPromote' = <<>>
  BY DEF PrStart
<1>2. insts = <<>> /\ pipePhase = "run"
  BY <1>1, PromoteAlone DEF Ctl, PendingInv
<1>3. /\ CurrentPromote'
      /\ Current("promote-instructions")' = Current("promote-instructions")
      /\ Current("promote-instructions") \in BOOLEAN
  BY DEF CurrentPromote, Current, pipeVars
<1>4. 1 \in 1..(N + 1)
  BY FunctionsAssumption
<1>5. PrCtl'
  BY <1>1, <1>3, <1>4 DEF PrCtl
<1>6. LabelsInv' /\ PendingInv'
  BY <1>1, <1>2 DEF LabelsInv, PendingInv, DistinctIds
<1>7. Ctl'
  BY <1>5, <1>6, PromoteCurrent
<1>8. TermInv'
  BY <1>1, <1>2, SameTerminated
<1> QED
  BY <1>1, <1>7, <1>8, SameBodies

(* Steps that leave the bodies as they are.                                *)
LEMMA PrQuietStep ==
  ASSUME BodiesInv, TagInv, Ctl, TermInv, CurrentPromote, cur' = 2,
         UNCHANGED <<netVars, pipeVars, edits, tags>>,
         UNCHANGED <<body, nextId, promoted>>, PrCtl', LabelsInv', PendingInv'
  PROVE  BodiesInv' /\ TagInv' /\ Ctl' /\ TermInv'
<1>1. Ctl'
  BY PromoteCurrent
<1>2. TermInv'
  BY PromoteAlone, SameTerminated
<1> QED
  BY <1>1, <1>2, SameBodies

LEMMA PrNextFunctionStep ==
  ASSUME BodiesInv, TagInv, Ctl, TermInv, CurrentPromote, cur = 2, cur' = 2,
         UNCHANGED <<netVars, pipeVars, edits, tags>>,
         PrSkipFunction \/ PrEndSplit \/ PrEndCollect \/ PrFinish
  PROVE  BodiesInv' /\ TagInv' /\ Ctl' /\ TermInv'
<1>1. /\ UNCHANGED <<body, nextId, promoted>> /\ prPhase # "idle"
      /\ UNCHANGED <<perInstruction, insts, blocksToPromote>>
  BY DEF PrSkipFunction, PrEndSplit, PrEndCollect, PrFinish
<1>2. /\ CurrentPromote' /\ perInstruction' \in BOOLEAN
      /\ perInstruction' = Current("promote-instructions")'
  BY <1>1, PromoteStays
<1>3. /\ prPhase' \in {"idle", "collect", "extract"} /\ insts = <<>>
      /\ (prPhase' = "idle" => blocksToPromote = <<>>)
      /\ (prPhase' = "collect" => prFn' \in 1..(N + 1))
      /\ (prPhase' = "extract" => prFn' = N + 1)
      /\ Reached \subseteq Reached'
  <2>1. CASE PrSkipFunction
    <3>1. prFn \in 1..N /\ prFn' = prFn + 1 /\ prPhase = "collect" /\ prPhase' = prPhase
          /\ N \in Nat
      BY <2>1, FunctionsAssumption DEF PrSkipFunction, Funcs
    <3>2. prFn' \in 1..(N + 1) /\ 1..(prFn - 1) \subseteq 1..(prFn' - 1)
      BY <3>1
    <3> QED
      BY <3>1, <3>2 DEF Reached, Ctl, PendingInv
  <2>2. CASE PrEndSplit
    <3>1. prFn \in 1..N /\ prFn' = prFn + 1 /\ prPhase = "split" /\ prPhase' = "collect"
          /\ insts = <<>> /\ N \in Nat
      BY <2>2, FunctionsAssumption DEF PrEndSplit, Funcs, Ctl, PrCtl
    <3>2. prFn' \in 1..(N + 1) /\ 1..prFn \subseteq 1..(prFn' - 1)
      BY <3>1
    <3> QED
      BY <3>1, <3>2 DEF Reached
  <2>3. CASE PrEndCollect
    <3>1. prFn \in 1..(N + 1) /\ prFn > N /\ prFn' = prFn /\ prPhase = "collect"
          /\ prPhase' = "extract" /\ N \in Nat
      BY <2>3, FunctionsAssumption DEF PrEndCollect, Ctl, PrCtl
    <3>2. prFn' = N + 1
      BY <3>1
    <3> QED
      BY <3>1, <3>2 DEF Reached, Ctl, PendingInv
  <2>4. CASE PrFinish
    <3>1. prFn' = prFn /\ prPhase = "extract" /\ prPhase' = "idle"
          /\ blocksToPromote = <<>>
      BY <2>4 DEF PrFinish
    <3> QED
      BY <3>1 DEF Reached, Ctl, PendingInv
  <2> QED
    BY <2>1, <2>2, <2>3, <2>4
<1>4. PrCtl'
  BY <1>1, <1>2, <1>3 DEF PrCtl
<1>5. LabelsInv'
  BY <1>1, <1>3 DEF Ctl, LabelsInv
<1>6. PendingInv'
  BY <1>1, <1>3 DEF PendingInv, DistinctIds
<1> QED
  BY <1>1, <1>4, <1>5, <1>6, PrQuietStep

(* The labels of a function's blocks are added to the candidates.          *)
LabelSeq(B) == [b \in DOMAIN B |-> B[b].label]

LEMMA LabelSeqParts ==
  ASSUME NEW B \in Seq(Block), DistinctLabels(B)
  PROVE  /\ LabelSeq(B) \in Seq(Nat) /\ Len(LabelSeq(B)) = Len(B)
         /\ \A i \in 1..Len(B) : LabelSeq(B)[i] \in Labels(B)
         /\ \A i, j \in 1..Len(B) : LabelSeq(B)[i] = LabelSeq(B)[j] => i = j
<1>1. DOMAIN B = 1..Len(B) /\ Len(B) \in Nat
  OBVIOUS
<1>2. \A b \in 1..Len(B) : B[b].label \in Nat
  BY <1>1, BlockParts
<1>3. LabelSeq(B) \in [1..Len(B) -> Nat]
  BY <1>1, <1>2 DEF LabelSeq
<1>4. LabelSeq(B) \in Seq(Nat) /\ Len(LabelSeq(B)) = Len(B)
  BY <1>1, <1>3, IsSequence
<1> QED
  BY <1>1, <1>4 DEF LabelSeq, Labels, DistinctLabels

LEMMA DistinctJoin ==
  ASSUME NEW s \in Seq(Nat), NEW t \in Seq(Nat),
         \A i, j \in DOMAIN s : s[i] = s[j] => i = j,
         \A i, j \in DOMAIN t : t[i] = t[j] => i = j,
         \A i \in DOMAIN s, j \in DOMAIN t : s[i] # t[j]
  PROVE  /\ s \o t \in Seq(Nat)
         /\ \A i, j \in DOMAIN (s \o t) : (s \o t)[i] = (s \o t)[j] => i = j
         /\ \A i \in DOMAIN (s \o t) :
              \/ \E k \in DOMAIN s : (s \o t)[i] = s[k]
              \/ \E k \in DOMAIN t : (s \o t)[i] = t[k]
<1> DEFINE r == s \o t
           n == Len(s)
<1>1. /\ r \in Seq(Nat) /\ DOMAIN r = 1..(n + Len(t)) /\ n \in Nat /\ Len(t) \in Nat
      /\ DOMAIN s = 1..n /\ DOMAIN t = 1..Len(t)
      /\ \A i \in 1..(n + Len(t)) : r[i] = IF i <= n THEN s[i] ELSE t[i - n]
  OBVIOUS
<1> HIDE DEF r
<1>2. ASSUME NEW i \in DOMAIN r
      PROVE  \/ i \in DOMAIN s /\ r[i] = s[i]
             \/ i > n /\ i - n \in DOMAIN t /\ r[i] = t[i - n]
  BY <1>1
<1>3. ASSUME NEW i \in DOMAIN r, NEW j \in DOMAIN r, r[i] = r[j] PROVE i = j
  <2>1. i \in Nat /\ j \in Nat
    BY <1>1
  <2>2. CASE i \in DOMAIN s /\ r[i] = s[i]
    BY <1>2, <1>3, <2>2
  <2>3. CASE i > n /\ i - n \in DOMAIN t /\ r[i] = t[i - n]
    <3>1. j > n /\ j - n \in DOMAIN t /\ r[j] = t[j - n]
      BY <1>2, <1>3, <2>3
    <3>2. i - n = j - n
      BY <1>3, <2>3, <3>1
    <3> QED
      BY <1>1, <2>1, <3>2
  <2> QED
    BY <1>2, <2>2, <2>3
<1>4. r \in Seq(Nat) /\ \A i \in DOMAIN r :
         (\E k \in DOMAIN s : r[i] = s[k]) \/ (\E k \in DOMAIN t : r[i] = t[k])
  BY <1>1, <1>2
<1> QED
  BY <1>3, <1>4 DEF r

(* Where the labels come from.                                             *)
LEMMA LabelsFrom ==
  ASSUME BodiesInv, NEW f \in Funcs, NEW g \in Funcs, f # g,
         NEW l \in Labels(body[f]), NEW m \in Labels(body[g])
  PROVE  l # m
BY DEF BodiesInv

LEMMA PrTakeBlocksStep ==
  ASSUME BodiesInv, TagInv, Ctl, TermInv, CurrentPromote, cur = 2, cur' = 2,
         UNCHANGED <<netVars, pipeVars, edits, tags>>, PrTakeBlocks
  PROVE  BodiesInv' /\ TagInv' /\ Ctl' /\ TermInv'
<1> DEFINE B == body[prFn]
           l == blocksToPromote
           t == LabelSeq(B)
           r == l \o t
<1>1. /\ UNCHANGED <<body, nextId, promoted>> /\ prPhase = "collect"
      /\ UNCHANGED <<perInstruction, insts, prPhase>> /\ prFn' = prFn + 1
      /\ prFn \in Funcs \ OptNone /\ blocksToPromote' = r
  BY DEF PrTakeBlocks, LabelSeq
<1>2. /\ CurrentPromote' /\ perInstruction' \in BOOLEAN
      /\ perInstruction' = Current("promote-instructions")'
  BY <1>1, PromoteStays
<1>3. prFn \in 1..N /\ N \in Nat /\ prFn' \in 1..(N + 1) /\ prFn \in 1..(prFn' - 1)
      /\ 1..(prFn - 1) \subseteq 1..(prFn' - 1) /\ prFn \notin 1..(prFn - 1)
  BY <1>1, FunctionsAssumption DEF Funcs
<1>4. PrCtl'
  BY <1>1, <1>2, <1>3 DEF PrCtl
<1>5. PendingInv'
  BY <1>1 DEF Ctl, PendingInv, DistinctIds
<1>6. /\ l \in Seq(Nat) /\ \A i, j \in DOMAIN l : l[i] = l[j] => i = j
      /\ \A i \in DOMAIN l : \E f \in 1..(prFn - 1) \ OptNone :
           f \in Funcs /\ l[i] \in Labels(body[f])
  BY <1>1 DEF Ctl, LabelsInv, Reached
<1>7. B \in Seq(Block) /\ DistinctLabels(B)
  BY <1>1 DEF BodiesInv, OK
<1>8. /\ t \in Seq(Nat) /\ DOMAIN t = 1..Len(t)
      /\ \A i \in DOMAIN t : t[i] \in Labels(B)
      /\ \A i, j \in DOMAIN t : t[i] = t[j] => i = j
  <2> HIDE DEF B
  <2>1. /\ LabelSeq(B) \in Seq(Nat) /\ Len(LabelSeq(B)) = Len(B)
        /\ \A i \in 1..Len(B) : LabelSeq(B)[i] \in Labels(B)
        /\ \A i, j \in 1..Len(B) : LabelSeq(B)[i] = LabelSeq(B)[j] => i = j
    BY <1>7, LabelSeqParts
  <2> HIDE DEF t
  <2> QED
    BY <2>1 DEF t
<1> HIDE DEF t
<1>9. ASSUME NEW i \in DOMAIN l, NEW j \in DOMAIN t PROVE l[i] # t[j]
  <2>1. PICK f \in 1..(prFn - 1) : f \in Funcs /\ l[i] \in Labels(body[f])
    BY <1>6
  <2>2. prFn \in Funcs /\ f # prFn
    BY <1>1, <1>3
  <2>3. t[j] \in Labels(body[prFn])
    BY <1>8
  <2> QED
    BY <2>1, <2>2, <2>3, LabelsFrom
<1>10. /\ r \in Seq(Nat)
       /\ \A i, j \in DOMAIN r : r[i] = r[j] => i = j
       /\ \A i \in DOMAIN r :
            (\E k \in DOMAIN l : r[i] = l[k]) \/ (\E k \in DOMAIN t : r[i] = t[k])
  BY <1>6, <1>8, <1>9, DistinctJoin
<1> HIDE DEF r, l
<1>11. ASSUME NEW i \in DOMAIN r
       PROVE  \E f \in Reached' \ OptNone : f \in Funcs /\ r[i] \in Labels(body[f])
  <2>1. Reached' = 1..(prFn' - 1)
    BY <1>1 DEF Reached
  <2>2. CASE \E k \in DOMAIN l : r[i] = l[k]
    BY <1>3, <1>6, <2>1, <2>2
  <2>3. CASE \E k \in DOMAIN t : r[i] = t[k]
    BY <1>1, <1>3, <1>8, <2>1, <2>3
  <2> QED
    BY <1>10, <2>2, <2>3
<1>12. LabelsInv'
  BY <1>1, <1>10, <1>11 DEF LabelsInv
<1> QED
  BY <1>1, <1>4, <1>5, <1>12, PrQuietStep

LEMMA PrTakeInstructionsStep ==
  ASSUME BodiesInv, TagInv, Ctl, TermInv, CurrentPromote, cur = 2, cur' = 2,
         UNCHANGED <<netVars, pipeVars, edits, tags>>, PrTakeInstructions
  PROVE  BodiesInv' /\ TagInv' /\ Ctl' /\ TermInv'
<1> DEFINE f == prFn
           s == body[f][1].insts
           t == PrepareToSplitEntryBlock(s)
<1>1. /\ nextId' = nextId /\ promoted' = promoted /\ prPhase = "collect"
      /\ perInstruction' = perInstruction /\ prFn' = prFn
      /\ blocksToPromote' = blocksToPromote /\ prPhase' = "split"
      /\ f \in Funcs \ OptNone /\ perInstruction /\ Edits(f, 1, t)
      /\ insts' = Select(InstsOf(body'[f]), Splittable)
  BY DEF PrTakeInstructions, Edits
<1>2. BodiesInv' /\ \A z : Tagged(z)' <=> Tagged(z)
  BY <1>1, PrepareStep
<1>3. TagInv'
  BY <1>2, TagsKept
<1>4. /\ body \in [Funcs -> Seq(Block)] /\ OK(body[f], nextId) /\ body[f] \in Seq(Block)
      /\ Terminated(body[f]) /\ pipePhase = "run"
  BY <1>1, PromoteAlone DEF BodiesInv, TermInv
<1>5. 1 \in DOMAIN body[f]
  <2> DEFINE B == body[f]
  <2>1. B \in Seq(Block) /\ B # <<>>
    BY <1>4 DEF OK, WellFormed
  <2> HIDE DEF B
  <2>2. 1 \in DOMAIN B
    BY <2>1, EmptySeq
  <2> QED
    BY <2>2 DEF B
<1>6. s \in Seq(Inst) /\ s # <<>> /\ Last(s).kind \in Terminators
  BY <1>4, <1>5, BlockParts DEF Terminated
<1>7. t \in Seq(Inst) /\ t # <<>> /\ Last(t) = Last(s)
  BY <1>6, PrepareEnds, PrepareParts
<1> HIDE DEF s, t
<1>8. TermInv'
  BY <1>1, <1>4, <1>5, <1>6, <1>7, EditTerminated
<1>9. \A g \in Funcs : Labels(body'[g]) = Labels(body[g])
  BY <1>1, <1>4 DEF Edits, Labels
<1>10. LabelsInv'
  <2>1. f \in 1..N /\ N \in Nat /\ 1..(f - 1) \subseteq 1..f
    BY <1>1, FunctionsAssumption DEF Funcs
  <2>2. Reached \subseteq Reached'
    BY <1>1, <2>1 DEF Reached
  <2> QED
    BY <1>1, <1>9, <2>2 DEF Ctl, LabelsInv
<1>11. PendingInv'
  <2> DEFINE r == InstsOf(body'[f])
             p == Select(r, Splittable)
  <2>1. r \in Seq(Inst) /\ DistinctIds(r)
    BY <1>1, <1>2, InstsType DEF BodiesInv, OK
  <2> HIDE DEF r
  <2>2. p \in Seq(Inst) /\ ToSet(p) = ToSet(r) \cap Splittable
    BY <2>1, SelectType, SelectElements
  <2>3. Distinct(r, IdKey)
    BY <2>1, IdsAreKeys
  <2>4. Distinct(p, IdKey)
    BY <2>1, <2>3, SelectDistinct
  <2>5. DistinctIds(p)
    BY <2>2, <2>4, IdsAreKeys
  <2> HIDE DEF p
  <2>6. insts' = p
    BY <1>1 DEF p, r
  <2> QED
    BY <1>1, <2>2, <2>5, <2>6 DEF PendingInv, DistinctIds, r
<1>12. /\ CurrentPromote' /\ perInstruction' \in BOOLEAN
       /\ perInstruction' = Current("promote-instructions")'
  BY <1>1, PromoteStays
<1>13. PrCtl'
  <2>1. perInstruction' /\ prFn' \in Funcs \ OptNone
    BY <1>1
  <2> QED
    BY <1>1, <1>12, <2>1 DEF PrCtl
<1>14. Ctl'
  BY <1>10, <1>11, <1>13, PromoteCurrent
<1> QED
  BY <1>2, <1>3, <1>8, <1>14

(* The parent of an instruction is the block it is in.                     *)
LEMMA ParentOfIs ==
  ASSUME NEW B, NEW n, OK(B, n), NEW b \in DOMAIN B, NEW j \in DOMAIN B[b].insts
  PROVE  ParentOf(B, B[b].insts[j].id) = b
<1> DEFINE id == B[b].insts[j].id
<1>1. ASSUME NEW c \in DOMAIN B, NEW i \in DOMAIN B[c].insts, B[c].insts[i].id = id
      PROVE  c = b
  <2>1. id \in Ids(B[b].insts) /\ id \in Ids(B[c].insts)
    BY <1>1 DEF Ids
  <2>2. c # b => Ids(B[c].insts) \cap Ids(B[b].insts) = {}
    BY BlockAlone
  <2> QED
    BY <2>1, <2>2
<1>2. \E i \in DOMAIN B[b].insts : B[b].insts[i].id = id
  OBVIOUS
<1> QED
  BY <1>1, <1>2 DEF ParentOf

(* Where a pending instruction is split off.                               *)
LEMMA SplitWhere ==
  ASSUME NEW B, NEW n, OK(B, n), Terminated(B),
         NEW x \in ToSet(InstsOf(B)) \cap Splittable
  PROVE  \E b \in DOMAIN B : \E i, j \in DOMAIN B[b].insts :
           /\ ParentOf(B, x.id) = b /\ SplitPoint(B[b].insts, x.id) = i
           /\ B[b].insts[j] = x /\ B[b].insts[i].kind \notin PhiOrPad
           /\ IF x.kind = "cleanuppad" THEN i = j + 1 ELSE i = j
<1>1. B \in Seq(Block)
  BY DEF OK
<1>2. PICK b \in DOMAIN B : x \in ToSet(B[b].insts)
  BY <1>1, InstsElements
<1>3. PICK j \in DOMAIN B[b].insts : B[b].insts[j] = x
  BY <1>2 DEF ToSet
<1> DEFINE s == B[b].insts
           i == SplitPoint(s, x.id)
<1>4. s \in Seq(Inst) /\ DistinctIds(s) /\ PadsFirst(s)
  BY BlockAlone
<1>5. s # <<>> /\ Last(s).kind \in Terminators
  BY DEF Terminated
<1>6. ParentOf(B, x.id) = b
  BY <1>3, ParentOfIs
<1>7. s[j] = x
  BY <1>3
<1> HIDE DEF s
<1>8. j \in DOMAIN s
  BY <1>3 DEF s
<1>9. /\ i \in DOMAIN s /\ s[i].kind \notin PhiOrPad
      /\ IF x.kind = "cleanuppad" THEN i = j + 1 ELSE i = j
  BY <1>4, <1>5, <1>7, <1>8, SplitPointAt
<1> HIDE DEF i
<1> QED
  BY <1>6, <1>7, <1>8, <1>9 DEF s, i

LEMMA PrSplitStep ==
  ASSUME BodiesInv, TagInv, Ctl, TermInv, CurrentPromote, cur = 2, cur' = 2,
         UNCHANGED <<netVars, pipeVars, edits, tags>>, PrSplit
  PROVE  BodiesInv' /\ TagInv' /\ Ctl' /\ TermInv'
<1> DEFINE f == prFn
           B == body[f]
           x == Head(insts)
           br == NewInst(nextId + 1, "term")
<1>1. /\ nextId' = nextId + 2 /\ promoted' = promoted /\ prPhase = "split"
      /\ prPhase' = prPhase /\ perInstruction' = perInstruction /\ prFn' = prFn
      /\ insts # <<>> /\ insts' = Tail(insts)
      /\ blocksToPromote' = Append(blocksToPromote, nextId)
      /\ body' = [body EXCEPT ![f] = SplitBlock(@, ParentOf(@, x.id), x.id, nextId, br)]
  BY DEF PrSplit
<1>2. /\ f \in Funcs \ OptNone /\ perInstruction
      /\ insts \in Seq(Inst) /\ DistinctIds(insts)
      /\ ToSet(insts) \subseteq ToSet(InstsOf(B)) \cap Splittable
  BY <1>1 DEF Ctl, PrCtl, PendingInv
<1>3. /\ body \in [Funcs -> Seq(Block)] /\ OK(B, nextId) /\ B \in Seq(Block)
      /\ nextId \in Nat /\ Terminated(B) /\ pipePhase = "run"
  BY <1>2, PromoteAlone DEF BodiesInv, TermInv
<1>4. /\ 1 \in DOMAIN insts /\ x = insts[1] /\ Tail(insts) \in Seq(Inst)
      /\ Len(Tail(insts)) = Len(insts) - 1
      /\ \A k \in DOMAIN Tail(insts) : k + 1 \in DOMAIN insts
                                       /\ Tail(insts)[k] = insts[k + 1]
  BY <1>1, <1>2, EmptySeq
<1>5. x \in ToSet(InstsOf(B)) \cap Splittable
  BY <1>2, <1>4 DEF ToSet
<1> HIDE DEF x
<1>6. PICK b \in DOMAIN B : \E i, j \in DOMAIN B[b].insts :
        /\ ParentOf(B, x.id) = b /\ SplitPoint(B[b].insts, x.id) = i
        /\ B[b].insts[j] = x /\ B[b].insts[i].kind \notin PhiOrPad
        /\ IF x.kind = "cleanuppad" THEN i = j + 1 ELSE i = j
  BY <1>3, <1>5, SplitWhere
<1>7. PICK i \in DOMAIN B[b].insts :
        /\ ParentOf(B, x.id) = b /\ SplitPoint(B[b].insts, x.id) = i
        /\ B[b].insts[i].kind \notin PhiOrPad
  BY <1>6
<1> DEFINE D == Splice(B, b, Halves(B[b], i, nextId, br))
<1>8. D = Splice(B, b, <<UpTo(B[b], i, br), From(B[b], i, nextId)>>)
  BY DEF Halves
<1>9. Puts(f, D)
  <2>1. SplitBlock(B, b, x.id, nextId, br)
          = Splice(B, b, <<UpTo(B[b], i, br), From(B[b], i, nextId)>>)
    BY <1>7 DEF SplitBlock, Splice, BlocksBefore, BlocksAfter
  <2>2. body' = [body EXCEPT ![f] = SplitBlock(B, b, x.id, nextId, br)]
    BY <1>1, <1>7
  <2> QED
    BY <1>8, <2>1, <2>2 DEF Puts
<1>10. br \in Inst /\ br.kind \in Terminators \ PhiOrPad /\ ~ HasMetadata(br)
       /\ br.id = nextId + 1
  <2>1. "term" \in Kinds /\ "term" \in Terminators \ PhiOrPad /\ nextId + 1 \in Nat
    BY <1>3 DEF Kinds, Terminators, PhiOrPad, EHPads
  <2> QED
    BY <2>1, NewInstType DEF HasMetadata
<1>11. BodiesInv' /\ \A z : Tagged(z)' <=> Tagged(z)
  <2> HIDE DEF D
  <2>1. Puts(f, Splice(body[f], b,
                       <<UpTo(body[f][b], i, br), From(body[f][b], i, nextId)>>))
    BY <1>8, <1>9
  <2> QED
    BY <1>1, <1>2, <1>7, <2>1, SplitStep
<1>12. TagInv'
  BY <1>11, TagsKept
<1>13. /\ Labels(D) = Labels(B) \cup {nextId}
       /\ ToSet(InstsOf(D)) = ToSet(InstsOf(B)) \cup {br}
       /\ Terminated(D)
  <2> HIDE DEF B, br
  <2>1. B[b].insts[i].kind \notin PhiOrPad
    BY <1>7
  <2> QED
    BY <1>3, <1>10, <2>1, SplitBody
<1> HIDE DEF D, br
<1>14. TermInv'
  BY <1>2, <1>3, <1>9, <1>13, OneTerminated
<1>15. \A g \in Funcs : body'[g] = IF g = f THEN D ELSE body[g]
  BY <1>2, <1>3, <1>9 DEF Puts
<1>16. LabelsInv'
  <2> DEFINE l == blocksToPromote
             r == Append(l, nextId)
  <2>1. /\ l \in Seq(Nat) /\ \A h, k \in DOMAIN l : l[h] = l[k] => h = k
        /\ \A k \in DOMAIN l : \E g \in 1..f \ OptNone :
             g \in Funcs /\ l[k] \in Labels(body[g])
    BY <1>1 DEF Ctl, LabelsInv, Reached
  <2>2. \A g \in Funcs : \A m \in Labels(body[g]) : m < nextId
    BY DEF BodiesInv, OK
  <2>3. /\ r \in Seq(Nat) /\ DOMAIN r = 1..(Len(l) + 1) /\ r[Len(l) + 1] = nextId
        /\ \A k \in 1..Len(l) : r[k] = l[k]
        /\ DOMAIN l = 1..Len(l) /\ Len(l) \in Nat
    BY <1>3, <2>1
  <2> HIDE DEF r, l
  <2>4. \A k \in 1..Len(l) : l[k] # nextId
    <3>1. ASSUME NEW k \in 1..Len(l) PROVE l[k] \in Nat /\ l[k] < nextId
      <4>1. k \in DOMAIN l
        BY <2>3
      <4>2. l[k] \in Nat
        BY <2>1, <4>1
      <4>3. PICK g \in Funcs : l[k] \in Labels(body[g])
        BY <2>1, <4>1
      <4>4. l[k] < nextId
        BY <2>2, <4>3
      <4> QED
        BY <4>2, <4>4
    <3> QED
      BY <1>3, <3>1
  <2>5. \A h, k \in DOMAIN r : r[h] = r[k] => h = k
    <3>1. ASSUME NEW h \in DOMAIN r, NEW k \in DOMAIN r, r[h] = r[k] PROVE h = k
      <4>1. (h \in 1..Len(l) \/ h = Len(l) + 1) /\ (k \in 1..Len(l) \/ k = Len(l) + 1)
        BY <2>3
      <4> QED
        BY <2>1, <2>3, <2>4, <3>1, <4>1
    <3> QED
      BY <3>1
  <2>6. f \in 1..f /\ Reached' = 1..f
    BY <1>1, <1>2, FunctionsAssumption DEF Reached, Funcs
  <2>7. \A k \in DOMAIN r : \E g \in Reached' \ OptNone :
          g \in Funcs /\ r[k] \in Labels(body'[g])
    <3>1. ASSUME NEW k \in DOMAIN r
          PROVE  \E g \in Reached' \ OptNone : g \in Funcs /\ r[k] \in Labels(body'[g])
      <4>1. CASE k \in 1..Len(l)
        <5>1. PICK g \in 1..f \ OptNone : g \in Funcs /\ l[k] \in Labels(body[g])
          BY <2>1, <2>3, <4>1
        <5>2. Labels(body[g]) \subseteq Labels(body'[g])
          BY <1>13, <1>15, <5>1
        <5> QED
          BY <2>3, <2>6, <4>1, <5>1, <5>2
      <4>2. CASE k = Len(l) + 1
        BY <1>2, <1>13, <1>15, <2>3, <2>6, <4>2
      <4> QED
        BY <2>3, <4>1, <4>2
    <3> QED
      BY <3>1
  <2>8. blocksToPromote' = r
    BY <1>1 DEF r, l
  <2> QED
    BY <2>3, <2>5, <2>7, <2>8 DEF LabelsInv
<1>17. PendingInv'
  <2> DEFINE t == Tail(insts)
  <2>1. DistinctIds(t)
    <3>1. DOMAIN t \in SUBSET Nat
      BY <1>4
    <3> QED
      BY <1>2, <1>4, <3>1 DEF DistinctIds
  <2>2. ToSet(t) \subseteq ToSet(InstsOf(B)) \cap Splittable
    BY <1>2, <1>4 DEF ToSet
  <2> HIDE DEF t
  <2>3. ToSet(t) \subseteq ToSet(InstsOf(body'[f])) \cap Splittable
    BY <1>2, <1>13, <1>15, <2>2
  <2>4. insts' = t /\ t \in Seq(Inst)
    BY <1>1, <1>4 DEF t
  <2> QED
    BY <1>1, <2>1, <2>3, <2>4 DEF PendingInv, DistinctIds
<1>18. /\ CurrentPromote' /\ perInstruction' \in BOOLEAN
       /\ perInstruction' = Current("promote-instructions")'
  BY <1>1, PromoteStays
<1>19. PrCtl'
  <2>1. perInstruction' /\ prFn' \in Funcs \ OptNone
    BY <1>1, <1>2
  <2> QED
    BY <1>1, <1>18, <2>1 DEF PrCtl
<1>20. Ctl'
  BY <1>16, <1>17, <1>19, PromoteCurrent
<1> QED
  BY <1>11, <1>12, <1>14, <1>20

(* The candidate is the block with the first of the labels.                *)
LEMMA CandidateWhere ==
  ASSUME BodiesInv, LabelsInv, blocksToPromote # <<>>
  PROVE  \E f \in Funcs \ OptNone : \E b \in DOMAIN body[f] :
           /\ FuncOf(Head(blocksToPromote)) = f /\ Candidate = body[f][b]
           /\ body[f][b].label = Head(blocksToPromote)
<1> DEFINE l == Head(blocksToPromote)
<1>1. 1 \in DOMAIN blocksToPromote /\ l = blocksToPromote[1]
  BY EmptySeq DEF LabelsInv
<1>2. PICK f \in Funcs \ OptNone : l \in Labels(body[f])
  BY <1>1 DEF LabelsInv
<1> HIDE DEF l
<1>3. PICK b \in DOMAIN body[f] : body[f][b].label = l
  BY <1>2 DEF Labels
<1>4. ASSUME NEW g \in Funcs, \E c \in DOMAIN body[g] : body[g][c].label = l
      PROVE  g = f
  <2>1. l \in Labels(body[g])
    BY <1>4 DEF Labels
  <2> QED
    BY <1>2, <2>1, LabelsFrom
<1>5. FuncOf(l) = f
  BY <1>2, <1>3, <1>4 DEF FuncOf
<1>6. DistinctLabels(body[f])
  BY <1>2 DEF BodiesInv, OK
<1>7. \A c \in DOMAIN body[f] : body[f][c].label = l => c = b
  BY <1>3, <1>6 DEF DistinctLabels
<1>8. (CHOOSE c \in DOMAIN body[f] : body[f][c].label = l) = b
  BY <1>3, <1>7
<1>9. Candidate = body[f][b]
  BY <1>5, <1>8 DEF Candidate, l
<1> QED
  BY <1>2, <1>3, <1>5, <1>9 DEF l

(* The labels that are left.                                               *)
LEMMA TailLabels ==
  ASSUME NEW l \in Seq(Nat), l # <<>>, \A i, j \in DOMAIN l : l[i] = l[j] => i = j
  PROVE  /\ Tail(l) \in Seq(Nat)
         /\ \A i, j \in DOMAIN Tail(l) : Tail(l)[i] = Tail(l)[j] => i = j
         /\ \A i \in DOMAIN Tail(l) :
              \E k \in DOMAIN l : Tail(l)[i] = l[k] /\ l[k] # Head(l)
<1> DEFINE t == Tail(l)
<1>1. /\ t \in Seq(Nat) /\ 1 \in DOMAIN l /\ Head(l) = l[1] /\ DOMAIN t \in SUBSET Nat
      /\ \A k \in DOMAIN t : k + 1 \in DOMAIN l /\ t[k] = l[k + 1] /\ k + 1 # 1
  BY EmptySeq
<1> HIDE DEF t
<1>2. \A i, j \in DOMAIN t : t[i] = t[j] => i = j
  BY <1>1
<1>3. \A i \in DOMAIN t : \E k \in DOMAIN l : t[i] = l[k] /\ l[k] # Head(l)
  BY <1>1
<1> QED
  BY <1>1, <1>2, <1>3 DEF t

LEMMA ConsideredCtl ==
  ASSUME Ctl, prPhase = "extract", Considered, cur' = 2, UNCHANGED pipeVars
  PROVE  PrCtl' /\ PendingInv'
<1>1. /\ prPhase' = prPhase /\ perInstruction' = perInstruction /\ prFn' = prFn
      /\ insts' = insts
  BY DEF Considered
<1>2. /\ CurrentPromote' /\ perInstruction' \in BOOLEAN
      /\ perInstruction' = Current("promote-instructions")'
  BY <1>1, PromoteStays
<1>3. PrCtl'
  BY <1>1, <1>2 DEF Ctl, PrCtl
<1>4. PendingInv'
  BY <1>1 DEF Ctl, PendingInv, DistinctIds
<1> QED
  BY <1>3, <1>4

LEMMA PrConsiderStep ==
  ASSUME BodiesInv, TagInv, Ctl, TermInv, CurrentPromote, cur = 2, cur' = 2,
         UNCHANGED <<netVars, pipeVars, edits, tags>>,
         \/ PrSkipPad
         \/ \E k \in 0..MaxBadInputs : PrIneligible(k) \/ PrFail(k)
  PROVE  BodiesInv' /\ TagInv' /\ Ctl' /\ TermInv'
<1>1. /\ UNCHANGED <<body, nextId, promoted>> /\ Considered
      /\ prPhase = "extract" /\ blocksToPromote # <<>>
  BY DEF PrSkipPad, PrIneligible, PrFail, AtCandidate
<1>2. PrCtl' /\ PendingInv'
  BY <1>1, ConsideredCtl
<1>3. /\ blocksToPromote' = Tail(blocksToPromote)
      /\ prPhase' = prPhase /\ prFn' = prFn
  BY <1>1 DEF Considered
<1>4. LabelsInv'
  <2>1. /\ Tail(blocksToPromote) \in Seq(Nat)
        /\ \A i, j \in DOMAIN Tail(blocksToPromote) :
             Tail(blocksToPromote)[i] = Tail(blocksToPromote)[j] => i = j
        /\ \A i \in DOMAIN Tail(blocksToPromote) :
             \E k \in DOMAIN blocksToPromote :
               Tail(blocksToPromote)[i] = blocksToPromote[k]
    BY <1>1, TailLabels DEF Ctl, LabelsInv
  <2>2. Reached' = Reached
    BY <1>3 DEF Reached
  <2> QED
    BY <1>1, <1>3, <2>1, <2>2 DEF Ctl, LabelsInv
<1> QED
  BY <1>1, <1>2, <1>4, PrQuietStep

LEMMA PrExtractStep ==
  ASSUME BodiesInv, TagInv, Ctl, TermInv, CurrentPromote, cur = 2, cur' = 2,
         UNCHANGED <<netVars, pipeVars, edits, tags>>,
         NEW k \in 0..MaxBadInputs, PrExtract(k)
  PROVE  BodiesInv' /\ TagInv' /\ Ctl' /\ TermInv'
<1> DEFINE l == blocksToPromote
<1>1. /\ Considered /\ prPhase = "extract" /\ l # <<>>
      /\ body' = [body EXCEPT ![FuncOf(Head(l))] =
           [b \in DOMAIN @ |-> IF @[b] = Candidate THEN CallOfPromoted ELSE @[b]]]
      /\ promoted' = Append(promoted, Candidate)
      /\ nextId' = nextId + 3
  BY DEF PrExtract, AtCandidate
<1>2. PrCtl' /\ PendingInv'
  BY <1>1, ConsideredCtl
<1>3. l' = Tail(l) /\ prPhase' = prPhase /\ prFn' = prFn
  BY <1>1 DEF Considered
<1>4. PICK f \in Funcs \ OptNone : \E b \in DOMAIN body[f] :
           /\ FuncOf(Head(l)) = f /\ Candidate = body[f][b]
           /\ body[f][b].label = Head(l)
  BY <1>1, CandidateWhere DEF Ctl
<1>5. PICK b \in DOMAIN body[f] :
           /\ FuncOf(Head(l)) = f /\ Candidate = body[f][b]
           /\ body[f][b].label = Head(l)
  BY <1>4
<1> DEFINE B == body[f]
           D == [B EXCEPT ![b] = CallOfPromoted]
<1>6. /\ body \in [Funcs -> Seq(Block)] /\ B \in Seq(Block) /\ DistinctLabels(B)
      /\ nextId \in Nat /\ Terminated(B) /\ pipePhase = "run"
  BY PromoteAlone DEF BodiesInv, OK, TermInv
<1>7. Puts(f, D)
  <2>1. \A c \in DOMAIN B : B[c] = B[b] => c = b
    BY <1>6 DEF DistinctLabels
  <2>2. [c \in DOMAIN B |-> IF B[c] = Candidate THEN CallOfPromoted ELSE B[c]] = D
    BY <1>5, <1>6, <2>1
  <2>3. body' = [body EXCEPT ![f] =
           [c \in DOMAIN B |-> IF B[c] = Candidate THEN CallOfPromoted ELSE B[c]]]
    BY <1>1, <1>5
  <2> QED
    BY <2>2, <2>3 DEF Puts
<1>8. promoted' = Append(promoted, body[f][b])
  BY <1>1, <1>5
<1>9. BodiesInv' /\ \A z : Tagged(z)' <=> Tagged(z)
  BY <1>1, <1>7, <1>8, ExtractStep
<1>10. TagInv'
  BY <1>9, TagsKept
<1>11. Terminated(D)
  <2>1. CallOfPromoted.insts # <<>> /\ Last(CallOfPromoted.insts).kind \in Terminators
    <3> DEFINE y == CallOfPromoted.insts
    <3>1. CallOfPromoted \in Block /\ Len(y) = 2 /\ y[2] = NewInst(nextId + 2, "term")
      BY <1>6, CallOfPromotedParts
    <3>2. y \in Seq(Inst)
      BY <3>1 DEF Block
    <3> HIDE DEF y
    <3>0. Len(y) = 2
      BY <3>1
    <3>3. y # <<>> /\ Last(y) = y[2]
      BY ONLY <3>0, <3>2, SMTT(30) DEF Last
    <3> QED
      BY <3>1, <3>3 DEF NewInst, Terminators, y
  <2> QED
    BY <1>6, <2>1 DEF Terminated
<1>12. TermInv'
  BY <1>6, <1>7, <1>11, OneTerminated
<1>13. \A g \in Funcs : body'[g] = IF g = f THEN D ELSE body[g]
  BY <1>6, <1>7 DEF Puts
<1>14. LabelsInv'
  <2> DEFINE t == Tail(l)
  <2>1. /\ t \in Seq(Nat)
        /\ \A i, j \in DOMAIN t : t[i] = t[j] => i = j
        /\ \A i \in DOMAIN t : \E h \in DOMAIN l : t[i] = l[h] /\ l[h] # Head(l)
    BY <1>1, TailLabels DEF Ctl, LabelsInv
  <2>2. Reached' = Reached
    BY <1>3 DEF Reached
  <2>3. \A h \in DOMAIN l : \E g \in Reached \ OptNone :
          g \in Funcs /\ l[h] \in Labels(body[g])
    BY DEF Ctl, LabelsInv
  <2> HIDE DEF t, l
  <2>4. ASSUME NEW i \in DOMAIN t
        PROVE  \E g \in Reached \ OptNone : g \in Funcs /\ t[i] \in Labels(body'[g])
    <3>1. PICK h \in DOMAIN l : t[i] = l[h] /\ l[h] # Head(l)
      BY <2>1
    <3>2. PICK g \in Reached \ OptNone : g \in Funcs /\ l[h] \in Labels(body[g])
      BY <2>3
    <3>3. PICK c \in DOMAIN body[g] : l[h] = body[g][c].label
      BY <3>2 DEF Labels
    <3>4. c \in DOMAIN body'[g] /\ body'[g][c] = body[g][c]
      <4>1. CASE g # f
        BY <1>13, <3>2, <3>3, <4>1
      <4>2. CASE g = f
        <5>1. c # b
          BY <1>5, <3>1, <3>3, <4>2
        <5> QED
          BY <1>6, <1>13, <3>3, <4>2, <5>1
      <4> QED
        BY <4>1, <4>2
    <3>5. t[i] \in Labels(body'[g])
      BY <3>1, <3>3, <3>4 DEF Labels
    <3> QED
      BY <3>2, <3>5
  <2>5. blocksToPromote' = t
    BY <1>3 DEF t, l
  <2> QED
    BY <2>1, <2>2, <2>4, <2>5 DEF LabelsInv
<1>15. Ctl'
  BY <1>2, <1>14, PromoteCurrent
<1> QED
  BY <1>9, <1>10, <1>12, <1>15

LEMMA RunPromoteStep ==
  ASSUME BodiesInv, TagInv, Ctl, TermInv, RunPromote
  PROVE  BodiesInv' /\ TagInv' /\ Ctl' /\ TermInv'
<1>1. /\ CurrentPromote /\ UNCHANGED <<netVars, pipeVars, edits, tags>>
      /\ \/ PrStart(Current("promote-instructions")) /\ cur' = 2
         \/ cur = 2 /\ (PrCollect \/ PrPromote) /\ cur' = 2
  BY DEF RunPromote
<1>2. CASE PrStart(Current("promote-instructions")) /\ cur' = 2
  BY <1>1, <1>2, PrStartStep
<1>3. CASE cur = 2 /\ PrCollect /\ cur' = 2
  <2>1. CASE PrSkipFunction \/ PrEndSplit \/ PrEndCollect
    BY <1>1, <1>3, <2>1, PrNextFunctionStep
  <2>2. CASE PrTakeBlocks
    BY <1>1, <1>3, <2>2, PrTakeBlocksStep
  <2>3. CASE PrTakeInstructions
    BY <1>1, <1>3, <2>3, PrTakeInstructionsStep
  <2>4. CASE PrSplit
    BY <1>1, <1>3, <2>4, PrSplitStep
  <2> QED
    BY <1>3, <2>1, <2>2, <2>3, <2>4 DEF PrCollect
<1>4. CASE cur = 2 /\ PrPromote /\ cur' = 2
  <2>1. CASE PrSkipPad \/ \E k \in 0..MaxBadInputs : PrIneligible(k) \/ PrFail(k)
    BY <1>1, <1>4, <2>1, PrConsiderStep
  <2>2. CASE PrFinish
    BY <1>1, <1>4, <2>2, PrNextFunctionStep
  <2>3. CASE \E k \in 0..MaxBadInputs : PrExtract(k)
    <3>1. PICK k \in 0..MaxBadInputs : PrExtract(k)
      BY <2>3
    <3> QED
      BY <1>1, <1>4, <3>1, PrExtractStep
  <2> QED
    BY <1>4, <2>1, <2>2, <2>3 DEF PrPromote
<1> QED
  BY <1>1, <1>2, <1>3, <1>4

-----------------------------------------------------------------------------
BodyInv == BodiesInv /\ TagInv /\ Ctl /\ TermInv

LEMMA BodyInvInit == Init => BodyInv
<1> SUFFICES ASSUME Init PROVE BodyInv
  OBVIOUS
<1>1. BodiesInv /\ TagInv
  BY BodiesInvInit
<1>2. /\ netFn = 0 /\ netBlock = 0 /\ netInst = 0 /\ modified = FALSE
      /\ preserved = [f \in Funcs |-> "unknown"]
      /\ prPhase = "idle" /\ perInstruction = FALSE
      /\ insts = <<>> /\ blocksToPromote = <<>>
      /\ pipePhase = "parse" /\ position = 1 /\ cur = 1 /\ edits \in 0..MaxEdits
  BY DEF Init, NetInit, PrInit, PipeInit
<1>3. NetCtl
  BY <1>2 DEF NetCtl
<1>4. CurCtl /\ PrCtl
  BY <1>2 DEF CurCtl, PrCtl
<1>5. LabelsInv /\ PendingInv
  <2>1. <<>> \in Seq(Nat) /\ <<>> \in Seq(Inst) /\ DOMAIN <<>> = {}
    OBVIOUS
  <2> QED
    BY <1>2, <2>1 DEF LabelsInv, PendingInv, DistinctIds
<1>6. TermInv
  BY <1>2 DEF TermInv
<1> QED
  BY <1>1, <1>3, <1>4, <1>5, <1>6 DEF BodyInv, Ctl

LEMMA BodyInvStep == BodyInv /\ [Next]_vars => BodyInv'
<1> SUFFICES ASSUME BodyInv, [Next]_vars PROVE BodyInv'
  OBVIOUS
<1>0. BodiesInv /\ TagInv /\ Ctl /\ TermInv
  BY DEF BodyInv
<1>1. CASE Attach
  BY <1>0, <1>1, AttachStep DEF BodyInv
<1>2. CASE CreateMarker
  BY <1>0, <1>2, CreateMarkerStep DEF BodyInv
<1>3. CASE Terminate
  BY <1>0, <1>3, TerminateStep DEF BodyInv
<1>4. CASE ParseStep
  BY <1>0, <1>4, ParseStepStep DEF BodyInv
<1>5. CASE RunNet
  BY <1>0, <1>5, RunNetStep DEF BodyInv
<1>6. CASE RunPromote
  BY <1>0, <1>6, RunPromoteStep DEF BodyInv
<1>7. CASE NetPassEnds \/ PromotePassEnds \/ OtherPass \/ PipelineEnds
  BY <1>0, <1>7, PassEndsStep DEF BodyInv
<1>8. CASE UNCHANGED vars
  <2>1. /\ UNCHANGED <<body, nextId, promoted, tags>> /\ cur' = cur /\ edits' = edits
        /\ UNCHANGED <<netFn, netBlock, netInst, modified, preserved>>
        /\ UNCHANGED <<prPhase, perInstruction, prFn, insts, blocksToPromote>>
        /\ UNCHANGED pipeVars
    BY <1>8 DEF vars, netVars, prVars, imVars
  <2>2. NetCtl' /\ CurCtl'
    BY <1>0, <2>1 DEF Ctl, NetCtl, CurCtl, AtInst, Current, CurrentPromote, pipeVars
  <2>3. PrCtl'
    BY <1>0, <2>1 DEF Ctl, PrCtl, Current, CurrentPromote, pipeVars
  <2>4. LabelsInv' /\ PendingInv'
    BY <1>0, <2>1 DEF Ctl, LabelsInv, Reached, PendingInv, DistinctIds
  <2>5. TermInv'
    BY <1>0, <2>1 DEF TermInv, Terminated, pipeVars
  <2> QED
    BY <1>0, <2>1, <2>2, <2>3, <2>4, <2>5, SameBodies DEF BodyInv, Ctl
<1> QED
  BY <1>1, <1>2, <1>3, <1>4, <1>5, <1>6, <1>7, <1>8 DEF Next, Done

LEMMA BodyInvAlways == Spec => []BodyInv
<1>1. Init => BodyInv
  BY BodyInvInit
<1>2. BodyInv /\ [Next]_vars => BodyInv'
  BY BodyInvStep
<1> QED
  BY <1>1, <1>2, PTL DEF Spec

(* The counters are numbers, and they add up.                              *)
Counters(c, i, f, p) ==
  [candidates |-> c, ineligible |-> i, failed |-> f, promoted |-> p]

CountInv ==
  \E c, i, f, p \in Nat :
    /\ stats = Counters(c, i, f, p)
    /\ considered \in Nat /\ badInputs \in Nat
    /\ i + f + p = considered + badInputs

counters == <<stats, considered, badInputs>>

LEMMA CountInvInit == Init => CountInv
<1> SUFFICES ASSUME Init PROVE CountInv
  OBVIOUS
<1>1. stats = Counters(0, 0, 0, 0) /\ considered = 0 /\ badInputs = 0
  BY DEF Init, PrInit, Counters
<1> QED
  BY <1>1 DEF CountInv

(* A candidate with k inputs of unsupported type adds k + 1.               *)
LEMMA CountCandidate ==
  \A k \in Nat, stat \in {"ineligible", "failed", "promoted"} :
    CountInv /\ CountBadInputs(k, stat) /\ considered' = considered + 1
      => CountInv'
<1>1. ASSUME NEW k \in Nat, NEW stat \in {"ineligible", "failed", "promoted"},
             CountInv, CountBadInputs(k, stat), considered' = considered + 1
      PROVE  CountInv'
  <2>1. PICK c \in Nat : \E i, f, p \in Nat :
               /\ stats = Counters(c, i, f, p)
               /\ considered \in Nat /\ badInputs \in Nat
               /\ i + f + p = considered + badInputs
    BY <1>1 DEF CountInv
  <2>2. PICK i \in Nat, f \in Nat, p \in Nat :
               /\ stats = Counters(c, i, f, p)
               /\ considered \in Nat /\ badInputs \in Nat
               /\ i + f + p = considered + badInputs
    BY <2>1
  <2>3. badInputs' = badInputs + k
    BY <1>1 DEF CountBadInputs
  <2>4. considered' \in Nat /\ badInputs' \in Nat
    BY <1>1, <2>2, <2>3
  <2>5. i + f + p + k + 1 = considered' + badInputs'
    BY <1>1, <2>2, <2>3
  <2>6. stats' = [[Counters(c, i, f, p) EXCEPT ![stat] = @ + 1]
                   EXCEPT !.ineligible = @ + k]
    BY <1>1, <2>2 DEF CountBadInputs
  <2>7. CASE stat = "ineligible"
    <3>1. stats' = Counters(c, i + 1 + k, f, p)
      BY <2>6, <2>7 DEF Counters
    <3>2. (i + 1 + k) + f + p = considered' + badInputs' /\ i + 1 + k \in Nat
      BY <2>5
    <3> QED
      BY <2>4, <3>1, <3>2 DEF CountInv
  <2>8. CASE stat = "failed"
    <3>1. stats' = Counters(c, i + k, f + 1, p)
      BY <2>6, <2>8 DEF Counters
    <3>2. /\ (i + k) + (f + 1) + p = considered' + badInputs'
          /\ i + k \in Nat /\ f + 1 \in Nat
      BY <2>5
    <3> QED
      BY <2>4, <3>1, <3>2 DEF CountInv
  <2>9. CASE stat = "promoted"
    <3>1. stats' = Counters(c, i + k, f, p + 1)
      BY <2>6, <2>9 DEF Counters
    <3>2. /\ (i + k) + f + (p + 1) = considered' + badInputs'
          /\ i + k \in Nat /\ p + 1 \in Nat
      BY <2>5
    <3> QED
      BY <2>4, <3>1, <3>2 DEF CountInv
  <2> QED
    BY <2>7, <2>8, <2>9
<1> QED
  BY <1>1

(* A pad is a candidate that adds one.                                     *)
LEMMA CountPad ==
  ASSUME CountInv, PrSkipPad PROVE CountInv'
<1>1. PICK c \in Nat : \E i, f, p \in Nat : /\ stats = Counters(c, i, f, p)
                                    /\ i + f + p = considered + badInputs
  BY DEF CountInv
<1>2. PICK i \in Nat, f \in Nat, p \in Nat :
        stats = Counters(c, i, f, p) /\ i + f + p = considered + badInputs
  BY <1>1
<1>3. /\ stats' = [stats EXCEPT !.ineligible = @ + 1]
      /\ considered' = considered + 1 /\ badInputs' = badInputs
  BY DEF PrSkipPad, Considered
<1>4. considered \in Nat /\ badInputs \in Nat
  BY DEF CountInv
<1>5. stats' = Counters(c, i + 1, f, p)
  BY <1>2, <1>3 DEF Counters
<1>6. /\ (i + 1) + f + p = considered' + badInputs' /\ i + 1 \in Nat
      /\ considered' \in Nat /\ badInputs' \in Nat
  BY <1>2, <1>3, <1>4
<1> QED
  BY <1>5, <1>6 DEF CountInv

(* Collecting sets the number of candidates only.                          *)
LEMMA CountCollect ==
  ASSUME CountInv, PrCollect, blocksToPromote \in Seq(Nat) PROVE CountInv'
<1>1. CASE PrEndCollect
  <2>1. /\ stats' = [stats EXCEPT !.candidates = Len(blocksToPromote)]
        /\ UNCHANGED <<considered, badInputs>>
    BY <1>1 DEF PrEndCollect
  <2>2. PICK c \in Nat : \E i, f, p \in Nat : /\ stats = Counters(c, i, f, p)
                                      /\ i + f + p = considered + badInputs
    BY DEF CountInv
  <2>3. PICK i \in Nat, f \in Nat, p \in Nat :
          stats = Counters(c, i, f, p) /\ i + f + p = considered + badInputs
    BY <2>2
  <2>4. stats' = Counters(Len(blocksToPromote), i, f, p)
    <3>1. stats = [candidates |-> c, ineligible |-> i, failed |-> f, promoted |-> p]
      BY <2>3 DEF Counters
    <3>2. stats' = [stats EXCEPT !.candidates = Len(blocksToPromote)]
      BY <2>1
    <3> QED
      BY <3>1, <3>2, Zenon DEF Counters
  <2>5. Len(blocksToPromote) \in Nat
    OBVIOUS
  <2>6. considered \in Nat /\ badInputs \in Nat
    BY DEF CountInv
  <2> QED
    BY <2>1, <2>3, <2>4, <2>5, <2>6 DEF CountInv
<1>2. CASE UNCHANGED counters
  BY <1>2 DEF counters, CountInv
<1>3. PrEndCollect \/ UNCHANGED counters
  BY DEF PrCollect, PrSkipFunction, PrTakeBlocks, PrTakeInstructions, PrSplit,
         PrEndSplit, counters
<1> QED
  BY <1>1, <1>2, <1>3

(* Only promote-blocks counts, whatever else is run.                       *)
LEMMA CountInvNext == CountInv /\ BodyInv /\ [Next]_vars => CountInv'
<1> SUFFICES ASSUME CountInv, BodyInv, [Next]_vars PROVE CountInv'
  OBVIOUS
<1>0. blocksToPromote \in Seq(Nat)
  BY DEF BodyInv, Ctl, LabelsInv
<1> USE DEF prVars
<1>1. CASE UNCHANGED counters
  BY <1>1 DEF counters, CountInv
<1>2. CASE RunPromote
  <2>1. CASE \E each : PrStart(each)
    BY <1>1, <2>1 DEF PrStart, counters
  <2>2. CASE PrCollect
    BY <1>0, <2>2, CountCollect
  <2>3. CASE PrSkipPad
    BY <2>3, CountPad
  <2>4. CASE PrFinish
    BY <1>1, <2>4 DEF PrFinish, counters
  <2>5. ASSUME NEW k \in 0..MaxBadInputs, PrIneligible(k) PROVE CountInv'
    <3>1. k \in Nat
      BY BadInputsAssumption
    <3> QED
      BY <2>5, <3>1, CountCandidate DEF PrIneligible, Considered
  <2>6. ASSUME NEW k \in 0..MaxBadInputs, PrFail(k) PROVE CountInv'
    <3>1. k \in Nat
      BY BadInputsAssumption
    <3> QED
      BY <2>6, <3>1, CountCandidate DEF PrFail, Considered
  <2>7. ASSUME NEW k \in 0..MaxBadInputs, PrExtract(k) PROVE CountInv'
    <3>1. k \in Nat
      BY BadInputsAssumption
    <3> QED
      BY <2>7, <3>1, CountCandidate DEF PrExtract, Considered
  <2> QED
    BY <1>2, <2>1, <2>2, <2>3, <2>4, <2>5, <2>6, <2>7 DEF RunPromote, PrPromote
<1>3. CASE Attach \/ CreateMarker \/ Terminate
  BY <1>1, <1>3 DEF Attach, CreateMarker, Terminate, BeforeThePasses, counters
<1>4. CASE ParseStep \/ RunNet \/ NetPassEnds \/ PromotePassEnds
           \/ OtherPass \/ PipelineEnds \/ Done \/ UNCHANGED vars
  BY <1>1, <1>4 DEF ParseStep, RunNet, NetPassEnds, PromotePassEnds,
                    OtherPass, PipelineEnds, Done, vars, counters
<1> QED
  BY <1>2, <1>3, <1>4 DEF Next

LEMMA CountInvAlways == Spec => []CountInv
<1>1. CountInv /\ BodyInv /\ [Next]_vars => CountInv'
  BY CountInvNext
<1> QED
  BY CountInvInit, BodyInvAlways, <1>1, PTL DEF Spec

(* However often promote-blocks is run, what becomes of the candidates and *)
(* the inputs of unsupported type account for its statistics.              *)
THEOREM CountersStayAddedUp == Spec => []CountersAddUp
<1>1. CountInv => CountersAddUp
  BY DEF CountInv, CountersAddUp, Counters
<1> QED
  BY CountInvAlways, <1>1, PTL

(* Instructions, positions, phases and counters stay what they are taken   *)
(* for.                                                                    *)
THEOREM TypesStay == Spec => []InstrumentTypeOK
<1>1. BodyInv /\ PipeInv /\ CountInv => InstrumentTypeOK
  <2> SUFFICES ASSUME BodyInv, PipeInv, CountInv PROVE InstrumentTypeOK
    OBVIOUS
  <2>1. /\ BodyTypeOK /\ PipeTypeOK
        /\ netFn \in Funcs \cup {0} /\ modified \in BOOLEAN
        /\ preserved \in [Funcs -> {"unknown", "all", "cfg"}]
        /\ prPhase \in {"idle", "collect", "split", "extract"}
        /\ edits \in 0..MaxEdits
    BY DEF BodyInv, BodiesInv, PipeInv, Ctl, NetCtl, CurCtl, PrCtl, BodyTypeOK
  <2>2. cur \in 1..(N + 2)
    <3>1. cur = 1 \/ cur \in 1..(N + 1) \/ cur = 2
      BY DEF BodyInv, Ctl, CurCtl
    <3> QED
      BY <3>1, FunctionsAssumption
  <2>3. stats \in [{"candidates", "ineligible", "failed", "promoted"} -> Nat]
    BY DEF CountInv, Counters
  <2> QED
    BY <2>1, <2>2, <2>3 DEF InstrumentTypeOK
<1> QED
  BY BodyInvAlways, PipeInvInit, PipeInvNext, CountInvAlways, <1>1, PTL DEF Spec

-----------------------------------------------------------------------------
(* What is looked for in a function, block by block.                       *)

SelectMap(T) == [x \in Block |-> Select(x.insts, T)]

LEMMA SelectedIsFlatMap ==
  ASSUME NEW B \in Seq(Block), NEW T
  PROVE  /\ SelectMap(T) \in SeqMaps(Block, Inst)
         /\ FlattenSeq([b \in DOMAIN B |-> Select(B[b].insts, T)])
              = FlatMap(SelectMap(T), B)
<1>1. \A x \in Block : Select(x.insts, T) \in Seq(Inst)
  BY SelectType DEF Block
<1>2. SelectMap(T) \in SeqMaps(Block, Inst)
  BY <1>1 DEF SelectMap, SeqMaps
<1>3. \A b \in DOMAIN B : B[b] \in Block
  OBVIOUS
<1>4. [b \in DOMAIN B |-> Select(B[b].insts, T)] = Parts(SelectMap(T), B)
  BY <1>3 DEF Parts, SelectMap
<1> QED
  BY <1>2, <1>4 DEF FlatMap

LEMMA SelectedInBlocks ==
  ASSUME NEW B \in Seq(Block), NEW T
  PROVE  FlattenSeq([b \in DOMAIN B |-> Select(B[b].insts, T)])
           = Select(InstsOf(B), T)
<1> DEFINE g == SelectMap(T)
           P == {C \in Seq(Block) : FlatMap(g, C) = Select(InstsOf(C), T)}
<1>0. g \in SeqMaps(Block, Inst)
  BY SelectedIsFlatMap
<1>1. <<>> \in P
  BY FlatMapEmpty, InstsEmpty, SelectEmpty
<1>2. ASSUME NEW C \in P, NEW x \in Block PROVE Append(C, x) \in P
  <2> DEFINE y == <<x>>
  <2>1. C \in Seq(Block) /\ y \in Seq(Block) /\ x.insts \in Seq(Inst)
        /\ FlatMap(g, C) = Select(InstsOf(C), T)
    BY DEF Block
  <2>2. Append(C, x) = C \o y /\ C \o y \in Seq(Block)
    BY <2>1
  <2>3. FlatMap(g, y) = Select(x.insts, T)
    BY <1>0, FlatMapOne DEF SelectMap
  <2>4. InstsOf(y) = x.insts
    BY InstsOne
  <2> HIDE DEF g, y
  <2>5. FlatMap(g, C \o y) = FlatMap(g, C) \o FlatMap(g, y)
    BY <1>0, <2>1, FlatMapConcat
  <2>6. InstsOf(C \o y) = InstsOf(C) \o InstsOf(y) /\ InstsOf(C) \in Seq(Inst)
    BY <2>1, InstsConcat, InstsType
  <2> DEFINE p == InstsOf(C)
             q == x.insts
  <2>7. p \in Seq(Inst) /\ q \in Seq(Inst)
    BY <2>1, <2>6
  <2> HIDE DEF p, q
  <2>8. Select(p \o q, T) = Select(p, T) \o Select(q, T)
    BY <2>7, SelectConcat
  <2> QED
    BY <2>1, <2>2, <2>3, <2>4, <2>5, <2>6, <2>8 DEF p, q
<1> HIDE DEF g
<1>3. P \in SUBSET Seq(Block)
  OBVIOUS
<1> HIDE DEF P
<1>4. P = Seq(Block)
  BY <1>1, <1>2, <1>3, SequenceInduction
<1>5. FlatMap(g, B) = Select(InstsOf(B), T)
  BY <1>4 DEF P
<1> QED
  BY <1>5, SelectedIsFlatMap DEF g

(* The lookups, by what they look for.                                     *)
Node(name, values) == With(name) \cap WithOneOf(name, values)
Marker(name, values) == (Markers \cap With(name)) \cap WithOneOf(name, values)

LEMMA FindInBlock ==
  ASSUME NEW block \in Block, NEW name, NEW values
  PROVE  /\ FindMetadataIf(block, name, values) = Select(block.insts, Node(name, values))
         /\ FindMarkersIf(block, name, values) = Select(block.insts, Marker(name, values))
<1> DEFINE s == block.insts
<1>1. s \in Seq(Inst)
  BY DEF Block
<1> HIDE DEF s
<1>2. Select(Select(s, With(name)), WithOneOf(name, values)) = Select(s, Node(name, values))
  BY <1>1, SelectSelect DEF Node
<1>3. Select(Select(s, Markers), With(name)) = Select(s, Markers \cap With(name))
  BY <1>1, SelectSelect
<1>4. Select(Select(s, Markers \cap With(name)), WithOneOf(name, values))
        = Select(s, Marker(name, values))
  BY <1>1, SelectSelect DEF Marker
<1> QED
  BY <1>2, <1>3, <1>4
     DEF s, FindMetadataIf, FindMetadata, FindMarkersIf, FindNamedMarkers, FindMarkers

LEMMA FindInFunction ==
  ASSUME NEW B \in Seq(Block), NEW name, NEW values
  PROVE  /\ FindMetadataIn(B, name) = Select(InstsOf(B), With(name))
         /\ FindMetadataIfIn(B, name, values) = Select(InstsOf(B), Node(name, values))
         /\ FindMarkersIn(B) = Select(InstsOf(B), Markers)
         /\ FindMarkersIfIn(B, name, values) = Select(InstsOf(B), Marker(name, values))
<1>1. \A b \in DOMAIN B : B[b] \in Block
  OBVIOUS
<1>2. FindMetadataIn(B, name) = Select(InstsOf(B), With(name))
  BY SelectedInBlocks DEF FindMetadataIn, FindMetadata
<1>3. FindMarkersIn(B) = Select(InstsOf(B), Markers)
  BY SelectedInBlocks DEF FindMarkersIn, FindMarkers
<1>4. [b \in DOMAIN B |-> FindMetadataIf(B[b], name, values)]
        = [b \in DOMAIN B |-> Select(B[b].insts, Node(name, values))]
  BY <1>1, FindInBlock
<1>5. [b \in DOMAIN B |-> FindMarkersIf(B[b], name, values)]
        = [b \in DOMAIN B |-> Select(B[b].insts, Marker(name, values))]
  BY <1>1, FindInBlock
<1> QED
  BY <1>2, <1>3, <1>4, <1>5, SelectedInBlocks DEF FindMetadataIfIn, FindMarkersIfIn

(* Different identities are as many as there are instructions.             *)
LEMMA CountIds ==
  ASSUME NEW s \in Seq(Inst), DistinctIds(s) PROVE Cardinality(Ids(s)) = Len(s)
<1> DEFINE n == Len(s)
           M == [i \in 1..n |-> s[i].id]
<1>1. n \in Nat /\ DOMAIN s = 1..n
  OBVIOUS
<1>2. M \in [1..n -> Ids(s)]
  BY <1>1 DEF Ids
<1>3. \A i, j \in 1..n : M[i] = M[j] => i = j
  BY <1>1 DEF DistinctIds
<1>4. \A id \in Ids(s) : \E i \in 1..n : M[i] = id
  BY <1>1 DEF Ids
<1> HIDE DEF M, n
<1>5. M \in Bijection(1..n, Ids(s))
  BY <1>2, <1>3, <1>4 DEF Bijection, Injection, Surjection, IsInjective
<1>6. ExistsBijection(1..n, Ids(s))
  BY <1>5 DEF ExistsBijection
<1> QED
  BY <1>1, <1>6, FS_CountingElements DEF n

(* The identities of what is selected.                                     *)
LEMMA SelectedIds ==
  ASSUME NEW s \in Seq(Inst), NEW T
  PROVE  /\ \A id : id \in Ids(Select(s, T)) <=> \E x \in ToSet(s) \cap T : x.id = id
         /\ Ids(Select(s, T)) \subseteq Ids(s)
         /\ DistinctIds(s) => Cardinality(Ids(Select(s, T))) = Len(Select(s, T))
<1> DEFINE t == Select(s, T)
<1>1. t \in Seq(Inst) /\ ToSet(t) = ToSet(s) \cap T
  BY SelectType, SelectElements
<1>2. DistinctIds(s) => Distinct(t, IdKey)
  BY IdsAreKeys, SelectDistinct
<1> HIDE DEF t
<1>3. \A id : id \in Ids(t) <=> \E x \in ToSet(s) \cap T : x.id = id
  BY <1>1, IdsOfElements
<1>4. Ids(t) \subseteq Ids(s)
  BY <1>3, IdsOfElements
<1>5. DistinctIds(s) => Cardinality(Ids(t)) = Len(t)
  BY <1>1, <1>2, IdsAreKeys, CountIds
<1> QED
  BY <1>3, <1>4, <1>5 DEF t

(* The identities that were tagged so, and those of what carries the tag.  *)
LEMMA TaggedIds ==
  ASSUME BodiesInv, TagInv, NEW name \in MdNames, NEW s \in Strings
  PROVE  {t[1] : t \in {u \in tags : u[2] = name /\ u[3] = s}}
           = (UNION {Ids(FindMetadataIfIn(body[f], name, {s})) : f \in Funcs})
               \cup Ids(FindMetadataIfIn(promoted, name, {s}))
<1> DEFINE T == Node(name, {s})
           here(f) == FindMetadataIfIn(body[f], name, {s})
           there == FindMetadataIfIn(promoted, name, {s})
           tagged == {t[1] : t \in {u \in tags : u[2] = name /\ u[3] = s}}
<1>1. \A x \in Inst : x \in T <=> Has(x, name) /\ x.md[name] = s
  BY DEF Node, With, WithOneOf, GetMetadata
<1>2. \A x \in Inst : Has(x, name) => HasMetadata(x)
  BY DEF HasMetadata
<1>3. ASSUME NEW id PROVE id \in tagged <=> <<id, name, s>> \in tags
  <2>1. ASSUME id \in tagged PROVE <<id, name, s>> \in tags
    <3>1. PICK t \in tags : t[2] = name /\ t[3] = s /\ t[1] = id
      BY <2>1
    <3>2. \E i, n, v : t = <<i, n, v>>
      BY DEF TagInv
    <3> QED
      BY <3>1, <3>2
  <2>2. ASSUME <<id, name, s>> \in tags PROVE id \in tagged
    BY <2>2
  <2> QED
    BY <2>1, <2>2
<1>4. ASSUME NEW id
      PROVE  id \in tagged
                <=> \E x \in Inst : Tagged(x) /\ x \in T /\ x.id = id
  <2>1. <<id, name, s>> \in tags
          <=> \E x \in Inst : Tagged(x) /\ x.id = id /\ Has(x, name) /\ x.md[name] = s
    BY DEF TagInv
  <2> HIDE DEF tagged, T
  <2> QED
    BY <1>1, <1>3, <2>1
<1>5. ASSUME NEW f \in Funcs
      PROVE  \A id : id \in Ids(here(f))
                       <=> \E x \in ToSet(InstsOf(body[f])) \cap T : x.id = id
  <2>1. body[f] \in Seq(Block)
    BY DEF BodiesInv
  <2>2. InstsOf(body[f]) \in Seq(Inst) /\ here(f) = Select(InstsOf(body[f]), T)
    BY <2>1, InstsType, FindInFunction
  <2> HIDE DEF here, T
  <2> QED
    BY <2>2, SelectedIds
<1>6. \A id : id \in Ids(there)
                <=> \E x \in ToSet(InstsOf(promoted)) \cap T : x.id = id
  <2>1. promoted \in Seq(Block)
    BY DEF BodiesInv
  <2>2. InstsOf(promoted) \in Seq(Inst) /\ there = Select(InstsOf(promoted), T)
    BY <2>1, InstsType, FindInFunction
  <2> HIDE DEF there, T
  <2> QED
    BY <2>2, SelectedIds
<1>7. /\ \A f \in Funcs : ToSet(InstsOf(body[f])) \subseteq Inst
      /\ ToSet(InstsOf(promoted)) \subseteq Inst
  BY InstsType, ElementsTyped DEF BodiesInv
<1>8. T \subseteq Inst
  BY DEF Node, With
<1> HIDE DEF tagged, here, there, T
<1>9. \A x \in Inst : Tagged(x) /\ x \in T
         <=> x \in T /\ (\/ \E f \in Funcs : x \in ToSet(InstsOf(body[f]))
                         \/ x \in ToSet(InstsOf(promoted)))
  BY <1>1, <1>2 DEF Tagged
<1>10. ASSUME NEW id
       PROVE  id \in tagged
                <=> id \in (UNION {Ids(here(f)) : f \in Funcs}) \cup Ids(there)
  <2>1. id \in UNION {Ids(here(f)) : f \in Funcs}
          <=> \E f \in Funcs : id \in Ids(here(f))
    OBVIOUS
  <2>2. id \in tagged <=> \E x \in Inst : x \in T /\ x.id = id
          /\ (\/ \E f \in Funcs : x \in ToSet(InstsOf(body[f]))
              \/ x \in ToSet(InstsOf(promoted)))
    BY <1>4, <1>9
  <2> QED
    BY <1>5, <1>6, <1>7, <2>1, <2>2
<1>11. tagged = (UNION {Ids(here(f)) : f \in Funcs}) \cup Ids(there)
  BY <1>10
<1> QED
  BY <1>11 DEF tagged, here, there

(* Whatever is edited, and wherever traps are inserted and blocks split    *)
(* and extracted: what is found under a name, with a node, is what the     *)
(* node was attached to last; each instruction once, and in one function.  *)
THEOREM TagsStayFound == Spec => []TagsAreFound
<1>1. BodyInv => TagsAreFound
  <2> SUFFICES ASSUME BodyInv, NEW name \in MdNames, NEW s \in Strings
               PROVE  LET here(f) == FindMetadataIfIn(body[f], name, {s})
                          there == FindMetadataIfIn(promoted, name, {s})
                          tagged == {t[1] : t \in {u \in tags : u[2] = name /\ u[3] = s}}
                      IN /\ (UNION {Ids(here(f)) : f \in Funcs}) \cup Ids(there) = tagged
                         /\ \A f \in Funcs :
                              /\ Cardinality(Ids(here(f))) = Len(here(f))
                              /\ Ids(here(f)) \cap Ids(there) = {}
                              /\ Ids(here(f)) \subseteq Ids(FindMetadataIn(body[f], name))
    BY DEF TagsAreFound
  <2>0. BodiesInv /\ TagInv
    BY DEF BodyInv
  <2>1. {t[1] : t \in {u \in tags : u[2] = name /\ u[3] = s}}
           = (UNION {Ids(FindMetadataIfIn(body[f], name, {s})) : f \in Funcs})
               \cup Ids(FindMetadataIfIn(promoted, name, {s}))
    BY <2>0, TaggedIds
  <2>2. ASSUME NEW f \in Funcs
        PROVE  LET here == FindMetadataIfIn(body[f], name, {s})
                   there == FindMetadataIfIn(promoted, name, {s})
               IN /\ Cardinality(Ids(here)) = Len(here)
                  /\ Ids(here) \cap Ids(there) = {}
                  /\ Ids(here) \subseteq Ids(FindMetadataIn(body[f], name))
    <3> DEFINE t == InstsOf(body[f])
               r == InstsOf(promoted)
               T == Node(name, {s})
    <3>1. /\ body[f] \in Seq(Block) /\ promoted \in Seq(Block) /\ DistinctIds(t)
          /\ Ids(t) \cap Ids(r) = {}
      BY <2>0 DEF BodiesInv, OK
    <3>2. t \in Seq(Inst) /\ r \in Seq(Inst)
      BY <3>1, InstsType
    <3>3. /\ FindMetadataIfIn(body[f], name, {s}) = Select(t, T)
          /\ FindMetadataIfIn(promoted, name, {s}) = Select(r, T)
          /\ FindMetadataIn(body[f], name) = Select(t, With(name))
      BY <3>1, FindInFunction
    <3>4. T \subseteq With(name)
      BY DEF Node
    <3> HIDE DEF t, r, T
    <3>5. /\ Cardinality(Ids(Select(t, T))) = Len(Select(t, T))
          /\ Ids(Select(t, T)) \subseteq Ids(t)
          /\ Ids(Select(r, T)) \subseteq Ids(r)
      BY <3>1, <3>2, SelectedIds
    <3>6. Ids(Select(t, T)) \subseteq Ids(Select(t, With(name)))
      BY <3>2, <3>4, SelectedIds
    <3> QED
      BY <3>1, <3>3, <3>5, <3>6
  <2> QED
    BY <2>1, <2>2
<1> QED
  BY <1>1, BodyInvAlways, PTL

-----------------------------------------------------------------------------
(* The first of the markers that there are.                                *)
HitsIn(B, name, values) == {b \in DOMAIN B : FindMarkerIf(B[b], name, values) # <<>>}

LEMMA FirstHit ==
  ASSUME NEW B, NEW name, NEW values
  PROVE  FindMarkerIfIn(B, name, values)
           = IF HitsIn(B, name, values) = {} THEN <<>>
             ELSE FindMarkerIf(B[Min(HitsIn(B, name, values))], name, values)
BY DEF FindMarkerIfIn, HitsIn

LEMMA FirstMarker ==
  ASSUME NEW B \in Seq(Block), NEW name, NEW values
  PROVE  LET all == FindMarkersIfIn(B, name, values)
         IN FindMarkerIfIn(B, name, values)
              = IF all = <<>> THEN <<>> ELSE <<Head(all)>>
<1> DEFINE F(b) == FindMarkersIf(B[b], name, values)
           ss == [b \in DOMAIN B |-> F(b)]
           hits == HitsIn(B, name, values)
<1>1. \A b \in DOMAIN B : F(b) \in Seq(Inst)
  <2>1. ASSUME NEW b \in DOMAIN B PROVE F(b) \in Seq(Inst)
    <3>1. B[b] \in Block /\ B[b].insts \in Seq(Inst)
      BY BlockParts
    <3>2. F(b) = Select(B[b].insts, Marker(name, values))
      BY <3>1, FindInBlock
    <3> QED
      BY <3>1, <3>2, SelectType
  <2> QED
    BY <2>1
<1>2. \A b \in DOMAIN B :
        FindMarkerIf(B[b], name, values) = IF F(b) = <<>> THEN <<>> ELSE <<Head(F(b))>>
  BY DEF FindMarkerIf
<1>3. FindMarkersIfIn(B, name, values) = FlattenSeq(ss)
  BY DEF FindMarkersIfIn
<1>4. FindMarkerIfIn(B, name, values)
        = IF hits = {} THEN <<>> ELSE FindMarkerIf(B[Min(hits)], name, values)
  BY FirstHit
<1>6. hits \subseteq DOMAIN B /\ DOMAIN B = 1..Len(B) /\ Len(B) \in Nat
  BY DEF HitsIn
<1> HIDE DEF F
<1>5. \A b \in DOMAIN B : b \in hits <=> F(b) # <<>>
  <2>1. ASSUME NEW b \in DOMAIN B
        PROVE  FindMarkerIf(B[b], name, values) # <<>> <=> F(b) # <<>>
    <3>1. \A x : <<x>> # <<>>
      OBVIOUS
    <3> QED
      BY <1>2, <3>1
  <2>2. \A b \in DOMAIN B : b \in hits <=> FindMarkerIf(B[b], name, values) # <<>>
    BY DEF HitsIn
  <2> QED
    BY <2>1, <2>2
<1> HIDE DEF hits
<1>7. ss \in Seq(Seq(Inst)) /\ DOMAIN ss = DOMAIN B /\ \A b \in DOMAIN B : ss[b] = F(b)
  BY <1>1, <1>6
<1> HIDE DEF ss
<1>8. CASE hits = {}
  <2>1. \A b \in DOMAIN ss : ss[b] = <<>>
    BY <1>5, <1>7, <1>8
  <2>2. FlattenSeq(ss) = <<>>
    BY <1>7, <2>1, FlattenNothing
  <2> QED
    BY <1>3, <1>4, <1>8, <2>2
<1>9. CASE hits # {}
  <2> DEFINE m == Min(hits)
  <2>1. m \in hits /\ \A k \in hits : m <= k
    BY <1>6, <1>9, MinOfSet
  <2> HIDE DEF m
  <2>2. m \in DOMAIN ss /\ ss[m] # <<>> /\ ss[m] = F(m) /\ m \in DOMAIN B
    BY <1>5, <1>6, <1>7, <2>1
  <2>3. ASSUME NEW k \in 1..(m - 1) PROVE ss[k] = <<>>
    <3>1. k \in DOMAIN B /\ ~ (m <= k)
      BY <1>6, <2>2
    <3> QED
      BY <1>5, <1>7, <2>1, <3>1
  <2>4. FlattenSeq(ss) # <<>> /\ Head(FlattenSeq(ss)) = Head(ss[m])
    BY <1>7, <2>2, <2>3, FlattenHead
  <2>5. FindMarkerIf(B[m], name, values) = <<Head(F(m))>>
    BY <1>2, <2>2
  <2> QED
    BY <1>3, <1>4, <1>9, <2>2, <2>4, <2>5 DEF m
<1> QED
  BY <1>8, <1>9

(* Looking for one marker and looking for all agree, in every function     *)
(* that can come about, and markers are calls that were tagged.            *)
THEOREM LookupsAgree == Spec => []MarkerLookupsAgree
<1>1. BodyInv => MarkerLookupsAgree
  <2> SUFFICES ASSUME BodyInv,
                      NEW f \in Funcs, NEW name \in MdNames, NEW s \in Strings
               PROVE  LET all == FindMarkersIfIn(body[f], name, {s})
                      IN /\ FindMarkerIfIn(body[f], name, {s}) =
                              IF all = <<>> THEN <<>> ELSE <<Head(all)>>
                         /\ Ids(all) \subseteq Ids(FindMarkersIn(body[f]))
                         /\ Ids(FindMarkersIn(body[f])) \subseteq {t[1] : t \in tags}
    BY DEF MarkerLookupsAgree
  <2> DEFINE t == InstsOf(body[f])
             T == Marker(name, {s})
  <2>1. BodiesInv /\ TagInv /\ body[f] \in Seq(Block)
    BY DEF BodyInv, BodiesInv
  <2>2. /\ FindMarkersIfIn(body[f], name, {s}) = Select(t, T)
        /\ FindMarkersIn(body[f]) = Select(t, Markers)
        /\ t \in Seq(Inst)
    BY <2>1, FindInFunction, InstsType
  <2>3. FindMarkerIfIn(body[f], name, {s})
          = IF FindMarkersIfIn(body[f], name, {s}) = <<>> THEN <<>>
            ELSE <<Head(FindMarkersIfIn(body[f], name, {s}))>>
    BY <2>1, FirstMarker
  <2>4. T \subseteq Markers
    BY DEF Marker
  <2>5. \A x \in ToSet(t) : HasMetadata(x) => Tagged(x)
    BY DEF Tagged
  <2> HIDE DEF t, T
  <2>6. Ids(Select(t, T)) \subseteq Ids(Select(t, Markers))
    BY <2>2, <2>4, SelectedIds
  <2>7. ASSUME NEW id \in Ids(Select(t, Markers)) PROVE id \in {u[1] : u \in tags}
    <3>1. PICK x \in ToSet(t) \cap Markers : x.id = id
      BY <2>2, SelectedIds
    <3>2. x \in Inst /\ HasMetadata(x) /\ Tagged(x)
      BY <2>5 DEF Markers
    <3>3. PICK n \in MdNames : Has(x, n)
      BY <3>2 DEF HasMetadata
    <3>4. <<x.id, n, x.md[n]>> \in tags
      BY <2>1, <3>2, <3>3 DEF TagInv
    <3> QED
      BY <3>1, <3>4
  <2> QED
    BY <2>2, <2>3, <2>6, <2>7
<1> QED
  BY <1>1, BodyInvAlways, PTL

(* What is before ip in the block that the walk is in is guarded.          *)
GuardedBefore(given, blocks, b, ip) ==
  LET old == Ids(given[b].insts)
      s == blocks[b].insts
  IN \A i \in DOMAIN s :
       i < ip /\ s[i].id \in old /\ i >= InsertionPoint(given, b)
       => i > 1 /\ s[i - 1].kind = "trap" /\ s[i - 1].id \notin old

(* The walk has come to netInst in netBlock.                               *)
Walked(f) ==
  /\ GuardedUpTo(f, netBlock)
  /\ \A k \in 1..(netBlock - 1) : k \notin StopsAt(netGiven[f])
  /\ netBlock > 1 => modified
  /\ netInst = 0 /\ netBlock \in DOMAIN body[f] =>
       body[f][netBlock] = netGiven[f][netBlock]
  /\ netInst # 0 =>
       /\ netBlock \notin StopsAt(netGiven[f])
       /\ GuardedBefore(netGiven[f], body[f], netBlock, netInst)
       /\ modified \/ netInst <= Len(body[f][netBlock].insts)

(* The walk has ended, or there was none.                                  *)
WalkedAll(f) ==
  IF f \in OptNone THEN body[f] = netGiven[f]
  ELSE IF preserved[f] = "cfg" THEN GuardedUpTo(f, Len(body[f]) + 1)
  ELSE /\ StopsAt(netGiven[f]) # {}
       /\ GuardedUpTo(f, Min(StopsAt(netGiven[f])))

OnlyTraps(f) ==
  /\ Len(body[f]) = Len(netGiven[f])
  /\ \A k \in DOMAIN body[f] : OnlyTrapsAdded(netGiven[f], body[f], k)

GivenOK(f) ==
  /\ netGiven[f] # <<>>
  /\ \A b \in DOMAIN netGiven[f] :
       \A id \in Ids(netGiven[f][b].insts) : id < nextId

Trapped(f) ==
  /\ GivenOK(f) /\ OnlyTraps(f)
  /\ IF netFn = f THEN Walked(f) ELSE WalkedAll(f)

TrapInv ==
  /\ netGiven \in [Funcs -> Seq(Block)]
  /\ Current("breakpoint-net") => \A f \in 1..(cur - 1) : Trapped(f)

-----------------------------------------------------------------------------
(* Blocks that no trap was put in, and one that a trap is put in.          *)

LEMMA UntouchedBlock ==
  ASSUME NEW G \in Seq(Block), NEW B \in Seq(Block), NEW k \in DOMAIN G,
         k \in DOMAIN B, B[k] = G[k]
  PROVE  OnlyTrapsAdded(G, B, k)
<1> DEFINE s == G[k].insts
           T == {x \in Inst : x.id \in Ids(s)}
<1>1. s \in Seq(Inst)
  BY BlockParts
<1>2. \A i \in DOMAIN s : s[i].id \in Ids(s)
  BY DEF Ids
<1>3. \A x \in ToSet(s) : x \in Inst /\ x.id \in Ids(s)
  BY <1>1, ElementsTyped, IdsOfElements
<1>4. ToSet(s) \subseteq T
  BY <1>3
<1> HIDE DEF T
<1>5. Select(s, T) = s
  BY <1>1, <1>4, SelectAll
<1> QED
  BY <1>2, <1>5 DEF OnlyTrapsAdded, T

LEMMA TrapBlock ==
  ASSUME NEW G \in Seq(Block), NEW B \in Seq(Block), NEW b \in DOMAIN G,
         b \in DOMAIN B, OnlyTrapsAdded(G, B, b),
         NEW i \in 1..Len(B[b].insts), NEW x \in Inst, x.kind = "trap",
         x.id \notin Ids(G[b].insts),
         NEW C, C[b].insts = InsertAt(B[b].insts, i, x)
  PROVE  /\ OnlyTrapsAdded(G, C, b)
         /\ GuardedBefore(G, B, b, i) => GuardedBefore(G, C, b, i + 2)
<1> DEFINE s == B[b].insts
           t == C[b].insts
           old == Ids(G[b].insts)
           T == {y \in Inst : y.id \in old}
           p == InsertionPoint(G, b)
<1>1. s \in Seq(Inst) /\ Len(s) \in Nat
  BY BlockParts
<1>2. x \notin T
  OBVIOUS
<1>3. Select(s, T) = G[b].insts /\ \A k \in DOMAIN s : s[k].id \notin old => s[k].kind = "trap"
  BY DEF OnlyTrapsAdded
<1>4. i \in 1..Len(s) /\ t = InsertAt(s, i, x)
  OBVIOUS
<1>5. p \in Nat
  BY InsertionPointType
<1>6. GuardedBefore(G, B, b, i) =>
        \A k \in DOMAIN s : k < i /\ s[k].id \in old /\ k >= p
          => k > 1 /\ s[k - 1].kind = "trap" /\ s[k - 1].id \notin old
  BY DEF GuardedBefore
<1> HIDE DEF s, T, p
<1>7. i \in 1..(Len(s) + 1)
  BY <1>1, <1>4
<1>8. Select(t, T) = Select(s, T)
  BY <1>1, <1>2, <1>4, <1>7, SelectInsert
<1>9. /\ t \in Seq(Inst) /\ Len(t) = Len(s) + 1
      /\ \A k \in 1..(Len(s) + 1) :
           t[k] = IF k < i THEN s[k] ELSE IF k = i THEN x ELSE s[k - 1]
  <2> DEFINE u == InsertAt(s, i, x)
  <2>1. /\ u \in Seq(Inst) /\ Len(u) = Len(s) + 1
        /\ \A k \in 1..(Len(s) + 1) :
             u[k] = IF k < i THEN s[k] ELSE IF k = i THEN x ELSE s[k - 1]
    BY <1>1, <1>4, InsertAtEnds
  <2> HIDE DEF u
  <2>2. t = u
    BY <1>4 DEF u
  <2> QED
    BY <2>1, <2>2
<1> HIDE DEF t, old
<1>10. x.id \notin old
  BY DEF old
<1>11. ASSUME NEW k \in DOMAIN t, t[k].id \notin old PROVE t[k].kind = "trap"
  <2>1. k \in 1..(Len(s) + 1)
    BY <1>9
  <2>2. CASE k < i
    BY <1>1, <1>3, <1>4, <1>9, <1>11, <2>1, <2>2
  <2>3. CASE k = i
    BY <1>9, <2>1, <2>3
  <2>4. CASE k > i
    <3>1. t[k] = s[k - 1] /\ k - 1 \in DOMAIN s
      BY <1>1, <1>4, <1>9, <2>1, <2>4
    <3> QED
      BY <1>3, <1>11, <3>1
  <2> QED
    BY <1>4, <2>1, <2>2, <2>3, <2>4
<1>12. ASSUME GuardedBefore(G, B, b, i),
              NEW k \in DOMAIN t, k < i + 2, t[k].id \in old, k >= p
       PROVE  k > 1 /\ t[k - 1].kind = "trap" /\ t[k - 1].id \notin old
  <2>1. k \in 1..(Len(s) + 1) /\ k # i
    BY <1>9, <1>10, <1>12
  <2>2. CASE k < i
    <3>1. t[k] = s[k] /\ k \in DOMAIN s
      BY <1>1, <1>4, <1>9, <2>1, <2>2
    <3>2. k > 1 /\ s[k - 1].kind = "trap" /\ s[k - 1].id \notin old
      BY <1>6, <1>12, <2>2, <3>1
    <3>3. k - 1 \in 1..(Len(s) + 1) /\ k - 1 < i
      BY <1>4, <2>1, <2>2, <3>2
    <3>4. t[k - 1] = s[k - 1]
      BY <1>9, <3>3
    <3> QED
      BY <3>2, <3>4
  <2>3. CASE k = i + 1
    <3>1. k - 1 = i /\ k > 1 /\ i \in 1..(Len(s) + 1)
      BY <1>4, <1>7, <2>3
    <3>2. t[i] = x
      BY <1>9, <3>1
    <3> QED
      BY <1>10, <3>1, <3>2
  <2> QED
    BY <1>4, <1>12, <2>1, <2>2, <2>3
<1>13. OnlyTrapsAdded(G, C, b)
  BY <1>3, <1>8, <1>11 DEF OnlyTrapsAdded, t, T, old
<1>14. ASSUME GuardedBefore(G, B, b, i) PROVE GuardedBefore(G, C, b, i + 2)
  BY <1>12, <1>14 DEF GuardedBefore, t, p, old
<1> QED
  BY <1>13, <1>14

(* The walk through a block begins with nothing to guard, and ends with    *)
(* all guarded.                                                            *)
LEMMA GuardedFromStart ==
  ASSUME NEW G \in Seq(Block), NEW B \in Seq(Block), NEW b \in DOMAIN G,
         b \in DOMAIN B
  PROVE  /\ GuardedBefore(G, B, b, InsertionPoint(G, b))
         /\ \A ip \in Nat : GuardedBefore(G, B, b, ip) /\ ip > Len(B[b].insts)
              => Guarded(G, B, b)
<1> DEFINE s == B[b].insts
           p == InsertionPoint(G, b)
<1>1. s \in Seq(Inst)
  BY BlockParts
<1>2. p \in Nat
  BY InsertionPointType
<1> HIDE DEF s, p
<1>3. \A i \in DOMAIN s : ~ (i < p /\ i >= p)
  BY <1>1, <1>2
<1>4. GuardedBefore(G, B, b, p)
  BY <1>3 DEF GuardedBefore, s, p
<1>5. \A ip \in Nat : ip > Len(s) => \A i \in DOMAIN s : i < ip
  BY <1>1
<1>6. ASSUME NEW ip \in Nat, GuardedBefore(G, B, b, ip), ip > Len(s)
      PROVE  Guarded(G, B, b)
  BY <1>5, <1>6 DEF GuardedBefore, Guarded, s
<1> QED
  BY <1>4, <1>6 DEF s, p

-----------------------------------------------------------------------------
(* Functions that the walk is not in.                                      *)

LEMMA TrappedStays ==
  ASSUME NEW f \in Funcs, Trapped(f), netFn # f, netFn' # f,
         body'[f] = body[f], netGiven'[f] = netGiven[f],
         preserved'[f] = preserved[f],
         nextId \in Nat, nextId' \in Nat, nextId <= nextId',
         netGiven[f] \in Seq(Block)
  PROVE  Trapped(f)'
<1>1. GivenOK(f)'
  <2>1. ASSUME NEW b \in DOMAIN netGiven[f], NEW id \in Ids(netGiven[f][b].insts)
        PROVE  id < nextId'
    <3>1. id < nextId
      BY DEF Trapped, GivenOK
    <3>2. id \in Nat
      BY BlockParts, IdsNat
    <3> QED
      BY <3>1, <3>2
  <2> QED
    BY <2>1 DEF Trapped, GivenOK
<1>2. OnlyTraps(f)'
  BY DEF Trapped, OnlyTraps
<1>3. WalkedAll(f) /\ (\A b : GuardedUpTo(f, b)' <=> GuardedUpTo(f, b))
  BY DEF Trapped, GuardedUpTo
<1>4. WalkedAll(f)'
  BY <1>3 DEF WalkedAll
<1> QED
  BY <1>1, <1>2, <1>4 DEF Trapped

(* breakpoint-net comes to a function, ...                                 *)
LEMMA TrapEnter ==
  ASSUME BodiesInv, Ctl, TrapInv, Current("breakpoint-net"), NEW c \in Funcs,
         c = cur, NetSkip(cur) \/ NetStart(cur), cur' = cur + 1
  PROVE  TrapInv'
<1>1. /\ body' = body /\ nextId' = nextId /\ nextId \in Nat /\ netFn = 0
      /\ netFn' \in {0, c} /\ netGiven' = [netGiven EXCEPT ![c] = body[c]]
      /\ \A f \in Funcs : f # c => preserved'[f] = preserved[f]
  BY DEF NetSkip, NetStart, NetIdle, BodiesInv, Ctl, NetCtl
<1>2. c \in Nat /\ c \in 1..N /\ N \in Nat
  BY FunctionsAssumption DEF Funcs
<1>3. netGiven \in [Funcs -> Seq(Block)] /\ body[c] \in Seq(Block)
      /\ OK(body[c], nextId)
  BY DEF TrapInv, BodiesInv
<1>4. netGiven' \in [Funcs -> Seq(Block)] /\ netGiven'[c] = body[c]
  BY <1>1, <1>3
<1>5. ASSUME NEW f \in 1..(c - 1) PROVE Trapped(f)'
  <2>1. f \in Funcs /\ f # c /\ f # 0
    BY <1>2 DEF Funcs
  <2>2. Trapped(f)
    BY DEF TrapInv
  <2>3. netGiven'[f] = netGiven[f] /\ netGiven[f] \in Seq(Block)
    BY <1>1, <1>3, <2>1
  <2>4. /\ netFn # f /\ netFn' # f /\ body'[f] = body[f]
        /\ preserved'[f] = preserved[f]
        /\ nextId \in Nat /\ nextId' \in Nat /\ nextId <= nextId'
    BY <1>1, <2>1
  <2> QED
    BY <2>1, <2>2, <2>3, <2>4, TrappedStays
<1>6. GivenOK(c)'
  <2>1. body[c] # <<>>
    BY <1>3 DEF OK, WellFormed
  <2>2. ASSUME NEW b \in DOMAIN body[c], NEW id \in Ids(body[c][b].insts)
        PROVE  id < nextId
    BY <1>3, BlockAlone
  <2> QED
    BY <1>1, <1>4, <2>1, <2>2 DEF GivenOK
<1>7. OnlyTraps(c)'
  BY <1>1, <1>3, <1>4, UntouchedBlock DEF OnlyTraps
<1>8. ASSUME NetSkip(c) PROVE Trapped(c)'
  <2>1. netFn' = 0 /\ c \in OptNone /\ c # 0
    BY <1>1, <1>2, <1>8 DEF NetSkip
  <2> QED
    BY <1>1, <1>4, <1>6, <1>7, <2>1 DEF Trapped, WalkedAll
<1>9. ASSUME NetStart(c) PROVE Trapped(c)'
  <2>1. netFn' = c /\ netBlock' = 1 /\ netInst' = 0
    BY <1>9 DEF NetStart
  <2>2. \A k \in DOMAIN body[c] : ~ (k < 1)
    BY <1>3
  <2>3. GuardedUpTo(c, netBlock)'
    BY <1>1, <1>4, <2>1, <2>2 DEF GuardedUpTo
  <2> QED
    BY <1>1, <1>4, <1>6, <1>7, <2>1, <2>3 DEF Trapped, Walked
<1>10. ASSUME NEW f \in 1..c PROVE Trapped(f)'
  <2>1. f = c \/ f \in 1..(c - 1)
    BY <1>2
  <2> QED
    BY <1>5, <1>8, <1>9, <2>1
<1>11. cur' - 1 = c
  BY <1>2
<1> QED
  BY <1>4, <1>10, <1>11 DEF TrapInv

(* What the walk is in.                                                    *)
LEMMA WalkIn ==
  ASSUME BodiesInv, Ctl, TrapInv, netFn # 0
  PROVE  /\ netFn \in Funcs \ OptNone /\ Current("breakpoint-net")
         /\ cur - 1 = netFn /\ netFn \in 1..(cur - 1)
         /\ body[netFn] \in Seq(Block) /\ netGiven[netFn] \in Seq(Block)
         /\ Len(body[netFn]) = Len(netGiven[netFn])
         /\ netBlock \in 1..(Len(body[netFn]) + 1)
         /\ GivenOK(netFn) /\ OnlyTraps(netFn) /\ Walked(netFn)
<1>1. /\ netFn \in Funcs \ OptNone /\ Current("breakpoint-net")
      /\ cur = netFn + 1 /\ netBlock \in 1..(Len(body[netFn]) + 1)
  BY DEF Ctl, NetCtl
<1>2. cur - 1 = netFn /\ netFn \in 1..(cur - 1)
  BY <1>1 DEF Funcs
<1>3. Trapped(netFn) /\ netGiven[netFn] \in Seq(Block) /\ body[netFn] \in Seq(Block)
  BY <1>1, <1>2 DEF TrapInv, BodiesInv
<1> QED
  BY <1>1, <1>2, <1>3 DEF Trapped, OnlyTraps

(* ... and goes on with it, and the others stay.                           *)
LEMMA TrapOthers ==
  ASSUME BodiesInv, Ctl, TrapInv, netFn # 0, NEW n, n = netFn,
         netFn' \in {0, n}, cur' = cur,
         netGiven' = netGiven, nextId' \in Nat, nextId <= nextId',
         \A f \in Funcs \ {n} :
           body'[f] = body[f] /\ preserved'[f] = preserved[f],
         Trapped(n)'
  PROVE  TrapInv'
<1>1. n \in Funcs /\ cur - 1 = n /\ Current("breakpoint-net") /\ nextId \in Nat
      /\ netGiven \in [Funcs -> Seq(Block)]
  BY WalkIn DEF TrapInv, BodiesInv
<1>2. ASSUME NEW f \in 1..(cur - 1), f # n PROVE Trapped(f)'
  <2>1. f \in Funcs /\ f # 0 /\ Trapped(f)
    BY <1>1, FunctionsAssumption DEF Funcs, TrapInv
  <2>2. netFn # f /\ netFn' # f /\ body'[f] = body[f] /\ preserved'[f] = preserved[f]
        /\ netGiven'[f] = netGiven[f] /\ netGiven[f] \in Seq(Block)
    BY <1>1, <1>2, <2>1
  <2> QED
    BY <1>1, <2>1, <2>2, TrappedStays
<1>3. \A f \in 1..(cur - 1) : Trapped(f)'
  BY <1>2
<1> QED
  BY <1>1, <1>3 DEF TrapInv

(* The walk enters a block, leaves it, or ends.                            *)
LEMMA TrapMove ==
  ASSUME BodiesInv, Ctl, TrapInv, NEW n, n = netFn, n # 0, cur' = cur,
         NetEnterBlock \/ NetGiveUp \/ NetNextBlock \/ NetFinish
  PROVE  TrapInv'
<1> DEFINE B == body[n]
           G == netGiven[n]
           b == netBlock
<1>1. /\ body' = body /\ netGiven' = netGiven /\ nextId' = nextId
      /\ netFn' \in {0, n} /\ nextId \in Nat
      /\ \A f \in Funcs \ {n} : preserved'[f] = preserved[f]
  <2>1. preserved' = preserved \/ \E what : preserved' = [preserved EXCEPT ![n] = what]
    BY DEF NetEnterBlock, NetGiveUp, NetNextBlock, NetFinish, NetReturn
  <2>2. preserved \in [Funcs -> {"unknown", "all", "cfg"}]
    BY DEF Ctl, NetCtl
  <2>3. \A f \in Funcs \ {n} : preserved'[f] = preserved[f]
    BY <2>1, <2>2
  <2> QED
    BY <2>3 DEF NetEnterBlock, NetGiveUp, NetNextBlock, NetFinish, NetReturn, BodiesInv
<1>2. /\ n \in Funcs \ OptNone /\ B \in Seq(Block) /\ G \in Seq(Block)
      /\ Len(B) = Len(G) /\ b \in 1..(Len(B) + 1) /\ netInst \in Nat
      /\ GivenOK(n) /\ OnlyTraps(n) /\ Walked(n)
      /\ preserved \in [Funcs -> {"unknown", "all", "cfg"}]
      /\ netInst # 0 => b \in DOMAIN B
  BY WalkIn DEF Ctl, NetCtl, AtInst
<1>3. GivenOK(n)' /\ OnlyTraps(n)'
  BY <1>1, <1>2 DEF GivenOK, OnlyTraps
<1>4. /\ \A k \in DOMAIN G : IF k < b THEN Guarded(G, B, k) ELSE k > b => B[k] = G[k]
      /\ \A k \in 1..(b - 1) : k \notin StopsAt(G)
      /\ b > 1 => modified
      /\ netInst = 0 /\ b \in DOMAIN B => B[b] = G[b]
      /\ netInst # 0 => /\ b \notin StopsAt(G) /\ GuardedBefore(G, B, b, netInst)
                        /\ modified \/ netInst <= Len(B[b].insts)
  BY <1>2 DEF Walked, GuardedUpTo
<1>5. Len(B) \in Nat /\ DOMAIN B = 1..Len(B) /\ DOMAIN G = 1..Len(B)
  BY <1>2
<1>6. \A c : GuardedUpTo(n, c)'
        <=> \A k \in DOMAIN G :
              IF k < c THEN Guarded(G, B, k) ELSE k > c => B[k] = G[k]
  BY <1>1 DEF GuardedUpTo
<1>7. ASSUME Walked(n)', netFn' = n PROVE TrapInv'
  <2>1. Trapped(n)'
    BY <1>3, <1>7 DEF Trapped
  <2> QED
    BY <1>1, <2>1, TrapOthers
<1>8. ASSUME WalkedAll(n)', netFn' = 0 PROVE TrapInv'
  <2>1. Trapped(n)'
    BY <1>3, <1>8 DEF Trapped
  <2> QED
    BY <1>1, <2>1, TrapOthers
<1>9. ASSUME NetEnterBlock PROVE TrapInv'
  <2> DEFINE p == InsertionPoint(G, b)
  <2>1. /\ netFn' = n /\ netBlock' = b /\ modified' = modified /\ netInst = 0
        /\ b \in DOMAIN B /\ netInst' = InsertionPoint(B, b)
        /\ InsertionPoint(B, b) <= Len(B[b].insts)
    BY <1>9 DEF NetEnterBlock, AtBlock
  <2>2. B[b] = G[b] /\ b \in DOMAIN G
    BY <1>4, <1>5, <2>1
  <2>3. netInst' = p /\ p <= Len(G[b].insts)
    BY <2>1, <2>2 DEF InsertionPoint
  <2>4. p \in 1..(Len(G[b].insts) + 1) /\ Len(G[b].insts) \in Nat
    BY <1>2, <2>2, InsertionPointType, BlockParts
  <2>5. GuardedBefore(G, B, b, p)
    BY <1>2, <2>1, <2>2, GuardedFromStart
  <2>6. b \notin StopsAt(G)
    <3>1. ~ (InsertionPoint(G, b) > Len(G[b].insts))
      BY <2>3, <2>4
    <3> QED
      BY <3>1 DEF StopsAt
  <2>7. netInst' # 0
    BY <2>3, <2>4
  <2>8. GuardedUpTo(n, netBlock)'
    BY <1>4, <1>6, <2>1
  <2>9. Walked(n)'
    BY <1>1, <1>4, <2>1, <2>2, <2>3, <2>5, <2>6, <2>7, <2>8 DEF Walked
  <2> QED
    BY <1>7, <2>1, <2>9
<1>10. ASSUME NetGiveUp PROVE TrapInv'
  <2>1. /\ netFn' = 0 /\ preserved' = [preserved EXCEPT ![n] = "all"] /\ netInst = 0
        /\ b \in DOMAIN B /\ InsertionPoint(B, b) > Len(B[b].insts)
    BY <1>10 DEF NetGiveUp, AtBlock, NetReturn
  <2>2. B[b] = G[b] /\ b \in DOMAIN G
    BY <1>4, <1>5, <2>1
  <2>3. b \in StopsAt(G)
    BY <2>1, <2>2 DEF InsertionPoint, StopsAt
  <2> DEFINE S == StopsAt(G)
             m == Min(S)
  <2>4. S \in SUBSET Nat /\ \A k \in S : k \in 1..Len(B)
    BY <1>5 DEF StopsAt
  <2>5. m \in S /\ \A k \in S : m <= k
    <3> HIDE DEF S
    <3> QED
      BY <2>3, <2>4, MinOfSet DEF S
  <2>6. m = b
    <3> HIDE DEF m
    <3>1. m \in 1..Len(B) /\ m <= b /\ m \notin 1..(b - 1) /\ b \in 1..Len(B)
      BY <1>4, <1>5, <2>1, <2>3, <2>4, <2>5
    <3> QED
      BY <3>1
  <2> HIDE DEF m
  <2>8. preserved'[n] = "all"
    BY <1>2, <2>1
  <2>9. WalkedAll(n)'
    BY <1>1, <1>2, <1>4, <2>3, <2>6, <2>8 DEF WalkedAll, GuardedUpTo, m
  <2> QED
    BY <1>8, <2>1, <2>9
<1>11. ASSUME NetNextBlock PROVE TrapInv'
  <2>1. /\ netFn' = n /\ netBlock' = b + 1 /\ netInst' = 0 /\ modified' = modified
        /\ netInst # 0 /\ netInst > Len(B[b].insts) /\ b \in DOMAIN B
    BY <1>2, <1>11 DEF NetNextBlock
  <2>2. Guarded(G, B, b) /\ b \in DOMAIN G /\ modified
    <3>1. b \in DOMAIN G /\ Len(B[b].insts) \in Nat
      BY <1>2, <1>5, <2>1, BlockParts
    <3>2. modified
      BY <1>2, <1>4, <2>1, <3>1
    <3> QED
      BY <1>2, <1>4, <2>1, <3>1, <3>2, GuardedFromStart
  <2>3. \A k \in DOMAIN G :
          IF k < b + 1 THEN Guarded(G, B, k) ELSE k > b + 1 => B[k] = G[k]
    <3> HIDE DEF G, B
    <3>1. ASSUME NEW k \in DOMAIN G
          PROVE  IF k < b + 1 THEN Guarded(G, B, k) ELSE k > b + 1 => B[k] = G[k]
      <4>1. k \in Nat /\ b \in Nat
        BY <1>2, <1>5
      <4>2. k < b + 1 => k < b \/ k = b
        BY <4>1
      <4>3. k > b + 1 => k > b /\ ~ (k < b)
        BY <4>1
      <4> QED
        BY <1>4, <2>2, <4>2, <4>3
    <3> QED
      BY <3>1
  <2>4. GuardedUpTo(n, netBlock)'
    BY <1>1, <2>1, <2>3 DEF GuardedUpTo
  <2>5. \A k \in 1..((b + 1) - 1) : k \notin StopsAt(G)
    <3>1. \A k \in 1..((b + 1) - 1) : k \in 1..(b - 1) \/ k = b
      BY <1>2, <1>5
    <3> QED
      BY <1>4, <2>1, <3>1
  <2>6. b + 1 \in DOMAIN B => B[b + 1] = G[b + 1]
    <3>1. b + 1 > b /\ ~ (b + 1 < b) /\ (b + 1 \in DOMAIN B => b + 1 \in DOMAIN G)
      BY <1>2, <1>5
    <3> QED
      BY <1>4, <3>1
  <2>7. Walked(n)'
    BY <1>1, <2>1, <2>2, <2>4, <2>5, <2>6 DEF Walked
  <2> QED
    BY <1>7, <2>1, <2>7
<1>12. ASSUME NetFinish PROVE TrapInv'
  <2>1. b = Len(B) + 1 /\ Len(B) >= 1
    BY <1>2, <1>5, <1>12 DEF NetFinish, GivenOK
  <2>2. modified
    BY <1>4, <1>5, <2>1
  <2>3. netFn' = 0 /\ preserved' = [preserved EXCEPT ![n] = "cfg"]
    BY <1>12, <2>2 DEF NetFinish, NetReturn
  <2>4. preserved'[n] = "cfg"
    BY <1>2, <2>3
  <2>5. WalkedAll(n)'
    BY <1>1, <1>2, <1>4, <2>1, <2>4 DEF WalkedAll, GuardedUpTo
  <2> QED
    BY <1>8, <2>3, <2>5
<1> QED
  BY <1>9, <1>10, <1>11, <1>12

(* A trap is put in.                                                       *)
LEMMA TrapPut ==
  ASSUME BodiesInv, Ctl, TrapInv, NEW n, n = netFn, n # 0, cur' = cur, NetTrap
  PROVE  TrapInv'
<1> DEFINE B == body[n]
           G == netGiven[n]
           b == netBlock
           i == netInst
           s == B[b].insts
           x == NewInst(nextId, "trap")
           t == InsertAt(s, i, x)
           C == body'[n]
<1>1. /\ n \in Funcs \ OptNone /\ B \in Seq(Block) /\ G \in Seq(Block)
      /\ Len(B) = Len(G) /\ GivenOK(n) /\ OnlyTraps(n) /\ Walked(n) /\ AtInst
      /\ i \in Nat
  BY WalkIn DEF Ctl, NetCtl, NetTrap
<1>2. /\ netGiven' = netGiven /\ nextId' = nextId + 1 /\ nextId \in Nat
      /\ netFn' = n /\ netBlock' = b /\ i # 0 /\ i <= Len(s)
      /\ netInst' = i + 2 /\ modified' = TRUE /\ preserved' = preserved
      /\ body' = [body EXCEPT ![n][b].insts = t]
  BY DEF NetTrap, BodiesInv
<1>3. b \in DOMAIN B /\ b \in DOMAIN G /\ s \in Seq(Inst)
  BY <1>1, BlockParts DEF AtInst
<1>4. i \in 1..Len(s)
  <2> HIDE DEF s
  <2> QED
    BY <1>1, <1>2, <1>3
<1>5. body \in [Funcs -> Seq(Block)]
  BY DEF BodiesInv
<1>6. /\ C[b].insts = t /\ Len(C) = Len(B) /\ DOMAIN C = DOMAIN B
      /\ \A k \in DOMAIN B \ {b} : C[k] = B[k]
      /\ \A f \in Funcs \ {n} : body'[f] = body[f]
  <2> HIDE DEF t
  <2> QED
    BY <1>1, <1>2, <1>3, <1>5
<1>7. x \in Inst /\ x.id = nextId /\ x.kind = "trap"
  <2>1. "trap" \in Kinds
    BY DEF Kinds
  <2> QED
    BY <1>2, <2>1, NewInstType
<1>8. nextId \notin Ids(G[b].insts)
  <2>1. \A id \in Ids(G[b].insts) : id < nextId
    BY <1>1, <1>3 DEF GivenOK
  <2>2. ~ (nextId < nextId)
    BY <1>2
  <2> HIDE DEF G, b
  <2> QED
    BY <2>1, <2>2
<1>9. OnlyTrapsAdded(G, B, b)
  BY <1>1, <1>3 DEF OnlyTraps
<1>10. /\ \A k \in DOMAIN G : IF k < b THEN Guarded(G, B, k) ELSE k > b => B[k] = G[k]
       /\ \A k \in 1..(b - 1) : k \notin StopsAt(G)
       /\ b \notin StopsAt(G) /\ GuardedBefore(G, B, b, i)
  BY <1>1, <1>2 DEF Walked, GuardedUpTo
<1> HIDE DEF x
<1>11. OnlyTrapsAdded(G, C, b) /\ GuardedBefore(G, C, b, i + 2)
  <2>1. C[b].insts = InsertAt(B[b].insts, i, x) /\ i \in 1..Len(B[b].insts)
    BY <1>4, <1>6
  <2>2. x.id \notin Ids(G[b].insts)
    BY <1>7, <1>8
  <2> HIDE DEF B, G, b, i, C
  <2> QED
    BY <1>1, <1>3, <1>7, <1>9, <1>10, <2>1, <2>2, TrapBlock
<1> HIDE DEF t
<1>12. \A k \in DOMAIN B \ {b} : OnlyTrapsAdded(G, C, k)
  <2>1. ASSUME NEW k \in DOMAIN B \ {b} PROVE OnlyTrapsAdded(G, C, k)
    <3>1. OnlyTrapsAdded(G, B, k)
      BY <1>1 DEF OnlyTraps
    <3>2. C[k] = B[k]
      BY <1>6
    <3> HIDE DEF G, B, C
    <3> QED
      BY <3>1, <3>2 DEF OnlyTrapsAdded
  <2> QED
    BY <2>1
<1>13. OnlyTraps(n)'
  <2> HIDE DEF C, b
  <2>2. Len(C) = Len(netGiven'[n]) /\ \A k \in DOMAIN C : OnlyTrapsAdded(netGiven'[n], C, k)
    BY <1>1, <1>2, <1>6, <1>11, <1>12
  <2> QED
    BY <2>2 DEF OnlyTraps, C
<1>14. GivenOK(n)'
  <2>1. ASSUME NEW k \in DOMAIN G, NEW id \in Ids(G[k].insts) PROVE id < nextId + 1
    <3>1. id < nextId
      BY <1>1 DEF GivenOK
    <3>2. id \in Nat
      BY <1>1, BlockParts, IdsNat
    <3> QED
      BY <1>2, <3>1, <3>2
  <2> QED
    BY <1>1, <1>2, <2>1 DEF GivenOK
<1>15. \A k \in DOMAIN G : IF k < b THEN Guarded(G, C, k) ELSE k > b => C[k] = G[k]
  <2>1. ASSUME NEW k \in DOMAIN G, k # b
        PROVE  IF k < b THEN Guarded(G, C, k) ELSE k > b => C[k] = G[k]
    <3>1. C[k] = B[k]
      BY <1>1, <1>6, <2>1
    <3>2. Guarded(G, B, k) => Guarded(G, C, k)
      BY <3>1 DEF Guarded
    <3> QED
      BY <1>10, <3>1, <3>2
  <2>2. ~ (b < b) /\ ~ (b > b)
    BY <1>1, <1>3
  <2> HIDE DEF C, b
  <2> QED
    BY <2>1, <2>2
<1>16. i + 2 # 0
  BY <1>1
<1>17. Walked(n)'
  <2>1. GuardedUpTo(n, netBlock)'
    BY <1>2, <1>15 DEF GuardedUpTo
  <2> QED
    BY <1>2, <1>10, <1>11, <1>16, <2>1 DEF Walked
<1>18. Trapped(n)'
  BY <1>2, <1>13, <1>14, <1>17 DEF Trapped
<1>19. nextId' \in Nat /\ nextId <= nextId'
  BY <1>2
<1> QED
  BY <1>2, <1>6, <1>18, <1>19, TrapOthers

LEMMA TrapElsewhere ==
  ASSUME netGiven' \in [Funcs -> Seq(Block)],
         cur' = 1 \/ ~ Current("breakpoint-net")'
  PROVE  TrapInv'
<1>1. cur' = 1 => \A f \in 1..(cur' - 1) : FALSE
  OBVIOUS
<1> QED
  BY <1>1 DEF TrapInv

LEMMA TrapInvInit == Init => TrapInv
<1> SUFFICES ASSUME Init PROVE TrapInv
  OBVIOUS
<1>1. netGiven \in [Funcs -> Seq(Block)] /\ cur = 1
  BY BodyInvInit DEF Init, NetInit, BodyInv, BodiesInv
<1>2. \A f \in 1..(cur - 1) : FALSE
  BY <1>1
<1> QED
  BY <1>1, <1>2 DEF TrapInv

LEMMA TrapInvStep ==
  ASSUME BodyInv, BodyInv', TrapInv, [Next]_vars
  PROVE  TrapInv'
<1>1. /\ BodiesInv /\ Ctl /\ netGiven \in [Funcs -> Seq(Block)]
      /\ body' \in [Funcs -> Seq(Block)]
  BY DEF BodyInv, BodiesInv, TrapInv
<1>2. CASE Attach \/ CreateMarker \/ Terminate
  <2>1. pipePhase = "parse" /\ netGiven' = body' /\ cur' = cur
    BY <1>2 DEF Attach, CreateMarker, Terminate, Editing, BeforeThePasses
  <2>2. cur = 1
    BY <1>1, <2>1, BeforeQuiet
  <2> QED
    BY <1>1, <2>1, <2>2, TrapElsewhere
<1>3. CASE ParseStep \/ OtherPass \/ PipelineEnds
  <2>1. netGiven' = netGiven /\ cur' = cur
    BY <1>3 DEF ParseStep, OtherPass, PipelineEnds, netVars, imVars
  <2>2. cur = 1
    <3>1. ASSUME ParseStep PROVE pipePhase # "run"
      BY <3>1 DEF ParseStep, Parse, ParseElement, ParseFails, ParseEnds,
         RunPassPipeline, Run, OptRun
    <3>2. ASSUME OtherPass \/ PipelineEnds
          PROVE  ~ Current("breakpoint-net") /\ ~ CurrentPromote
      BY <3>2 DEF OtherPass, PipelineEnds, RunEnds, Current, CurrentPromote
    <3> QED
      BY <1>1, <1>3, <3>1, <3>2, BeforeQuiet, Quiet
  <2> QED
    BY <1>1, <2>1, <2>2, TrapElsewhere
<1>4. CASE NetPassEnds \/ PromotePassEnds
  <2>1. netGiven' = netGiven /\ cur' = 1
    BY <1>4 DEF NetPassEnds, PromotePassEnds, netVars
  <2> QED
    BY <1>1, <2>1, TrapElsewhere
<1>5. CASE RunPromote
  <2>1. netGiven' = netGiven /\ UNCHANGED pipeVars /\ CurrentPromote
    BY <1>5 DEF RunPromote, netVars
  <2>2. ~ Current("breakpoint-net")'
    BY <2>1 DEF CurrentPromote, Current, pipeVars
  <2> QED
    BY <1>1, <2>1, <2>2, TrapElsewhere
<1>6. CASE RunNet
  <2>1. Current("breakpoint-net")
    BY <1>6 DEF RunNet
  <2>2. ASSUME cur \in Funcs, NetSkip(cur) \/ NetStart(cur), cur' = cur + 1
        PROVE  TrapInv'
    <3>1. PICK c \in Funcs : c = cur
      BY <2>2
    <3> QED
      BY <1>1, <2>1, <2>2, <3>1, TrapEnter
  <2>3. ASSUME NetWalk, cur' = cur PROVE TrapInv'
    <3>1. netFn # 0
      BY <2>3 DEF NetWalk, NetEnterBlock, NetGiveUp, NetTrap, NetNextBlock, NetFinish,
                  AtBlock
    <3>2. PICK n : n = netFn
      OBVIOUS
    <3>3. CASE NetTrap
      BY <1>1, <2>3, <3>1, <3>2, <3>3, TrapPut
    <3>4. CASE NetEnterBlock \/ NetGiveUp \/ NetNextBlock \/ NetFinish
      BY <1>1, <2>3, <3>1, <3>2, <3>4, TrapMove
    <3> QED
      BY <2>3, <3>3, <3>4 DEF NetWalk
  <2> QED
    BY <1>6, <2>2, <2>3 DEF RunNet
<1>7. CASE UNCHANGED vars
  BY <1>7 DEF vars, netVars, pipeVars, imVars, TrapInv, Current, Trapped, GivenOK,
              OnlyTraps, Walked, WalkedAll, GuardedUpTo
<1> QED
  BY <1>2, <1>3, <1>4, <1>5, <1>6, <1>7 DEF Next, Done

(* The walk over a function of any shape, in a module with any number of   *)
(* functions: the blocks behind it are guarded, those ahead as given, and  *)
(* what the pass returns tells how far it got.                             *)
THEOREM TrapsStay == Spec => []TrappedBlocks
<1>1. BodyInv /\ TrapInv => TrappedBlocks
  <2> SUFFICES ASSUME BodyInv, TrapInv, Current("breakpoint-net"), NEW f \in 1..(cur - 1)
               PROVE  /\ Len(body[f]) = Len(netGiven[f])
                      /\ \A k \in DOMAIN body[f] : OnlyTrapsAdded(netGiven[f], body[f], k)
                      /\ IF netFn = f THEN GuardedUpTo(f, netBlock)
                         ELSE IF f \in OptNone THEN body[f] = netGiven[f]
                         ELSE IF preserved[f] = "cfg" THEN GuardedUpTo(f, Len(body[f]) + 1)
                         ELSE /\ StopsAt(netGiven[f]) # {}
                              /\ GuardedUpTo(f, Min(StopsAt(netGiven[f])))
    BY DEF TrappedBlocks
  <2>1. OnlyTraps(f) /\ IF netFn = f THEN Walked(f) ELSE WalkedAll(f)
    BY DEF TrapInv, Trapped
  <2> QED
    BY <2>1 DEF OnlyTraps, Walked, WalkedAll
<1>2. TrapInv /\ BodyInv /\ BodyInv' /\ [Next]_vars => TrapInv'
  BY TrapInvStep
<1>3. Spec => [](BodyInv /\ TrapInv)
  BY <1>2, TrapInvInit, BodyInvInit, BodyInvStep, PTL DEF Spec
<1> QED
  BY <1>1, <1>3, PTL

(* What the pass was given.                                                *)
GivenInv ==
  /\ prGiven \in [Funcs -> Seq(Block)]
  /\ \A f \in Funcs :
       /\ prGiven[f] # <<>>
       /\ DistinctIds(InstsOf(prGiven[f]))
       /\ \A id \in Ids(InstsOf(prGiven[f])) : id < nextId

Old(f, kinds) ==
  {x \in Inst : x.id \in Ids(InstsOf(prGiven[f])) /\ x.kind \in kinds}

(* Functions that the pass has not come to are as given; of those it has,  *)
(* what stays and what moves are in order.                                 *)
OrderInv ==
  prPhase \in {"collect", "split"} =>
    \A f \in Funcs :
      /\ f \in OptNone \/ f \notin Reached => body[f] = prGiven[f]
      /\ \A kinds \in {KeptInEntry, Kinds \ KeptInEntry} :
           Select(InstsOf(body[f]), Old(f, kinds))
             = Select(InstsOf(prGiven[f]), OfKinds(kinds))

Pending(f) == IF prPhase = "split" /\ f = prFn THEN ToSet(insts) ELSE {}

(* What may be split off is a block's first instruction, or still to be    *)
(* split off.                                                              *)
AloneIn(s, P) ==
  \A j \in DOMAIN s :
    s[j] \in Splittable => s[j].kind = "cleanuppad" \/ j = 1 \/ s[j] \in P

AloneInv ==
  prPhase # "idle" /\ perInstruction =>
    \A f \in Reached \ OptNone : \A b \in DOMAIN body[f] :
      AloneIn(body[f][b].insts, Pending(f))

(* The allocas of an entry block, by whether an llvm.localescape comes     *)
(* before them.                                                            *)
Escaped(s, i) == \E j \in 1..(i - 1) : s[j].kind = "required"
Allocas(s) == {i \in DOMAIN s : s[i].kind = "alloca"}

KeptInv ==
  \A f \in Funcs \ OptNone :
    LET entry == prGiven[f][1].insts
    IN \A i \in Allocas(entry) :
         ~ Escaped(entry, i) => entry[i] \in ToSet(body[f][1].insts)

(* In the entry block itself, what is split off is behind allocas that     *)
(* stay, and in front of those that do not.                                *)
StaysAt(s, x) == \E p \in DOMAIN s : s[p] = x /\ \A q \in 1..(p - 1) : s[q].kind = "alloca"
Behind(s, x) ==
  \A p \in DOMAIN s : s[p].id = x.id => \E q \in 1..(p - 1) : s[q].kind = "required"
RequiredIn(s, P) == \A j \in DOMAIN s : s[j].kind = "required" => s[j] \in P

EntryInv ==
  prPhase # "idle" /\ perInstruction =>
    \A f \in Reached \ OptNone :
      LET entry == prGiven[f][1].insts
          now == body[f][1].insts
      IN /\ RequiredIn(now, Pending(f))
         /\ \A i \in Allocas(entry) :
              IF Escaped(entry, i) THEN Behind(now, entry[i])
              ELSE prPhase = "split" /\ f = prFn => StaysAt(now, entry[i])

-----------------------------------------------------------------------------
(* What a step of promote-blocks does to the bodies.                       *)

(* Collecting, or dealing with a candidate that is not extracted.          *)
QuietPromote ==
  \/ PrSkipFunction \/ PrTakeBlocks \/ PrEndSplit \/ PrEndCollect \/ PrFinish
  \/ PrSkipPad \/ \E k \in 0..MaxBadInputs : PrIneligible(k) \/ PrFail(k)

LEMMA PromoteCases ==
  ASSUME RunPromote
  PROVE  /\ CurrentPromote /\ UNCHANGED pipeVars
         /\ \/ PrStart(Current("promote-instructions"))
            \/ PrTakeInstructions \/ PrSplit \/ QuietPromote
            \/ \E k \in 0..MaxBadInputs : PrExtract(k)
BY DEF RunPromote, PrCollect, PrPromote, QuietPromote

(* Functions are come to one after the other, in phases.                   *)
LEMMA QuietDoes ==
  ASSUME BodyInv, QuietPromote
  PROVE  /\ body' = body /\ prGiven' = prGiven /\ nextId' = nextId /\ insts' = insts
         /\ perInstruction' = perInstruction
         /\ \/ prPhase' = prPhase /\ prFn' = prFn /\ prPhase = "extract"
            \/ /\ prPhase' = "collect" /\ prFn' = prFn + 1 /\ prFn \in Funcs
               /\ \/ prPhase = "collect" /\ (prFn \in OptNone \/ ~ perInstruction)
                  \/ prPhase = "split" /\ insts = <<>>
            \/ prPhase = "collect" /\ prPhase' = "extract" /\ prFn' = prFn
            \/ prPhase' = "idle"
<1>1. PrCtl
  BY DEF BodyInv, Ctl
<1>2. CASE PrSkipFunction \/ PrTakeBlocks \/ PrEndSplit \/ PrEndCollect \/ PrFinish
  BY <1>1, <1>2 DEF PrCtl, PrSkipFunction, PrTakeBlocks, PrEndSplit, PrEndCollect, PrFinish
<1>3. CASE PrSkipPad \/ \E k \in 0..MaxBadInputs : PrIneligible(k) \/ PrFail(k)
  BY <1>3 DEF PrSkipPad, PrIneligible, PrFail, AtCandidate, Considered
<1> QED
  BY <1>2, <1>3 DEF QuietPromote

LEMMA TakeDoes ==
  ASSUME BodyInv, PrTakeInstructions, NEW n, n = prFn
  PROVE  /\ n \in Funcs \ OptNone /\ prPhase = "collect" /\ prPhase' = "split"
         /\ perInstruction /\ perInstruction' = perInstruction /\ prFn' = n
         /\ prGiven' = prGiven /\ nextId' = nextId
         /\ 1 \in DOMAIN body[n] /\ DOMAIN body'[n] = DOMAIN body[n]
         /\ body'[n] = [body[n] EXCEPT ![1] =
              Edited(n, 1, PrepareToSplitEntryBlock(body[n][1].insts))]
         /\ Edited(n, 1, PrepareToSplitEntryBlock(body[n][1].insts)) \in Block
         /\ body'[n][1].insts = PrepareToSplitEntryBlock(body[n][1].insts)
         /\ \A b \in DOMAIN body[n] \ {1} : body'[n][b] = body[n][b]
         /\ \A f \in Funcs \ {n} : body'[f] = body[f]
         /\ insts' = Select(InstsOf(body'[n]), Splittable)
<1> DEFINE s == body[n][1].insts
           t == PrepareToSplitEntryBlock(s)
           y == Edited(n, 1, t)
<1>1. /\ n \in Funcs \ OptNone /\ prPhase = "collect" /\ prPhase' = "split"
      /\ perInstruction /\ perInstruction' = perInstruction /\ prFn' = n
      /\ prGiven' = prGiven /\ nextId' = nextId /\ Edits(n, 1, t)
      /\ insts' = Select(InstsOf(body'[n]), Splittable)
  BY DEF PrTakeInstructions, Edits
<1>2. /\ BodiesInv /\ body \in [Funcs -> Seq(Block)] /\ OK(body[n], nextId)
      /\ body[n] \in Seq(Block)
  BY <1>1 DEF BodyInv, BodiesInv
<1>3. 1 \in DOMAIN body[n]
  <2> DEFINE B == body[n]
  <2>1. B \in Seq(Block) /\ B # <<>>
    BY <1>2 DEF OK, WellFormed
  <2> HIDE DEF B
  <2>2. 1 \in DOMAIN B
    BY <2>1, EmptySeq
  <2> QED
    BY <2>2 DEF B
<1>4. t \in Seq(Inst)
  <2>1. s \in Seq(Inst)
    BY <1>2, <1>3, BlockParts
  <2> HIDE DEF s
  <2> QED
    BY <2>1, PrepareParts
<1> HIDE DEF t
<1>5. y \in Block /\ y.insts = t /\ Puts(n, [body[n] EXCEPT ![1] = y])
  BY <1>1, <1>2, <1>3, <1>4, EditedBlock
<1> HIDE DEF y
<1>6. /\ body'[n] = [body[n] EXCEPT ![1] = y]
      /\ \A f \in Funcs \ {n} : body'[f] = body[f]
  BY <1>1, <1>2, <1>5 DEF Puts
<1>7. DOMAIN body'[n] = DOMAIN body[n] /\ body'[n][1].insts = t
      /\ \A b \in DOMAIN body[n] \ {1} : body'[n][b] = body[n][b]
  BY <1>2, <1>3, <1>5, <1>6
<1> QED
  BY <1>1, <1>3, <1>5, <1>6, <1>7 DEF t, y

(* The first pending instruction, x, is at j in block b; br is put in its  *)
(* place, or behind it, and ends the block.                                *)
Branch == NewInst(nextId + 1, "term")

SplitsAt(n, x, b, i, j) ==
  /\ b \in DOMAIN body[n] /\ i \in DOMAIN body[n][b].insts
  /\ j \in DOMAIN body[n][b].insts /\ body[n][b].insts[j] = x
  /\ body[n][b].insts[i].kind \notin PhiOrPad
  /\ IF x.kind = "cleanuppad" THEN i = j + 1 ELSE i = j
  /\ Puts(n, Splice(body[n], b, Halves(body[n][b], i, nextId, Branch)))

LEMMA SplitDoes ==
  ASSUME BodyInv, PrSplit, NEW n, n = prFn
  PROVE  /\ n \in Funcs \ OptNone /\ prPhase = "split" /\ prPhase' = "split"
         /\ perInstruction /\ perInstruction' = perInstruction /\ prFn' = n
         /\ prGiven' = prGiven /\ nextId' = nextId + 2
         /\ Branch \in Inst /\ Branch.id = nextId + 1 /\ Branch.kind = "term"
         /\ \A f \in Funcs \ {n} : body'[f] = body[f]
         /\ \E x \in ToSet(insts) :
              /\ x \in Splittable /\ \A y \in ToSet(insts) : y = x \/ y \in ToSet(insts')
              /\ \E b, i, j : SplitsAt(n, x, b, i, j)
<1> DEFINE B == body[n]
           x == Head(insts)
           br == NewInst(nextId + 1, "term")
<1>0. BodiesInv /\ Ctl /\ TermInv
  BY DEF BodyInv
<1>1. /\ nextId' = nextId + 2 /\ prPhase = "split"
      /\ prPhase' = "split" /\ perInstruction' = perInstruction /\ prFn' = n
      /\ insts # <<>> /\ insts' = Tail(insts) /\ prGiven' = prGiven
      /\ body' = [body EXCEPT ![n] = SplitBlock(@, ParentOf(@, x.id), x.id, nextId, br)]
  BY DEF PrSplit
<1>2. /\ n \in Funcs \ OptNone /\ perInstruction
      /\ insts \in Seq(Inst) /\ DistinctIds(insts)
      /\ ToSet(insts) \subseteq ToSet(InstsOf(B)) \cap Splittable
  BY <1>0, <1>1 DEF Ctl, PrCtl, PendingInv
<1>3. /\ body \in [Funcs -> Seq(Block)] /\ OK(B, nextId) /\ B \in Seq(Block)
      /\ nextId \in Nat /\ Terminated(B)
  BY <1>0, <1>1, <1>2 DEF BodiesInv, TermInv, Ctl, PrCtl, CurrentPromote, Current
<1>4. /\ 1 \in DOMAIN insts /\ x = insts[1]
      /\ \A k \in DOMAIN insts \ {1} : k - 1 \in DOMAIN Tail(insts)
                                       /\ Tail(insts)[k - 1] = insts[k]
  BY <1>1, <1>2, EmptySeq
<1>5. x \in ToSet(insts) /\ \A y \in ToSet(insts) : y = x \/ y \in ToSet(insts')
  <2>1. x \in ToSet(insts)
    BY <1>4 DEF ToSet
  <2>2. ASSUME NEW y \in ToSet(insts), y # x PROVE y \in ToSet(Tail(insts))
    <3>1. PICK k \in DOMAIN insts : insts[k] = y
      BY <2>2 DEF ToSet
    <3>2. k \in DOMAIN insts \ {1}
      BY <1>4, <2>2, <3>1
    <3> QED
      BY <1>4, <3>1, <3>2 DEF ToSet
  <2> QED
    BY <1>1, <2>1, <2>2
<1>6. x \in ToSet(InstsOf(B)) \cap Splittable
  BY <1>2, <1>5
<1> HIDE DEF x
<1>7. PICK b \in DOMAIN B : \E i, j \in DOMAIN B[b].insts :
        /\ ParentOf(B, x.id) = b /\ SplitPoint(B[b].insts, x.id) = i
        /\ B[b].insts[j] = x /\ B[b].insts[i].kind \notin PhiOrPad
        /\ IF x.kind = "cleanuppad" THEN i = j + 1 ELSE i = j
  BY <1>3, <1>6, SplitWhere
<1>8. PICK i, j \in DOMAIN B[b].insts :
        /\ ParentOf(B, x.id) = b /\ SplitPoint(B[b].insts, x.id) = i
        /\ B[b].insts[j] = x /\ B[b].insts[i].kind \notin PhiOrPad
        /\ IF x.kind = "cleanuppad" THEN i = j + 1 ELSE i = j
  BY <1>7
<1>9. Puts(n, Splice(B, b, Halves(B[b], i, nextId, br)))
  <2>1. SplitBlock(B, b, x.id, nextId, br)
          = Splice(B, b, <<UpTo(B[b], i, br), From(B[b], i, nextId)>>)
    BY <1>8 DEF SplitBlock, Splice, BlocksBefore, BlocksAfter
  <2>2. body' = [body EXCEPT ![n] = SplitBlock(B, b, x.id, nextId, br)]
    BY <1>1, <1>8
  <2> QED
    BY <2>1, <2>2 DEF Puts, Halves
<1>10. br \in Inst /\ br.id = nextId + 1 /\ br.kind = "term"
  <2>1. "term" \in Kinds /\ nextId + 1 \in Nat
    BY <1>3 DEF Kinds, Terminators
  <2> QED
    BY <2>1, NewInstType
<1>11. \A f \in Funcs \ {n} : body'[f] = body[f]
  BY <1>1, <1>3
<1> HIDE DEF br
<1>12. SplitsAt(n, x, b, i, j)
  BY <1>8, <1>9 DEF SplitsAt, Branch, br
<1> QED
  BY <1>1, <1>2, <1>5, <1>6, <1>10, <1>11, <1>12 DEF Branch, br

(* The blocks of the function then.                                        *)
LEMMA SplitBlocks ==
  ASSUME NEW B, NEW n \in Nat, OK(B, n), NEW b \in DOMAIN B,
         NEW i \in DOMAIN B[b].insts, B[b].insts[i].kind \notin PhiOrPad,
         NEW br \in Inst, br.kind \notin PhiOrPad
  PROVE  LET D == Splice(B, b, Halves(B[b], i, n, br))
             s == B[b].insts
         IN /\ \A c \in DOMAIN D :
                 \/ D[c].insts = Append(SubSeq(s, 1, i - 1), br)
                 \/ D[c].insts = SubSeq(s, i, Len(s))
                 \/ \E k \in DOMAIN B \ {b} : D[c] = B[k]
            /\ 1 \in DOMAIN B /\ 1 \in DOMAIN D
            /\ D[1].insts = IF b = 1 THEN Append(SubSeq(s, 1, i - 1), br)
                            ELSE B[1].insts
<1> DEFINE u == UpTo(B[b], i, br)
           v == From(B[b], i, n)
           mid == Halves(B[b], i, n, br)
           D == Splice(B, b, mid)
           s == B[b].insts
<1>0. B \in Seq(Block)
  BY DEF OK
<1>1. B \in Seq(Block) /\ B[b] \in Block /\ PadsFirst(s) /\ b \in 1..Len(B)
      /\ Len(B) \in Nat
  <2>1. B[b] \in Block /\ PadsFirst(s)
    BY <1>0, BlockAlone, BlockParts
  <2> QED
    BY <1>0, <2>1
<1>2. /\ u \in Block /\ v \in Block
      /\ u.insts = Append(SubSeq(s, 1, i - 1), br) /\ v.insts = SubSeq(s, i, Len(s))
  <2> DEFINE x == B[b]
  <2>1. /\ x \in Block /\ i \in DOMAIN x.insts /\ x.insts[i].kind \notin PhiOrPad
        /\ PadsFirst(x.insts)
    BY <1>1
  <2> HIDE DEF x
  <2>2. LET uu == UpTo(x, i, br)
            vv == From(x, i, n)
        IN /\ uu \in Block /\ vv \in Block
           /\ uu.insts = Append(SubSeq(x.insts, 1, i - 1), br)
           /\ vv.insts = SubSeq(x.insts, i, Len(x.insts))
    BY <2>1, SplitParts, ZenonT(60)
  <2> QED
    BY <2>2 DEF x
<1>3. mid = <<u, v>>
  BY DEF Halves
<1> HIDE DEF u, v, mid
<1>4. mid \in Seq(Block) /\ Len(mid) = 2 /\ mid[1] = u /\ mid[2] = v
  BY <1>2, <1>3
<1>5. /\ Len(D) = Len(B) + 1 /\ D \in Seq(Block)
      /\ \A k \in 1..(b - 1) : D[k] = B[k]
      /\ D[b] = u /\ D[b + 1] = v
      /\ \A k \in (b + 1)..Len(B) : D[k + 1] = B[k]
  <2>1. /\ Len(D) = Len(B) - 1 + Len(mid) /\ D \in Seq(Block)
        /\ \A k \in 1..(b - 1) : D[k] = B[k]
        /\ \A j \in 1..Len(mid) : D[b - 1 + j] = mid[j]
        /\ \A k \in (b + 1)..Len(B) : D[k - 1 + Len(mid)] = B[k]
    BY <1>1, <1>4, SpliceAt, ZenonT(60)
  <2> HIDE DEF D
  <2>2. 1 \in 1..Len(mid) /\ 2 \in 1..Len(mid) /\ b - 1 + 1 = b /\ b - 1 + 2 = b + 1
        /\ \A k \in (b + 1)..Len(B) : k - 1 + Len(mid) = k + 1
    BY <1>1, <1>4
  <2>3. D[b] = u /\ D[b + 1] = v
    <3>1. D[b - 1 + 1] = mid[1] /\ D[b - 1 + 2] = mid[2]
      BY <2>1, <2>2
    <3> QED
      BY <1>4, <2>2, <3>1
  <2>4. \A k \in (b + 1)..Len(B) : D[k + 1] = B[k]
    BY <2>1, <2>2
  <2> QED
    BY <1>1, <1>4, <2>1, <2>3, <2>4
<1> HIDE DEF D
<1>6. ASSUME NEW c \in DOMAIN D
      PROVE  D[c] = u \/ D[c] = v \/ \E k \in DOMAIN B \ {b} : D[c] = B[k]
  <2>1. c \in 1..(Len(B) + 1)
    BY <1>1, <1>5
  <2>2. CASE c < b
    <3>1. c \in 1..(b - 1) /\ c \in DOMAIN B \ {b}
      BY <1>1, <2>1, <2>2
    <3> QED
      BY <1>5, <3>1
  <2>3. CASE c > b + 1
    <3>1. c - 1 \in (b + 1)..Len(B) /\ c - 1 \in DOMAIN B \ {b} /\ (c - 1) + 1 = c
      BY <1>1, <2>1, <2>3
    <3> QED
      BY <1>5, <3>1
  <2>4. CASE c = b \/ c = b + 1
    BY <1>5, <2>4
  <2> QED
    BY <1>1, <2>1, <2>2, <2>3, <2>4
<1>7. 1 \in DOMAIN B /\ 1 \in DOMAIN D
  BY <1>1, <1>5
<1>8. D[1] = IF b = 1 THEN u ELSE B[1]
  <2>1. b = 1 \/ 1 \in 1..(b - 1)
    BY <1>1
  <2> QED
    BY <1>5, <2>1
<1> QED
  BY <1>2, <1>6, <1>7, <1>8 DEF D, mid

(* The extracted block has no alloca; its place takes one that has nothing *)
(* that was there before.                                                  *)
ExtractsAt(f, b) ==
  /\ f \in Funcs \ OptNone /\ b \in DOMAIN body[f] /\ Eligible(body[f][b])
  /\ Puts(f, [body[f] EXCEPT ![b] = CallOfPromoted])

LEMMA ExtractDoes ==
  ASSUME BodyInv, NEW k \in 0..MaxBadInputs, PrExtract(k)
  PROVE  /\ prPhase = "extract" /\ prPhase' = "extract"
         /\ UNCHANGED <<perInstruction, prFn, insts, prGiven>> /\ nextId' = nextId + 3
         /\ \E f, b : ExtractsAt(f, b)
<1> DEFINE l == blocksToPromote
<1>1. /\ prPhase = "extract" /\ l # <<>> /\ Eligible(Candidate)
      /\ UNCHANGED <<prPhase, perInstruction, prFn, insts, prGiven>>
      /\ body' = [body EXCEPT ![FuncOf(Head(l))] =
           [b \in DOMAIN @ |-> IF @[b] = Candidate THEN CallOfPromoted ELSE @[b]]]
      /\ nextId' = nextId + 3
  BY DEF PrExtract, AtCandidate, Considered
<1>2. BodiesInv /\ LabelsInv
  BY DEF BodyInv, Ctl
<1>3. PICK f \in Funcs \ OptNone : \E b \in DOMAIN body[f] :
           /\ FuncOf(Head(l)) = f /\ Candidate = body[f][b]
           /\ body[f][b].label = Head(l)
  BY <1>1, <1>2, CandidateWhere
<1>4. PICK b \in DOMAIN body[f] :
           /\ FuncOf(Head(l)) = f /\ Candidate = body[f][b]
           /\ body[f][b].label = Head(l)
  BY <1>3
<1> DEFINE B == body[f]
           D == [B EXCEPT ![b] = CallOfPromoted]
<1>5. B \in Seq(Block) /\ DistinctLabels(B)
  BY <1>2 DEF BodiesInv, OK
<1>6. Puts(f, D)
  <2>1. \A c \in DOMAIN B : B[c] = B[b] => c = b
    BY <1>5 DEF DistinctLabels
  <2>2. [c \in DOMAIN B |-> IF B[c] = Candidate THEN CallOfPromoted ELSE B[c]] = D
    BY <1>4, <1>5, <2>1
  <2>3. body' = [body EXCEPT ![f] =
           [c \in DOMAIN B |-> IF B[c] = Candidate THEN CallOfPromoted ELSE B[c]]]
    BY <1>1, <1>4
  <2> QED
    BY <2>2, <2>3 DEF Puts
<1>7. ExtractsAt(f, b)
  BY <1>1, <1>4, <1>6 DEF ExtractsAt
<1> QED
  BY <1>1, <1>7

LEMMA ExtractBlocks ==
  ASSUME BodyInv, NEW f, NEW b, ExtractsAt(f, b)
  PROVE  /\ DOMAIN body'[f] = DOMAIN body[f]
         /\ \A g \in Funcs \ {f} : body'[g] = body[g]
         /\ \A c \in DOMAIN body[f] :
              body'[f][c] = IF c = b THEN CallOfPromoted ELSE body[f][c]
<1>1. /\ body \in [Funcs -> Seq(Block)] /\ f \in Funcs /\ b \in DOMAIN body[f]
      /\ body[f] \in Seq(Block) /\ body' = [body EXCEPT ![f] = [body[f] EXCEPT ![b] = CallOfPromoted]]
  BY DEF BodyInv, BodiesInv, ExtractsAt, Puts
<1> QED
  BY <1>1

-----------------------------------------------------------------------------
(* Other steps.                                                            *)

(* While promote-blocks is idle bodies change in two ways: they are edited,*)
(* and what the passes will be given is that, or traps are put in.         *)
LEMMA ElsewhereDoes ==
  ASSUME BodyInv, Next, ~ RunPromote
  PROVE  \/ UNCHANGED vars
         \/ /\ prPhase = "idle" /\ prPhase' = "idle"
            /\ \/ prGiven' = body'
               \/ /\ prGiven' = prGiven
                  /\ \/ body' = body /\ nextId' = nextId
                     \/ NetTrap /\ netFn # 0
<1>0. Ctl
  BY DEF BodyInv
<1>1. CASE Attach \/ CreateMarker \/ Terminate
  <2>1. pipePhase = "parse" /\ prGiven' = body' /\ prPhase' = prPhase
    BY <1>1 DEF Attach, CreateMarker, Terminate, Editing, BeforeThePasses
  <2> QED
    BY <1>0, <2>1, BeforeQuiet
<1>2. CASE ParseStep \/ OtherPass \/ PipelineEnds
  <2>1. prGiven' = prGiven /\ body' = body /\ prPhase' = prPhase /\ nextId' = nextId
    BY <1>2 DEF ParseStep, OtherPass, PipelineEnds, prVars
  <2>2. prPhase = "idle"
    <3>1. ASSUME ParseStep PROVE pipePhase # "run"
      BY <3>1 DEF ParseStep, Parse, ParseElement, ParseFails, ParseEnds,
         RunPassPipeline, Run, OptRun
    <3>2. ASSUME OtherPass \/ PipelineEnds
          PROVE  ~ Current("breakpoint-net") /\ ~ CurrentPromote
      BY <3>2 DEF OtherPass, PipelineEnds, RunEnds, Current, CurrentPromote
    <3> QED
      BY <1>0, <1>2, <3>1, <3>2, BeforeQuiet, Quiet
  <2> QED
    BY <2>1, <2>2
<1>3. CASE NetPassEnds \/ PromotePassEnds
  <2>1. prGiven' = prGiven /\ body' = body /\ prPhase' = prPhase /\ nextId' = nextId
    BY <1>3 DEF NetPassEnds, PromotePassEnds, prVars
  <2>2. prPhase = "idle"
    BY <1>0, <1>3, NetAlone DEF NetPassEnds, PromotePassEnds
  <2> QED
    BY <2>1, <2>2
<1>4. CASE RunNet
  <2>1. prGiven' = prGiven /\ prPhase' = prPhase /\ prPhase = "idle"
    BY <1>0, <1>4, NetAlone DEF RunNet, prVars
  <2>2. (body' = body /\ nextId' = nextId) \/ (NetTrap /\ netFn # 0)
    BY <1>4 DEF RunNet, NetSkip, NetStart, NetWalk, NetEnterBlock, NetGiveUp,
                NetTrap, NetNextBlock, NetFinish
  <2> QED
    BY <2>1, <2>2
<1> QED
  BY <1>1, <1>2, <1>3, <1>4 DEF Next, Done

-----------------------------------------------------------------------------
(* What the pass was given.                                                *)

LEMMA FreshGrow ==
  ASSUME BodyInv, [Next]_vars
  PROVE  nextId' \in Nat /\ nextId <= nextId'
<1>1. nextId \in Nat
  BY DEF BodyInv, BodiesInv
<1>2. nextId' \in {nextId, nextId + 1, nextId + 2, nextId + 3}
  <2>1. CASE Attach
    BY <2>1 DEF Attach, AttachMetadata
  <2>2. CASE CreateMarker
    BY <2>2 DEF CreateMarker, CreateMetadata, CreateMetadataAtEnd
  <2>3. CASE Terminate
    BY <2>3 DEF Terminate
  <2>4. CASE ParseStep \/ NetPassEnds \/ PromotePassEnds \/ OtherPass \/ PipelineEnds
    BY <2>4 DEF ParseStep, NetPassEnds, PromotePassEnds, OtherPass, PipelineEnds
  <2>5. CASE RunNet
    BY <2>5 DEF RunNet, NetSkip, NetStart, NetWalk, NetEnterBlock, NetGiveUp,
                NetTrap, NetNextBlock, NetFinish
  <2>6. CASE RunPromote
    <3>1. CASE QuietPromote
      BY <3>1, QuietDoes
    <3>2. CASE \E k \in 0..MaxBadInputs : PrExtract(k)
      BY <3>2, ExtractDoes
    <3>3. CASE PrStart(Current("promote-instructions")) \/ PrTakeInstructions \/ PrSplit
      BY <3>3 DEF PrStart, PrTakeInstructions, PrSplit
    <3> QED
      BY <2>6, <3>1, <3>2, <3>3, PromoteCases
  <2>7. CASE UNCHANGED vars
    BY <2>7 DEF vars
  <2> QED
    BY <2>1, <2>2, <2>3, <2>4, <2>5, <2>6, <2>7 DEF Next, Done
<1> QED
  BY <1>1, <1>2

LEMMA GivenInvInit == Init => GivenInv
<1> SUFFICES ASSUME Init PROVE GivenInv
  OBVIOUS
<1>1. prGiven = body /\ BodiesInv
  BY BodyInvInit DEF Init, PrInit, BodyInv
<1> QED
  BY <1>1 DEF GivenInv, BodiesInv, OK, WellFormed

LEMMA GivenInvStep ==
  ASSUME BodyInv, BodyInv', GivenInv, [Next]_vars
  PROVE  GivenInv'
<1>1. ASSUME prGiven' = body' PROVE GivenInv'
  BY <1>1 DEF BodyInv, GivenInv, BodiesInv, OK, WellFormed, DistinctIds
<1>2. ASSUME prGiven' = prGiven PROVE GivenInv'
  <2>1. /\ nextId \in Nat /\ nextId' \in Nat /\ nextId <= nextId'
        /\ prGiven' \in [Funcs -> Seq(Block)]
    BY <1>2, FreshGrow DEF BodyInv, BodiesInv, GivenInv
  <2>2. ASSUME NEW f \in Funcs
        PROVE  /\ prGiven'[f] # <<>> /\ DistinctIds(InstsOf(prGiven'[f]))
               /\ \A id \in Ids(InstsOf(prGiven'[f])) : id < nextId'
    <3>1. /\ prGiven[f] # <<>> /\ DistinctIds(InstsOf(prGiven[f]))
          /\ \A id \in Ids(InstsOf(prGiven[f])) : id < nextId
          /\ prGiven[f] \in Seq(Block)
      BY DEF GivenInv
    <3>2. Ids(InstsOf(prGiven[f])) \subseteq Nat
      BY <3>1, InstsType, IdsNat
    <3>3. \A id \in Ids(InstsOf(prGiven[f])) : id < nextId'
      BY <2>1, <3>1, <3>2
    <3> QED
      BY <1>2, <3>1, <3>3
  <2> QED
    BY <2>1, <2>2 DEF GivenInv, DistinctIds
<1>3. CASE RunPromote
  <2>1. CASE PrStart(Current("promote-instructions"))
    BY <1>1, <2>1 DEF PrStart
  <2>2. CASE QuietPromote \/ \E k \in 0..MaxBadInputs : PrExtract(k)
    BY <1>2, <2>2, QuietDoes, ExtractDoes
  <2>3. CASE PrTakeInstructions \/ PrSplit
    BY <1>2, <2>3 DEF PrTakeInstructions, PrSplit
  <2> QED
    BY <1>3, <2>1, <2>2, <2>3, PromoteCases
<1>4. CASE UNCHANGED vars
  BY <1>2, <1>4 DEF vars, prVars
<1>5. CASE Next /\ ~ RunPromote
  BY <1>1, <1>2, <1>4, <1>5, ElsewhereDoes
<1> QED
  BY <1>3, <1>4, <1>5

-----------------------------------------------------------------------------
(* What is selected does not change.                                       *)

LEMMA PrepareSelect ==
  ASSUME NEW s \in Seq(Inst), NEW T, NEW kinds \in {KeptInEntry, Kinds \ KeptInEntry},
         T \subseteq OfKinds(kinds)
  PROVE  Select(PrepareToSplitEntryBlock(s), T) = Select(s, T)
<1> DEFINE K == OfKinds(KeptInEntry)
           R == OfKinds(Kinds \ KeptInEntry)
           p == Select(s, K)
           q == Select(s, R)
<1>1. PrepareToSplitEntryBlock(s) = p \o q
  BY DEF PrepareToSplitEntryBlock
<1>2. p \in Seq(Inst) /\ q \in Seq(Inst)
  BY SelectType
<1>3. Select(p, T) = Select(s, K \cap T) /\ Select(q, T) = Select(s, R \cap T)
  <2> HIDE DEF K, R
  <2> QED
    BY SelectSelect
<1>4. K \cap R = {}
  BY DEF OfKinds
<1>5. T \subseteq K \/ T \subseteq R
  OBVIOUS
<1> HIDE DEF p, q, K, R
<1>6. Select(p \o q, T) = Select(p, T) \o Select(q, T)
  BY <1>2, SelectConcat
<1>7. Select(s, {}) = <<>> /\ Select(s, T) \in Seq(Inst)
  BY SelectNone, SelectType
<1>8. CASE T \subseteq K
  <2>1. K \cap T = T /\ R \cap T = {}
    BY <1>4, <1>8
  <2>2. Select(p \o q, T) = Select(s, T) \o <<>>
    BY <1>3, <1>6, <1>7, <2>1
  <2> QED
    BY <1>1, <1>7, <2>2
<1>9. CASE T \subseteq R
  <2>1. K \cap T = {} /\ R \cap T = T
    BY <1>4, <1>9
  <2>2. Select(p \o q, T) = <<>> \o Select(s, T)
    BY <1>3, <1>6, <1>7, <2>1
  <2> QED
    BY <1>1, <1>7, <2>2
<1> QED
  BY <1>5, <1>8, <1>9

LEMMA ReplaceSelect ==
  ASSUME NEW B \in Seq(Block), NEW b \in DOMAIN B, NEW x \in Block, NEW T,
         Select(x.insts, T) = Select(B[b].insts, T)
  PROVE  Select(InstsOf([B EXCEPT ![b] = x]), T) = Select(InstsOf(B), T)
<1> DEFINE P == InstsOf(BlocksBefore(B, b))
           Q == InstsOf(BlocksAfter(B, b))
           m == <<x>>
           s == x.insts
           t == B[b].insts
<1>1. m \in Seq(Block) /\ InstsOf(m) = s /\ s \in Seq(Inst) /\ t \in Seq(Inst)
  <2>1. InstsOf(<<x>>) = x.insts
    BY InstsOne
  <2>2. x.insts \in Seq(Inst)
    BY DEF Block
  <2> QED
    BY <2>1, <2>2, BlockParts
<1>2. [B EXCEPT ![b] = x] = Splice(B, b, m)
  BY ReplaceIsSplice
<1> HIDE DEF m
<1>3. /\ P \in Seq(Inst) /\ Q \in Seq(Inst)
      /\ InstsOf(Splice(B, b, m)) = (P \o InstsOf(m)) \o Q
      /\ InstsOf(B) = (P \o t) \o Q
  BY <1>1, SpliceInsts
<1> HIDE DEF P, Q, s, t
<1>4. /\ Select(Joined(P, s, Q), T) = Joined(Select(P, T), Select(s, T), Select(Q, T))
      /\ Select(Joined(P, t, Q), T) = Joined(Select(P, T), Select(t, T), Select(Q, T))
  BY <1>1, <1>3, MiddleInsts
<1>5. Select(s, T) = Select(t, T)
  BY DEF s, t
<1> QED
  BY <1>1, <1>2, <1>3, <1>4, <1>5 DEF Joined

-----------------------------------------------------------------------------
LEMMA OrderInvStep ==
  ASSUME BodyInv, BodyInv', GivenInv, GivenInv', OrderInv, [Next]_vars
  PROVE  OrderInv'
<1>1. ASSUME prPhase' \notin {"collect", "split"} PROVE OrderInv'
  BY <1>1 DEF OrderInv
<1>2. CASE UNCHANGED vars
  BY <1>2 DEF vars, prVars, OrderInv, Reached, Old
<1>3. CASE Next /\ ~ RunPromote
  BY <1>1, <1>2, <1>3, ElsewhereDoes
<1>4. CASE PrStart(Current("promote-instructions"))
  <2>1. body' = body /\ prGiven' = body
    BY <1>4 DEF PrStart
  <2>2. ASSUME NEW f \in Funcs, NEW kinds
        PROVE  Select(InstsOf(body'[f]), Old(f, kinds)')
                 = Select(InstsOf(prGiven'[f]), OfKinds(kinds))
    <3> DEFINE s == InstsOf(body[f])
               T == {x \in Inst : x.id \in Ids(s) /\ x.kind \in kinds}
               U == OfKinds(kinds)
    <3>1. s \in Seq(Inst)
      BY InstsType DEF BodyInv, BodiesInv
    <3>2. \A x \in ToSet(s) : x \in Inst /\ x.id \in Ids(s)
      BY <3>1, ElementsTyped, IdsOfElements
    <3>3. ToSet(s) \cap T = ToSet(s) \cap U
      <4> HIDE DEF s
      <4> QED
        BY <3>2 DEF OfKinds
    <3>4. Old(f, kinds)' = T
      BY <2>1 DEF Old
    <3> HIDE DEF s, T, U
    <3>5. Select(s, T) = Select(s, U)
      BY <3>1, <3>3, SelectSame
    <3> QED
      BY <2>1, <3>4, <3>5 DEF s, U
  <2>3. \A f \in Funcs : body'[f] = prGiven'[f]
    BY <2>1
  <2> QED
    BY <2>2, <2>3 DEF OrderInv
<1>5. CASE QuietPromote
  <2>1. /\ body' = body /\ prGiven' = prGiven
        /\ \/ prPhase' = prPhase /\ prFn' = prFn /\ prPhase = "extract"
           \/ /\ prPhase' = "collect" /\ prFn' = prFn + 1 /\ prFn \in Funcs
              /\ prPhase \in {"collect", "split"}
           \/ prPhase = "collect" /\ prPhase' = "extract" /\ prFn' = prFn
           \/ prPhase' = "idle"
    BY <1>5, QuietDoes
  <2>2. CASE /\ prPhase' = "collect" /\ prFn' = prFn + 1 /\ prFn \in Funcs
             /\ prPhase \in {"collect", "split"}
    <3>1. Reached \subseteq Reached'
      BY <2>2 DEF Reached, Funcs
    <3>2. \A f \in Funcs : f \in OptNone \/ f \notin Reached' => body'[f] = prGiven'[f]
      BY <2>1, <2>2, <3>1 DEF OrderInv
    <3>3. \A f \in Funcs : \A kinds \in {KeptInEntry, Kinds \ KeptInEntry} :
            Select(InstsOf(body'[f]), Old(f, kinds)')
              = Select(InstsOf(prGiven'[f]), OfKinds(kinds))
      BY <2>1, <2>2 DEF OrderInv, Old
    <3> QED
      BY <3>2, <3>3 DEF OrderInv
  <2> QED
    BY <1>1, <2>1, <2>2
<1>6. ASSUME NEW n \in Funcs \ OptNone, prPhase \in {"collect", "split"},
             prPhase' = "split", n = prFn, prFn' = n, prGiven' = prGiven,
             \A f \in Funcs \ {n} : body'[f] = body[f],
             \A kinds \in {KeptInEntry, Kinds \ KeptInEntry} :
               Select(InstsOf(body'[n]), Old(n, kinds)) = Select(InstsOf(body[n]), Old(n, kinds))
      PROVE  OrderInv'
  <2>1. Reached \subseteq Reached' /\ n \in Reached'
    BY <1>6 DEF Reached, Funcs
  <2>2. \A f \in Funcs : f \in OptNone \/ f \notin Reached' => body'[f] = prGiven'[f]
    BY <1>6, <2>1 DEF OrderInv
  <2>3. ASSUME NEW f \in Funcs, NEW kinds \in {KeptInEntry, Kinds \ KeptInEntry}
        PROVE  Select(InstsOf(body'[f]), Old(f, kinds)')
                 = Select(InstsOf(prGiven'[f]), OfKinds(kinds))
    <3>1. Old(f, kinds)' = Old(f, kinds)
      BY <1>6 DEF Old
    <3>2. Select(InstsOf(body[f]), Old(f, kinds))
            = Select(InstsOf(prGiven[f]), OfKinds(kinds))
      BY <1>6 DEF OrderInv
    <3>3. Select(InstsOf(body'[f]), Old(f, kinds))
            = Select(InstsOf(body[f]), Old(f, kinds))
      BY <1>6
    <3> QED
      BY <1>6, <3>1, <3>2, <3>3
  <2> QED
    BY <2>2, <2>3 DEF OrderInv
<1>7. CASE PrTakeInstructions
  <2>1. PICK n : n = prFn
    OBVIOUS
  <2> DEFINE y == Edited(n, 1, PrepareToSplitEntryBlock(body[n][1].insts))
  <2>2. /\ n \in Funcs \ OptNone /\ prPhase = "collect" /\ prPhase' = "split"
        /\ prFn' = n /\ prGiven' = prGiven
        /\ 1 \in DOMAIN body[n] /\ y \in Block
        /\ body'[n] = [body[n] EXCEPT ![1] = y]
        /\ y.insts = PrepareToSplitEntryBlock(body[n][1].insts)
        /\ \A f \in Funcs \ {n} : body'[f] = body[f]
    BY <1>7, <2>1, TakeDoes DEF Edited
  <2> HIDE DEF y
  <2>3. body[n] \in Seq(Block)
    BY <2>2 DEF BodyInv, BodiesInv
  <2>4. ASSUME NEW kinds \in {KeptInEntry, Kinds \ KeptInEntry}
        PROVE  Select(InstsOf(body'[n]), Old(n, kinds)) = Select(InstsOf(body[n]), Old(n, kinds))
    <3> DEFINE s == body[n][1].insts
               T == Old(n, kinds)
               B == body[n]
    <3>1. s \in Seq(Inst)
      BY <2>2, <2>3, BlockParts
    <3>2. T \subseteq OfKinds(kinds)
      BY DEF Old, OfKinds
    <3> HIDE DEF T
    <3>3. Select(y.insts, T) = Select(B[1].insts, T)
      <4> HIDE DEF s
      <4>1. Select(PrepareToSplitEntryBlock(s), T) = Select(s, T)
        BY <3>1, <3>2, PrepareSelect
      <4> QED
        BY <2>2, <4>1 DEF s
    <3> HIDE DEF B
    <3>4. Select(InstsOf([B EXCEPT ![1] = y]), T) = Select(InstsOf(B), T)
      <4>1. B \in Seq(Block) /\ 1 \in DOMAIN B
        BY <2>2, <2>3 DEF B
      <4> QED
        BY <2>2, <3>3, <4>1, ReplaceSelect
    <3> QED
      BY <2>2, <3>4 DEF B, T
  <2> QED
    BY <1>6, <2>1, <2>2, <2>4
<1>8. CASE PrSplit
  <2>1. PICK n : n = prFn
    OBVIOUS
  <2>2. /\ n \in Funcs \ OptNone /\ prPhase = "split" /\ prPhase' = "split"
        /\ prFn' = n /\ prGiven' = prGiven
        /\ Branch \in Inst /\ Branch.id = nextId + 1 /\ Branch.kind = "term"
        /\ \A f \in Funcs \ {n} : body'[f] = body[f]
        /\ \E x, b, i, j : SplitsAt(n, x, b, i, j)
    BY <1>8, <2>1, SplitDoes
  <2>3. PICK x, b, i, j : SplitsAt(n, x, b, i, j)
    BY <2>2
  <2> DEFINE B == body[n]
             br == Branch
             D == Splice(B, b, Halves(B[b], i, nextId, br))
  <2>4. /\ b \in DOMAIN B /\ i \in DOMAIN B[b].insts
        /\ B[b].insts[i].kind \notin PhiOrPad /\ Puts(n, D)
    BY <2>3 DEF SplitsAt
  <2>5. body \in [Funcs -> Seq(Block)] /\ OK(B, nextId) /\ Terminated(B) /\ nextId \in Nat
    BY <2>2 DEF BodyInv, BodiesInv, TermInv, Ctl, PrCtl, CurrentPromote, Current
  <2>6. body'[n] = D
    BY <2>2, <2>4, <2>5 DEF Puts
  <2>7. ASSUME NEW kinds
        PROVE  Select(InstsOf(body'[n]), Old(n, kinds)) = Select(InstsOf(body[n]), Old(n, kinds))
    <3>1. br \notin Old(n, kinds)
      <4>1. \A id \in Ids(InstsOf(prGiven[n])) : id < nextId
        BY <2>2 DEF GivenInv
      <4>2. ~ (nextId + 1 < nextId)
        BY <2>5
      <4> QED
        BY <2>2, <4>1, <4>2 DEF Old
    <3>2. br.kind \in Terminators \ PhiOrPad
      BY <2>2 DEF Terminators, PhiOrPad, EHPads
    <3> HIDE DEF B, br
    <3>3. \A T : br \notin T => Select(InstsOf(D), T) = Select(InstsOf(B), T)
      BY <2>2, <2>4, <2>5, <3>2, SplitBody DEF br
    <3> QED
      BY <2>6, <3>1, <3>3 DEF B
  <2> QED
    BY <1>6, <2>1, <2>2, <2>7
<1>9. CASE \E k \in 0..MaxBadInputs : PrExtract(k)
  <2>1. prPhase' = "extract"
    BY <1>9, ExtractDoes
  <2> QED
    BY <1>1, <2>1
<1> QED
  BY <1>2, <1>3, <1>4, <1>5, <1>7, <1>8, <1>9, PromoteCases

(* Splitting every instruction of any function off changes neither which   *)
(* of its instructions there are nor their order, but for those that have  *)
(* to come first, and leaves optnone functions alone.                      *)
THEOREM OrderStays == Spec => []OrderKept
<1>1. BodyInv /\ OrderInv => OrderKept
  <2> SUFFICES ASSUME BodyInv, OrderInv, Promoting({"split", "collect"}), NEW f \in Funcs
               PROVE  LET given == InstsOf(prGiven[f])
                          now == Select(InstsOf(body[f]), {x \in Inst : x.id \in Ids(given)})
                      IN /\ f \in OptNone => body[f] = prGiven[f]
                         /\ Select(now, OfKinds(Kinds \ KeptInEntry))
                              = Select(given, OfKinds(Kinds \ KeptInEntry))
                         /\ Select(now, OfKinds(KeptInEntry))
                              = Select(given, OfKinds(KeptInEntry))
    BY DEF OrderKept
  <2> DEFINE s == InstsOf(body[f])
             given == InstsOf(prGiven[f])
             T == {x \in Inst : x.id \in Ids(given)}
  <2>1. prPhase \in {"split", "collect"}
    BY DEF Promoting
  <2>2. /\ f \in OptNone => body[f] = prGiven[f]
        /\ \A kinds \in {KeptInEntry, Kinds \ KeptInEntry} :
             Select(s, Old(f, kinds)) = Select(given, OfKinds(kinds))
    BY <2>1 DEF OrderInv
  <2>3. s \in Seq(Inst)
    BY InstsType DEF BodyInv, BodiesInv
  <2>4. ASSUME NEW kinds \in {KeptInEntry, Kinds \ KeptInEntry}
        PROVE  Select(Select(s, T), OfKinds(kinds)) = Select(given, OfKinds(kinds))
    <3>1. T \cap OfKinds(kinds) = Old(f, kinds)
      BY DEF Old, OfKinds
    <3> HIDE DEF s, T, given
    <3>2. Select(Select(s, T), OfKinds(kinds)) = Select(s, T \cap OfKinds(kinds))
      BY <2>3, SelectSelect
    <3> QED
      BY <2>2, <3>1, <3>2
  <2> QED
    BY <2>2, <2>4
<1>2. Init => OrderInv
  BY DEF Init, PrInit, OrderInv
<1>3. Spec => [](BodyInv /\ GivenInv /\ OrderInv)
  BY <1>2, BodyInvInit, BodyInvStep, GivenInvInit, GivenInvStep, OrderInvStep, PTL DEF Spec
<1> QED
  BY <1>1, <1>3, PTL

-----------------------------------------------------------------------------
(* A block is split at i, for its j-th instruction, which is then no longer*)
(* to be split off.                                                        *)

LEMMA AloneFewer ==
  ASSUME NEW s, NEW P, NEW Q, AloneIn(s, P),
         \A j \in DOMAIN s : s[j] \in P => s[j] \in Q
  PROVE  AloneIn(s, Q)
BY DEF AloneIn

LEMMA AloneSplit ==
  ASSUME NEW s \in Seq(Inst), DistinctIds(s), NEW i \in DOMAIN s, NEW j \in DOMAIN s,
         NEW P, NEW Q, AloneIn(s, P), \A y \in P : y = s[j] \/ y \in Q,
         IF s[j].kind = "cleanuppad" THEN i = j + 1 ELSE i = j,
         NEW br, br.kind = "term"
  PROVE  /\ AloneIn(Append(SubSeq(s, 1, i - 1), br), Q)
         /\ AloneIn(SubSeq(s, i, Len(s)), Q)
<1> DEFINE u == SubSeq(s, 1, i - 1)
           v == SubSeq(s, i, Len(s))
<1>1. /\ i \in 1..Len(s) /\ j \in 1..Len(s) /\ Len(s) \in Nat
      /\ s[j].kind # "cleanuppad" => i = j
      /\ s[j].kind = "cleanuppad" => i = j + 1
  OBVIOUS
<1>2. /\ u \in Seq(Inst) /\ Len(u) = i - 1 /\ \A k \in 1..(i - 1) : u[k] = s[k]
      /\ v \in Seq(Inst) /\ Len(v) = Len(s) - i + 1
      /\ \A k \in 1..(Len(s) - i + 1) : v[k] = s[i + k - 1]
  BY <1>1, PrefixPads, SuffixPads
<1> HIDE DEF u, v
<1>3. ASSUME NEW k \in DOMAIN s, s[k] = s[j] PROVE k = j
  BY <1>3 DEF DistinctIds
<1>4. AloneIn(Append(u, br), Q)
  <2> SUFFICES ASSUME NEW k \in DOMAIN Append(u, br), Append(u, br)[k] \in Splittable
               PROVE  \/ Append(u, br)[k].kind = "cleanuppad" \/ k = 1
                      \/ Append(u, br)[k] \in Q
    BY DEF AloneIn
  <2>1. k \in 1..i /\ (k = i \/ k \in 1..(i - 1))
    BY <1>1, <1>2, SMTT(30)
  <2>2. ASSUME k = i PROVE FALSE
    <3>1. Append(u, br)[k] = br
      BY <1>1, <1>2, <2>2
    <3> QED
      BY <3>1 DEF Splittable, OfKinds, NotSplit, Terminators
  <2>3. k \in 1..(i - 1) /\ Append(u, br)[k] = s[k] /\ k \in DOMAIN s
    <3>1. k \in 1..(i - 1) /\ k \in 1..Len(u) /\ k \in DOMAIN s
      BY <1>1, <1>2, <2>1, <2>2
    <3>2. Append(u, br)[k] = u[k]
      BY <1>2, <3>1
    <3> QED
      BY <1>2, <3>1, <3>2
  <2>4. s[k].kind = "cleanuppad" \/ k = 1 \/ s[k] \in P
    BY <2>3 DEF AloneIn
  <2>5. ASSUME s[k] = s[j] PROVE s[k].kind = "cleanuppad"
    BY <1>1, <1>3, <2>3, <2>5
  <2> QED
    BY <2>3, <2>4, <2>5
<1>5. AloneIn(v, Q)
  <2> SUFFICES ASSUME NEW k \in DOMAIN v, v[k] \in Splittable, k # 1
               PROVE  v[k].kind = "cleanuppad" \/ v[k] \in Q
    BY DEF AloneIn
  <2>1. /\ k \in 1..(Len(s) - i + 1) /\ i + k - 1 \in DOMAIN s /\ i + k - 1 # 1
        /\ i + k - 1 # j
    <3>1. k \in 1..(Len(s) - i + 1) /\ k > 1 /\ DOMAIN s = 1..Len(s)
      BY <1>2
    <3>2. j \in Nat /\ i \in Nat /\ j <= i /\ i >= 1
      BY <1>1
    <3> QED
      BY <1>1, <3>1, <3>2
  <2>2. v[k] = s[i + k - 1]
    BY <1>2, <2>1
  <2>3. s[i + k - 1].kind = "cleanuppad" \/ s[i + k - 1] \in P
    BY <2>1, <2>2 DEF AloneIn
  <2> QED
    BY <1>3, <2>1, <2>2, <2>3
<1> QED
  BY <1>4, <1>5 DEF u, v

LEMMA AloneInvStep ==
  ASSUME BodyInv, BodyInv', AloneInv, [Next]_vars
  PROVE  AloneInv'
<1>1. ASSUME prPhase' = "idle" PROVE AloneInv'
  BY <1>1 DEF AloneInv
<1>2. CASE UNCHANGED vars
  BY <1>2 DEF vars, prVars, AloneInv, Reached, Pending
<1>3. CASE Next /\ ~ RunPromote
  BY <1>1, <1>2, <1>3, ElsewhereDoes
<1>4. CASE PrStart(Current("promote-instructions"))
  <2>1. prPhase' = "collect" /\ prFn' = 1
    BY <1>4 DEF PrStart
  <2>2. Reached' = 1..0
    BY <2>1 DEF Reached
  <2> QED
    BY <2>2 DEF AloneInv
<1>5. CASE QuietPromote
  <2>0. PICK n : n = prFn
    OBVIOUS
  <2>1. /\ body' = body /\ perInstruction' = perInstruction /\ insts' = insts
        /\ \/ prPhase' = prPhase /\ prFn' = n /\ prPhase = "extract"
           \/ /\ prPhase' = "collect" /\ prFn' = n + 1 /\ n \in Funcs
              /\ \/ prPhase = "collect" /\ (n \in OptNone \/ ~ perInstruction)
                 \/ prPhase = "split" /\ insts = <<>>
           \/ prPhase = "collect" /\ prPhase' = "extract" /\ prFn' = n
           \/ prPhase' = "idle"
    BY <1>5, <2>0, QuietDoes
  <2>2. SUFFICES ASSUME prPhase' # "idle", perInstruction, NEW f \in Reached' \ OptNone
                 PROVE  \A b \in DOMAIN body[f] :
                          AloneIn(body[f][b].insts, Pending(f)')
    BY <2>1 DEF AloneInv
  <2>3. f \in Reached /\ prPhase # "idle"
    BY <2>0, <2>1, <2>2 DEF Reached, Funcs
  <2>4. Pending(f) = {}
    <3>1. ToSet(<<>>) = {}
      BY DEF ToSet
    <3> QED
      BY <2>1, <2>2, <3>1 DEF Pending
  <2>5. \A b \in DOMAIN body[f] : AloneIn(body[f][b].insts, {})
    BY <2>2, <2>3, <2>4 DEF AloneInv
  <2> QED
    BY <2>5, AloneFewer
<1>6. CASE PrTakeInstructions
  <2>1. PICK n : n = prFn
    OBVIOUS
  <2>2. /\ n \in Funcs \ OptNone /\ prPhase = "collect" /\ prPhase' = "split"
        /\ perInstruction /\ prFn' = n
        /\ \A f \in Funcs \ {n} : body'[f] = body[f]
        /\ insts' = Select(InstsOf(body'[n]), Splittable)
    BY <1>6, <2>1, TakeDoes
  <2>3. SUFFICES ASSUME NEW f \in Reached' \ OptNone, NEW b \in DOMAIN body'[f]
                 PROVE  AloneIn(body'[f][b].insts, Pending(f)')
    BY DEF AloneInv
  <2>4. f \in Funcs /\ (f = n \/ f \in Reached)
    BY <2>1, <2>2, <2>3, FunctionsAssumption DEF Reached, Funcs
  <2>5. CASE f = n
    <3> DEFINE D == body'[n]
               s == D[b].insts
    <3>1. D \in Seq(Block) /\ b \in DOMAIN D
      BY <2>2, <2>3, <2>5 DEF BodyInv, BodiesInv
    <3>2. Pending(n)' = ToSet(insts')
      BY <2>2 DEF Pending
    <3> HIDE DEF D
    <3>3. InstsOf(D) \in Seq(Inst)
      BY <3>1, InstsType
    <3>4. ToSet(Select(InstsOf(D), Splittable)) = ToSet(InstsOf(D)) \cap Splittable
      BY <3>3, SelectElements
    <3>5. \A j \in DOMAIN s : s[j] \in ToSet(InstsOf(D))
      <4>1. \A j \in DOMAIN s : s[j] \in ToSet(s)
        BY DEF ToSet
      <4> QED
        BY <3>1, <4>1, InstsElements
    <3>6. Pending(n)' = ToSet(InstsOf(D)) \cap Splittable
      BY <2>2, <3>2, <3>4 DEF D
    <3>7. AloneIn(s, Pending(n)')
      BY <3>5, <3>6 DEF AloneIn
    <3> QED
      BY <2>5, <3>7 DEF D
  <2>6. CASE f # n
    <3>1. body'[f] = body[f] /\ Pending(f) = {} /\ f \in Reached \ OptNone
      BY <2>2, <2>3, <2>4, <2>6 DEF Pending
    <3>2. AloneIn(body[f][b].insts, {})
      BY <2>2, <2>3, <3>1 DEF AloneInv
    <3> QED
      BY <3>1, <3>2, AloneFewer
  <2> QED
    BY <2>5, <2>6
<1>7. CASE PrSplit
  <2>1. PICK n : n = prFn
    OBVIOUS
  <2>2. /\ n \in Funcs \ OptNone /\ prPhase = "split" /\ prPhase' = "split"
        /\ perInstruction /\ prFn' = n
        /\ Branch \in Inst /\ Branch.kind = "term"
        /\ \A f \in Funcs \ {n} : body'[f] = body[f]
        /\ \E x \in ToSet(insts) :
             /\ \A y \in ToSet(insts) : y = x \/ y \in ToSet(insts')
             /\ \E b, i, j : SplitsAt(n, x, b, i, j)
    BY <1>7, <2>1, SplitDoes
  <2>3. PICK x \in ToSet(insts) :
             /\ \A y \in ToSet(insts) : y = x \/ y \in ToSet(insts')
             /\ \E b, i, j : SplitsAt(n, x, b, i, j)
    BY <2>2
  <2>4. PICK b, i, j : SplitsAt(n, x, b, i, j)
    BY <2>3
  <2> DEFINE B == body[n]
             br == Branch
             P == ToSet(insts)
             Q == ToSet(insts')
             D == Splice(B, b, Halves(B[b], i, nextId, br))
  <2>5. /\ b \in DOMAIN B /\ i \in DOMAIN B[b].insts /\ j \in DOMAIN B[b].insts
        /\ B[b].insts[j] = x /\ B[b].insts[i].kind \notin PhiOrPad /\ Puts(n, D)
        /\ IF x.kind = "cleanuppad" THEN i = j + 1 ELSE i = j
    BY <2>4 DEF SplitsAt
  <2>6. body \in [Funcs -> Seq(Block)] /\ OK(B, nextId) /\ nextId \in Nat
    BY <2>2 DEF BodyInv, BodiesInv
  <2>7. body'[n] = D /\ Pending(n) = P /\ Pending(n)' = Q
    BY <2>1, <2>2, <2>5, <2>6 DEF Puts, Pending
  <2>8. \A k \in DOMAIN B : AloneIn(B[k].insts, P)
    <3>1. n \in Reached \ OptNone
      BY <2>1, <2>2 DEF Reached, Funcs
    <3> QED
      BY <2>2, <2>7, <3>1 DEF AloneInv
  <2>9. \A k \in DOMAIN B \ {b} : AloneIn(B[k].insts, Q)
    <3> SUFFICES ASSUME NEW k \in DOMAIN B \ {b} PROVE AloneIn(B[k].insts, Q)
      OBVIOUS
    <3> DEFINE s == B[b].insts
               t == B[k].insts
    <3>1. Ids(t) \cap Ids(s) = {}
      BY <2>5, <2>6, BlockAlone
    <3>2. x.id \in Ids(s) /\ \A p \in DOMAIN t : t[p].id \in Ids(t)
      BY <2>5 DEF Ids
    <3>3. \A p \in DOMAIN t : t[p] # x
      BY <3>1, <3>2
    <3>4. AloneIn(t, P)
      BY <2>8
    <3> HIDE DEF t, P, Q
    <3>5. \A p \in DOMAIN t : t[p] \in P => t[p] \in Q
      BY <2>3, <3>3 DEF P, Q
    <3> QED
      BY <3>4, <3>5, AloneFewer DEF t
  <2>10. /\ AloneIn(Append(SubSeq(B[b].insts, 1, i - 1), br), Q)
         /\ AloneIn(SubSeq(B[b].insts, i, Len(B[b].insts)), Q)
    <3> DEFINE s == B[b].insts
    <3>1. s \in Seq(Inst) /\ DistinctIds(s)
      BY <2>5, <2>6, BlockAlone
    <3>2. AloneIn(s, P) /\ \A y \in P : y = s[j] \/ y \in Q
      BY <2>3, <2>5, <2>8
    <3>3. /\ i \in DOMAIN s /\ j \in DOMAIN s
          /\ IF s[j].kind = "cleanuppad" THEN i = j + 1 ELSE i = j
      BY <2>5
    <3>4. br.kind = "term"
      BY <2>2
    <3> HIDE DEF s, P, Q, br
    <3>5. /\ AloneIn(Append(SubSeq(s, 1, i - 1), br), Q)
          /\ AloneIn(SubSeq(s, i, Len(s)), Q)
      BY <3>1, <3>2, <3>3, <3>4, AloneSplit
    <3> QED
      BY <3>5 DEF s
  <2>11. \A c \in DOMAIN D : AloneIn(D[c].insts, Q)
    <3>1. br \in Inst /\ br.kind \notin PhiOrPad
      BY <2>2 DEF PhiOrPad, EHPads
    <3> HIDE DEF B, br, Q
    <3>2. \A c \in DOMAIN D :
               \/ D[c].insts = Append(SubSeq(B[b].insts, 1, i - 1), br)
               \/ D[c].insts = SubSeq(B[b].insts, i, Len(B[b].insts))
               \/ \E k \in DOMAIN B \ {b} : D[c] = B[k]
      <4>1. /\ b \in DOMAIN B /\ i \in DOMAIN B[b].insts
            /\ B[b].insts[i].kind \notin PhiOrPad /\ OK(B, nextId) /\ nextId \in Nat
        BY <2>5, <2>6
      <4> QED
        BY <3>1, <4>1, SplitBlocks, SMTT(30)
    <3> HIDE DEF D
    <3> QED
      BY <2>9, <2>10, <3>2
  <2> HIDE DEF D, P, Q
  <2>12. SUFFICES ASSUME NEW f \in Reached' \ OptNone, NEW c \in DOMAIN body'[f]
                  PROVE  AloneIn(body'[f][c].insts, Pending(f)')
    BY DEF AloneInv
  <2>13. f \in Funcs /\ f \in Reached
    BY <2>1, <2>2, <2>12, FunctionsAssumption DEF Reached, Funcs
  <2>14. CASE f = n
    BY <2>7, <2>11, <2>12, <2>14
  <2>15. CASE f # n
    <3>1. body'[f] = body[f] /\ Pending(f) = {}
      BY <2>1, <2>2, <2>13, <2>15 DEF Pending
    <3>2. AloneIn(body[f][c].insts, {})
      BY <2>2, <2>12, <2>13, <3>1 DEF AloneInv
    <3> QED
      BY <3>1, <3>2, AloneFewer
  <2> QED
    BY <2>14, <2>15
<1>8. CASE \E k \in 0..MaxBadInputs : PrExtract(k)
  <2>1. PICK k \in 0..MaxBadInputs : PrExtract(k)
    BY <1>8
  <2>2. /\ prPhase = "extract" /\ prPhase' = "extract"
        /\ UNCHANGED <<perInstruction, prFn, insts>>
        /\ \E g, a : ExtractsAt(g, a)
    BY <2>1, ExtractDoes
  <2>3. PICK g, a : ExtractsAt(g, a)
    BY <2>2
  <2>4. /\ DOMAIN body'[g] = DOMAIN body[g]
        /\ \A h \in Funcs \ {g} : body'[h] = body[h]
        /\ \A c \in DOMAIN body[g] :
             body'[g][c] = IF c = a THEN CallOfPromoted ELSE body[g][c]
    BY <2>3, ExtractBlocks
  <2>5. AloneIn(CallOfPromoted.insts, {})
    <3>1. NewInst(nextId + 2, "term").kind = "term"
      BY DEF NewInst
    <3>2. NewInst(nextId + 2, "term") \notin Splittable
      BY <3>1 DEF Splittable, OfKinds, NotSplit, Terminators
    <3>3. /\ Len(CallOfPromoted.insts) = 2
          /\ CallOfPromoted.insts[2] = NewInst(nextId + 2, "term")
          /\ CallOfPromoted.insts \in Seq(Inst)
      BY CallOfPromotedParts DEF BodyInv, BodiesInv, Block
    <3>4. \A j \in DOMAIN CallOfPromoted.insts : j = 1 \/ j = 2
      BY <3>3
    <3> QED
      BY <3>2, <3>3, <3>4 DEF AloneIn
  <2>6. SUFFICES ASSUME perInstruction, NEW f \in Reached' \ OptNone, NEW b \in DOMAIN body'[f]
                 PROVE  AloneIn(body'[f][b].insts, Pending(f)')
    BY <2>2 DEF AloneInv
  <2>7. f \in Funcs /\ f \in Reached /\ Pending(f)' = {} /\ Pending(f) = {}
    <3>1. prFn = N + 1 /\ N \in Nat
      BY <2>2, FunctionsAssumption DEF BodyInv, Ctl, PrCtl
    <3> QED
      BY <2>2, <2>6, <3>1 DEF Reached, Funcs, Pending
  <2>8. b \in DOMAIN body[f]
        /\ (body'[f][b] = body[f][b] \/ body'[f][b] = CallOfPromoted)
    BY <2>4, <2>6, <2>7
  <2>9. AloneIn(body[f][b].insts, {})
    BY <2>2, <2>6, <2>7, <2>8 DEF AloneInv
  <2> QED
    BY <2>5, <2>7, <2>8, <2>9
<1> QED
  BY <1>2, <1>3, <1>4, <1>5, <1>6, <1>7, <1>8, PromoteCases

-----------------------------------------------------------------------------
LEMMA FirstAndRest ==
  ASSUME NEW S, NEW s \in Seq(S), NEW i \in 1..(Len(s) + 1), i = 2
  PROVE  /\ SubSeq(s, i, Len(s)) \in Seq(S)
         /\ Len(SubSeq(s, i, Len(s))) = Len(s) - 1
         /\ \A k \in 1..(Len(s) - 1) : SubSeq(s, i, Len(s))[k] = s[k + 1]
         /\ s = <<s[1]>> \o SubSeq(s, i, Len(s))
<1> DEFINE p == SubSeq(s, 1, i - 1)
           r == SubSeq(s, i, Len(s))
<1>1. /\ p \in Seq(S) /\ r \in Seq(S) /\ Len(p) = i - 1
      /\ Len(r) = Len(s) - i + 1
      /\ \A k \in 1..(i - 1) : p[k] = s[k]
      /\ \A k \in 1..(Len(s) - i + 1) : r[k] = s[i + k - 1]
      /\ s = p \o r
  BY CutBefore
<1> HIDE DEF p, r
<1>2. p = <<s[1]>>
  BY <1>1
<1>3. Len(s) \in Nat /\ i - 1 = 1 /\ \A k \in 1..(Len(s) - 1) : i + k - 1 = k + 1
  OBVIOUS
<1>4. Len(s) - i + 1 = Len(s) - 1
  BY <1>3
<1> QED
  BY <1>1, <1>2, <1>3, <1>4 DEF r

(* Only the first instruction of a block can be split off, ...             *)
LEMMA SelectFirst ==
  ASSUME NEW S, NEW s \in Seq(S), s # <<>>, NEW T,
         \A j \in DOMAIN s : s[j] \in T <=> j = 1
  PROVE  Select(s, T) = <<s[1]>>
<1>0. PICK i : i = 2
  OBVIOUS
<1> DEFINE q == SubSeq(s, i, Len(s))
           x == s[1]
<1>1. 1 \in DOMAIN s /\ Len(s) \in Nat /\ i \in 1..(Len(s) + 1)
  BY <1>0, EmptySeq
<1>2. x \in S /\ <<x>> \in Seq(S) /\ x \in T
  BY <1>1
<1>3. /\ q \in Seq(S) /\ Len(q) = Len(s) - 1
      /\ \A k \in 1..(Len(s) - 1) : q[k] = s[k + 1]
      /\ s = <<x>> \o q
  BY <1>0, <1>1, FirstAndRest
<1>4. ToSet(q) \cap T = {}
  <2>1. ASSUME NEW k \in DOMAIN q PROVE q[k] \notin T
    <3>1. k \in 1..(Len(s) - 1) /\ k + 1 \in DOMAIN s /\ k + 1 # 1
      BY <1>1, <1>3
    <3> QED
      BY <1>3, <3>1
  <2> QED
    BY <2>1 DEF ToSet
<1> HIDE DEF q, x
<1>5. Select(<<x>>, T) = <<x>>
  BY <1>2, SelectOne
<1>6. Select(q, T) = <<>>
  BY <1>3, <1>4, SelectNone
<1> DEFINE w == <<x>>
<1>7. Select(w \o q, T) = Select(w, T) \o Select(q, T)
  <2>1. w \in Seq(S) /\ q \in Seq(S)
    BY <1>2, <1>3
  <2> HIDE DEF w
  <2> QED
    BY <2>1, SelectConcat
<1>8. <<x>> \o <<>> = <<x>>
  OBVIOUS
<1> QED
  BY <1>3, <1>5, <1>6, <1>7, <1>8 DEF x

(* ... unless it is a cleanuppad, which comes behind nothing but PHI nodes.*)
LEMMA AloneSelected ==
  ASSUME NEW s \in Seq(Inst), PadsFirst(s), AloneIn(s, {})
  PROVE  LET t == Select(s, Splittable)
         IN \A i \in DOMAIN t :
              \/ t[i].kind = "cleanuppad"
              \/ Len(t) = 1 /\ t[1] = s[1]
<1> DEFINE T == Splittable
           t == Select(s, T)
<1>1. \A j \in DOMAIN s : s[j] \in T => s[j].kind = "cleanuppad" \/ j = 1
  BY DEF AloneIn
<1>2. t \in Seq(Inst) /\ ToSet(t) = ToSet(s) \cap T
  BY SelectType, SelectElements
<1>3. ASSUME \A j \in DOMAIN s : s[j] \in T => s[j].kind = "cleanuppad"
      PROVE  \A i \in DOMAIN t : t[i].kind = "cleanuppad"
  <2> HIDE DEF t, T
  <2>1. \A x \in ToSet(s) : x \in T => x.kind = "cleanuppad"
    BY <1>3 DEF ToSet
  <2>2. \A i \in DOMAIN t : t[i] \in ToSet(t)
    BY DEF ToSet
  <2> QED
    BY <1>2, <2>1, <2>2
<1>4. ASSUME \E j \in DOMAIN s : s[j] \in T /\ s[j].kind # "cleanuppad"
      PROVE  Len(t) = 1 /\ t[1] = s[1]
  <2>1. 1 \in DOMAIN s /\ s[1] \in T /\ s[1].kind # "cleanuppad" /\ s # <<>>
    BY <1>1, <1>4
  <2>2. ASSUME NEW j \in DOMAIN s, j # 1 PROVE s[j] \notin T
    <3>1. ASSUME s[j].kind = "cleanuppad" PROVE FALSE
      <4>1. s[j].kind \in PhiOrPad /\ 1 \in 1..(j - 1)
        BY <2>2, <3>1 DEF PhiOrPad, EHPads
      <4>2. s[1].kind = "phi"
        BY <4>1 DEF PadsFirst
      <4> QED
        BY <2>1, <4>2 DEF Splittable, OfKinds, NotSplit
    <3> QED
      BY <1>1, <2>2, <3>1
  <2>3. t = <<s[1]>>
    <3> HIDE DEF T
    <3> QED
      BY <2>1, <2>2, SelectFirst
  <2> QED
    BY <2>3
<1>5. \A i \in DOMAIN t : t[i].kind = "cleanuppad" \/ (Len(t) = 1 /\ t[1] = s[1])
  BY <1>3, <1>4
<1> QED
  BY <1>5

(* In functions with any number of blocks and instructions: each that may  *)
(* be split off is, as many as there are, by the time extraction begins.   *)
THEOREM InstructionsStayAlone == Spec => []InstructionsAlone
<1>1. BodyInv /\ AloneInv => InstructionsAlone
  <2> SUFFICES ASSUME BodyInv, AloneInv, Promoting({"extract"}),
                      NEW f \in Funcs \ OptNone, NEW b \in DOMAIN body[f]
               PROVE  LET s == Select(body[f][b].insts, Splittable)
                      IN \A i \in DOMAIN s :
                           \/ s[i].kind = "cleanuppad"
                           \/ Len(s) = 1 /\ s[1] = body[f][b].insts[1]
    BY DEF InstructionsAlone
  <2> DEFINE s == body[f][b].insts
  <2>1. prPhase = "extract" /\ perInstruction /\ prFn = N + 1
    BY DEF Promoting, BodyInv, Ctl, PrCtl
  <2>2. f \in Reached \ OptNone /\ Pending(f) = {}
    BY <2>1, FunctionsAssumption DEF Reached, Funcs, Pending
  <2>3. AloneIn(s, {})
    BY <2>1, <2>2 DEF AloneInv
  <2>4. s \in Seq(Inst) /\ PadsFirst(s)
    BY BlockAlone DEF BodyInv, BodiesInv
  <2> HIDE DEF s
  <2>5. LET t == Select(s, Splittable)
        IN \A i \in DOMAIN t :
             \/ t[i].kind = "cleanuppad"
             \/ Len(t) = 1 /\ t[1] = s[1]
    BY <2>3, <2>4, AloneSelected
  <2> QED
    BY <2>5 DEF s
<1>2. Init => AloneInv
  BY DEF Init, PrInit, AloneInv
<1>3. Spec => [](BodyInv /\ AloneInv)
  BY <1>2, BodyInvInit, BodyInvStep, AloneInvStep, PTL DEF Spec
<1> QED
  BY <1>1, <1>3, PTL

-----------------------------------------------------------------------------
(* What has to stay in the entry block is moved to its front in order.     *)

Prior(s, i) == {s[k] : k \in 1..(i - 1)}

LEMMA PriorOf ==
  ASSUME NEW S, NEW s \in Seq(S), NEW i \in DOMAIN s
  PROVE  ToSet(SubSeq(s, 1, i - 1)) = Prior(s, i)
<1> DEFINE a == SubSeq(s, 1, i - 1)
<1>1. i \in 1..(Len(s) + 1)
  OBVIOUS
<1>2. a \in Seq(S) /\ Len(a) = i - 1 /\ \A k \in 1..(i - 1) : a[k] = s[k]
  BY <1>1, CutBefore
<1> HIDE DEF a
<1>3. DOMAIN a = 1..(i - 1)
  BY <1>1, <1>2
<1>4. ToSet(a) = Prior(s, i)
  BY <1>2, <1>3 DEF ToSet, Prior
<1> QED
  BY <1>4 DEF a

LEMMA PreparedBefore ==
  ASSUME NEW s \in Seq(Inst), NEW i \in DOMAIN s, s[i].kind \in KeptInEntry
  PROVE  LET t == PrepareToSplitEntryBlock(s)
         IN \E p \in DOMAIN t :
              t[p] = s[i] /\ Prior(t, p) = Prior(s, i) \cap OfKinds(KeptInEntry)
<1> DEFINE a == SubSeq(s, 1, i - 1)
           c == SubSeq(s, i + 1, Len(s))
           x == s[i]
           one == <<x>>
           K == OfKinds(KeptInEntry)
           R == OfKinds(Kinds \ KeptInEntry)
           u == Select(a, K)
           v == Select(c, K)
           w == Select(s, R)
           z == (u \o one) \o v
           t == PrepareToSplitEntryBlock(s)
<1>1. /\ a \in Seq(Inst) /\ c \in Seq(Inst) /\ s = (a \o one) \o c
      /\ x \in Inst /\ one \in Seq(Inst)
  BY CutAt
<1>2. ToSet(a) = Prior(s, i)
  BY PriorOf
<1>3. x \in K
  BY <1>1 DEF OfKinds
<1>4. Len(one) = 1 /\ one[1] = x
  OBVIOUS
<1> HIDE DEF a, c, x, K
<1>5. Select(one, K) = one
  BY <1>1, <1>3, SelectOne
<1> HIDE DEF one
<1>6. /\ u \in Seq(Inst) /\ v \in Seq(Inst)
      /\ ToSet(u) = ToSet(a) \cap K
  BY <1>1, SelectType, SelectElements
<1>7. Select((a \o one) \o c, K) = (u \o Select(one, K)) \o v
  <2>1. a \in Seq(Inst) /\ one \in Seq(Inst) /\ c \in Seq(Inst)
    BY <1>1
  <2>2. Select(Joined(a, one, c), K)
          = Joined(Select(a, K), Select(one, K), Select(c, K))
    BY <2>1, MiddleInsts
  <2> QED
    BY <2>2 DEF Joined
<1>8. w \in Seq(Inst)
  BY SelectType
<1>9. t = z \o w
  BY <1>1, <1>5, <1>7 DEF PrepareToSplitEntryBlock, K
<1> HIDE DEF u, v, w, t
<1>10. /\ z \in Seq(Inst) /\ Len(z) = Len(u) + Len(one) + Len(v)
       /\ \A k \in 1..Len(u) : z[k] = u[k]
       /\ \A k \in 1..Len(one) : z[Len(u) + k] = one[k]
  <2>1. u \in Seq(Inst) /\ one \in Seq(Inst) /\ v \in Seq(Inst)
    BY <1>1, <1>6
  <2> QED
    BY <2>1, ThreeAt
<1> HIDE DEF z
<1> DEFINE p == Len(u) + 1
<1>11. /\ Len(u) \in Nat /\ Len(v) \in Nat /\ Len(w) \in Nat
       /\ Len(z) = Len(u) + 1 + Len(v) /\ 1 \in 1..Len(one)
  BY <1>4, <1>6, <1>8, <1>10
<1>12. z[p] = x /\ p \in 1..Len(z) /\ p - 1 = Len(u)
  BY <1>4, <1>10, <1>11
<1>13. /\ t \in Seq(Inst) /\ Len(t) = Len(z) + Len(w)
       /\ \A k \in 1..Len(z) : t[k] = z[k]
  <2>1. z \in Seq(Inst) /\ w \in Seq(Inst)
    BY <1>8, <1>10
  <2>2. /\ z \o w \in Seq(Inst) /\ Len(z \o w) = Len(z) + Len(w)
        /\ \A k \in 1..Len(z) : (z \o w)[k] = z[k]
    BY <2>1, ConcatProperties
  <2> QED
    BY <1>9, <2>2
<1>14. p \in DOMAIN t /\ t[p] = x
  BY <1>11, <1>12, <1>13
<1>15. Prior(t, p) = ToSet(u)
  <2>1. \A k \in 1..Len(u) : t[k] = u[k]
    BY <1>10, <1>11, <1>13
  <2>2. DOMAIN u = 1..Len(u)
    BY <1>6
  <2> QED
    BY <1>12, <2>1, <2>2 DEF Prior, ToSet
<1> HIDE DEF p
<1>16. t[p] = x /\ Prior(t, p) = Prior(s, i) \cap K
  BY <1>2, <1>6, <1>14, <1>15
<1> QED
  BY <1>14, <1>16 DEF t, x, K

(* The allocas, then.                                                      *)
LEMMA PreparedAlloca ==
  ASSUME NEW s \in Seq(Inst), DistinctIds(s), NEW i \in Allocas(s)
  PROVE  LET t == PrepareToSplitEntryBlock(s)
         IN IF Escaped(s, i) THEN Behind(t, s[i]) ELSE StaysAt(t, s[i])
<1> DEFINE t == PrepareToSplitEntryBlock(s)
<1>1. i \in DOMAIN s /\ s[i].kind = "alloca" /\ s[i].kind \in KeptInEntry
  BY DEF Allocas, KeptInEntry
<1>2. PICK p \in DOMAIN t :
        t[p] = s[i] /\ Prior(t, p) = Prior(s, i) \cap OfKinds(KeptInEntry)
  BY <1>1, PreparedBefore
<1>3. DistinctIds(t) /\ t \in Seq(Inst)
  BY PrepareParts
<1> HIDE DEF t
<1>4. \A q \in 1..(p - 1) : t[q] \in Prior(t, p)
  BY DEF Prior
<1>5. CASE Escaped(s, i)
  <2>1. PICK k \in 1..(i - 1) : s[k].kind = "required"
    BY <1>5 DEF Escaped
  <2>2. s[k] \in Prior(s, i) /\ s[k] \in OfKinds(KeptInEntry)
    <3>1. k \in DOMAIN s
      BY <1>1
    <3>2. s[k] \in Inst
      BY <3>1
    <3> QED
      BY <2>1, <3>2 DEF Prior, OfKinds, KeptInEntry
  <2>3. \E q \in 1..(p - 1) : t[q].kind = "required"
    BY <1>2, <2>1, <2>2 DEF Prior
  <2>4. \A r \in DOMAIN t : t[r].id = s[i].id => r = p
    BY <1>2, <1>3 DEF DistinctIds
  <2>5. Behind(t, s[i])
    BY <2>3, <2>4 DEF Behind
  <2> QED
    BY <1>5, <2>5 DEF t
<1>6. CASE ~ Escaped(s, i)
  <2>1. \A x \in Prior(s, i) : x.kind # "required"
    BY <1>6 DEF Escaped, Prior
  <2>2. \A q \in 1..(p - 1) : t[q].kind = "alloca"
    <3>1. \A x \in OfKinds(KeptInEntry) : x.kind = "alloca" \/ x.kind = "required"
      BY DEF OfKinds, KeptInEntry
    <3> QED
      BY <1>2, <1>4, <2>1, <3>1
  <2>3. StaysAt(t, s[i])
    BY <1>2, <2>2 DEF StaysAt
  <2> QED
    BY <1>6, <2>3 DEF t
<1> QED
  BY <1>5, <1>6

-----------------------------------------------------------------------------
(* What is left of an entry block that is split at i, for its j-th         *)
(* instruction.                                                            *)

LEMMA CutAppend ==
  ASSUME NEW s \in Seq(Inst), NEW i \in DOMAIN s, NEW br
  PROVE  LET t == Append(SubSeq(s, 1, i - 1), br)
         IN /\ DOMAIN t = 1..i /\ t[i] = br /\ i \in Nat
            /\ \A k \in 1..(i - 1) : t[k] = s[k] /\ k \in DOMAIN s
<1> DEFINE u == SubSeq(s, 1, i - 1)
<1>1. i \in 1..Len(s) /\ Len(s) \in Nat
  OBVIOUS
<1>2. u \in Seq(Inst) /\ Len(u) = i - 1 /\ \A k \in 1..(i - 1) : u[k] = s[k]
  BY PrefixPads
<1> HIDE DEF u
<1>3. DOMAIN Append(u, br) = 1..i /\ Append(u, br)[i] = br
  BY <1>1, <1>2
<1>4. \A k \in 1..(i - 1) : Append(u, br)[k] = s[k]
  BY <1>1, <1>2
<1> QED
  BY <1>1, <1>3, <1>4 DEF u

LEMMA StaysIn ==
  ASSUME NEW s, NEW x, StaysAt(s, x) PROVE x \in ToSet(s)
BY DEF StaysAt, ToSet

LEMMA StaysSplit ==
  ASSUME NEW s \in Seq(Inst), NEW i \in DOMAIN s, NEW j \in DOMAIN s,
         IF s[j].kind = "cleanuppad" THEN i = j + 1 ELSE i = j,
         s[j] \in Splittable, NEW br, NEW x, x.kind = "alloca", StaysAt(s, x)
  PROVE  StaysAt(Append(SubSeq(s, 1, i - 1), br), x)
<1> DEFINE t == Append(SubSeq(s, 1, i - 1), br)
<1>1. PICK p \in DOMAIN s : s[p] = x /\ \A q \in 1..(p - 1) : s[q].kind = "alloca"
  BY DEF StaysAt
<1>2. s[j].kind # "alloca"
  BY DEF Splittable, OfKinds, NotSplit
<1>3. p < i /\ p \in 1..(i - 1) /\ p \in Nat
  <2>1. p \in Nat /\ i \in Nat /\ j \in Nat /\ 1 <= p /\ 1 <= j /\ j <= i
    OBVIOUS
  <2>2. j \notin 1..(p - 1) /\ j # p
    BY <1>1, <1>2
  <2> QED
    BY <2>1, <2>2
<1>4. DOMAIN t = 1..i /\ i \in Nat /\ \A k \in 1..(i - 1) : t[k] = s[k]
  BY CutAppend
<1> HIDE DEF t
<1>5. p \in DOMAIN t /\ t[p] = x /\ \A q \in 1..(p - 1) : t[q].kind = "alloca"
  <2>1. \A q \in 1..(p - 1) : q \in 1..(i - 1)
    BY <1>3, <1>4
  <2>2. p \in DOMAIN t
    BY <1>3, <1>4
  <2> QED
    BY <1>1, <1>3, <1>4, <2>1, <2>2
<1> QED
  BY <1>5 DEF StaysAt, t

LEMMA BehindSplit ==
  ASSUME NEW s \in Seq(Inst), NEW i \in DOMAIN s, NEW br, NEW x, br.id # x.id,
         Behind(s, x)
  PROVE  Behind(Append(SubSeq(s, 1, i - 1), br), x)
<1> DEFINE t == Append(SubSeq(s, 1, i - 1), br)
<1>1. /\ DOMAIN t = 1..i /\ t[i] = br /\ i \in Nat
      /\ \A k \in 1..(i - 1) : t[k] = s[k] /\ k \in DOMAIN s
  BY CutAppend
<1> HIDE DEF t
<1>2. ASSUME NEW p \in DOMAIN t, t[p].id = x.id
      PROVE  \E q \in 1..(p - 1) : t[q].kind = "required"
  <2>1. p \in 1..(i - 1)
    BY <1>1, <1>2
  <2>2. PICK q \in 1..(p - 1) : s[q].kind = "required"
    BY <1>1, <1>2, <2>1 DEF Behind
  <2>3. q \in 1..(i - 1)
    BY <1>1, <2>1
  <2> QED
    BY <1>1, <2>2, <2>3
<1> QED
  BY <1>2 DEF Behind, t

LEMMA RequiredSplit ==
  ASSUME NEW s \in Seq(Inst), DistinctIds(s), NEW i \in DOMAIN s, NEW j \in DOMAIN s,
         IF s[j].kind = "cleanuppad" THEN i = j + 1 ELSE i = j,
         NEW P, NEW Q, RequiredIn(s, P), \A y \in P : y = s[j] \/ y \in Q,
         NEW br, br.kind = "term"
  PROVE  RequiredIn(Append(SubSeq(s, 1, i - 1), br), Q)
<1> DEFINE t == Append(SubSeq(s, 1, i - 1), br)
<1>1. /\ DOMAIN t = 1..i /\ t[i] = br /\ i \in Nat
      /\ \A k \in 1..(i - 1) : t[k] = s[k] /\ k \in DOMAIN s
  BY CutAppend
<1> HIDE DEF t
<1>2. ASSUME NEW k \in DOMAIN t, t[k].kind = "required" PROVE t[k] \in Q
  <2>1. k \in 1..(i - 1)
    BY <1>1, <1>2
  <2>2. t[k] = s[k] /\ k \in DOMAIN s /\ s[k] \in P
    BY <1>1, <1>2, <2>1 DEF RequiredIn
  <2>3. ASSUME s[k] = s[j] PROVE FALSE
    <3>1. k = j /\ s[j].kind = "required"
      BY <1>2, <2>2, <2>3 DEF DistinctIds
    <3>2. i = j
      BY <3>1
    <3> QED
      BY <2>1, <3>1, <3>2
  <2> QED
    BY <2>2, <2>3
<1> QED
  BY <1>2 DEF RequiredIn, t

-----------------------------------------------------------------------------
(* The entry block of a function, as it was and as it is.                  *)

LEMMA EntryParts ==
  ASSUME BodyInv, GivenInv, NEW f \in Funcs
  PROVE  /\ 1 \in DOMAIN body[f] /\ body[f][1].insts \in Seq(Inst)
         /\ DistinctIds(body[f][1].insts)
         /\ \A i \in DOMAIN prGiven[f][1].insts :
              prGiven[f][1].insts[i].id \in Nat /\ prGiven[f][1].insts[i].id < nextId
<1> DEFINE B == body[f]
           G == prGiven[f]
<1>1. /\ OK(B, nextId) /\ B \in Seq(Block) /\ B # <<>>
      /\ G \in Seq(Block) /\ G # <<>> /\ \A id \in Ids(InstsOf(G)) : id < nextId
  BY DEF BodyInv, BodiesInv, OK, WellFormed, GivenInv
<1> HIDE DEF B, G
<1>2. 1 \in DOMAIN B /\ 1 \in DOMAIN G
  BY <1>1, EmptySeq
<1>3. B[1].insts \in Seq(Inst) /\ DistinctIds(B[1].insts)
  BY <1>1, <1>2, BlockAlone
<1>4. ASSUME NEW i \in DOMAIN G[1].insts
      PROVE  G[1].insts[i].id \in Nat /\ G[1].insts[i].id < nextId
  <2> DEFINE x == G[1].insts[i]
  <2>1. G[1].insts \in Seq(Inst)
    BY <1>1, <1>2, BlockParts
  <2>2. x \in Inst /\ x \in ToSet(G[1].insts)
    BY <1>4, <2>1 DEF ToSet
  <2>3. x.id \in Nat
    BY <2>2, InstParts
  <2>4. x \in ToSet(InstsOf(G))
    BY <1>1, <1>2, <2>2, InstsElements
  <2>5. x.id \in Ids(InstsOf(G))
    BY <2>4, IdsOfElements
  <2> QED
    BY <1>1, <2>3, <2>5
<1> QED
  BY <1>2, <1>3, <1>4 DEF B, G

(* A split leaves the entry block alone, or cuts it.                       *)
Cuts(s, t, i, j, P, Q, br) ==
  /\ i \in DOMAIN s /\ j \in DOMAIN s /\ s[j] \in Splittable
  /\ IF s[j].kind = "cleanuppad" THEN i = j + 1 ELSE i = j
  /\ t = Append(SubSeq(s, 1, i - 1), br)
  /\ \A y \in P : y = s[j] \/ y \in Q

LEMMA SplitEntry ==
  ASSUME BodyInv, GivenInv, PrSplit, NEW n, n = prFn
  PROVE  /\ n \in Funcs \ OptNone /\ prPhase = "split" /\ prPhase' = "split"
         /\ perInstruction /\ perInstruction' /\ prFn' = n /\ prGiven' = prGiven
         /\ \A f \in Funcs \ {n} : body'[f] = body[f]
         /\ Branch.kind = "term" /\ Branch.id = nextId + 1
         /\ \/ /\ body'[n][1].insts = body[n][1].insts
               /\ \A y \in ToSet(insts) :
                    y \in ToSet(insts') \/ y \notin ToSet(body[n][1].insts)
            \/ \E i, j : Cuts(body[n][1].insts, body'[n][1].insts, i, j,
                              ToSet(insts), ToSet(insts'), Branch)
<1> DEFINE B == body[n]
           P == ToSet(insts)
           Q == ToSet(insts')
           br == Branch
<1>1. /\ n \in Funcs \ OptNone /\ prPhase = "split" /\ prPhase' = "split"
      /\ perInstruction /\ perInstruction' = perInstruction
      /\ prFn' = n /\ prGiven' = prGiven
      /\ br \in Inst /\ br.kind = "term" /\ br.id = nextId + 1
      /\ \A f \in Funcs \ {n} : body'[f] = body[f]
      /\ \E x \in P :
           /\ x \in Splittable /\ \A y \in P : y = x \/ y \in Q
           /\ \E b, i, j : SplitsAt(n, x, b, i, j)
  BY SplitDoes
<1>2. PICK x \in P :
           /\ x \in Splittable /\ \A y \in P : y = x \/ y \in Q
           /\ \E b, i, j : SplitsAt(n, x, b, i, j)
  BY <1>1
<1>3. PICK b, i, j : SplitsAt(n, x, b, i, j)
  BY <1>2
<1> DEFINE D == Splice(B, b, Halves(B[b], i, nextId, br))
<1>4. /\ b \in DOMAIN B /\ i \in DOMAIN B[b].insts /\ j \in DOMAIN B[b].insts
      /\ B[b].insts[j] = x /\ B[b].insts[i].kind \notin PhiOrPad /\ Puts(n, D)
      /\ IF x.kind = "cleanuppad" THEN i = j + 1 ELSE i = j
  BY <1>3 DEF SplitsAt
<1>5. body \in [Funcs -> Seq(Block)] /\ OK(B, nextId) /\ nextId \in Nat /\ 1 \in DOMAIN B
  BY <1>1, EntryParts DEF BodyInv, BodiesInv
<1>6. body'[n] = D
  BY <1>1, <1>4, <1>5 DEF Puts
<1>7. br.kind \notin PhiOrPad
  BY <1>1 DEF PhiOrPad, EHPads
<1> HIDE DEF B, br, P, Q
<1>8. D[1].insts = IF b = 1 THEN Append(SubSeq(B[b].insts, 1, i - 1), br) ELSE B[1].insts
  <2>1. /\ b \in DOMAIN B /\ i \in DOMAIN B[b].insts
        /\ B[b].insts[i].kind \notin PhiOrPad /\ OK(B, nextId) /\ nextId \in Nat
    BY <1>4, <1>5
  <2> QED
    BY <1>1, <1>7, <2>1, SplitBlocks
<1> HIDE DEF D
<1>9. CASE b = 1
  <2>1. Cuts(B[1].insts, D[1].insts, i, j, P, Q, br)
    BY <1>2, <1>4, <1>8, <1>9 DEF Cuts
  <2> QED
    BY <1>1, <1>6, <2>1 DEF B, P, Q, br
<1>10. CASE b # 1
  <2>1. D[1].insts = B[1].insts
    BY <1>8, <1>10
  <2>2. Ids(B[1].insts) \cap Ids(B[b].insts) = {}
    BY <1>4, <1>5, <1>10, BlockAlone
  <2>3. x.id \in Ids(B[b].insts)
    BY <1>4 DEF Ids
  <2>4. x \notin ToSet(B[1].insts)
    <3>1. x.id \notin Ids(B[1].insts)
      BY <2>2, <2>3
    <3> QED
      BY <3>1, IdsOfElements
  <2>5. \A y \in P : y \in Q \/ y \notin ToSet(B[1].insts)
    BY <1>2, <2>4
  <2> QED
    BY <1>1, <1>6, <2>1, <2>5 DEF B, P, Q, br
<1> QED
  BY <1>9, <1>10

(* A trap is put in front of what there is.                                *)
LEMMA TrapKeeps ==
  ASSUME BodyInv, NetTrap, netFn # 0, NEW f \in Funcs
  PROVE  ToSet(body[f][1].insts) \subseteq ToSet(body'[f][1].insts)
<1>1. PICK n, b : n = netFn /\ b = netBlock
  OBVIOUS
<1> DEFINE s == body[n][b].insts
           i == netInst
           x == NewInst(nextId, "trap")
           t == InsertAt(s, i, x)
<1>2. /\ n \in Funcs /\ b \in DOMAIN body[n] /\ i \in Nat /\ i # 0 /\ i <= Len(s)
      /\ body' = [body EXCEPT ![n][b].insts = t]
      /\ body \in [Funcs -> Seq(Block)] /\ nextId \in Nat
  BY <1>1 DEF BodyInv, BodiesInv, Ctl, NetCtl, NetTrap, AtInst
<1>3. s \in Seq(Inst)
  BY <1>2, BlockParts
<1>4. x \in Inst
  <2>1. "trap" \in Kinds
    BY DEF Kinds
  <2> QED
    BY <1>2, <2>1, NewInstType
<1> HIDE DEF s, x
<1>5. ToSet(t) = ToSet(s) \cup {x}
  <2>1. i \in 1..(Len(s) + 1)
    BY <1>2, <1>3
  <2> HIDE DEF i
  <2> QED
    BY <1>3, <1>4, <2>1, InsertElements
<1> HIDE DEF t
<1>6. body'[f][1].insts = body[f][1].insts \/ (body[f][1].insts = s /\ body'[f][1].insts = t)
  BY <1>2 DEF s
<1> QED
  BY <1>5, <1>6

-----------------------------------------------------------------------------
LEMMA KeptInvStep ==
  ASSUME BodyInv, GivenInv, KeptInv, EntryInv, [Next]_vars
  PROVE  KeptInv'
<1>1. ASSUME prGiven' = body' PROVE KeptInv'
  <2>1. \A s : \A i \in Allocas(s) : s[i] \in ToSet(s)
    BY DEF Allocas, ToSet
  <2> QED
    BY <1>1, <2>1 DEF KeptInv
<1>2. ASSUME prGiven' = prGiven,
             \A f \in Funcs \ OptNone : \A i \in Allocas(prGiven[f][1].insts) :
               /\ ~ Escaped(prGiven[f][1].insts, i)
               /\ prGiven[f][1].insts[i] \in ToSet(body[f][1].insts)
               => prGiven[f][1].insts[i] \in ToSet(body'[f][1].insts)
      PROVE  KeptInv'
  BY <1>2 DEF KeptInv
<1>3. ASSUME prGiven' = prGiven, body' = body PROVE KeptInv'
  BY <1>2, <1>3
<1>4. CASE UNCHANGED vars
  BY <1>3, <1>4 DEF vars, prVars
<1>5. CASE Next /\ ~ RunPromote
  <2>1. ASSUME prGiven' = prGiven, NetTrap, netFn # 0 PROVE KeptInv'
    <3>1. \A f \in Funcs : ToSet(body[f][1].insts) \subseteq ToSet(body'[f][1].insts)
      BY <2>1, TrapKeeps
    <3> QED
      BY <1>2, <2>1, <3>1
  <2> QED
    BY <1>1, <1>3, <1>4, <1>5, <2>1, ElsewhereDoes
<1>6. CASE PrStart(Current("promote-instructions"))
  BY <1>1, <1>6 DEF PrStart
<1>7. CASE QuietPromote
  BY <1>3, <1>7, QuietDoes
<1>8. CASE PrTakeInstructions
  <2>1. PICK n : n = prFn
    OBVIOUS
  <2>2. /\ n \in Funcs /\ prGiven' = prGiven
        /\ body'[n][1].insts = PrepareToSplitEntryBlock(body[n][1].insts)
        /\ \A f \in Funcs \ {n} : body'[f] = body[f]
    BY <1>8, <2>1, TakeDoes
  <2>3. ToSet(body'[n][1].insts) = ToSet(body[n][1].insts)
    BY <2>2, EntryParts, PrepareParts
  <2> QED
    BY <1>2, <2>2, <2>3
<1>9. CASE PrSplit
  <2>1. PICK n : n = prFn
    OBVIOUS
  <2> DEFINE s == body[n][1].insts
             t == body'[n][1].insts
             P == ToSet(insts)
             Q == ToSet(insts')
  <2>2. /\ n \in Funcs \ OptNone /\ prPhase = "split" /\ perInstruction
        /\ prGiven' = prGiven
        /\ \A f \in Funcs \ {n} : body'[f] = body[f]
        /\ t = s \/ \E i, j : Cuts(s, t, i, j, P, Q, Branch)
    BY <1>9, <2>1, SplitEntry
  <2>3. s \in Seq(Inst)
    BY <2>2, EntryParts
  <2>4. ASSUME NEW k \in Allocas(prGiven[n][1].insts), ~ Escaped(prGiven[n][1].insts, k),
               prGiven[n][1].insts[k] \in ToSet(s)
        PROVE  prGiven[n][1].insts[k] \in ToSet(t)
    <3> DEFINE x == prGiven[n][1].insts[k]
    <3>1. x.kind = "alloca"
      BY <2>4 DEF Allocas
    <3>2. StaysAt(s, x)
      <4>1. n \in Reached \ OptNone
        BY <2>1, <2>2 DEF Reached, Funcs
      <4> QED
        BY <2>1, <2>2, <2>4, <4>1 DEF EntryInv
    <3> HIDE DEF s, t, P, Q, x
    <3>3. CASE t = s
      BY <2>4, <3>3 DEF x
    <3>4. ASSUME NEW i, NEW j, Cuts(s, t, i, j, P, Q, Branch) PROVE x \in ToSet(t)
      BY <2>3, <3>1, <3>2, <3>4, StaysSplit, StaysIn DEF Cuts
    <3> QED
      BY <2>2, <3>3, <3>4 DEF x
  <2> QED
    BY <1>2, <2>2, <2>4
<1>10. CASE \E k \in 0..MaxBadInputs : PrExtract(k)
  <2>1. prGiven' = prGiven /\ \E g, a : ExtractsAt(g, a)
    BY <1>10, ExtractDoes
  <2>2. PICK g, a : ExtractsAt(g, a)
    BY <2>1
  <2>3. /\ g \in Funcs /\ a \in DOMAIN body[g] /\ Eligible(body[g][a])
        /\ \A h \in Funcs \ {g} : body'[h] = body[h]
        /\ \A c \in DOMAIN body[g] :
             body'[g][c] = IF c = a THEN CallOfPromoted ELSE body[g][c]
    BY <2>2, ExtractBlocks DEF ExtractsAt
  <2>4. ASSUME NEW f \in Funcs, NEW x \in ToSet(body[f][1].insts), x.kind = "alloca"
        PROVE  x \in ToSet(body'[f][1].insts)
    <3>1. CASE f = g /\ a = 1
      BY <2>3, <2>4, <3>1 DEF Eligible, ToSet
    <3>2. CASE f # g \/ a # 1
      <4>1. 1 \in DOMAIN body[f]
        BY EntryParts
      <4> QED
        BY <2>3, <3>2, <4>1
    <3> QED
      BY <3>1, <3>2
  <2>5. ASSUME NEW f \in Funcs, NEW i \in Allocas(prGiven[f][1].insts)
        PROVE  prGiven[f][1].insts[i].kind = "alloca"
    BY DEF Allocas
  <2> QED
    BY <1>2, <2>1, <2>4, <2>5
<1> QED
  BY <1>4, <1>5, <1>6, <1>7, <1>8, <1>9, <1>10, PromoteCases

(* Of one function: what is pending is in P, and all allocas that stay are *)
(* at the front if it is being split.                                      *)
EntryOf(f, s, P, splitting) ==
  /\ RequiredIn(s, P)
  /\ \A i \in Allocas(prGiven[f][1].insts) :
       IF Escaped(prGiven[f][1].insts, i) THEN Behind(s, prGiven[f][1].insts[i])
       ELSE splitting => StaysAt(s, prGiven[f][1].insts[i])

LEMMA EntrySplit ==
  ASSUME BodyInv, GivenInv, PrSplit, NEW n, n = prFn,
         EntryOf(n, body[n][1].insts, ToSet(insts), TRUE)
  PROVE  EntryOf(n, body'[n][1].insts, ToSet(insts'), TRUE)
<1> DEFINE s == body[n][1].insts
           t == body'[n][1].insts
           P == ToSet(insts)
           Q == ToSet(insts')
           entry == prGiven[n][1].insts
<1>1. /\ n \in Funcs /\ Branch.kind = "term" /\ Branch.id = nextId + 1
      /\ \/ t = s /\ \A y \in P : y \in Q \/ y \notin ToSet(s)
         \/ \E i, j : Cuts(s, t, i, j, P, Q, Branch)
  BY SplitEntry
<1>2. /\ s \in Seq(Inst) /\ DistinctIds(s) /\ nextId \in Nat
      /\ \A k \in DOMAIN entry : entry[k].id \in Nat /\ entry[k].id < nextId
  BY <1>1, EntryParts DEF BodyInv, BodiesInv
<1>3. /\ RequiredIn(s, P)
      /\ \A k \in Allocas(entry) : /\ Escaped(entry, k) => Behind(s, entry[k])
                                   /\ ~ Escaped(entry, k) => StaysAt(s, entry[k])
  BY DEF EntryOf
<1>4. \A k \in Allocas(entry) : /\ entry[k].kind = "alloca" /\ k \in DOMAIN entry
                                /\ Branch.id # entry[k].id
  <2>1. \A k \in Allocas(entry) : entry[k].kind = "alloca" /\ k \in DOMAIN entry
    BY DEF Allocas
  <2>2. \A k \in DOMAIN entry : nextId + 1 # entry[k].id
    BY <1>2
  <2> QED
    BY <1>1, <2>1, <2>2
<1> HIDE DEF s, t, P, Q, entry
<1>5. CASE t = s /\ \A y \in P : y \in Q \/ y \notin ToSet(s)
  <2>1. RequiredIn(s, Q)
    BY <1>3, <1>5 DEF RequiredIn, ToSet
  <2> QED
    BY <1>3, <1>5, <2>1 DEF EntryOf, s, t, Q, entry
<1>6. CASE \E i, j : Cuts(s, t, i, j, P, Q, Branch)
  <2>1. PICK i, j : Cuts(s, t, i, j, P, Q, Branch)
    BY <1>6
  <2>2. /\ i \in DOMAIN s /\ j \in DOMAIN s /\ s[j] \in Splittable
        /\ IF s[j].kind = "cleanuppad" THEN i = j + 1 ELSE i = j
        /\ t = Append(SubSeq(s, 1, i - 1), Branch)
        /\ \A y \in P : y = s[j] \/ y \in Q
    BY <2>1 DEF Cuts
  <2>3. RequiredIn(t, Q)
    BY <1>1, <1>2, <1>3, <2>2, RequiredSplit
  <2>4. ASSUME NEW k \in Allocas(entry), Escaped(entry, k) PROVE Behind(t, entry[k])
    BY <1>2, <1>3, <1>4, <2>2, <2>4, BehindSplit
  <2>5. ASSUME NEW k \in Allocas(entry), ~ Escaped(entry, k) PROVE StaysAt(t, entry[k])
    BY <1>2, <1>3, <1>4, <2>2, <2>5, StaysSplit
  <2> QED
    BY <2>3, <2>4, <2>5 DEF EntryOf, t, Q, entry
<1> QED
  BY <1>1, <1>5, <1>6

LEMMA EntryInvStep ==
  ASSUME BodyInv, BodyInv', GivenInv, OrderInv, EntryInv, [Next]_vars
  PROVE  EntryInv'
<1> DEFINE Splitting(f) == prPhase = "split" /\ f = prFn
           Of(f) == EntryOf(f, body[f][1].insts, Pending(f), Splitting(f))
<1>0. /\ EntryInv <=> (prPhase # "idle" /\ perInstruction =>
                         \A f \in Reached \ OptNone : Of(f))
      /\ EntryInv' <=> (prPhase' # "idle" /\ perInstruction' =>
                          \A f \in Reached' \ OptNone : Of(f)')
  BY DEF EntryInv, EntryOf
<1>1. ASSUME prPhase' = "idle" PROVE EntryInv'
  BY <1>1 DEF EntryInv
<1>2. CASE UNCHANGED vars
  BY <1>2 DEF vars, prVars, EntryInv, Reached, Pending
<1>3. CASE Next /\ ~ RunPromote
  BY <1>1, <1>2, <1>3, ElsewhereDoes
<1>4. CASE PrStart(Current("promote-instructions"))
  <2>1. prPhase' = "collect" /\ prFn' = 1
    BY <1>4 DEF PrStart
  <2>2. Reached' = 1..0
    BY <2>1 DEF Reached
  <2> QED
    BY <2>2 DEF EntryInv
<1>5. CASE QuietPromote
  <2>0. PICK n : n = prFn
    OBVIOUS
  <2>1. /\ body' = body /\ perInstruction' = perInstruction /\ insts' = insts
        /\ prGiven' = prGiven
        /\ \/ prPhase' = prPhase /\ prFn' = n /\ prPhase = "extract"
           \/ /\ prPhase' = "collect" /\ prFn' = n + 1 /\ n \in Funcs
              /\ \/ prPhase = "collect" /\ (n \in OptNone \/ ~ perInstruction)
                 \/ prPhase = "split" /\ insts = <<>>
           \/ prPhase = "collect" /\ prPhase' = "extract" /\ prFn' = n
           \/ prPhase' = "idle"
    BY <1>5, <2>0, QuietDoes
  <2>2. SUFFICES ASSUME prPhase' # "idle", perInstruction, NEW f \in Reached' \ OptNone
                 PROVE  EntryOf(f, body[f][1].insts, {}, FALSE)
    <3>1. prPhase' # "idle" => prPhase' # "split"
      BY <2>1
    <3>2. prPhase' # "idle" => \A f : Pending(f)' = {} /\ Splitting(f)' = FALSE
      BY <3>1 DEF Pending
    <3>3. ASSUME prPhase' # "idle", NEW f, EntryOf(f, body[f][1].insts, {}, FALSE)
          PROVE  Of(f)'
      BY <2>1, <3>2, <3>3 DEF EntryOf
    <3> QED
      BY <1>0, <2>1, <3>3
  <2>3. f \in Reached /\ prPhase # "idle"
    BY <2>0, <2>1, <2>2 DEF Reached, Funcs
  <2>4. Pending(f) = {}
    <3>1. ToSet(<<>>) = {}
      BY DEF ToSet
    <3> QED
      BY <2>1, <2>2, <3>1 DEF Pending
  <2>5. EntryOf(f, body[f][1].insts, {}, Splitting(f))
    BY <1>0, <2>2, <2>3, <2>4
  <2> QED
    BY <2>5 DEF EntryOf
<1>6. CASE PrTakeInstructions
  <2>1. PICK n : n = prFn
    OBVIOUS
  <2> DEFINE s == body[n][1].insts
             t == body'[n][1].insts
             D == body'[n]
  <2>2. /\ n \in Funcs \ OptNone /\ prPhase = "collect" /\ prPhase' = "split"
        /\ perInstruction /\ prFn' = n /\ prGiven' = prGiven
        /\ 1 \in DOMAIN D /\ t = PrepareToSplitEntryBlock(s)
        /\ \A f \in Funcs \ {n} : body'[f] = body[f]
        /\ insts' = Select(InstsOf(D), Splittable)
    BY <1>6, <2>1, TakeDoes
  <2>3. body[n] = prGiven[n]
    BY <2>1, <2>2 DEF OrderInv, Reached
  <2>4. s \in Seq(Inst) /\ DistinctIds(s) /\ t \in Seq(Inst)
    BY <2>2, EntryParts, PrepareParts
  <2>5. RequiredIn(t, ToSet(insts'))
    <3>1. D \in Seq(Block)
      BY <2>2 DEF BodyInv, BodiesInv
    <3>2. D[1].insts = t
      OBVIOUS
    <3> HIDE DEF D
    <3>3. InstsOf(D) \in Seq(Inst)
      BY <3>1, InstsType
    <3>4. ToSet(insts') = ToSet(InstsOf(D)) \cap Splittable
      BY <2>2, <3>3, SelectElements
    <3>5. \A j \in DOMAIN D[1].insts : D[1].insts[j] \in ToSet(InstsOf(D))
      <4>1. \A j \in DOMAIN D[1].insts : D[1].insts[j] \in ToSet(D[1].insts)
        BY DEF ToSet
      <4> QED
        BY <2>2, <3>1, <4>1, InstsElements
    <3> HIDE DEF t
    <3>6. ASSUME NEW j \in DOMAIN t, t[j].kind = "required" PROVE t[j] \in Splittable
      <4>1. "required" \in Kinds /\ "required" \notin NotSplit /\ t[j] \in Inst
        BY <2>4 DEF Kinds, NotSplit, Terminators
      <4> QED
        BY <3>6, <4>1 DEF Splittable, OfKinds
    <3> QED
      BY <3>2, <3>4, <3>5, <3>6 DEF RequiredIn
  <2>6. EntryOf(n, t, ToSet(insts'), TRUE)
    <3>1. \A i \in Allocas(s) : IF Escaped(s, i) THEN Behind(t, s[i]) ELSE StaysAt(t, s[i])
      <4> HIDE DEF s
      <4> QED
        BY <2>2, <2>4, PreparedAlloca
    <3> QED
      BY <2>3, <2>5, <3>1 DEF EntryOf
  <2>7. SUFFICES ASSUME NEW f \in Reached' \ OptNone PROVE Of(f)'
    BY <1>0
  <2>8. f \in Funcs /\ (f = n \/ f \in Reached)
    BY <2>1, <2>2, <2>7, FunctionsAssumption DEF Reached, Funcs
  <2>9. CASE f = n
    <3>1. Pending(n)' = ToSet(insts') /\ Splitting(n)' = TRUE
      BY <2>2 DEF Pending
    <3> QED
      BY <2>2, <2>6, <2>9, <3>1 DEF EntryOf
  <2>10. CASE f # n
    <3>1. /\ body'[f] = body[f] /\ Pending(f) = {} /\ Pending(f)' = {}
          /\ Splitting(f) = FALSE /\ Splitting(f)' = FALSE
      BY <2>1, <2>2, <2>8, <2>10 DEF Pending
    <3>2. EntryOf(f, body[f][1].insts, {}, FALSE)
      BY <1>0, <2>2, <2>7, <2>8, <2>10, <3>1
    <3> QED
      BY <2>2, <3>1, <3>2 DEF EntryOf
  <2> QED
    BY <2>8, <2>9, <2>10
<1>7. CASE PrSplit
  <2>1. PICK n : n = prFn
    OBVIOUS
  <2>2. /\ n \in Funcs \ OptNone /\ prPhase = "split" /\ prPhase' = "split"
        /\ perInstruction /\ prFn' = n /\ prGiven' = prGiven
        /\ \A f \in Funcs \ {n} : body'[f] = body[f]
    BY <1>7, <2>1, SplitEntry
  <2>3. n \in Reached /\ Pending(n) = ToSet(insts) /\ Splitting(n) = TRUE
        /\ Pending(n)' = ToSet(insts') /\ Splitting(n)' = TRUE
    BY <2>1, <2>2 DEF Reached, Funcs, Pending
  <2>4. EntryOf(n, body[n][1].insts, ToSet(insts), TRUE)
    BY <1>0, <2>2, <2>3
  <2>5. EntryOf(n, body'[n][1].insts, ToSet(insts'), TRUE)
    BY <1>7, <2>1, <2>4, EntrySplit
  <2>6. SUFFICES ASSUME NEW f \in Reached' \ OptNone PROVE Of(f)'
    BY <1>0
  <2>7. f \in Funcs /\ f \in Reached
    BY <2>1, <2>2, <2>6, FunctionsAssumption DEF Reached, Funcs
  <2>8. CASE f = n
    BY <2>2, <2>3, <2>5, <2>8 DEF EntryOf
  <2>9. CASE f # n
    <3>1. /\ body'[f] = body[f] /\ Pending(f) = {} /\ Pending(f)' = {}
          /\ Splitting(f) = FALSE /\ Splitting(f)' = FALSE
      BY <2>1, <2>2, <2>7, <2>9 DEF Pending
    <3>2. EntryOf(f, body[f][1].insts, {}, FALSE)
      BY <1>0, <2>2, <2>6, <2>7, <3>1
    <3> QED
      BY <2>2, <3>1, <3>2 DEF EntryOf
  <2> QED
    BY <2>8, <2>9
<1>8. CASE \E k \in 0..MaxBadInputs : PrExtract(k)
  <2>1. PICK k \in 0..MaxBadInputs : PrExtract(k)
    BY <1>8
  <2>2. /\ prPhase = "extract" /\ prPhase' = "extract"
        /\ UNCHANGED <<perInstruction, prFn, insts, prGiven>>
        /\ \E g, a : ExtractsAt(g, a)
    BY <2>1, ExtractDoes
  <2>3. PICK g, a : ExtractsAt(g, a)
    BY <2>2
  <2>4. /\ \A h \in Funcs \ {g} : body'[h] = body[h]
        /\ \A c \in DOMAIN body[g] :
             body'[g][c] = IF c = a THEN CallOfPromoted ELSE body[g][c]
    BY <2>3, ExtractBlocks
  <2>5. SUFFICES ASSUME perInstruction, NEW f \in Reached' \ OptNone
                 PROVE  EntryOf(f, body'[f][1].insts, {}, FALSE)
    <3>1. \A f : Pending(f)' = {} /\ Splitting(f)' = FALSE
      BY <2>2 DEF Pending
    <3> QED
      BY <1>0, <2>2, <3>1 DEF EntryOf
  <2>6. f \in Funcs /\ f \in Reached /\ Pending(f) = {} /\ Splitting(f) = FALSE
    <3>1. prFn = N + 1 /\ N \in Nat
      BY <2>2, FunctionsAssumption DEF BodyInv, Ctl, PrCtl
    <3> QED
      BY <2>2, <2>5, <3>1 DEF Reached, Funcs, Pending
  <2>7. EntryOf(f, body[f][1].insts, {}, FALSE)
    BY <1>0, <2>2, <2>5, <2>6
  <2>8. body'[f][1] = body[f][1] \/ body'[f][1] = CallOfPromoted
    BY <2>4, <2>6, EntryParts
  <2>9. EntryOf(f, CallOfPromoted.insts, {}, FALSE)
    <3> DEFINE c == CallOfPromoted.insts
    <3>1. /\ nextId \in Nat /\ c[1] = NewInst(nextId + 1, "op")
          /\ c[2] = NewInst(nextId + 2, "term") /\ DOMAIN c = 1..2
      BY CallOfPromotedParts DEF BodyInv, BodiesInv, Block
    <3> HIDE DEF c
    <3>2. \A j \in DOMAIN c : /\ c[j].id \in {nextId + 1, nextId + 2}
                              /\ c[j].kind # "required"
      <4>1. \A j \in DOMAIN c : j = 1 \/ j = 2
        BY <3>1
      <4> QED
        BY <3>1, <4>1 DEF NewInst
    <3>3. \A i \in Allocas(prGiven[f][1].insts) :
            prGiven[f][1].insts[i].id \notin {nextId + 1, nextId + 2}
      <4>1. \A i \in DOMAIN prGiven[f][1].insts :
              /\ prGiven[f][1].insts[i].id \in Nat
              /\ prGiven[f][1].insts[i].id < nextId
        BY <2>6, EntryParts
      <4> QED
        BY <3>1, <4>1 DEF Allocas
    <3>4. RequiredIn(c, {}) /\ \A i \in Allocas(prGiven[f][1].insts) :
                                 Behind(c, prGiven[f][1].insts[i])
      BY <3>2, <3>3 DEF RequiredIn, Behind
    <3> QED
      BY <3>4 DEF EntryOf, c
  <2> QED
    BY <2>7, <2>8, <2>9
<1> QED
  BY <1>2, <1>3, <1>4, <1>5, <1>6, <1>7, <1>8, PromoteCases

(* In any module: the allocas before the first llvm.localescape of an      *)
(* entry block are never out of it, those behind it are when extraction of *)
(* single instructions begins and stay out.                                *)
THEOREM AllocasStay == Spec => []AllocasStayInEntry
<1>1. BodyInv /\ GivenInv /\ KeptInv /\ EntryInv => AllocasStayInEntry
  <2> SUFFICES ASSUME BodyInv, GivenInv, KeptInv, EntryInv, NEW f \in Funcs \ OptNone,
                      NEW i \in DOMAIN prGiven[f][1].insts,
                      prGiven[f][1].insts[i].kind = "alloca"
               PROVE  LET entry == prGiven[f][1].insts
                          Held == \E j \in 1..(i - 1) : entry[j].kind = "required"
                      IN /\ ~ Held => InEntry(f, entry[i])
                         /\ Held /\ Promoting({"extract"}) => ~ InEntry(f, entry[i])
    BY DEF AllocasStayInEntry
  <2> DEFINE entry == prGiven[f][1].insts
             now == body[f][1].insts
  <2>1. i \in Allocas(entry)
    BY DEF Allocas
  <2>2. ASSUME ~ Escaped(entry, i) PROVE InEntry(f, entry[i])
    <3>1. entry[i] \in ToSet(now)
      BY <2>1, <2>2 DEF KeptInv
    <3> HIDE DEF entry, now
    <3>2. entry[i].id \in Ids(now)
      BY <3>1, IdsOfElements
    <3> QED
      BY <3>2 DEF InEntry, now
  <2>3. ASSUME Escaped(entry, i), Promoting({"extract"}) PROVE ~ InEntry(f, entry[i])
    <3>1. prPhase = "extract" /\ perInstruction /\ prFn = N + 1
      BY <2>3 DEF Promoting, BodyInv, Ctl, PrCtl
    <3>2. f \in Reached \ OptNone /\ Pending(f) = {}
      BY <3>1, FunctionsAssumption DEF Reached, Funcs, Pending
    <3>3. RequiredIn(now, {}) /\ Behind(now, entry[i])
      BY <2>1, <2>3, <3>1, <3>2 DEF EntryInv
    <3>4. now \in Seq(Inst)
      BY EntryParts
    <3> HIDE DEF entry, now
    <3>5. \A p \in DOMAIN now : now[p].id # entry[i].id
      <4>1. ASSUME NEW p \in DOMAIN now, NEW q \in 1..(p - 1) PROVE q \in DOMAIN now
        BY <3>4
      <4> QED
        BY <3>3, <4>1 DEF RequiredIn, Behind
    <3> QED
      BY <3>5 DEF InEntry, Ids, now
  <2> QED
    BY <2>2, <2>3 DEF Escaped
<1>2. Init => KeptInv /\ EntryInv
  <2> SUFFICES ASSUME Init PROVE KeptInv /\ EntryInv
    OBVIOUS
  <2>1. prPhase = "idle" /\ prGiven = body
    BY DEF Init, PrInit
  <2>2. \A s : \A i \in Allocas(s) : s[i] \in ToSet(s)
    BY DEF Allocas, ToSet
  <2> QED
    BY <2>1, <2>2 DEF KeptInv, EntryInv
<1>3. Init => OrderInv
  BY DEF Init, PrInit, OrderInv
<1>4. Spec => [](BodyInv /\ GivenInv /\ OrderInv /\ KeptInv /\ EntryInv)
  BY <1>2, <1>3, BodyInvInit, BodyInvStep, GivenInvInit, GivenInvStep, OrderInvStep,
     KeptInvStep, EntryInvStep, PTL DEF Spec
<1> QED
  BY <1>1, <1>4, PTL

=============================================================================
