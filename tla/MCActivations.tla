--------------------------- MODULE MCActivations ---------------------------
(* Activations of a function that takes three shapes, beside one that      *)
(* calls it back, an optnone one and a definition of puts.                 *)
EXTENDS Activations

Imm(c) == <<"imm", c>>
Op(id, args) == Inst(id, "op", args, <<>>, {})
Call(id, fns) == Inst(id, "call", <<>>, <<>>, fns)
Br(id, args, blocks) == Inst(id, "br", args, blocks, {})
Ret(id, args) == Inst(id, "ret", args, <<>>, {})
Phi(id, args, blocks) == Inst(id, "phi", args, blocks, {})

R(x) == Reg(<<x>>)

(* A local, a register used across blocks, a PHI node, two returns.        *)
Straight == <<
  <<Alloca(<<"L">>), Op(<<"x">>, <<Imm(1), Imm(2)>>), Store(<<"s">>, R("x"), <<"L">>),
    Call(<<"c">>, {"g"}), Load(<<"y">>, <<"L">>),
    Br(<<"t1">>, <<R("x")>>, <<2, 3>>)>>,
  <<Op(<<"u">>, <<R("y")>>), Br(<<"t2">>, <<Imm(3)>>, <<3, 4>>)>>,
  <<Phi(<<"p">>, <<Imm(4), R("u")>>, <<1, 2>>), Ret(<<"r3">>, <<R("p")>>)>>,
  <<Inst(<<"e">>, "exempt", <<Imm(5), R("x")>>, <<>>, {}), Ret(<<"r4">>, <<Imm(6)>>)>>>>

(* A loop whose PHI nodes trade values, without a local.                   *)
Loop == <<
  <<Op(<<"x">>, <<Imm(1)>>), Br(<<"t1">>, <<>>, <<2>>)>>,
  <<Phi(<<"a">>, <<R("x"), R("b")>>, <<1, 2>>),
    Phi(<<"b">>, <<Imm(2), R("a")>>, <<1, 2>>),
    Phi(<<"d">>, <<Imm(3), Imm(4)>>, <<1, 2>>),
    Call(<<"c">>, {"f", "h"}), Br(<<"t2">>, <<R("c")>>, <<2, 3>>)>>,
  <<Op(<<"w">>, <<R("a"), R("b"), R("x")>>), Ret(<<"r">>, <<R("w")>>)>>>>

(* An exception is caught and thrown again; a local after an instruction.  *)
Catch == <<
  <<Op(<<"x">>, <<Imm(1)>>), Alloca(<<"L">>), Store(<<"s">>, R("x"), <<"L">>),
    Inst(<<"i">>, "invoke", <<>>, <<2, 3>>, {"g"})>>,
  <<Load(<<"y">>, <<"L">>), Ret(<<"r">>, <<R("y")>>)>>,
  <<Inst(<<"q">>, "pad", <<Imm(7)>>, <<>>, {}), Load(<<"z">>, <<"L">>),
    Br(<<"t3">>, <<R("z")>>, <<2, 4>>)>>,
  <<Inst(<<"re">>, "resume", <<R("q"), R("x")>>, <<>>, {})>>>>

CallsBack == << <<Op(<<"x">>, <<Imm(1)>>), Call(<<"c">>, {"f"}), Ret(<<"r">>, <<R("x")>>)>> >>
Plain == << <<Alloca(<<"L">>), Store(<<"s">>, Imm(1), <<"L">>), Call(<<"c">>, {"f"}),
              Load(<<"y">>, <<"L">>), Ret(<<"r">>, <<R("y")>>)>> >>
PutsBody == << <<Ret(<<"r">>, <<Imm(0)>>)>> >>

MCModules ==
  {[f |-> b, g |-> CallsBack, h |-> Plain, puts |-> PutsBody] :
     b \in {Straight, Loop, Catch}}

D == "demote-registers"
S == "stack-to-global"
T == "function-name-trace"
MCPipelines == {<<T>>, <<S>>, <<D>>, <<D, S>>, <<T, S>>, <<S, T>>, <<S, S>>}

(* What the theorem about TraceTellsStack asks of the pipelines.           *)
ASSUME MCTracedOnce == TracedOnce

(* ... and the one about DemotedCode of the modules.                       *)
ASSUME MCAllWellUsed == AllWellUsed
=============================================================================
