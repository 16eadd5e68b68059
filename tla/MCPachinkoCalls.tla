-------------------------- MODULE MCPachinkoCalls --------------------------
(* PachinkoCalls on modules of five functions: two with any body of up to  *)
(* two calls, one that may be optnone and calls the first and itself, a    *)
(* declaration and an intrinsic.                                           *)
EXTENDS PachinkoCalls

Bodies == UNION {[1..n -> Funcs \cup {Unknown}] : n \in 0..2}

MCModules ==
  {[kind |-> <<"plain", "plain", k, "declaration", "intrinsic">>,
    body |-> <<a, b, <<1, 3>>, <<>>, <<>>>>] :
     k \in {"plain", "optnone"}, a \in Bodies, b \in Bodies}
=============================================================================
