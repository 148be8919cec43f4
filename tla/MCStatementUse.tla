---------------------------- MODULE MCStatementUse ----------------------------
(* StatementUse for TLC: statements with every kind of parameter, and calls  *)
(* whose values fit, are too few, too many, misnamed or of no usable type.   *)
EXTENDS StatementUse

A(sigil) == <<sigil, "a">>
B(sigil) == <<sigil, "b">>

MCSqls == {<<>>, <<NULL>>, <<NULL, NULL>>, <<A(":")>>, <<A(":"), NULL>>, <<NULL, B("@"), A(":")>>,
           <<A(":"), A("@")>>}

MCNameds ==
  {NULL, A(":") :> "x", A("") :> "y", A(":") :> "x" @@ A("") :> "bool",
   A("") :> "x" @@ B("") :> "y", A(":") :> "array" @@ B("@") :> "x" @@ B("") :> "y"}

MCPositionals == {<<>>, <<"x">>, <<"undefined">>, <<"bigint">>, <<"bool">>, <<"y", "array">>}

\* A statement that two callers share, with three calls of it.
Pair == <<NULL, A("$")>>
MCShared == {Pair}
SharedUses == {<<Pair, A("") :> "x", <<"y">>>>, <<Pair, A("$") :> "y", <<"x">>>>, <<Pair, NULL, <<>>>>}

MCUses == (MCSqls \X MCNameds \X MCPositionals) \cup SharedUses
=============================================================================
