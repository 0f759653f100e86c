------------------------------- MODULE MCWalk -------------------------------
(***************************************************************************)
(* A tree for Walk: alternatives that are sequences and, below one of      *)
(* them, alternatives again.                                               *)
(***************************************************************************)
EXTENDS Walk, TLC

TreeWidth ==
    <<>> :> 3 @@ <<1>> :> 4
      @@ <<1, 3>> :> 3 @@ <<1, 3, 1>> :> 2 @@ <<1, 3, 2>> :> 2 @@ <<1, 3, 2, 2>> :> 2
      @@ <<2>> :> 2

Alternatives == {<<1>>, <<1, 3, 2>>, <<2>>}
=============================================================================
