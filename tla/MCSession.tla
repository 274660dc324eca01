------------------------------ MODULE MCSession ------------------------------
(* Files of two bytes and of one, five descriptors, two rows of history, a  *)
(* block with room for two lines, one for four words, numbers of two bits;  *)
(* the quotation marks of texts are single.                                 *)
EXTENDS Session

MCContent == [readme |-> <<"r", "e">>, notes |-> <<"n">>]
MCAbsent == {"missing"}
MCNumberOf == ("1" :> 1) @@ ("2" :> 2) @@ ("3" :> 3)
MCVars == {"a"}
MCLiterals == ("'hi'" :> <<"hi">>) @@ ("'" :> << >>)
MCAssignments ==
  ("a=a+1" :> [to |-> "a", lhs |-> "a", op |-> "+", rhs |-> "1"])
    @@ ("a=1/a" :> [to |-> "a", lhs |-> "1", op |-> "/", rhs |-> "a"])
MCLines == {<<"run">>, <<"list">>, <<"quit">>, <<"goto", "2">>, <<"print", "a">>, <<"a=1/a">>,
            << >>, <<"1", "a=a+1">>, <<"2", "goto", "1">>, <<"2", "quit">>, <<"1", "end">>,
            <<"1", "quit">>, <<"1", "run">>, <<"3", "cls">>, <<"2", "nonsense">>, <<"1">>,
            <<"print", "'hi'">>, <<"print", "'">>, <<"2", "goto", "1", "end">>,
            <<"2", "goto", "1", "end", "end">>}
=============================================================================
