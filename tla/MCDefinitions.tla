--------------------------- MODULE MCDefinitions ---------------------------
(***************************************************************************)
(* Two schools and roles that join to one name, one whose name is as long  *)
(* as names get, and bodies that are refused for each reason.              *)
(***************************************************************************)
EXTENDS Definitions, TLC

MCLength == ("a" :> 1) @@ ("b" :> 1) @@ ("c" :> 1) @@ ("l" :> 31) @@ ("x" :> 32)
MCParts == {"net", "net2", "internet", "bad"}
MCBad == {"bad"}
MCImages == {"repo", "repo:1", "repo:2"}
MCUntagged == {"repo"}
Clean == [parts |-> <<"net">>, tidy |-> TRUE]
Messy == [parts |-> <<"net", "net2">>, tidy |-> FALSE]
Broken == [parts |-> <<"net", "bad">>, tidy |-> FALSE]
Asked(s, r) ==
  [school |-> s, role |-> r, subnets |-> Messy, group |-> None, image |-> "repo:1"]

One == Asked(<<"a">>, <<"b", "c">>)
Two == Asked(<<"a", "b">>, <<"c">>)
Longest == Asked(<<"l">>, <<"l">>)

MCNames == {Name(One), Name(Longest)}
MCCreates ==
  {One, Longest, Asked(<<"x">>, <<"c">>), [One EXCEPT !.image = "repo"],
   [One EXCEPT !.subnets = [parts |-> <<>>, tidy |-> FALSE]]}
MCPatches ==
  {[subnets |-> Clean], [subnets |-> Messy], [subnets |-> Broken],
   [group |-> None], [group |-> [parts |-> <<"internet">>, tidy |-> FALSE]],
   [school |-> <<"a", "b">>, role |-> <<"c">>, image |-> "repo:2"], [image |-> "repo"]}
\* A backup of one instance, in an older form, and one that is not valid any more.
MCBackups ==
  {[n \in MCNames |-> IF n = Name(One) THEN One ELSE None],
   [n \in MCNames |-> IF n = Name(Longest) THEN [Longest EXCEPT !.image = "repo"] ELSE None]}

MCTwoSchools == {One, Two}
MCNoBackups == {}
=============================================================================
