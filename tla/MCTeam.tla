------------------------------- MODULE MCTeam -------------------------------
(***************************************************************************)
(* Team for TLC: a label of two stages, an empty request, a stage without  *)
(* agents, and limits of nothing, one and two members at a time.           *)
(***************************************************************************)
EXTENDS Team

MCLabels == {"a", "b"}
MCPlans == {<<>>, <<<<>>>>, <<<<"a", "b">>, <<"a">>>>}
=============================================================================
