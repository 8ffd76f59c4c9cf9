----------------------------- MODULE MCFrontEnd -----------------------------
(***************************************************************************)
(* An instance of FrontEnd for TLC.                                         *)
(***************************************************************************)
EXTENDS FrontEnd

MCStandard == <<"A", "B", "C", "D", "E", "F", "+", "/">>
MCUrlSafe  == <<"A", "B", "C", "D", "E", "F", "-", "_">>
=============================================================================
