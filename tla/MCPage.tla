------------------------------- MODULE MCPage -------------------------------
(***************************************************************************)
(* Model of Page for TLC; MCPage.cfg gives the constants their values.     *)
(***************************************************************************)
EXTENDS Page
=============================================================================
