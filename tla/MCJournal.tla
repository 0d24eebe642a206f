----------------------------- MODULE MCJournal -----------------------------
(***************************************************************************)
(* Instance of Journal for TLC; the .cfg gives the constants their values: *)
(* three pages, one reader that is not a trade engine's, and a writer that *)
(* may be killed at any point.                                             *)
(***************************************************************************)
EXTENDS Journal
=============================================================================
