------------------------------- MODULE Absence -------------------------------
(* What the modules about authoring put where the code has null, undefined   *)
(* or no file.                                                               *)
CONSTANT None
=============================================================================
