------------------------- MODULE MCMainMessageLoop --------------------------
(* MainMessageLoop for TLC.                                                *)
EXTENDS MainMessageLoop
=============================================================================
