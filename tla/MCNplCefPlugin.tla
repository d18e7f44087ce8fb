--------------------------- MODULE MCNplCefPlugin ---------------------------
(* NplCefPlugin for TLC.                                                   *)
EXTENDS NplCefPlugin
=============================================================================
