------------------------- MODULE MCCefClientConfig --------------------------
(* CefClientConfig for TLC.                                                *)
EXTENDS CefClientConfig, TLC

CONSTANTS p1, p2, k1, k2
=============================================================================
