--------------------------- MODULE MCRootWindows ----------------------------
(* RootWindows for TLC.                                                    *)
EXTENDS RootWindows
=============================================================================
