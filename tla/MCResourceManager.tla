------------------------ MODULE MCResourceManager ------------------------
(* ResourceManager for TLC.                                                *)
EXTENDS ResourceManager, TLC

CONSTANTS e1, e2, e3, a, b, r1, r2

\* Two providers of one order with different identifiers, and an archive after
\* them.
Orders == (e1 :> 1) @@ (e2 :> 1) @@ (e3 :> 2)
Identifiers == (e1 :> a) @@ (e2 :> b) @@ (e3 :> a)
=============================================================================
