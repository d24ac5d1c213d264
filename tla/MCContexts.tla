----------------------------- MODULE MCContexts -----------------------------
(* Model checking of Contexts.                                              *)
EXTENDS Contexts

MCWorkers == {1, 2}

(* A ring with room for everything two operations can submit, and one that  *)
(* holds two requests and takes one at a time.                              *)
MCStopRings == {<<4, 8>>}
MCRings == {<<4, 8>>, <<1, 2>>}
=============================================================================
