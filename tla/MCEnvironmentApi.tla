--------------------------- MODULE MCEnvironmentApi ---------------------------
(***************************************************************************)
(* EnvironmentApi on a small instance: an environment that Alice or Bob    *)
(* may own, and both be let in.                                            *)
(***************************************************************************)
EXTENDS EnvironmentApi

CONSTANTS alice, bob

MCUsers == {alice, bob}

\* A new list may name a user twice.
MCPostedLists == {<<>>, <<bob, bob>>}
=============================================================================
