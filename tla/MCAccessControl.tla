---------------------------- MODULE MCAccessControl ----------------------------
(***************************************************************************)
(* AccessControl on a small instance: two environments of Alice's, each    *)
(* with one instance, and Bob, who is let in or not.                       *)
(***************************************************************************)
EXTENDS AccessControl

CONSTANTS alice, bob

MCEnvOf == [i \in Instances |-> IF i = "pr1" THEN "env1" ELSE "env2"]

\* A new list may name a user twice.
MCPostedLists == {<<>>, <<bob, bob>>}
=============================================================================
