--------------------------- MODULE MCGithubAppClients ---------------------------
(***************************************************************************)
(* GithubAppClients on small instances.                                    *)
(***************************************************************************)
EXTENDS GithubAppClients

CONSTANTS i1, i2, alice, bob

\* Alice and an organization
MCAccountOf == [i \in Installations |-> CASE i = i1 -> alice
                                          [] i = i2 -> NoUser]
=============================================================================
