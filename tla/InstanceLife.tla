----------------------------- MODULE InstanceLife -----------------------------
(***************************************************************************)
(* What the controller of InstanceReconciler promises of an instance: it   *)
(* is created, images are built for it, its resources are deployed from    *)
(* built images, it is told to terminate, its resources go, and then it is *)
(* gone.  There are no caches, no workers and no phases here.              *)
(***************************************************************************)
CONSTANTS Instances, Resources, Commits, NoCommit

VARIABLES
  life,     \* absent, live or terminating
  built,    \* the commits that have an image
  deployed  \* the commit each resource was last applied for

lifeVars == <<life, built, deployed>>

Nothing == [k \in Resources |-> NoCommit]

Init ==
  /\ life = [i \in Instances |-> "absent"]
  /\ built = [i \in Instances |-> {}]
  /\ deployed = [i \in Instances |-> Nothing]

Create(i) ==
  /\ life[i] = "absent" /\ deployed[i] = Nothing
  /\ life' = [life EXCEPT ![i] = "live"]
  /\ UNCHANGED <<built, deployed>>

\* A build may end when the instance is already gone.
Build(i, c) ==
  /\ built' = [built EXCEPT ![i] = @ \cup {c}]
  /\ UNCHANGED <<life, deployed>>

\* A deployment under way goes on while the instance is being deleted.
Deploy(i, k, c) ==
  /\ life[i] # "absent" /\ c \in built[i]
  /\ deployed' = [deployed EXCEPT ![i][k] = c]
  /\ UNCHANGED <<life, built>>

Terminate(i) ==
  /\ life[i] = "live"
  /\ life' = [life EXCEPT ![i] = "terminating"]
  /\ UNCHANGED <<built, deployed>>

Undeploy(i, k) ==
  /\ life[i] = "terminating"
  /\ deployed' = [deployed EXCEPT ![i][k] = NoCommit]
  /\ UNCHANGED <<life, built>>

\* An instance for which nothing was deployed may go without notice.
Remove(i) ==
  /\ life[i] # "absent" /\ deployed[i] = Nothing
  /\ life' = [life EXCEPT ![i] = "absent"]
  /\ UNCHANGED <<built, deployed>>

Next ==
  \E i \in Instances :
    \/ Create(i) \/ Terminate(i) \/ Remove(i)
    \/ \E c \in Commits : Build(i, c)
    \/ \E k \in Resources : Undeploy(i, k) \/ \E c \in Commits : Deploy(i, k, c)

Spec == Init /\ [][Next]_lifeVars
=============================================================================
