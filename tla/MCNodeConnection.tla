-------------------------- MODULE MCNodeConnection --------------------------
(* A node with one session; the plane's calls are for that session.        *)
EXTENDS NodeConnection

CONSTANT TheSession

OneSession == {TheSession}
ForTheSession == [i \in Prompts \cup Recoveries |-> TheSession]
=============================================================================
