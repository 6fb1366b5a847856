------------------------------ MODULE MCAccess ------------------------------
(* A small instance of Access for TLC. *)
EXTENDS Access

CONSTANTS p1, p2, g1, g2, s1, s2

\* Two plans that lead to a group each; the second group serves both.
MCPlanGroups == {<<p1, g1>>, <<p1, g2>>, <<p2, g2>>}

\* An agent may report a negative number of bytes.
MCAmounts == {1, -1}

\* A run ends with the last answer: what is written after it is also written
\* while no reader is there.  And it begins with a node for every source, since
\* no handler writes those and a source without one adds nothing to an answer.
Focus ==
  /\ \E r \in Requests : req[r].pc # "done"
  /\ \A s \in Sources \ Later : \E n \in Nodes : <<s, n>> \in cached
=============================================================================
