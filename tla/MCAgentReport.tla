---------------------------- MODULE MCAgentReport ----------------------------
(* Small instances of AgentReport for TLC. *)
EXTENDS AgentReport, TLC

CONSTANT u1

Use(u, ok, n) == [user |-> u, genuine |-> ok, bytes |-> n]
Report(status, up, down, traffic, nodes) ==
  [kind |-> "report", status |-> status, up |-> up, down |-> down,
   traffic |-> traffic, nodes |-> nodes]
Register == [Report("", 0, 0, <<>>, 0) EXCEPT !.kind = "register"]

\* Two entries, one of them with a uuid that is not the user's, one node to write
\* after the entries; and one entry of a negative number of bytes.
MCUsage == {Report("online", 3, -1, <<Use(u1, TRUE, 1), Use(u1, FALSE, 2)>>, 1),
            Report("online", 0, 0, <<Use(u1, TRUE, -2)>>, 0)}

\* Reports that change the number of nodes, and the register call.
MCNodes == {Report("online", 0, 0, <<>>, 2), Report("online", 0, 0, <<>>, 1), Register}

\* No value of the instance tells one agent, or one delivery, from another.
Symmetry == Permutations(Agents) \union Permutations(Deliveries)
==============================================================================
