------------------------------- MODULE MCPanel -------------------------------
(* A small instance of Panel for TLC. *)
EXTENDS Panel, TLC

CONSTANT u1

Report(traffic, nodes) ==
  [kind |-> "report", status |-> "online", up |-> 0, down |-> 0,
   traffic |-> traffic, nodes |-> nodes]

\* A report that uses up the user's traffic, and one that lists two nodes.
MCBodies == {Report(<<[user |-> u1, genuine |-> TRUE, bytes |-> 1]>>, 0), Report(<<>>, 2)}

\* A run ends with the last answer: what the handlers do after it they also do
\* while no reader is there.
Asking == \E r \in Gets : get[r].pc # "done"

\* Nor is it followed where it shows nothing new: past the removal of the user or
\* the disabling of the agent, which end the readers' and the reports' part; past
\* a failure that no reader can see; and where an accident meets a report of
\* usage, whose statements a reader sees one by one or not at all.
Focus ==
  /\ Asking
  /\ (\A a \in Agents : agents[a].enabled) /\ (\A u \in Users : users[u].live)
  /\ \A s \in failed : s[2] \in {"clear", "insert", "nodes", "links"}
  /\ failed # {} \/ crashes > 0 => \A d \in Deliveries : Body(d).traffic = <<>>

\* Nothing tells one delivery from the other.
DeliverySymmetry == Permutations(Deliveries)
==============================================================================
