---------------------------- MODULE DurableWork ----------------------------
(***************************************************************************)
(* What a durable queue of this platform promises, whichever component     *)
(* keeps it: work accepted is never forgotten, counts as done only once    *)
(* its effect has happened, and is otherwise kept for a person to look at. *)
(***************************************************************************)
CONSTANT Item

VARIABLES
  state,    \* "absent", "owed", "done", "dead"
  effect    \* whether what the item asks for has happened

States == {"absent", "owed", "done", "dead"}

Init ==
  /\ state = [i \in Item |-> "absent"]
  /\ effect = [i \in Item |-> FALSE]

Accept(i) ==
  /\ state[i] = "absent"
  /\ state' = [state EXCEPT ![i] = "owed"]
  /\ UNCHANGED effect

\* One piece of work may be what several items ask for.
Perform(I) ==
  /\ I \subseteq Item
  /\ \E i \in I : state[i] \in {"owed", "dead", "done"}
  /\ effect' = [i \in Item |-> effect[i] \/ i \in I]
  /\ UNCHANGED state

\* A worker given up on may still finish.
Finish(i) ==
  /\ state[i] \in {"owed", "dead"} /\ effect[i]
  /\ state' = [state EXCEPT ![i] = "done"]
  /\ UNCHANGED effect

GiveUp(i) ==
  /\ state[i] = "owed"
  /\ state' = [state EXCEPT ![i] = "dead"]
  /\ UNCHANGED effect

Next ==
  \/ \E i \in Item : Accept(i) \/ Finish(i) \/ GiveUp(i)
  \/ \E I \in SUBSET Item : Perform(I)

Spec == Init /\ [][Next]_<<state, effect>>
=============================================================================
