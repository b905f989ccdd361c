----------------------------- MODULE TaskMachine -----------------------------
(***************************************************************************)
(* What memory/tasks.py promises of a task, whoever moves it and however   *)
(* many processes do: it is created once, moves freely while it lives,     *)
(* ends once and for good, and its timeline tells that one ending at most  *)
(* once.                                                                   *)
(***************************************************************************)
EXTENDS Naturals

CONSTANT Task

VARIABLES state, told

Ending == {"completed", "failed", "cancelled"}
Alive  == {"pending", "running", "blocked", "awaiting_user"}

Init ==
  /\ state = [t \in Task |-> "absent"]
  /\ told = [t \in Task |-> [e \in Ending |-> 0]]

Create(t) ==
  /\ state[t] = "absent"
  /\ state' = [state EXCEPT ![t] = "pending"]
  /\ UNCHANGED told

Move(t, s) ==
  /\ state[t] \in Alive
  /\ state' = [state EXCEPT ![t] = s]
  /\ UNCHANGED told

Tell(t) ==
  /\ state[t] \in Ending
  /\ \A e \in Ending : told[t][e] = 0
  /\ told' = [told EXCEPT ![t][state[t]] = 1]
  /\ UNCHANGED state

Next ==
  \E t \in Task :
    \/ Create(t)
    \/ \E s \in (Alive \ {"pending"}) \cup Ending : Move(t, s)
    \/ Tell(t)

Spec == Init /\ [][Next]_<<state, told>>
=============================================================================
