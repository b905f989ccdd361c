----------------------------- MODULE TaskStore -----------------------------
(***************************************************************************)
(* The rows of `tasks` and `task_events` and the statements the DAO        *)
(* (memory/tasks.py, memory/task_events.py) runs against them.  Each       *)
(* operator is one autocommitted SQL statement: `async with acquire()`     *)
(* opens no transaction, so every statement is a step of its own and the   *)
(* modules that use them interleave.                                       *)
(***************************************************************************)
EXTENDS Naturals

CONSTANT Task                   \* the ids of the tasks of one user

VARIABLES
  status,                       \* tasks.status, "absent" before the INSERT
  events,                       \* how many task_events rows of each type
  spent                         \* tasks.spent_cents

Terminal == {"completed", "failed", "cancelled"}
Status   == {"pending", "running", "blocked", "awaiting_user"} \cup Terminal

(* The event types of the lifecycle; "pending" stands for status.pending. *)
EventType == {"pending", "running", "user_question", "user_answer",
              "user_question_timeout"} \cup Terminal

StoreTypeOK ==
  /\ status \in [Task -> Status \cup {"absent"}]
  /\ events \in [Task -> [EventType -> Nat]]
  /\ spent \in [Task -> Nat]

StoreInit ==
  /\ status = [t \in Task |-> "absent"]
  /\ events = [t \in Task |-> [e \in EventType |-> 0]]
  /\ spent = [t \in Task |-> 0]

(* A row every guarded UPDATE still matches. *)
Live(t) == status[t] \notin Terminal \cup {"absent"}

InsertTask(t) == status' = [status EXCEPT ![t] = "pending"]

(* Faulty variant of MoveIfLive: the terminal guard is missing. *)
MoveAnyRow(t, s) == status' = [status EXCEPT ![t] = s]

(* UPDATE tasks SET status = s WHERE id = t AND status NOT IN terminal: a   *)
(* no-op, reported as None, on a row that has ended.                        *)
MoveIfLive(t, s) == status' = IF Live(t) THEN [status EXCEPT ![t] = s] ELSE status

MarkStarted(t)      == MoveIfLive(t, "running")
MarkAwaitingUser(t) == MoveIfLive(t, "awaiting_user")
MarkBlocked(t)      == MoveIfLive(t, "blocked")
MarkCompleted(t)    == MoveIfLive(t, "completed")
MarkFailed(t)       == MoveIfLive(t, "failed")
MarkCancelled(t)    == MoveIfLive(t, "cancelled")

AppendEvent(t, e) == events' = [events EXCEPT ![t][e] = @ + 1]

(* The UPDATE that ends rollup_spent_cents; it has no status guard. *)
WriteSpent(t, total) == spent' = [spent EXCEPT ![t] = total]
=============================================================================
