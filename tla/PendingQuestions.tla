-------------------------- MODULE PendingQuestions --------------------------
(***************************************************************************)
(* The rows of `pending_questions` (memory/pending_questions.py): the only *)
(* place where the process that asks and the one that takes the answer     *)
(* meet.  A row knows two instants: `expires_at`, after which the Telegram *)
(* path no longer matches it, and the later deadline of the waiter, which  *)
(* counts the same number of seconds from the start of its wait.           *)
(***************************************************************************)
CONSTANT Question               \* the ids of the questions a run may ask

VARIABLES
  question,                     \* pending_questions.status
  clock                         \* "open", then "past" expires_at, then "deadline"

QuestionStatus == {"absent", "pending", "answered", "timeout"}

QuestionsTypeOK ==
  /\ question \in [Question -> QuestionStatus]
  /\ clock \in [Question -> {"open", "past", "deadline"}]

QuestionsInit ==
  /\ question = [q \in Question |-> "absent"]
  /\ clock = [q \in Question |-> "open"]

InsertQuestion(q) == question' = [question EXCEPT ![q] = "pending"]

(* The rows get_open_for_user selects among.  It takes the one that expires *)
(* first; the timeouts are the plan's to choose, so that is any of them.    *)
OpenForUser == {q \in Question : question[q] = "pending" /\ clock[q] = "open"}

(* Faulty variant of Resolve: the guard on `pending` is missing. *)
ResolveAnyRow(q, s) == question' = [question EXCEPT ![q] = s]

(* UPDATE ... SET status = s WHERE id = q AND status = 'pending'. *)
Resolve(q, s) ==
  question' = IF question[q] = "pending" THEN [question EXCEPT ![q] = s] ELSE question

MarkAnswered(q) == Resolve(q, "answered")
MarkTimeout(q)  == Resolve(q, "timeout")
=============================================================================
