---------------------------- MODULE TaskLifecycle ----------------------------
(***************************************************************************)
(* The life of a task: the request that creates it, the run that drives it *)
(* (tasks/service.py), the `ask_user` steps that pause it                  *)
(* (toolbox/tools/ask_user.py), the messages that answer them              *)
(* (channels/telegram.py, channels/web.py), the user who cancels it        *)
(* (tasks/commands.py, tasks/routes.py) and the process that dies under it.*)
(* All of them meet only at the rows of TaskStore and PendingQuestions, one *)
(* autocommitted statement at a time.                                      *)
(***************************************************************************)
EXTENDS TaskStore, PendingQuestions, FiniteSets

CONSTANTS
  Message,                      \* replies the user sends, each handled once
  NoTask, NoQuestion,           \* owner of an unasked question, target of an idle message
  MaxAttempts,                  \* how often the queue hands out one job
  MaxFaults                     \* bound: writes that fail or are lost

ASSUME AttemptsAssumption == MaxAttempts \in Nat \ {0}
ASSUME FaultsAssumption == MaxFaults \in Nat
ASSUME NullsAssumption == NoTask \notin Task /\ NoQuestion \notin Question

VARIABLES
  kind,                         \* how the task was submitted
  run,                          \* where its only run stands
  want,                         \* the terminal status the run is about to write
  attempts,                     \* how often the run was started
  accrued,                      \* token_usage and compute_usage rows of the task
  delivered,                    \* completion messages pushed to the user
  cancel,                       \* where the user's cancel request stands
  cancelSum,                    \* what that request read from the usage rows
  asker,                        \* where the ask_user call of a question stands
  owner,                        \* the task that asked it
  reply,                        \* where a message of the user stands
  target,                       \* the question it answers
  faults                        \* writes lost so far

runVars    == <<kind, run, want, attempts, accrued, delivered>>
cancelVars == <<cancel, cancelSum>>
askVars    == <<asker, owner>>
replyVars  == <<reply, target>>
storeVars  == <<status, events, spent>>
rowVars    == <<question, clock>>
others     == <<cancelVars, askVars, replyVars, rowVars>>
vars == <<runVars, cancelVars, askVars, replyVars, storeVars, rowVars, faults>>

(* "inline": Router runs it in the web request; "queued": a planned task on  *)
(* a worker; "scheduled": an agentic task on a worker.                       *)
Kind == {"inline", "queued", "scheduled"}

Stage == {"idle", "inserted", "enqueue", "queued", "begin", "began", "plan",
          "execute", "finish", "finished", "rollup", "deliver", "ack",
          "done", "dead"}
Running == {"begin", "began", "plan", "execute", "finish", "finished",
            "rollup", "deliver", "ack"}

AskStage == {"idle", "asked", "parked", "waiting", "expired", "unasked",
             "blocked", "answered", "resumed", "returned", "raised", "lost"}
Asking == AskStage \ {"idle", "returned", "raised", "lost"}

CancelStage == {"idle", "cancelled", "sum", "write", "done"}
ReplyStage  == {"idle", "matched", "acked", "already", "fresh"}

TypeOK ==
  /\ StoreTypeOK
  /\ QuestionsTypeOK
  /\ kind \in [Task -> Kind]
  /\ run \in [Task -> Stage]
  /\ want \in [Task -> {"completed", "failed"}]
  /\ attempts \in [Task -> Nat]
  /\ accrued \in [Task -> Nat]
  /\ delivered \in [Task -> Nat]
  /\ cancel \in [Task -> CancelStage]
  /\ cancelSum \in [Task -> Nat]
  /\ asker \in [Question -> AskStage]
  /\ owner \in [Question -> Task \cup {NoTask}]
  /\ reply \in [Message -> ReplyStage]
  /\ target \in [Message -> Question \cup {NoQuestion}]
  /\ faults \in Nat

Init ==
  /\ StoreInit
  /\ QuestionsInit
  /\ kind \in [Task -> Kind]
  /\ run = [t \in Task |-> "idle"]
  /\ want = [t \in Task |-> "failed"]
  /\ attempts = [t \in Task |-> 0]
  /\ accrued = [t \in Task |-> 0]
  /\ delivered = [t \in Task |-> 0]
  /\ cancel = [t \in Task |-> "idle"]
  /\ cancelSum = [t \in Task |-> 0]
  /\ asker = [q \in Question |-> "idle"]
  /\ owner = [q \in Question |-> NoTask]
  /\ reply = [m \in Message |-> "idle"]
  /\ target = [m \in Message |-> NoQuestion]
  /\ faults = 0

(* A write fails, or its connection drops; bounded by MaxFaults. *)
Fault == faults < MaxFaults /\ faults' = faults + 1

Goto(t, s) == run' = [run EXCEPT ![t] = s]

-----------------------------------------------------------------------------
(* Creation and the queue. *)

(* Faulty variant of CreateRow: the job is enqueued before its event exists. *)
CreateRowThenEnqueue(t) ==
  /\ run[t] = "idle"
  /\ InsertTask(t)
  /\ Goto(t, IF kind[t] = "inline" THEN "inserted" ELSE "enqueue")
  /\ UNCHANGED <<kind, want, attempts, accrued, delivered, events, spent,
                 faults, others>>

(* TaskService.create, first statement. *)
CreateRow(t) ==
  /\ run[t] = "idle"
  /\ InsertTask(t)
  /\ Goto(t, "inserted")
  /\ UNCHANGED <<kind, want, attempts, accrued, delivered, events, spent,
                 faults, others>>

(* TaskService.create, second statement: the event that carries the run's   *)
(* inputs.  An inline task runs on; the others go to the queue.             *)
CreateEvent(t) ==
  /\ run[t] = "inserted"
  /\ AppendEvent(t, "pending")
  /\ IF kind[t] = "inline"
       THEN Goto(t, "begin") /\ attempts' = [attempts EXCEPT ![t] = 1]
       ELSE Goto(t, "enqueue") /\ UNCHANGED attempts
  /\ UNCHANGED <<kind, want, accrued, delivered, status, spent, faults, others>>

(* enqueue_run_task. *)
Enqueue(t) ==
  /\ run[t] = "enqueue"
  /\ Goto(t, "queued")
  /\ UNCHANGED <<kind, want, attempts, accrued, delivered, storeVars, faults,
                 others>>

(* The creating request fails between two of those steps: the row stays     *)
(* behind, pending for good.                                                *)
CreateFails(t) ==
  /\ run[t] \in {"inserted", "enqueue"}
  /\ Fault
  /\ Goto(t, "dead")
  /\ UNCHANGED <<kind, want, attempts, accrued, delivered, storeVars, others>>

(* A worker takes the job; TaskService.run reloads the inputs and raises if *)
(* the pending event is missing.                                            *)
TakeJob(t) ==
  /\ run[t] = "queued"
  /\ attempts' = [attempts EXCEPT ![t] = @ + 1]
  /\ Goto(t, IF events[t]["pending"] > 0 THEN "begin" ELSE "dead")
  /\ UNCHANGED <<kind, want, accrued, delivered, storeVars, faults, others>>

-----------------------------------------------------------------------------
(* The run. *)

(* Where _run_inner goes once its first transition is over. *)
AfterBegin(t) == IF kind[t] = "scheduled" THEN "execute" ELSE "plan"

(* _transition: the guarded UPDATE, and on a live row an event after it. On *)
(* a row that has ended the transition stops there, and so does nothing,    *)
(* but the run goes on.                                                     *)
BeginRow(t) ==
  /\ run[t] = "begin"
  /\ MarkStarted(t)
  /\ Goto(t, IF Live(t) THEN "began" ELSE AfterBegin(t))
  /\ UNCHANGED <<kind, want, attempts, accrued, delivered, events, spent,
                 faults, others>>

BeginEvent(t) ==
  /\ run[t] = "began"
  /\ AppendEvent(t, "running")
  /\ Goto(t, AfterBegin(t))
  /\ UNCHANGED <<kind, want, attempts, accrued, delivered, status, spent,
                 faults, others>>

(* plan_with_pre_evaluation and attach_plan; an exception fails the task.   *)
Plan(t) ==
  /\ run[t] = "plan"
  /\ accrued' = [accrued EXCEPT ![t] = @ + 1]
  /\ \/ Goto(t, "execute") /\ UNCHANGED want
     \/ Goto(t, "finish") /\ want' = [want EXCEPT ![t] = "failed"]
  /\ UNCHANGED <<kind, attempts, delivered, storeVars, faults, others>>

(* Faulty variant of ExecuteEnds: the gather waits for answers only. *)
ExecuteAwaitsAnswers(t, outcome) ==
  /\ run[t] = "execute"
  /\ \A q \in Question : owner[q] = t => asker[q] = "returned"
  /\ accrued' = [accrued EXCEPT ![t] = @ + 1]
  /\ want' = [want EXCEPT ![t] = outcome]
  /\ Goto(t, "finish")
  /\ UNCHANGED <<kind, attempts, delivered, storeVars, faults, others>>

(* ExecutorAgent.execute or QuickAgent.run_headless comes back, after every *)
(* ask_user call it made has: steps of a parallel group are gathered.  What *)
(* became of the asks does not decide the outcome, a replan may recover.    *)
ExecuteEnds(t, outcome) ==
  /\ run[t] = "execute"
  /\ \A q \in Question : owner[q] = t => asker[q] \notin Asking
  /\ accrued' = [accrued EXCEPT ![t] = @ + 1]
  /\ want' = [want EXCEPT ![t] = outcome]
  /\ Goto(t, "finish")
  /\ UNCHANGED <<kind, attempts, delivered, storeVars, faults, others>>

(* Faulty variant of FinishRow: _fail forgets to write the status. *)
FinishOnlySuccess(t) ==
  /\ run[t] = "finish"
  /\ IF want[t] = "completed" THEN MarkCompleted(t) ELSE UNCHANGED status
  /\ Goto(t, "rollup")
  /\ UNCHANGED <<kind, want, attempts, accrued, delivered, events, spent,
                 faults, others>>

(* Faulty variant of FinishRow: a run that finds its task over skips the    *)
(* roll-up.                                                                 *)
FinishSkipsRollup(t) ==
  /\ run[t] = "finish"
  /\ IF want[t] = "completed" THEN MarkCompleted(t) ELSE MarkFailed(t)
  /\ Goto(t, IF Live(t) THEN "finished" ELSE "ack")
  /\ UNCHANGED <<kind, want, attempts, accrued, delivered, events, spent,
                 faults, others>>

(* The terminal transition, of the success path and of _fail. *)
FinishRow(t) ==
  /\ run[t] = "finish"
  /\ IF want[t] = "completed" THEN MarkCompleted(t) ELSE MarkFailed(t)
  /\ Goto(t, IF Live(t) THEN "finished" ELSE "rollup")
  /\ UNCHANGED <<kind, want, attempts, accrued, delivered, events, spent,
                 faults, others>>

FinishEvent(t) ==
  /\ run[t] = "finished"
  /\ AppendEvent(t, want[t])
  /\ Goto(t, "rollup")
  /\ UNCHANGED <<kind, want, attempts, accrued, delivered, status, spent,
                 faults, others>>

(* _transition swallows every exception, so a lost write leaves the run     *)
(* where it would have gone anyway.                                         *)
TransitionLost(t) ==
  /\ run[t] \in {"begin", "began", "finish", "finished"}
  /\ Fault
  /\ Goto(t, IF run[t] \in {"begin", "began"} THEN AfterBegin(t) ELSE "rollup")
  /\ UNCHANGED <<kind, want, attempts, accrued, delivered, storeVars, others>>

(* rollup_spent_cents at the end of the run, which adds no usage after it:  *)
(* its reads and its write can be one step.                                 *)
Rollup(t) ==
  /\ run[t] = "rollup"
  /\ WriteSpent(t, accrued[t])
  /\ Goto(t, IF kind[t] = "queued" THEN "deliver" ELSE "ack")
  /\ UNCHANGED <<kind, want, attempts, accrued, delivered, status, events,
                 faults, others>>

RollupLost(t) ==
  /\ run[t] = "rollup"
  /\ Fault
  /\ Goto(t, IF kind[t] = "queued" THEN "deliver" ELSE "ack")
  /\ UNCHANGED <<kind, want, attempts, accrued, delivered, storeVars, others>>

(* _deliver_completion: one push, whose failure is swallowed. *)
Deliver(t) ==
  /\ run[t] = "deliver"
  /\ \/ delivered' = [delivered EXCEPT ![t] = @ + 1]
     \/ UNCHANGED delivered
  /\ Goto(t, "ack")
  /\ UNCHANGED <<kind, want, attempts, accrued, storeVars, faults, others>>

(* The job function, or the request handler, returns. *)
Return(t) ==
  /\ run[t] = "ack"
  /\ Goto(t, "done")
  /\ UNCHANGED <<kind, want, attempts, accrued, delivered, storeVars, faults,
                 others>>

(* The process dies, the worker shuts down, or the browser leaves and the   *)
(* SSE handler cancels the router: CancelledError passes every `except      *)
(* Exception` on its way, so no status is written.  A request is gone for   *)
(* good; a job may be handed out again.                                     *)
Crash(t) ==
  /\ run[t] \in Running
  /\ \/ Goto(t, "dead")
     \/ kind[t] # "inline" /\ attempts[t] < MaxAttempts /\ Goto(t, "queued")
  /\ asker' = [q \in Question |->
                 IF owner[q] = t /\ asker[q] \in Asking THEN "lost" ELSE asker[q]]
  /\ UNCHANGED <<kind, want, attempts, accrued, delivered, cancelVars, owner,
                 replyVars, storeVars, rowVars, faults>>

-----------------------------------------------------------------------------
(* The user's cancel: /cancel, or POST /tasks/{id}/cancel.  On a row that   *)
(* has ended, or that is not there, it changes nothing and says so.         *)

CancelRow(t) ==
  /\ cancel[t] = "idle"
  /\ Live(t)
  /\ MarkCancelled(t)
  /\ cancel' = [cancel EXCEPT ![t] = "cancelled"]
  /\ UNCHANGED <<runVars, cancelSum, askVars, replyVars, events, spent, rowVars,
                 faults>>

CancelEvent(t) ==
  /\ cancel[t] = "cancelled"
  /\ AppendEvent(t, "cancelled")
  /\ cancel' = [cancel EXCEPT ![t] = "sum"]
  /\ UNCHANGED <<runVars, cancelSum, askVars, replyVars, status, spent, rowVars,
                 faults>>

(* rollup_spent_cents: the sums are read, then written, while the run may   *)
(* still be spending.                                                       *)
CancelReadsUsage(t) ==
  /\ cancel[t] = "sum"
  /\ cancelSum' = [cancelSum EXCEPT ![t] = accrued[t]]
  /\ cancel' = [cancel EXCEPT ![t] = "write"]
  /\ UNCHANGED <<runVars, askVars, replyVars, storeVars, rowVars, faults>>

CancelWritesSpent(t) ==
  /\ cancel[t] = "write"
  /\ WriteSpent(t, cancelSum[t])
  /\ cancel' = [cancel EXCEPT ![t] = "done"]
  /\ UNCHANGED <<runVars, cancelSum, askVars, replyVars, status, events, rowVars,
                 faults>>

CancelLost(t) ==
  /\ cancel[t] \in {"cancelled", "sum", "write"}
  /\ Fault
  /\ cancel' = [cancel EXCEPT ![t] = "done"]
  /\ UNCHANGED <<runVars, cancelSum, askVars, replyVars, storeVars, rowVars>>

-----------------------------------------------------------------------------
(* ask_user, called by a step of the executing plan.                        *)

AskGoto(q, s) == asker' = [asker EXCEPT ![q] = s]

AskCreate(q, t) ==
  /\ run[t] = "execute" /\ kind[t] # "scheduled"
  /\ asker[q] = "idle"
  /\ InsertQuestion(q)
  /\ AskGoto(q, "asked")
  /\ owner' = [owner EXCEPT ![q] = t]
  /\ UNCHANGED <<runVars, cancelVars, replyVars, storeVars, clock, faults>>

AskParks(q) ==
  /\ asker[q] = "asked"
  /\ MarkAwaitingUser(owner[q])
  /\ AskGoto(q, "parked")
  /\ UNCHANGED <<runVars, cancelVars, owner, replyVars, events, spent, rowVars,
                 faults>>

(* The user_question event, and then the delivery, which writes no row and  *)
(* whose failure is swallowed.                                              *)
AskDelivers(q) ==
  /\ asker[q] = "parked"
  /\ AppendEvent(owner[q], "user_question")
  /\ AskGoto(q, "waiting")
  /\ UNCHANGED <<runVars, cancelVars, owner, replyVars, status, spent, rowVars,
                 faults>>

(* The question could not be recorded in full, or the wait lost its         *)
(* connection: the call raises, and whatever was written stays.             *)
AskFails(q) ==
  /\ asker[q] \in {"asked", "parked", "waiting"}
  /\ Fault
  /\ AskGoto(q, "raised")
  /\ UNCHANGED <<runVars, cancelVars, owner, replyVars, storeVars, rowVars>>

(* Faulty variant of WaitSeesAnswer: an answer counts before expiry only. *)
WaitSeesAnswerInTime(q) ==
  /\ asker[q] = "waiting"
  /\ question[q] = "answered" /\ clock[q] = "open"
  /\ AskGoto(q, "answered")
  /\ UNCHANGED <<runVars, cancelVars, owner, replyVars, storeVars, rowVars,
                 faults>>

(* wait_for_answer re-reads the row, on a NOTIFY or at the latest on its    *)
(* backstop tick, and returns it once it is resolved ...                    *)
WaitSeesAnswer(q) ==
  /\ asker[q] = "waiting"
  /\ question[q] = "answered"
  /\ AskGoto(q, "answered")
  /\ UNCHANGED <<runVars, cancelVars, owner, replyVars, storeVars, rowVars,
                 faults>>

(* ... or None, when it still read `pending` and the deadline is over.      *)
WaitTimesOut(q) ==
  /\ asker[q] = "waiting"
  /\ question[q] = "pending"
  /\ clock[q] = "deadline"
  /\ AskGoto(q, "expired")
  /\ UNCHANGED <<runVars, cancelVars, owner, replyVars, storeVars, rowVars,
                 faults>>

TimeoutRow(q) ==
  /\ asker[q] = "expired"
  /\ MarkTimeout(q)
  /\ AskGoto(q, "unasked")
  /\ UNCHANGED <<runVars, cancelVars, owner, replyVars, storeVars, clock, faults>>

TimeoutBlocks(q) ==
  /\ asker[q] = "unasked"
  /\ MarkBlocked(owner[q])
  /\ AskGoto(q, "blocked")
  /\ UNCHANGED <<runVars, cancelVars, owner, replyVars, events, spent, rowVars,
                 faults>>

TimeoutEvent(q) ==
  /\ asker[q] = "blocked"
  /\ AppendEvent(owner[q], "user_question_timeout")
  /\ AskGoto(q, "raised")
  /\ UNCHANGED <<runVars, cancelVars, owner, replyVars, status, spent, rowVars,
                 faults>>

(* The timeout branch swallows its exceptions and raises ToolError anyway.  *)
TimeoutLost(q) ==
  /\ asker[q] \in {"expired", "unasked", "blocked"}
  /\ Fault
  /\ AskGoto(q, "raised")
  /\ UNCHANGED <<runVars, cancelVars, owner, replyVars, storeVars, rowVars>>

(* Faulty variant of ResumeRow: the task is left awaiting the user. *)
ResumeKeepsStatus(q) ==
  /\ asker[q] = "answered"
  /\ AskGoto(q, "resumed")
  /\ UNCHANGED <<runVars, cancelVars, owner, replyVars, storeVars, rowVars,
                 faults>>

ResumeRow(q) ==
  /\ asker[q] = "answered"
  /\ MarkStarted(owner[q])
  /\ AskGoto(q, "resumed")
  /\ UNCHANGED <<runVars, cancelVars, owner, replyVars, events, spent, rowVars,
                 faults>>

ResumeEvent(q) ==
  /\ asker[q] = "resumed"
  /\ AppendEvent(owner[q], "user_answer")
  /\ AskGoto(q, "returned")
  /\ UNCHANGED <<runVars, cancelVars, owner, replyVars, status, spent, rowVars,
                 faults>>

(* The resume branch swallows its exceptions and returns the answer anyway. *)
ResumeLost(q) ==
  /\ asker[q] \in {"answered", "resumed"}
  /\ Fault
  /\ AskGoto(q, "returned")
  /\ UNCHANGED <<runVars, cancelVars, owner, replyVars, storeVars, rowVars>>

-----------------------------------------------------------------------------
(* Time, and the user's replies.                                            *)

Expire(q) ==
  /\ question[q] # "absent"
  /\ clock[q] = "open"
  /\ clock' = [clock EXCEPT ![q] = "past"]
  /\ UNCHANGED <<runVars, cancelVars, askVars, replyVars, storeVars, question,
                 faults>>

(* The waiter counts the same seconds, from the later start of its wait.    *)
Deadline(q) ==
  /\ asker[q] = "waiting"
  /\ clock[q] = "past"
  /\ clock' = [clock EXCEPT ![q] = "deadline"]
  /\ UNCHANGED <<runVars, cancelVars, askVars, replyVars, storeVars, question,
                 faults>>

(* An inbound Telegram message that is no slash command answers an open     *)
(* question if there is one, and starts a new turn if there is none.        *)
Receive(m) ==
  /\ reply[m] = "idle"
  /\ \/ \E q \in OpenForUser :
          /\ target' = [target EXCEPT ![m] = q]
          /\ reply' = [reply EXCEPT ![m] = "matched"]
     \/ /\ OpenForUser = {}
        /\ reply' = [reply EXCEPT ![m] = "fresh"]
        /\ UNCHANGED target
  /\ UNCHANGED <<runVars, cancelVars, askVars, storeVars, rowVars, faults>>

(* What the user is told of mark_answered's outcome for question q. *)
Told(q) == IF question[q] = "pending" THEN "acked" ELSE "already"

(* The second statement of the Telegram path, after another process may     *)
(* have resolved the question it matched.                                   *)
Answer(m) ==
  /\ reply[m] = "matched"
  /\ MarkAnswered(target[m])
  /\ reply' = [reply EXCEPT ![m] = Told(target[m])]
  /\ UNCHANGED <<runVars, cancelVars, askVars, target, storeVars, clock, faults>>

(* POST /channels/web/answer names the question, expired or not. *)
WebAnswer(m, q) ==
  /\ reply[m] = "idle"
  /\ question[q] # "absent"
  /\ MarkAnswered(q)
  /\ target' = [target EXCEPT ![m] = q]
  /\ reply' = [reply EXCEPT ![m] = Told(q)]
  /\ UNCHANGED <<runVars, cancelVars, askVars, storeVars, clock, faults>>

-----------------------------------------------------------------------------
RunStep(t) ==
  \/ CreateEvent(t) \/ Enqueue(t) \/ TakeJob(t)
  \/ BeginRow(t) \/ BeginEvent(t) \/ Plan(t)
  \/ \E outcome \in {"completed", "failed"} : ExecuteEnds(t, outcome)
  \/ FinishRow(t) \/ FinishEvent(t) \/ Rollup(t) \/ Deliver(t) \/ Return(t)

RunFault(t) == CreateFails(t) \/ TransitionLost(t) \/ RollupLost(t) \/ Crash(t)

CancelStep(t) ==
  \/ CancelRow(t) \/ CancelEvent(t) \/ CancelReadsUsage(t)
  \/ CancelWritesSpent(t) \/ CancelLost(t)

AskStep(q) ==
  \/ AskParks(q) \/ AskDelivers(q) \/ WaitSeesAnswer(q) \/ WaitTimesOut(q)
  \/ TimeoutRow(q) \/ TimeoutBlocks(q) \/ TimeoutEvent(q)
  \/ ResumeRow(q) \/ ResumeEvent(q)

AskFault(q) == AskFails(q) \/ TimeoutLost(q) \/ ResumeLost(q)

Time(q) == Expire(q) \/ Deadline(q)

UserStep(m) == Receive(m) \/ Answer(m) \/ \E q \in Question : WebAnswer(m, q)

Next ==
  \/ \E t \in Task : CreateRow(t) \/ RunStep(t) \/ RunFault(t) \/ CancelStep(t)
  \/ \E q \in Question, t \in Task : AskCreate(q, t)
  \/ \E q \in Question : AskStep(q) \/ AskFault(q) \/ Time(q)
  \/ \E m \in Message : UserStep(m)

Spec == Init /\ [][Next]_vars

(* The event loop runs every coroutine that can go on, and time passes; the *)
(* user owes nobody a message, and faults owe nobody an appearance.         *)
Fairness ==
  /\ \A t \in Task : WF_vars(RunStep(t))
  /\ \A q \in Question : WF_vars(AskStep(q)) /\ WF_vars(Time(q))

FairSpec == Spec /\ Fairness

-----------------------------------------------------------------------------
(* Properties. *)

(* Whatever runs, redeliveries, asks and cancels do to the row, the task    *)
(* ends once, never leaves that ending, and its timeline gets at most one   *)
(* terminal event, the one of the status the row has: the terminal guard of *)
(* the UPDATEs decides the race and _transition writes no event when it     *)
(* lost it.                                                                 *)
Machine == INSTANCE TaskMachine
             WITH state <- status,
                  told <- [t \in Task |-> [e \in Terminal |-> events[t][e]]]
TaskMachineSpec == Machine!Spec

(* A job that is in the queue finds the event its inputs are read from, so  *)
(* TaskService.run never raises for want of it.                             *)
QueuedCanRun == TypeOK /\ \A t \in Task : run[t] = "queued" => events[t]["pending"] > 0

(* When a run has returned, or an answer has been pushed to the user, the   *)
(* row says that the task is over, unless a write was lost.                 *)
SettledWhenReturned ==
  faults = 0 =>
    \A t \in Task : run[t] \in {"deliver", "ack", "done"} \/ delivered[t] > 0
                      => status[t] \in Terminal

AckedBy(q) == {m \in Message : reply[m] = "acked" /\ target[m] = q}

(* Of the replies that race for a question, over Telegram and over the web  *)
(* and against the timeout, exactly one is told it was taken if the row is  *)
(* answered and none otherwise; and a step goes on only with such an answer.*)
OneReplyIsTaken ==
  \A q \in Question :
    /\ Cardinality(AckedBy(q)) = IF question[q] = "answered" THEN 1 ELSE 0
    /\ asker[q] \in {"answered", "resumed", "returned"} => question[q] = "answered"

(* ask_user calls that marked the task awaiting and owe it a next status. *)
Parked(t) ==
  {q \in Question : owner[q] = t /\
     asker[q] \in {"parked", "waiting", "expired", "unasked", "answered"}}

(* A task shown as awaiting the user has a call that waits for the user and *)
(* will move it on, even with several questions of a parallel group open at *)
(* once; otherwise the process that would have done so died, or a write was *)
(* lost.                                                                    *)
AwaitingHasAsker ==
  faults = 0 =>
    \A t \in Task :
      status[t] = "awaiting_user" =>
        Parked(t) # {} \/ run[t] \in {"queued", "begin", "dead"}

(* The cost a finished task shows is all it spent, over every attempt, if   *)
(* nobody cancelled it.                                                     *)
UncancelledCostIsFinal ==
  faults = 0 =>
    \A t \in Task :
      run[t] \in {"deliver", "ack", "done"} /\ status[t] # "cancelled"
        => spent[t] = accrued[t]

(* Every run that starts comes to an end, through asks, timeouts, cancels   *)
(* and crashes: no wait is for ever.                                        *)
RunsEnd == \A t \in Task : run[t] = "inserted" ~> run[t] \in {"done", "dead"}

(* A task whose run survives is over in the end.                            *)
TasksEnd ==
  \A t \in Task : run[t] = "begin" ~> status[t] \in Terminal \/ run[t] = "dead" \/ faults > 0

(* An answer recorded while the call still waits wakes it, whether or not a *)
(* NOTIFY gets through: the step gets the answer unless its process dies.   *)
AnswerWakes ==
  \A q \in Question :
    question[q] = "answered" /\ asker[q] = "waiting" ~> asker[q] \in {"returned", "lost"}

=============================================================================
