-------------------------------- MODULE Turns --------------------------------
(***************************************************************************)
(* One user's messages, from the channel to the reply and the conversation *)
(* it leaves (channels/telegram.py, slack.py, web.py; agents/router.py,    *)
(* triage.py, quick.py, planner.py, plan_pre_evaluator.py;                 *)
(* memory/conversational.py; sleep_cycle.py, _gc_orphan_threads).  A web   *)
(* message is handled on the stream its client holds open; a message of a  *)
(* push channel (Telegram, Slack) is handled by a job that a worker runs   *)
(* again when it was stopped, and the platform may deliver it again.       *)
(* Every append is a transaction of its own.                               *)
(***************************************************************************)
EXTENDS Naturals, SequencesExt, FiniteSetsExt

CONSTANTS
  Turn,                         \* handlings of a message, in the order of arrival: 1..n
  Thread,                       \* threads in the order of their creation: 1..n
  MaxTrouble                    \* bound: redeliveries, restarts, failed sends, writes

ASSUME TurnsAssumption ==
  Turn \subseteq Nat \ {0} /\ Thread \subseteq Nat \ {0} /\ MaxTrouble \in Nat

NoThread == 0

VARIABLES
  workers,                      \* WOLFPAW_WORKERS_ENABLED
  turn,                         \* the handlings
  thread,                       \* threads: "absent", "live", "deleted"
  rows,                         \* messages ever written, in the order of created_at
  known,                        \* history: rows there were when a collection began
  lost,                         \* one of those was deleted
  old,                          \* threads past the orphan age
  doomed,                       \* threads the collector's statement found empty
  task,                         \* a background task was enqueued by the turn
  fresh,                        \* the thread /reset made
  trouble

turnVars == <<workers, turn, thread, rows, known, lost, old, doomed, task, fresh, trouble>>

Final == {"replied", "apologised", "silent", "abandoned", "lost"}
Stage == Final \cup {"idle", "queued", "creating", "triage", "opening", "thinking",
                     "answering", "planning", "vetting", "redrafting", "routing",
                     "running", "closing", "closed", "sending", "failed"}
Draft == [no : 0..2, isTask : BOOLEAN, needsUser : BOOLEAN]
NoDraft == [no |-> 0, isTask |-> FALSE, needsUser |-> FALSE]
Live(t) == t \in Thread /\ thread[t] = "live"

(* messages.thread_id is ON DELETE CASCADE: a message is there while its    *)
(* thread is.                                                               *)
Messages == {i \in DOMAIN rows : Live(rows[i].thread)}
InFlight(h) == turn[h].stage \notin Final \cup {"idle"}

TurnsTypeOK ==
  /\ workers \in BOOLEAN
  /\ turn \in [Turn -> [stage : Stage, msg : Turn \cup {0}, web : BOOLEAN,
                        thread : Thread \cup {NoThread}, draft : Draft,
                        rejected : {0, 1}, ran : 0..2]]
  /\ thread \in [Thread -> {"absent", "live", "deleted"}]
  /\ rows \in Seq([role : {"user", "assistant"}, turn : Turn, thread : Thread])
  /\ known \in 0..Len(rows) /\ lost \in BOOLEAN /\ old \subseteq Thread /\ doomed \subseteq Thread
  /\ task \in [Turn -> BOOLEAN]
  /\ fresh \in Thread \cup {NoThread} /\ trouble \in 0..MaxTrouble

TurnsInit ==
  /\ workers \in BOOLEAN
  /\ turn = [h \in Turn |-> [stage |-> "idle", msg |-> 0, web |-> FALSE,
                             thread |-> NoThread, draft |-> NoDraft, rejected |-> 0,
                             ran |-> 0]]
  /\ thread = [t \in Thread |-> "absent"]
  /\ rows = << >> /\ known = 0 /\ lost = FALSE
  /\ old = {} /\ doomed = {}
  /\ task = [h \in Turn |-> FALSE]
  /\ fresh = NoThread /\ trouble = 0

Trouble == trouble < MaxTrouble /\ trouble' = trouble + 1
At(h, s) == turn[h].stage = s
To(h, s) == turn' = [turn EXCEPT ![h].stage = s]
End(h, s) ==
  turn' = [turn EXCEPT ![h] = [@ EXCEPT !.stage = s, !.draft = NoDraft,
                                        !.rejected = 0, !.ran = 0]]
MessageStore == <<thread, rows, known, lost, old, doomed, fresh>>

-----------------------------------------------------------------------------
(* A message arrives: a web client posts it, a platform calls the webhook,  *)
(* which enqueues a job.                                                    *)
Arrives(h, m, web) ==
  /\ At(h, "idle") /\ \A g \in Turn : g < h => ~At(g, "idle")
  /\ turn' = [turn EXCEPT ![h] = [@ EXCEPT !.stage = "queued", !.msg = m, !.web = web]]
  /\ UNCHANGED <<workers, MessageStore, task>>

(* POST /chat: the stream stays open. *)
Post(h) == Arrives(h, h, TRUE) /\ UNCHANGED trouble

(* A direct message of a linked user is queued. *)
MessageEvent(h) == Arrives(h, h, FALSE) /\ UNCHANGED trouble

(* So is the text after a slash command that names no command.              *)
SlashText(h) == Arrives(h, h, FALSE) /\ UNCHANGED trouble

(* And a message of Telegram.                                               *)
Update(h) == Arrives(h, h, FALSE) /\ UNCHANGED trouble

(* The webhooks answer at once, whatever came of it. *)
Push(h) == MessageEvent(h) \/ SlashText(h) \/ Update(h)

(* The platform got no 200 in time and delivers the update again: nothing   *)
(* compares its id with the ones seen.                                      *)
Redeliver(h, g) ==
  turn[g].msg # 0 /\ ~turn[g].web /\ Arrives(h, turn[g].msg, FALSE) /\ Trouble

(* Faulty variant of LatestThread: the thread that was written to last. *)
LatestByActivity ==
  LET live == {t \in Thread : Live(t)} IN
  IF Messages # {} THEN rows[Max(Messages)].thread
  ELSE IF live = {} THEN NoThread ELSE Min(live)

(* get_most_recent_thread: the newest of any channel. *)
LatestThread ==
  LET live == {t \in Thread : Live(t)} IN
  IF live = {} THEN NoThread ELSE Max(live)

(* The handler starts (again) and chooses the thread to extend. *)
ChooseThread(h) ==
  /\ At(h, "queued")
  /\ turn' = [turn EXCEPT ![h].stage = IF LatestThread = NoThread THEN "creating" ELSE "triage",
                          ![h].thread = LatestThread]
  /\ UNCHANGED <<workers, MessageStore, task, trouble>>

(* A web client sends the id of the thread it shows: one that has meanwhile *)
(* been collected is replaced by a new one.                                 *)
ContinueThread(h) ==
  /\ At(h, "queued") /\ turn[h].web
  /\ \E t \in Thread :
       /\ thread[t] # "absent"
       /\ turn' = IF Live(t) THEN [turn EXCEPT ![h].stage = "triage", ![h].thread = t]
                  ELSE [turn EXCEPT ![h].stage = "creating"]
  /\ UNCHANGED <<workers, MessageStore, task, trouble>>

NewThread == CHOOSE t \in Thread : thread[t] = "absent" /\ \A u \in Thread :
                                     thread[u] = "absent" => t <= u

(* get_or_create_thread. *)
CreateThread(h) ==
  /\ At(h, "creating")
  /\ \E t \in Thread : thread[t] = "absent"
  /\ thread' = [thread EXCEPT ![NewThread] = "live"]
  /\ turn' = [turn EXCEPT ![h].stage = "triage", ![h].thread = NewThread]
  /\ UNCHANGED <<workers, rows, known, lost, old, doomed, fresh, task, trouble>>

(* Triage routes the message; a model call that raises fails the turn. *)
Triage(h) ==
  /\ At(h, "triage")
  /\ \/ \E s \in {"opening", "planning"} : To(h, s) /\ UNCHANGED trouble
     \/ To(h, "failed") /\ Trouble
  /\ UNCHANGED <<workers, MessageStore, task>>

-----------------------------------------------------------------------------
(* An append to a thread that is gone breaks the foreign key. *)
Append1(h, role) ==
  rows' = Append(rows, [role |-> role, turn |-> h, thread |-> turn[h].thread])

(* QuickAgent.handle: the window is read and the request appended. *)
QuickOpen(h) ==
  /\ At(h, "opening")
  /\ IF Live(turn[h].thread)
       THEN Append1(h, "user") /\ To(h, "thinking")
       ELSE UNCHANGED rows /\ To(h, "failed")
  /\ UNCHANGED <<workers, thread, known, lost, old, doomed, fresh, task, trouble>>

(* The tool loop: an answer, a notice that the output or the step limit was *)
(* reached, or a model call that raises.                                    *)
QuickLoop(h) ==
  /\ At(h, "thinking")
  /\ \/ To(h, "answering") /\ UNCHANGED trouble
     \/ To(h, "failed") /\ Trouble
  /\ UNCHANGED <<workers, MessageStore, task>>

(* The reply is appended; a failure here fails the turn. *)
QuickClose(h) ==
  /\ At(h, "answering")
  /\ IF Live(turn[h].thread)
       THEN /\ Append1(h, "assistant")
            /\ To(h, "sending")
       ELSE UNCHANGED rows /\ To(h, "failed")
  /\ UNCHANGED <<workers, thread, known, lost, old, doomed, fresh, task, trouble>>

-----------------------------------------------------------------------------
(* PlannerAgent.plan: a draft, stored as a plan row on a best-effort basis.  *)
(* A step that asks the user makes the plan a task.                         *)
CallPlanner(h, next) ==
  \/ /\ \E d \in Draft :
          /\ d.no = turn[h].draft.no + 1 /\ (d.needsUser => d.isTask)
          /\ turn' = [turn EXCEPT ![h].draft = d, ![h].stage = next]
     /\ UNCHANGED trouble
  \/ To(h, "failed") /\ Trouble

DraftPlan(h) ==
  /\ At(h, "planning") /\ CallPlanner(h, "vetting")
  /\ UNCHANGED <<workers, MessageStore, task>>

(* Faulty variant of Vet: the rejected draft is shipped. *)
VetShips(h) ==
  /\ At(h, "vetting")
  /\ \E approved \in BOOLEAN :
       turn' = [turn EXCEPT ![h].stage = "routing",
                            ![h].rejected = IF approved THEN 0 ELSE 1]
  /\ UNCHANGED <<workers, MessageStore, task, trouble>>

(* The pre-evaluator, or the check of the steps' inputs, rejects the first  *)
(* draft, or it passes; a call that fails approves.                         *)
Vet(h) ==
  /\ At(h, "vetting")
  /\ \E approved \in BOOLEAN :
       turn' = [turn EXCEPT ![h].stage = IF approved THEN "routing" ELSE "redrafting",
                            ![h].rejected = IF approved THEN 0 ELSE 1]
  /\ UNCHANGED <<workers, MessageStore, task, trouble>>

(* plan_with_pre_evaluation: the planner is told why; its second draft is   *)
(* not vetted.                                                              *)
Redraft(h) ==
  /\ At(h, "redrafting") /\ CallPlanner(h, "routing")
  /\ UNCHANGED <<workers, MessageStore, task>>

(* _run_plan_as_task keeps a plan that asks on the open stream. *)
Inline(h) ==
  \/ ~turn[h].draft.isTask \/ ~workers
  \/ turn[h].draft.needsUser /\ turn[h].web

(* The plan runs here, or its task is created and enqueued: the acknowledgement *)
(* is then the reply.                                                       *)
RoutePlan(h) ==
  /\ At(h, "routing")
  /\ IF Inline(h)
       THEN To(h, "running") /\ UNCHANGED task
       ELSE /\ task' = [task EXCEPT ![h] = TRUE]
            /\ To(h, "closing")
  /\ UNCHANGED <<workers, MessageStore, trouble>>

(* Executor and post-evaluator; an exception fails the turn. *)
RunPlan(h) ==
  /\ At(h, "running")
  /\ \/ /\ turn' = [turn EXCEPT ![h].stage = "closing", ![h].ran = turn[h].draft.no]
        /\ UNCHANGED trouble
     \/ To(h, "failed") /\ Trouble
  /\ UNCHANGED <<workers, MessageStore, task>>

(* Faulty variant of PlanClose: each append is tried for itself. *)
PlanCloseSeparately(h) ==
  /\ turn[h].stage \in {"closing", "closed"}
  /\ \/ /\ Live(turn[h].thread)
        /\ Append1(h, IF At(h, "closing") THEN "user" ELSE "assistant")
        /\ turn' = [turn EXCEPT ![h].stage = IF @ = "closing" THEN "closed" ELSE "sending"]
        /\ UNCHANGED trouble
     \/ /\ IF Live(turn[h].thread) THEN Trouble ELSE UNCHANGED trouble
        /\ turn' = [turn EXCEPT ![h].stage = IF @ = "closing" THEN "closed" ELSE "sending"]
        /\ UNCHANGED rows
  /\ UNCHANGED <<workers, thread, known, lost, old, doomed, fresh, task>>

(* Request and reply are appended once the plan is over; if either append   *)
(* fails the rest is skipped and the reply is sent all the same.            *)
PlanClose(h) ==
  /\ turn[h].stage \in {"closing", "closed"}
  /\ \/ /\ Live(turn[h].thread)
        /\ Append1(h, IF At(h, "closing") THEN "user" ELSE "assistant")
        /\ turn' = [turn EXCEPT ![h].stage = IF @ = "closing" THEN "closed" ELSE "sending"]
        /\ UNCHANGED trouble
     \/ /\ IF Live(turn[h].thread) THEN Trouble ELSE UNCHANGED trouble
        /\ To(h, "sending") /\ UNCHANGED rows
  /\ UNCHANGED <<workers, thread, known, lost, old, doomed, fresh, task>>

-----------------------------------------------------------------------------
(* The reply goes out; a push that fails is followed by an apology. *)
Send(h) ==
  /\ At(h, "sending")
  /\ \/ End(h, "replied") /\ UNCHANGED trouble
     \/ ~turn[h].web /\ To(h, "failed") /\ Trouble
  /\ UNCHANGED <<workers, MessageStore, task>>

(* The error is an event of the stream. *)
ErrorEvent(h) ==
  /\ At(h, "failed") /\ turn[h].web /\ End(h, "apologised")
  /\ UNCHANGED <<workers, MessageStore, task, trouble>>

(* A push channel is sent an apology, which may fail too. *)
Apologise(h) ==
  /\ At(h, "failed") /\ ~turn[h].web
  /\ \/ End(h, "apologised") /\ UNCHANGED trouble
     \/ End(h, "silent") /\ Trouble
  /\ UNCHANGED <<workers, MessageStore, task>>

(* The web client goes away: its stream cancels the handler. *)
Leave(h) ==
  /\ turn[h].web /\ InFlight(h)
  /\ End(h, "abandoned")
  /\ UNCHANGED <<workers, MessageStore, task, trouble>>

(* The process that handles a push message stops: its worker runs the job   *)
(* again from the start; without workers nobody does.                       *)
Stop(h) ==
  /\ ~turn[h].web /\ InFlight(h) /\ ~At(h, "queued") /\ Trouble
  /\ turn' = [turn EXCEPT ![h] =
                [@ EXCEPT !.stage = IF workers THEN "queued" ELSE "lost",
                          !.thread = NoThread, !.draft = NoDraft, !.rejected = 0, !.ran = 0]]
  /\ UNCHANGED <<workers, MessageStore, task>>

(* /reset makes a new thread. *)
Reset ==
  /\ fresh = NoThread /\ \E t \in Thread : thread[t] = "absent"
  /\ thread' = [thread EXCEPT ![NewThread] = "live"]
  /\ fresh' = NewThread
  /\ UNCHANGED <<workers, turn, rows, known, lost, old, doomed, task, trouble>>

-----------------------------------------------------------------------------
(* Weeks pass; no handling takes that long. *)
Age ==
  /\ \A h \in Turn : ~InFlight(h)
  /\ old' = {t \in Thread : thread[t] # "absent"} /\ old' # old
  /\ UNCHANGED <<workers, turn, thread, rows, known, lost, doomed, fresh, task, trouble>>

EmptyThreads == {t \in old : Live(t) /\ \A i \in Messages : rows[i].thread # t}

(* _gc_orphan_threads: what its statement's snapshot finds empty... *)
Collect ==
  /\ doomed = {}
  /\ doomed' = EmptyThreads /\ doomed' # {}
  /\ known' = Len(rows)
  /\ UNCHANGED <<workers, turn, thread, rows, lost, old, fresh, task, trouble>>

(* ... is deleted, with what was appended since. *)
CollectDone ==
  /\ doomed # {}
  /\ thread' = [t \in Thread |-> IF t \in doomed THEN "deleted" ELSE thread[t]]
  /\ lost' = (lost \/ \E i \in 1..known : rows[i].thread \in doomed)
  /\ known' = 0 /\ doomed' = {}
  /\ UNCHANGED <<workers, turn, rows, old, fresh, task, trouble>>

Handle(h) ==
  \/ ChooseThread(h) \/ ContinueThread(h) \/ CreateThread(h) \/ Triage(h)
  \/ QuickOpen(h) \/ QuickLoop(h) \/ QuickClose(h)
  \/ DraftPlan(h) \/ Vet(h) \/ Redraft(h)
  \/ RoutePlan(h) \/ RunPlan(h) \/ PlanClose(h)
  \/ Send(h) \/ ErrorEvent(h) \/ Apologise(h)

TurnsNext ==
  \/ \E h \in Turn : \/ Post(h) \/ Push(h)
                     \/ \E g \in Turn : Redeliver(h, g)
                     \/ Handle(h) \/ Leave(h) \/ Stop(h)
  \/ Reset \/ Age \/ Collect \/ CollectDone

TurnsSpec == TurnsInit /\ [][TurnsNext]_turnVars

-----------------------------------------------------------------------------
(* Every reply in the conversation follows its own request in the same      *)
(* thread: what the agents read back never shows an answer out of nowhere   *)
(* (router.py, _handle_plan appends both in one try; quick.py).             *)
ReplyFollowsRequest ==
  \A i \in Messages :
     rows[i].role = "assistant"
     => \E j \in Messages : j < i /\ rows[j] = [rows[i] EXCEPT !.role = "user"]

(* Where nothing failed, a reply that was sent is in the conversation with  *)
(* its request, unless the thread was collected under it.                   *)
ReplyRemembered ==
  \A h \in Turn :
     At(h, "replied") /\ trouble = 0 /\ thread[turn[h].thread] # "deleted"
     => \A role \in {"user", "assistant"} :
          Cardinality({i \in Messages : rows[i].turn = h /\ rows[i].role = role}) = 1

(* A collection deletes no message that was there when it began, however it *)
(* interleaves with the handlers (sleep_cycle.py, _gc_orphan_threads).      *)
MemorySurvivesCollection == ~lost

(* The conversation is sound. *)
ConversationOK ==
  TurnsTypeOK /\ ReplyFollowsRequest /\ ReplyRemembered /\ MemorySurvivesCollection

(* A push message handled after /reset does not extend an older thread,     *)
(* whichever was written to last (conversational.py,                        *)
(* get_most_recent_thread orders by creation), though web clients that      *)
(* still show the older one go on with it.                                  *)
ResetStartsAfresh ==
  [][\A h \in Turn : At(h, "queued") /\ At(h, "triage")' /\ ~turn[h].web /\ Live(fresh)
                       => turn'[h].thread >= fresh]_turnVars

(* A draft the pre-evaluator rejected is not the one that runs              *)
(* (planner.py, plan), and a plan known to ask the user is not taken off    *)
(* the stream its question must be asked on (router.py, _handle_plan).      *)
PlanAsVetted ==
  \A h \in Turn :
     /\ turn[h].ran > 0 => turn[h].ran # turn[h].rejected
     /\ task[h] /\ turn[h].web /\ InFlight(h) => ~turn[h].draft.needsUser
=============================================================================
