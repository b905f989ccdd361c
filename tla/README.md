# A TLA+ verification of WolfPaw

WolfPaw is a personal assistant: a FastAPI process (web chat, Telegram and Slack
webhooks), arq workers that run long tasks, schedules and the nightly sleep
cycle, and one PostgreSQL database that all of them share. This directory holds
TLA+ specifications of the parts where several of these processes and coroutines
meet, the TLC configurations that check them and TLAPS proofs about the core.

Paths below are relative to the repository; `wolfpaw/` stands for `src/wolfpaw/`.

## 1. The system

### 1.1 Facts every module rests on

* **Statements autocommit.** `storage.acquire()` hands out a pooled connection and
  opens no transaction. Except for a few functions that open one themselves
  (`schedules.claim_and_advance_due`, `oauth_state.consume`,
  `telegram_tokens.consume`, the auth verification), every SQL statement is
  atomic by itself and nothing larger is. Comments that speak of "the same
  transaction" (`wolfpaw/tasks/README.md:65`) are not what the code does.
* **Coroutines switch only at an `await`.** A piece of code without one is a
  single step; a value read before an `await` may be stale after it.
* **Three things run at once:** request handlers of the API process, jobs of the
  worker processes (several per worker), and the dispatcher's cron jobs. They
  share no memory.
* **arq** (external) hands a job out again after its worker died, never runs one
  job twice at the same time, and gives up after `max_tries`.

### 1.2 Components

| Component | State | Operations | What makes it correct | Where |
|---|---|---|---|---|
| Task store | `tasks`, `task_events` | guarded status UPDATEs, event INSERTs, cost roll-up | one ending, told once | `TaskStore` |
| Task service | where a run stands; usage rows | create, enqueue, run, plan, execute, terminal transition, roll-up, delivery | the row is settled when the run returns; the cost shown is what was spent; each run ends | `TaskLifecycle` |
| `ask_user`, pending questions | `pending_questions`; the waiting coroutine | ask, park, wait (NOTIFY, backstop), time out, resume | one reply wins; an answer wakes; a parked task is moved on | `PendingQuestions`, `TaskLifecycle`, `Knowledge` |
| Answer and cancel entry points | none | Telegram message, `POST /channels/web/answer`, `/cancel`, `POST /tasks/{id}/cancel` | the user is told what happened | `TaskLifecycle` |
| Work queue | Redis (external) | enqueue, take, redeliver | a job finds what it needs | folded into `TaskLifecycle`, `ThreadCompaction` |
| Thread compaction | `thread_summaries` L1, L2, L3 | drain window, fold L1s, rewrite the digest | nothing summarized leaves the prompt; a quiet thread is drained | `ThreadCompaction` |
| Subagent slots | semaphores per root, a refcounted registry | spawn, acquire, release, cancel | the cap holds; no lost wake-up; no leak | `SubagentSlots` |
| Schedules | `schedules` | create, cancel, claim and advance, spawn, save notes | each firing is accounted for; no replay; terms kept | `ScheduleDispatch` |
| Plan executor | the step list, the batch, results so far | dispatch, gather, repair a call, ask to overwrite, replan once, judge | results match the list; nothing runs past a failure; a retried call writes once | `PlanExecutor` |
| Turns: router, triage, quick agent, planner, channels | `threads`, `messages`; where a handling stands | receive, choose or make a thread, triage, quick loop, draft, vet, redraft, run inline or queue, append, reply, `/reset` | a reply has its request before it; what was vetted runs; `/reset` starts afresh | `Turns` |
| Workspace files | `workspace_files`, bytes by filename | write_doc, artifact tools, upload | versions are a line; the latest describes the bytes; nothing is replaced without leave | `WorkspaceFiles`, `PlanExecutor` |
| Sandboxes | one sandbox per user and task, a lock, a child or a container | get, run, stage, read back, time out, close, record seconds | released in time; calls kept apart; seconds counted once | `Sandboxes` |
| Metering and traces | `token_usage`, `compute_usage`, `model_call_logs` and its partitions, `tasks.spent_cents` | call, record, trace, roll up, prune | calls, usage and traces agree; the total is their sum; recent traces stay | `Metering`; a counter in `TaskLifecycle` |
| Plans, skills and tools learned | `plans`, `skills`, `tools` | score, distill, propose, ask, approve, dispatch | outcomes are kept; no code runs without its own yes | `Knowledge` |
| Sleep cycle | plans due for a new grade, active skills, orphan threads | rescore, consolidate, collect | retiring a skill loses none; nothing live is collected | `Knowledge`, `Turns` |
| Single-use tokens and sign-in | three token tables, users, `channel_links`, `slack_workspaces` | issue, redeem, sign in, link, install | taken once, and for something | `Credentials`, `SingleUse` |
| Integration tokens | a row per user and integration; a copy in each client | connect, disconnect, refresh | a disconnect stays; the stored token works | `Credentials` |
| Monitor, usage reports, prompt versions | none of their own | queries | read only | not modelled |
| Storage, embeddings, persona, API shell | pools, files, models | I/O | pure I/O and formatting | not modelled |

### 1.3 How they interact

```
 message ──> thread ──> Router ──> TaskService.create ──> tasks, task_events ──> arq queue
                              │ (web: inline)                            │
                              └──────────────> TaskService.run <─────────┘
                                                 │ plan, execute
   schedules ──> dispatch job ──> create ...     ├── subagents ── slots per root
                                                 ├── ask_user ── pending_questions <── reply
   cancel ──> tasks, task_events, spent_cents    └── terminal status, roll-up, push
   append(message) ──> compaction job ──> thread_summaries ──> next prompt
   execute ──> sandbox ──> compute_usage ──> roll-up <── token_usage <── model calls
   scored plan ──> skill ──> sleep cycle      step ──> proposed tool ──> question ──> reply ──> dispatch
   link, install, OAuth ──> one-use token ──> account, channel link, stored tokens
```

### 1.4 What is hard here

* A cancel, a run, a redelivered attempt and several questions of a parallel group
  all write `tasks.status`, one autocommitted statement at a time.
* `_transition` and the timeout and resume branches of `ask_user` swallow their
  exceptions: after a lost write the program goes on as if it had happened.
* A question may be answered by a Telegram message, by the web or by nobody, and the
  waiter's deadline is later than the row's `expires_at`.
* Compaction reads, awaits a model call and then writes, in as many passes at once
  as the pool takes, without lock or transaction.
* A subagent keeps its slot while it waits for subagents of its own.
* A claim of due schedules commits before any task is spawned, with a clock read
  before the connection was acquired.
* A failed tool call is repaired, confirmed and run again after parts of it were
  done, next to other writers of the same file; a failed batch splices new steps
  into the list that is being walked.
* The steps of a batch, and two inline plans of one user, share a sandbox whose two
  remote providers take no lock; a cancelled call leaves a command, or a container, behind.
* A push message may be delivered twice and its job run again, next to a `/reset`
  and a collection of the very thread it chose.
* A call's usage row, its trace and the two roll-ups are statements of their own,
  and traces live in partitions a daily job must have made.
* Approvals of tools, scores of plans and retirements of skills are written by
  processes that read the rows long before.
* A question may be lost or cut on its way while its row stays open, and the user's
  next message in Telegram answers whichever open question expires first.
* A one-use token is taken in one transaction and spent in later ones; clients
  refresh one stored token set with copies that may be out of date.

`PROJECT.json` lists each hazard at its line, with the properties about it.

## 2. The modules

| Module | Models | Uses |
|---|---|---|
| `TaskStore` | the statements on `tasks` and `task_events` | |
| `PendingQuestions` | the statements on `pending_questions` and the two instants a row knows | |
| `TaskLifecycle` | create, queue, run, ask, answer, cancel, crash | `TaskStore`, `PendingQuestions` |
| `TaskMachine` | what a task promises: an abstract specification | |
| `TaskLifecycle_proofs` | theorems about `TaskLifecycle`, and that it implements `TaskMachine` | `TaskLifecycle`, TLAPS |
| `ThreadCompaction` | the three levels of `compact_thread.py` | |
| `ThreadCompaction_proofs` | theorems about it | `ThreadCompaction`, TLAPS |
| `SubagentSlots` | `_run_subagent` and `_acquire_subagent_slot` | |
| `ScheduleDispatch` | `memory/schedules.py` and the dispatch job | |
| `ScheduleDispatch_proofs` | theorems about it | `ScheduleDispatch`, TLAPS |
| `WorkspaceFiles` | the statements on `workspace_files` and the bytes in storage | |
| `PlanExecutor` | `ExecutorAgent.execute`, the writing tools, the upload | `WorkspaceFiles` |
| `PlanExecutor_proofs` | theorems about it and the files | `PlanExecutor`, TLAPS |
| `Sandboxes` | the manager, its three providers and the tools that use them | |
| `StepResources_proofs` | theorems about what steps share: slots and sandboxes | `SubagentSlots`, `Sandboxes`, TLAPS |
| `Metering` | a model call with its two rows, the roll-ups, the pruner | |
| `Turns` | router, triage, quick agent, planner and channels around the conversation | |
| `TurnRecords_proofs` | theorems about the records turns leave: rows, traces, totals | `Metering`, `Turns`, TLAPS |
| `Knowledge` | plans' outcomes, skills, tools and the questions about them, and the sleep cycle | `PendingQuestions` |
| `Knowledge_proofs` | theorems about it | `Knowledge`, TLAPS |
| `Credentials` | one-use tokens, what they are spent for, and stored OAuth tokens | `SingleUse` |
| `SingleUse` | what a one-use token promises: an abstract specification | |
| `Credentials_proofs` | theorems about `Credentials`, and that it implements `SingleUse` | `Credentials`, TLAPS |
| `MC...` | symmetry sets and constants for TLC | the module they are named after |

Definitions marked "Faulty variant of X" are no part of a specification: each is X
with a plausible bug, named by `PROJECT.json` as a mutant that must break a property.

### 2.1 TaskLifecycle

`status`, `events` and `spent` are columns and row counts. `run[t]` is the program
counter of the task's run, from `TaskService.create` (`idle`, `inserted`, `enqueue`)
over the queue (`queued`) and the stages of `_run_inner` to the return of the job
or the handler (`done`) or the death of its process (`dead`). One action is what
happens between two points where another process may step in: a guarded UPDATE is
one, the event after it another (`BeginRow`, `BeginEvent`; `FinishRow`,
`FinishEvent`). `kind[t]` tells the three ways a task is run: `inline` by the web
request, whose disconnect kills it; `queued` by a worker, with a push at the end;
`scheduled` by a worker without plan, questions or push.

`asker[q]` is the program counter of an `ask_user` call, `clock[q]` its time: past
`expires_at` the Telegram path no longer matches the row, and only past the later
`deadline` does the waiter give up. The NOTIFY is folded into the re-read of the
row, which the backstop tick makes happen anyway; a lost NOTIFY so changes nothing
but the delay. `reply[m]` and `target[m]` are the user's messages: the Telegram
path finds an open question and answers it in two statements (`Receive`,
`Answer`), the web path in one (`WebAnswer`). `cancel[t]` is the cancel handler,
`cancelSum[t]` the sums it read before it writes them.

`accrued[t]` counts usage rows; a roll-up writes that count to `spent[t]`. The
run's own roll-up is one step, for nothing is accrued after it; that of a cancel
is two. `Crash` kills a run and the asks in it at any stage; a job may be handed
out again up to `MaxAttempts` times. `MaxFaults` bounds swallowed exceptions, of
`_transition`, of the roll-up, of the branches of `ask_user` and of the cancel.

Left out: what is planned and executed; who is told which words; other users;
`parent_task_id` (in `SubagentSlots`); `mark_cancelled` of questions, which has no
caller.

### 2.2 ThreadCompaction

Message `m` is the `m`-th by `created_at`. A row of `rows` is a row of
`thread_summaries`; its `text` is the set of messages whose content went into it
through any number of folds, which is all the properties tell apart. A pass (`pc`)
is a drain of L1, then L2, then L3, and reads (`ReadWindow`, `ReadL1s`, `ReadL2s`,
`ReadDigest`) in other steps than it inserts, stamps and rewrites, with the
summarizer between them. `due` (what was there when a pass was last enqueued) and
`overlapped` (two passes were between reading and rewriting the digest at once)
are only there for the properties.

### 2.3 SubagentSlots

The registry's lock is never held across an `await`, so that the entry into
`_acquire_subagent_slot` (look up or create the semaphore, count the reference,
take the permit or queue up) is one step, and so is leaving it. The semaphore is
`asyncio.Semaphore` (external): first come first served, and a release hands the
permit to the first waiter.

### 2.4 ScheduleDispatch

Instants are small numbers, 0 is NULL. A dispatch job reads its clock (`Wake`),
claims with `FOR UPDATE SKIP LOCKED` (`LockDue`), advances the rows and commits
(`Advance`), and then creates and enqueues one task per claimed row (`CreateTask`,
`EnqueueTask`); each may fail, and the job may die, in between. A spawned run is
reduced to what it does to its schedule: it may save notes, and it ends. `notes`
is the set of firings whose notes are in the state blob; `update_schedule_state`
replaces the blob by what the run was shown and its own. `overlap` is there for
`NotesReachNextRun` only.

### 2.5 PlanExecutor and WorkspaceFiles

`rows[f]` are the rows of a filename, `bytes[f]` what storage holds under it; a
writer stands for the bytes it writes. `steps`, `at` (the code's `i`), `upTo` (`j`),
`results` and `budget` are the locals of `execute`, `phase` its program counter.
`stage[k]` is that of the coroutine of the step at place `k`, and `call[k]` its
locals: the inputs, the attempt, whether the user has confirmed it, the version it
read. A tool that writes a file reads the latest row, puts its bytes and inserts
its row in three steps (`ReadLatest`, `PutBytes`, `RegisterRow`), which is what
`write_doc` and `emit_artifact` have in common; a ToolError of either comes before
its put. `Repaired` takes any corrected inputs, `Confirmed` goes back to the plan's,
as the code does. A cancelled execution leaves a put in its thread (`late`). The
upload puts first and reads the latest version by a second request.

A step of any other kind returns or raises. A ToolError's repair, an answer to the
overwrite question and the replan are bounded as in the code. The failed step of a replan is looked
up in the original plan by id; the only replan comes while that plan is walked, so
that it is there. `spliced` and `torn` (a file whose writers overlapped, or one of
which ended between bytes and row) are there for the properties, and `leave` in a
row too. Not modelled: texts and an `emit` that raises; the sandbox and
`update_outcome` are in modules of their own.

### 2.6 Sandboxes

`table` is `SandboxManager._sandboxes`, keyed by task, or by the user alone for
every plan run inline. `backend` is the setting: "subprocess", with one child per
sandbox behind a lock (`queue`) and a pipe, or "remote" for docker and e2b, which
start an environment on first use and take no lock. `box[b]` is a sandbox:
`handle`, whether it refers to a child or an environment; `alive`, how many run on
the host; `pipe`, the commands that were sent and not yet answered, oldest first;
`elapsed`, one second per answered run. `call[c]` is a tool call: it stages its
inputs (artifact tools only), waits for the lock or the start, is sent, and is
answered or times out. `AbortPlan` cancels an execution wherever its calls wait,
which takes them out of the lock's queue (`Without`); `Leave` is the `finally` block
of `execute` after an ordinary end. `close_for_task` pops the table under its lock
(`Drop`) and closes and records outside it (`Close`, `Record`), with the seconds it
read before (`exec[e].seen`). `metered[e]` is the row of `compute_usage` that the
teardown of `e` wrote. `users`, `overlap` and `aborted` record who used a sandbox for
the properties. The names of the specification are `SandboxInit`, `SandboxNext` and
`SandboxSpec`, for its theorems share a module with those of `SubagentSlots`.

### 2.7 Metering

`call[c].stage` goes from the provider's answer over the usage row to the trace
row, or over an error to a trace with that status. A cancellation may come during
either write (`InterruptRecord`, `InterruptTrace`), whose row is then there or not:
`_write` catches `Exception` only, so the call ends (`stopped`) with what it had. `usage`, `compute` and `spent`
are the tables; `rollup[p]` is where the run's and the cancel's roll-up stand
between their two reads and their write. Days are numbers and a month is
`DaysPerMonth` of them; `Prune` provisions this month and the next and drops what
lies wholly before the retention, and may be missed on any day (`Tick`). `late`
says that it was missed for so long that a month had no partition. `Agent` is what
callers pass; `AgentKind` the enum of the column, which lacks one of them.

### 2.8 Turns

`turn[h]` is one handling of a message: a web request on its stream, or a job of a
push channel, which the platform may deliver again (`Redeliver`) and the worker
run again from the start (`Stop`). `rows` are the messages ever written, in the order
of `created_at`; those of a deleted thread are gone by `ON DELETE CASCADE`, so that
`Messages` are the rows whose thread lives. A handling chooses a thread, is triaged, and goes through the quick
agent (request appended before the model is asked, reply after) or through draft,
vetting, at most one redraft, the choice of inline or queued, the run and the two
appends (`PlanClose`). `Collect` and `CollectDone` are the snapshot and the effect
of the DELETE of orphan threads, with other transactions in between. `known`, how
many rows there were when a collection began, and `lost` are there for the
properties. The specification is `TurnsSpec`, as `Metering` has the plain names in
the proof module they share.

A draft is a number and two bits: it is a task, it asks the user. Summaries are in
`ThreadCompaction`, the queued task itself in `TaskLifecycle`.

### 2.9 Knowledge

An embedding is a place on a line; a search returns what is `Near`, two skills are
the same within `Same`. Searches are exact here, while
`migrations/001_init.sql:229` puts an approximate index (IVFFlat) under them.
`run[r]` is a plan from its storing to its distillation,
which comes before the score inline and after it in a task; a `long` one is returned
by the executor before its outcome is stored, and graded like the others.
`maker[m]` is a `tool_creator` step, from the draft over the search for a duplicate,
the proposed row and the question to the row's decision. `pass[p]` is a sleep cycle:
the plans it grades anew, then a list of active skills it reads once per round, one pair
chosen by reads of their own (`Scan`, the oldest first) and one guarded UPDATE (`MarkSuperseded`).

The question of a step is a row of `PendingQuestions`, and the step learns nothing
of the user but what that row says. `Deliver` is best-effort: a proposal that is lost, or
cut to one Telegram message, is waited for like any other. `TelegramMessage` gives the user's next message to an open question,
whichever expires first (the timeouts are not the model's, so that is any of them), and `PostAnswer`
to the one it names, be it past its `expires_at` or given up; both are the same
conditional UPDATE (`TakeReply`), which also decides what a second reply does.
`assent[m]` is whether the stored answer is one of the words for yes. A `Lapse` lets a
row expire and later the wait (`GiveUp`, `Leave`), which an answer in
between forestalls in the row and not in the step. `ran` are the steps whose code was
dispatched. `OnlyApprovedCodeRuns` says that each of them had a yes to its own
question; it says nothing of what the user saw, for the code keeps nothing of it
(3.2).

### 2.10 Credentials and SingleUse

`token[t]` is a row of `magic_link_tokens`, `channel_link_tokens` or
`integration_state_tokens`, whose `kind` says what it is for. `attempt[a]` is a request that presents a token: the
magic link is selected, marked and spent in one transaction, the others are taken
by a transaction (`Select`, `Consume`) and spent by later statements (`Exchange`,
`InstallWorkspace`, `Connect`, `StoreGrant`), any of which may be the last
(`Break`). `link[u]` is a user's row of an integration: the grant its access token
comes from, and the grant and rotation of its refresh token. A client copies the row
(`ForUser`), refreshes with the copy and writes the result by `UPDATE ... WHERE
user_id`, whatever the row is by then. `strict` says whether the provider revokes
the refresh tokens before the newest.

`takers` maps a state to that of `SingleUse`, whose one action gives a token to a
request if nobody has it; `TakenOnce` is that specification.

## 3. What TLC checks

Each property has a mutant in `PROJECT.json`: a plausible bug of the code under
which TLC finds it violated, in the same instance.

| Run | Instance | Properties | Question |
|---|---|---|---|
| `task_lifecycle` | 1 task of any kind, 2 questions, 1 message, 2 attempts, 1 fault | `QueuedCanRun`, `SettledWhenReturned`, `AwaitingHasAsker`, `UncancelledCostIsFinal`, `TaskMachineSpec` | Does any interleaving of attempts, asks, a cancel, a crash and a lost write end a task twice, unsettle it, park it for good or lose its cost? |
| `task_replies` | 1 task, 1 question, 2 messages, 2 attempts, no lost write | `OneReplyIsTaken`, `RunsEnd`, `TasksEnd`, `AnswerWakes` | Of racing replies and the timeout, does exactly one win, and does everything come to an end? |
| `compaction` | 2 passes, 3 messages, window 1, folds of 2 and 1, 1 fault | `SummariesOK`, `NothingForgotten`, `QuietMeansDrained` | Do racing, failing passes lose a message from the prompt or leave work behind? |
| `subagent_slots` | 2 roots, 4 subagents, cap 2, depth 2 | `SlotsOK`, `NoIdleSlot`, `FlatWaitersServed` | Does the cap hold through drops of the semaphore, without leak or lost wake-up? |
| `schedule_dispatch` | 2 schedules, one with terms 0 or 1, dispatchers with batches 1 and 2, 3 instants, 1 fault; 0.3M states | `FiringsOK`, `NotesReachNextRun`, `CancelIsFinal`, `DueFires` | Do late, racing or dying dispatchers fire twice, replay, overrun or revive, or does a due row starve behind a full batch? |
| `plan_executor` | 5 plans (a group of two writers of one file, a single writer, a group and a step, none, one too many), an empty continuation and one that writes, 2 files, an upload; 0.7M states | `PlanFollowed`, `OneVersionPerStep`, `VersionsOK`, `LatestDescribesBytes`, `ExecutionEnds` | Do repairs, questions, a replan, a cancel and racing writers mix up results, run on after a failure, write twice, fork the versions or end never? |
| `sandboxes` | 2 executions, 3 calls, 2 sandboxes, either provider, 1 failure; 2.0M states | `SandboxesOK`, `ToolCallsApart`, `SecondsMeteredOnce` | What do calls that share a sandbox, cancelled or timed out, do to each other, to the host and to the bill? |
| `metering` | 2 calls, 3 days of retention, months of 2 days, 6 days, 1 failed write, cancellations; 5.9M states | `CallsAccounted`, `RecentTraceKept`, `SpentIsTotal` | Do calls, usage, traces and the task's total agree whatever fails, races or is missed? |
| `turns` | 2 handlings, 3 threads, 1 trouble, with and without workers; 4.4M states | `ConversationOK`, `PlanAsVetted`, `ResetStartsAfresh` | Does a redelivery, a restart, a failed append or a collection leave replies without requests, run a rejected draft or revive a conversation? |
| `knowledge` | 2 tool makers with a question each, or 3 skills and 2 passes, or 2 skills, 2 runs and 2 passes; 3 places, 2 names, 2 scores, 2 failures; 1.0M states | `OutcomeKept`, `OnlyApprovedCodeRuns`, `SkillsConsolidate` | Do lost questions, late replies and passes that act on old lists run code without its own yes, overwrite an outcome or lose a skill? |
| `credentials` | 2 users, 1 identity, 2 tokens in 5 pairs of kinds, 3 requests, 2 clients, 2 rotations, 1 failure; 0.6M states | `SpentForSomething`, `StoredTokenWorks`, `ConnectionsStay`, `TakenOnce` | Is a token taken twice or for nothing, an identity moved, a link revived or a stored token left dead? |

The names `...OK`, `PlanFollowed`, `ToolCallsApart`, `SkillsConsolidate` and
`CallsAccounted` are conjunctions of named parts, each with a comment of its own in
the module; one of them, or the first property of the run, carries the module's
type invariant.

The bounds. Every race named above needs two parties, and has them: two attempts
of a run, two questions of a parallel group, two replies, two passes, two
dispatchers, two roots, two writers and an upload, two executions of one key, two
roll-ups, two handlings, two sleep cycles, two clients. Three requests for two
tokens leave one token with two. Two makers share a name, or not, and two questions
are what a reply can be taken for. Two tasks
share nothing in `TaskLifecycle` but the user's next message, so that one task
shows all; the theorems hold for any number. A third thread in `turns` lets one be
made by `/reset` and one by a handling next to an old one. Months of two days make
a retention of three days span a boundary in each position. One fault suffices for
the properties that speak of `faults = 0` to be told apart from those that hold
regardless. Compaction with 4 messages and folds of 2 and 2 (21.7M states), and one
schedule with two dispatchers over five instants and terms of 2 (1.3M) were run
once and hold too. Runs set `CHECK_DEADLOCK FALSE` because
the models stop once the user says no more and every bound is used up.

### 3.1 Fairness

Weak fairness is assumed of a coroutine that can go on (`RunStep`, `AskStep`,
`End`, `GiveUp`, `DispatchStep`, `Execute`, `StepOf`): the event loop resumes it, and model
calls and tools return or raise within their timeouts. It is assumed of the two
instants of a question, for time passes. The dispatch job is fair as a whole since
arq fires its cron each minute; its deaths are bounded by `MaxFaults`. Nothing is
assumed of the user, of crashes or of faults, and none of ours is strong fairness.

### 3.2 Where the code and its documentation disagree

One run expects a violation. A test says that subagents over the cap wait until a
slot frees (`tests/test_agent_executor_subagent.py:382`), and the comment on the cap
has "subagents at any depth under the same root contend for one semaphore"
(`wolfpaw/agents/executor.py:81`). With subagents of subagents the holders wait for
children that wait for them, for ever: `waiters_served` shows it.

Met while modelling, and without a run of their own:

* Tasks. A task cancelled in the queue, or finished by an earlier attempt, is
  planned and executed all the same (`wolfpaw/tasks/service.py:322`; its docstring
  at `:179` calls that safe). A cancelled task's question is not resolved, so its
  wait takes the user's next message as the answer (`wolfpaw/tasks/commands.py:96`;
  `wolfpaw/toolbox/tools/ask_user.py:189` expects the opposite, and
  `mark_cancelled` has no caller). A timed-out question is said to leave the task
  `blocked` (`wolfpaw/tasks/README.md:70`), but the failing step's terminal
  transition overwrites it. The two writes of an asking step share no transaction.
* Compaction. Two passes that find no digest insert one each
  (`wolfpaw/workers/jobs/compact_thread.py:388`, against `:337` and `:33`).
* Executor. A failure in a last group whose last member completed counts as a
  success (`wolfpaw/agents/executor.py:284`, against `:297`). After a collision with
  corrected inputs the user's yes is spent on the plan's original ones (`:663`). A
  continuation may take an execution past `_MAX_STEPS` (`:146`). Bytes are kept by
  filename only, so that older versions have rows and no bytes.
* Schedules. `until` binds neither the first slot nor the claim of an overdue one.
* Sandboxes. The locks of the docker and e2b sandboxes are never taken
  (`wolfpaw/sandbox/docker.py:69`, `e2b.py:66`): two first calls start two
  environments and one is never closed. Inline plans of a user share a key, and one
  that ends closes the sandbox of the other. Artifact steps of a group share
  `inputs.json` (`wolfpaw/toolbox/tools/_artifact.py:67`). A cancelled run leaves its
  command in the child's pipe, and the next reads its answer
  (`wolfpaw/sandbox/subprocess.py:160`). Runs that time out are not metered.
* Metering. `executor_recover` is no value of the `agent_kind` enum
  (`wolfpaw/agents/executor.py:508`, `migrations/001_init.sql:50`): the usage row of a
  repair always fails, and the answer with it. A cancel's roll-up may overwrite the
  run's with older sums (`wolfpaw/memory/tasks.py:318`), which is why `SpentIsTotal`
  and `UncancelledCostIsFinal` except it. A call that is cancelled during a write may
  leave a usage row without a trace (`wolfpaw/metering/trace_sink.py:270`), which
  `AttemptTraced` excepts.
* Turns. `_requires_task_context` looks up builtin tools only, not the user's. A
  queued plan is planned anew by its task, and the new plan may ask a user whose
  stream is gone (`wolfpaw/agents/router.py:229`). A freeform Slack message answers no
  pending question. Handlers catch `Exception` only, so that a job cancelled by a
  shutdown is run again from the start.
* Knowledge. The executor is said to write the outcome as soon as the plan finishes
  (`wolfpaw/memory/procedural.py:137`); a plan with more than `_MAX_STEPS` steps is
  returned before that (`wolfpaw/agents/executor.py:214`) and graded all the same, so
  that its row has a score and no answer, and the sleep cycle passes it over. The
  channels are said to render a proposal verbatim
  (`wolfpaw/agents/tool_creator.py:560`); the Telegram client cuts it at 4096
  characters (`wolfpaw/channels/telegram_client.py:56`). A question whose delivery
  failed is said to time out (`wolfpaw/toolbox/tools/ask_user.py:217`); its row is
  open, so the user's next message in Telegram answers it
  (`wolfpaw/channels/telegram.py:309`), and with a yes it approves a tool the user was
  not shown. So `OutcomeKept` excepts long plans, and `OnlyApprovedCodeRuns` speaks of
  the answer to a question and not of what was seen. A proposed tool whose question
  timed out is never looked at again and keeps its name
  (`wolfpaw/agents/tool_creator.py:328`). `create_tool` reports "approved" even if
  that could not be written. The sleep cycle grades the same oldest plans each time. A
  retired skill still on a pass's list may be picked as survivor; the chain then still
  ends at an active one.
* Credentials. `upsert` says a re-install overwrites the row outright
  (`wolfpaw/memory/dropbox_links.py:58`), yet a client that refreshes the earlier
  grant writes its tokens over the new ones: `StoredTokenWorks` is false of users with
  two grants. The Slack callback reports success when the identity is another user's
  (`wolfpaw/channels/slack.py:264`). A Telegram token is taken before its link is
  made, by two transactions. A refresh that is answered
  without a refresh token carries the old one forward
  (`wolfpaw/integrations/microsoft/client.py:135`), which is `KeepsToken`; a first
  exchange so answered stores an empty string (`:149`). The model's provider always
  sends one at the exchange, so `StoredTokenWorks` says nothing of that.

## 4. What is proved

Eight modules hold theorems that TLAPS checks for every value of the constants. Each
invariant below was checked by TLC on the instance of its run before it was proved.
Those of
`TaskLifecycle_proofs` rest on the assumptions of
`TaskLifecycle` (`MaxAttempts` and `MaxFaults` are naturals, the former not 0, and
the null values are none of the ids):

| Theorem | Says |
|---|---|
| `TypeInvariant` | `Spec => []TypeOK` |
| `Invariance` | `Spec => []IInv` |
| `QueuedCanRunAlways` | a job finds the event its inputs are in |
| `SettledWhenReturnedAlways` | a run that returned without lost writes left an ended row |
| `OneReplyIsTakenAlways` | of any number of racing replies exactly one is told it was taken, iff the row says answered |
| `UncancelledCostIsFinalAlways` | the final cost of an uncancelled task is all it spent |
| `AwaitingHasAskerAlways` | a parked task has a call that will move it on |
| `Refinement` | `Spec => Machine!Spec`: every step moves the abstract task or leaves it alone |

The argument. `SettledWhenReturned`, `OneReplyIsTaken` and the refinement are not
inductive as they stand, because they are silent about the window between an UPDATE
and what is written about it. `IInv` adds what is known there:

* `RowFollowsRun`: a row exists from its INSERT on, so that a guarded UPDATE that
  matches nothing tells of an ending;
* `EndedOnce`: no terminal event exists while a row lives, and whoever stands
  between the terminal UPDATE and its event is alone there, the other having lost
  at the guard. It is what lets the refinement map an event to the one telling;
* `Settled`: after the terminal transition the row has ended, unless a write was lost;
* `PendingKept`: from the queue on, the pending event is there;
* `AskersKnown`: an ask that began has an owner whose row exists, and one that goes
  on as answered has an answered row;
* `RepliesMatch`: `OneReplyIsTaken` without cardinalities, and that a reply between
  its two statements points at a row.

Each part has a lemma (`...Step`) with one step per action of `Next`.
`UncancelledCostIsFinal` and `AwaitingHasAsker` are inductive relative to `IInv`.
The proof of `AwaitingHasAsker` is by what an asking call owes: the last of
several calls to leave `Parked(t)` writes the status itself.

Those of `Credentials_proofs` rest on `CredentialsAssumption` (the sets are not empty,
`NoUser` is no user, the purposes are typed, the bounds are naturals):

| Theorem | Says |
|---|---|
| `TypeCorrect` | `Spec => []TypeOK` |
| `TakenOnceHolds` | `Spec => Once!Spec`: of any number of requests for a token one takes it |
| `ConnectionsStayHolds` | no step moves an identity, or revives a link but the end of a flow of its user |
| `SpentForSomethingHolds` | a taken token was good for something, unless a call failed |
| `StoredTokenWorksHolds` | the refresh token stored for a user who connected once is one the provider accepts |

The argument. That one request takes a token is not inductive: it needs the lock.
`RedeemInv` says that who holds a row's lock holds it alone (`HeldAlone`), that a held
row is not used (`HeldIsUnused`) and that a token somebody took is used
(`TakenIsUsed`). A step then either takes nothing and is a stutter of `SingleUse`, or
is taken by the one holder, for whom `takers` was empty. The lemmas `TakesNothing`,
`GoesOn` and `TakesIt` say what each does to the invariant and to `takers`, so that
`RedeemStep` has one short step per action. `SpentForSomething` adds that a looked-up
user is one of a magic link and an installed workspace one of Slack (`SpentInv`), and
rests on the tables only growing (`OnlyMore`). `ConnectionsStay` needs types alone:
its weight is in `UpdateTokens` writing only to rows that are there.

`StoredTokenWorks` is about a moment without a refresh; `RefreshInv` speaks of the
others. Rows and copies hold tokens of grants that their own user stored
(`GrantsKept`), none later than the newest (`NotNewer`). Under a strict provider a
client that was given a new token, and has yet to write it, is the only one to have
it and the only such client of its grant (`OneRotates`), because whoever else is to be
given one must hold the newest. So a row that is behind has a client about to
write it (`StillToWrite`), and only a failure takes that client away. Nothing bounds
the clients, the rotations or the age of their copies.

Those about `SubagentSlots` in `StepResources_proofs` rest on `SlotsAssumption` (there is a
root, the cap is positive, the depth a natural); the tasks may be infinitely many:

| Theorem | Says |
|---|---|
| `SlotsOKHolds` | `Spec => []SlotsOK`: the cap holds and the registry is exact |
| `NoIdleSlotHolds` | `Spec => []NoIdleSlot`: nobody waits while a slot is free |

The argument. Neither speaks of the semaphore, and a step that only knows the cap
holds could hand out one permit too many. `SlotInv` adds, for each root, that its
queue holds its waiters, each once (`QueueOf`), and the accounts (`CountsOf`): the
references are the holders and the queue, an entry is there while there are any, the
free permits and the holders make the cap, and somebody queues only when no permit is
free. Because a dropped entry means no references, the permits of a new semaphore
add up too (`PermitsLeft`). Each way a root's accounts change has a lemma: a spawn
(`SpawnKeeps`), an end that frees the slot (`ChildFreesSlot`) or hands it on
(`ChildHandsSlotOn`), a cancelled wait (`GiveUpKeeps`); the other roots are left
alone by `SlotsUntouched`. A waiter may leave from the middle of the queue, which is
what `RemovedAt` and `QueueShrinks` are about.

Those about `Sandboxes` rest on `SandboxesAssumption` (the null values are no call and no
sandbox, a call is no execution, the bound is a natural); executions, calls and
sandboxes may be any sets:

| Theorem | Says |
|---|---|
| `SandboxesInvariant` | `SandboxSpec => []SandboxInv` |
| `SandboxesAreReleased` | what nobody uses holds no child, and no container but for the four exceptions named |
| `CallsAreKeptApart` | a call hears another's answer, or delivers another's inputs, only as named |
| `SecondsAreMeteredOnce` | the seconds of a sandbox have one row, of their own task or user |

The argument. The three properties speak of a sandbox that is at rest, or of a call
that has its answer, and so of what several executions did to it before. `SandboxInv`
says what is known meanwhile:

* `CallKept`: a call under way belongs to a running user of its sandbox, unless it is
  a start that goes on for nobody;
* `TableKept`, `VictimKept`, `UsersKept`: a sandbox in the table has users of its key,
  all of them running; it is dropped by one of its users, once, and a sandbox that was
  made is either in the table or dropped. So what is settled was dropped by an
  execution that has closed it (`SettledIsDropped`), and no two read its seconds;
* `AbortKept`: a sandbox some call was cancelled in has a user that is over, so that a
  live user that finds a command left in the pipe shares it with another;
* `ChildKept`: with the subprocess provider whoever starts or waits for the child
  heads the lock's queue, the pipe holds its command alone unless one was cancelled,
  and a closed child is gone for good;
* `EnvironmentKept`: with the others the handle is to a living environment, and to the
  only one if the sandbox was used in order (`Orderly`);
* `OutputKept`: where calls never overlapped, the inputs and the output found there
  are those of the one active call;
* `SecondsKept`: the seconds read before a close are not more than were answered, and
  all of them if nobody else used the sandbox.

Of a step that moves a call the proof keeps only what `CallSeen` says, in four views:
its frame, the child, the environment and the files. `UseSeen`, `EndSeen` and
`Settling` do the same for a call's first step, the end of an execution and its
teardown. Each action has a lemma that it is one of these, and each part of the
invariant one lemma per view. That the lock stays with its
holder when others are cancelled while they wait is `WithoutIsQueue`, by
`EveryRankIsTaken`.

Those of `ScheduleDispatch_proofs` rest on `DispatchAssumption` (periods and batches are
positive, the terms sets of naturals, the null value no dispatcher):

| Theorem | Says |
|---|---|
| `FiringsOKHolds` | `Spec => []FiringsOK`: one task per claim, no slot twice, never beyond the terms |
| `NotesReachNextRunHolds` | where no runs overlapped each was shown what the earlier ones saved |
| `CancelIsFinalHolds` | no step claims or revives a cancelled schedule |

The argument. Whoever claims holds the row's lock, the row stays as it was read until
the commit (`ClaimsLocked`), and a row keeps its terms in a form that says what is left
of them (`RowsKept`): that settles `WithinTerms` and `CancelIsFinal`. `Accounted` counts
tasks and committed claims against `run_count`; it needs that a dispatcher's task in
hand is its own (`HandsKept`). `NoReplay` is not inductive without the claims that have
no task yet and the slot the row waits for: `FiringsApart` orders all three, by the
instants of the claims and not by those of the wake-ups. `NotesKept` adds that without
overlap one firing at a time is under way, and follows the notes from the blob over the
claim into the prompt.

Those of `ThreadCompaction_proofs` rest on `KnobsAssumption` (positive knobs, and a
trigger of at least the window and the recent messages, as the defaults have it) and on
bounds that are naturals; workers may be any set:

| Theorem | Says |
|---|---|
| `SummariesOKHolds` | a row leaves the prompt for one that has its text; one digest without overlap |
| `NothingForgottenHolds` | what was summarized is in the prompt, unless two passes rewrote the digest at once |
| `QuietMeansDrainedHolds` | when all is quiet and nothing failed, no level has a backlog |

The argument. `FoldInv` says that what a pass holds between its awaits is still so
when it goes on (`PassKept`), that folded rows point one level up at a row with their
text (`RowsKept`), and that without overlap one pass rewrites the digest (`OneWriter`).
`NothingForgotten` then follows the parents of a row upwards, which ends as there are
three levels. `DrainInv` says of each level that whoever left it undrained has an
enqueued pass, or one that has not passed the level yet, to come back to it. It rests on
a LIMIT that returns too little having returned all (`OldestIsAll`).

Those of `PlanExecutor_proofs` rest on `ExecutorAssumption`: plans are sequences of
steps, places are long enough for a plan with its continuation, the writers are
distinct, and there is at most one replan, as `_MAX_REPLANS` says
(`wolfpaw/agents/executor.py:94`). With two, `StopsAtFailure` would be false: a second batch
may then fail and be replaced, and its failures are of another group than the first's.

| Theorem | Says |
|---|---|
| `PlanFollowedHolds` | results are the plan's, in order, and a failure stops what follows |
| `OneVersionPerStepHolds` | a step leaves one version of one file at most |
| `VersionsOKHolds` | versions are numbered without gaps or twins, and replaced with leave |
| `LatestDescribesBytesHolds` | the bytes are those of the latest row, but for the three exceptions named |

The argument. `ExecInv` has three parts. `WalkInv` relates the locals of `execute`: how
far the results reach at each phase, and that failures are members of one group unless
they lie before the splice. `StepInv` relates a coroutine to its batch and to the
version it read, which is never beyond what there is, so that the row it registers is
one above or collides. `FileInv` says that versions are 1 to their number, that a step
that made none yet has none (`MadeKept`), and that a file nobody tore has the bytes of
the writer that is about to register (`BytesKept`).

Those about `Metering` in `TurnRecords_proofs` rest on `MeteringAssumption` (months have days, the first day
is late enough for a retention before it); calls may be infinitely many:

| Theorem | Says |
|---|---|
| `CallsAccountedHolds` | answers have usage rows; attempts that were not cut off have traces while the pruner keeps up |
| `RecentTraceKeptHolds` | dropping partitions takes no trace within the retention |
| `SpentIsTotalHolds` | the total is never too much, and is all when every roll-up is over |

The argument. A usage row exists from "recorded" on, and for no other call but one that
was interrupted, and nothing is under way
once the run has ended (`UsageKept`), so that the run's roll-up adds up rows that no
longer change (`SumsKept`, `RowsAddUp`), whereas a cancel's may have read fewer. This
month and the next have partitions whenever the pruner ran (`PartitionKept`), and months
do not go backwards (`MonthOrder`), which is why a dropped month is wholly past.

Those about `Turns` rest on `TurnsAssumption` (handlings and threads are numbered from 1,
the bound is a natural); there may be infinitely many of both:

| Theorem | Says |
|---|---|
| `TurnsInvariant` | `TurnsSpec => []TurnsInv` |
| `ConversationIsOK` | a reply follows its request, once each without trouble, and no collection loses a message |
| `PlanIsAsVetted` | the draft that ran is none that was rejected, and a plan that asks stays where it can ask |
| `ResetStartsAnew` | after `/reset` no push message extends an older thread |

The argument. `ThreadsKept` says that finitely many threads were ever made and that a
handling past its choice has one that was. `RequestKept` says that a handling between
its request and its reply has that row, and that every reply has one before it in the
same thread; since a thread's messages go together, what remains of it still starts with
the request. `OnceKept` says which rows a handling has at each stage while nothing went
wrong, which is how a second append is excluded. `CollectionKept` says that no doomed
thread has a row from before the collection. All four look at a step only as `TalkStep`
does: a handling goes on without a row (`Quiet`), with one (`Says`), somebody makes a
thread (`Makes`), the collector begins or ends, or nothing of it moves (`Idles`).
`PlansKept` carries the number of the rejected draft from the vetting to the run.
`ResetStartsAfresh` is about one step: a handling takes the newest live thread, which is
there because finitely many are (`NewestExists`), and which is no older than the one
`/reset` made while that lives (`LatestIsNewest`).

Those of `Knowledge_proofs` rest on `KnowledgeAssumption` (embeddings and scores are
naturals, there is a name, and skills that are retired at the start have a better heir):

| Theorem | Says |
|---|---|
| `OutcomeKeptHolds` | a graded plan keeps its score, and its answer unless it was too long for one; a late verdict replaces no newer one |
| `OnlyApprovedCodeRunsHolds` | only code whose own question was answered with a yes is dispatched |
| `SkillsConsolidateHolds` | retired skills lead to an active one, and a pass that ended leaves no twins |

The argument. `OutcomesStand` says what is written by each stage of a run, and
`PlansPicked` that a sleep cycle picks graded plans only, so that no grade is there before
the run's own. `ToolsKept` says that a step asks about a row with its own code, in a
question that was new when it asked, and that the yes it goes by is still in that row:
the guard of the UPDATE keeps a second reply out. That no chain of retired skills closes
is not inductive: a pass acts on a pair it chose before. `HeirsKept` says that every
retirement, made or about to be, is in favour of a `Better` skill; that is a total
order which later steps leave alone (`BetterIsTotal`, `BetterIsTransitive`), so the best
of any set of retired skills leads out of it (`BestExists`). `TwinsKept` says that what
a scan has been through has no twin among what it listed; that the nearest twin is the
one a search finds first is `NearestExists`.

Only model-checked: every liveness property (`RunsEnd`, `TasksEnd`, `AnswerWakes`,
`FlatWaitersServed`, `DueFires`, `ExecutionEnds`), for which the prover has no rule of
fairness and ENABLED. Every invariant and action property of a passing run is a
theorem.
No module declares a RECURSIVE operator, which would put it out of the provers'
reach, and no theorem is by induction over data; where one needs a least element it
comes from well-foundedness of the naturals (`LeastExists`).

## 5. Plan

Modules, by how much of the system's behaviour depends on them:

1. `TaskLifecycle` with `TaskStore`, `PendingQuestions`, `TaskMachine`: done, proved.
2. `SubagentSlots`, `ThreadCompaction`, `ScheduleDispatch`: done, proved.
3. `PlanExecutor` with `WorkspaceFiles`: done, proved.
4. `Metering`, `Knowledge`, `Credentials` with `SingleUse`: done, proved.
5. `Sandboxes`, `Turns`: done, proved.
6. Left: `install_package` and the shutdown of `Sandboxes`; Notion's rate limiter.

Left to prove is liveness only, which is out of the prover's reach.

Runs are kept few: a property that another one nearly implies, or that is one half
of a thought, is a conjunct of a named property.

## 6. Not modelled, and why

The web client, the Dockerfile and the migrations are not program logic of these
processes (migrations were read for constraints, and two of their tables are mapped).
Prompts, model answers, parsing, embeddings, persona text and price lists are data: the
models take any outcome a call may have. The requests of the HTTP clients of Notion,
Dropbox and Microsoft are I/O around services the repository does not hold; of these
clients only the tokens are modelled, and Notion's rate limiter is not.
`channel_links.delete`, `slack_workspaces.revoke` and `mark_cancelled` have no caller and no
action. Reports, the
monitor and prompt versions read, or write texts at start-up. Signatures and HMACs of
sessions, states and stored files are computed and compared in one step, with nothing
to interleave. Of the tools, those that only ask a service or read a table
(search, mail, SQL) have no state here. Postgres, Redis, arq and asyncio are
external and taken at what the code relies on: atomic statements, row locks until
commit, no two runs of one job at once, FIFO semaphores.
