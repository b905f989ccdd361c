-------------------------- MODULE ScheduleDispatch --------------------------
(***************************************************************************)
(* Schedules (memory/schedules.py) and the per-minute job that turns due   *)
(* ones into tasks (workers/jobs/dispatch_schedules.py).  Several instances*)
(* of the job may be under way: a slow one of an earlier minute, one per   *)
(* worker, one enqueued by hand.  They meet at the rows, which a claim     *)
(* locks for the length of its transaction; what follows the commit,       *)
(* spawning a task per claimed row, is not protected by anything.          *)
(***************************************************************************)
EXTENDS Naturals, Sequences, FiniteSets

CONSTANTS
  Schedule,                     \* ids of schedules
  Dispatcher,                   \* instances of the job that may be under way
  NoDispatcher,
  Batch,                        \* schedules_dispatch_batch, as each process has it
  Period,                       \* interval_seconds, and the cadence of a cron
  Caps, Ends,                   \* the max_runs and until asked for a schedule, 0 for none
  MaxTime,                      \* bound: the last instant
  MaxFaults                     \* bound: writes that fail, jobs that die

ASSUME DispatchAssumption ==
  /\ NoDispatcher \notin Dispatcher
  /\ Period \in Nat \ {0} /\ Batch \in [Dispatcher -> Nat \ {0}]
  /\ {Caps, Ends} \subseteq [Schedule -> SUBSET Nat]
  /\ MaxTime \in Nat \ {0} /\ MaxFaults \in Nat

VARIABLES
  now,                          \* the clock; instant 0 stands for NULL
  row,                          \* the rows of `schedules`
  lock,                         \* the dispatcher whose transaction locks a row
  pc,                           \* where a dispatcher stands
  at,                           \* the `now` it read, before it got a connection
  claimed,                      \* the rows it claimed, as it read them
  hand,                         \* the task it created and has to enqueue
  tasks,                        \* the tasks spawned from a schedule, in order
  overlap,                      \* schedules with two runs under way at once
  faults

dispatchVars == <<pc, at, claimed, hand>>
vars == <<now, row, lock, dispatchVars, tasks, overlap, faults>>

Kind == {"once", "interval", "cron"}
Instant == 0..MaxTime + Period

Row == [status : {"absent", "active", "done", "cancelled"}, kind : Kind,
        next : Instant, last : Instant, count : Nat, cap : Nat,
        until : Nat, notes : SUBSET Instant]

(* A task knows the slot it fires for, the instant of its claim, the notes  *)
(* its prompt was rendered with, and whether it saved notes itself.         *)
Run == [slot : Instant, fired : Instant, seen : SUBSET Instant, noted : BOOLEAN,
        stage : {"created", "orphan", "queued", "ended"}]

TypeOK ==
  /\ now \in 1..MaxTime
  /\ row \in [Schedule -> Row]
  /\ lock \in [Schedule -> Dispatcher \cup {NoDispatcher}]
  /\ pc \in [Dispatcher -> {"idle", "woken", "locked", "spawning", "enqueue"}]
  /\ at \in [Dispatcher -> Instant]
  /\ claimed \in [Dispatcher -> SUBSET [of : Schedule, row : Row]]
  /\ hand \in [Dispatcher -> {<< >>} \cup (Schedule \X Nat)]
  /\ tasks \in [Schedule -> Seq(Run)]
  /\ overlap \subseteq Schedule
  /\ faults \in 0..MaxFaults

NoRow == [status |-> "absent", kind |-> "once", next |-> 0, last |-> 0,
          count |-> 0, cap |-> 0, until |-> 0, notes |-> {}]

Init ==
  /\ now = 1
  /\ row = [s \in Schedule |-> NoRow]
  /\ lock = [s \in Schedule |-> NoDispatcher]
  /\ pc = [d \in Dispatcher |-> "idle"]
  /\ at = [d \in Dispatcher |-> 0]
  /\ claimed = [d \in Dispatcher |-> {}]
  /\ hand = [d \in Dispatcher |-> << >>]
  /\ tasks = [s \in Schedule |-> << >>]
  /\ overlap = {}
  /\ faults = 0

Fault == faults < MaxFaults /\ faults' = faults + 1

Unlocked(s) == lock[s] = NoDispatcher

-----------------------------------------------------------------------------
(* Which instant comes next. *)

(* compute_next_run_at: strictly after `after`, whatever was missed. *)
NextRunAt(kind, after) ==
  CASE kind = "once"     -> 0
    [] kind = "interval" -> after + Period
    [] kind = "cron"     -> (after \div Period + 1) * Period

(* next_after_fire, for the row r claimed at instant t; its new next_run_at *)
(* is 0 when the schedule is done.                                          *)
NextAfterFire(r, t) ==
  LET next == NextRunAt(r.kind, t)
      exhausted == \/ r.cap # 0 /\ r.count + 1 >= r.cap
                   \/ r.until # 0 /\ next > r.until
  IN IF exhausted THEN 0 ELSE next

-----------------------------------------------------------------------------
(* The user's tools, and time. *)

Tick ==
  /\ now < MaxTime
  /\ now' = now + 1
  /\ UNCHANGED <<row, lock, dispatchVars, tasks, overlap, faults>>

(* schedule_task.  A first slot is in the future, but that of an interval   *)
(* may be any `run_at`.                                                     *)
CreateSchedule(s, kind, first, cap, until) ==
  /\ row[s].status = "absent"
  /\ CASE kind = "once"     -> first > now
       [] kind = "interval" -> TRUE
       [] kind = "cron"     -> first = NextRunAt(kind, now)
  /\ row' = [row EXCEPT ![s] = [NoRow EXCEPT !.status = "active", !.kind = kind,
                                  !.next = first, !.cap = cap, !.until = until]]
  /\ UNCHANGED <<now, lock, dispatchVars, tasks, overlap, faults>>

(* The UPDATE waits for the row lock, and misses a row that is not active.  *)
CancelRow(s) ==
  /\ Unlocked(s) /\ row[s].status = "active"
  /\ row' = [row EXCEPT ![s].status = "cancelled", ![s].next = 0]

(* cancel_schedule. *)
CancelSchedule(s) ==
  /\ CancelRow(s)
  /\ UNCHANGED <<now, lock, dispatchVars, tasks, overlap, faults>>

-----------------------------------------------------------------------------
(* The dispatcher. *)

(* The cron fires; the instant is read before a connection is acquired. *)
Wake(d) ==
  /\ pc[d] = "idle"
  /\ at' = [at EXCEPT ![d] = now]
  /\ pc' = [pc EXCEPT ![d] = "woken"]
  /\ UNCHANGED <<now, row, lock, claimed, hand, tasks, overlap, faults>>

(* Faulty variant of DueAt: a slot that was missed is not due any more. *)
DueExactlyAt(s, t) == row[s].status = "active" /\ row[s].next = t

DueAt(s, t) == row[s].status = "active" /\ row[s].next # 0 /\ row[s].next <= t

(* Faulty variant of Claimable: FOR UPDATE SKIP LOCKED is missing. *)
ClaimableUnlocked(t) == {s \in Schedule : DueAt(s, t)}

(* The rows the SELECT ... FOR UPDATE SKIP LOCKED may return. *)
Claimable(t) == {s \in Schedule : DueAt(s, t) /\ Unlocked(s)}

(* The SELECT takes the longest overdue rows first, at most a batch of them.*)
LockDue(d, S) ==
  /\ pc[d] = "woken"
  /\ S \subseteq Claimable(at[d])
  /\ Cardinality(S) <= Batch[d]
  /\ S # Claimable(at[d]) => Cardinality(S) = Batch[d]
  /\ \A s \in S, r \in Claimable(at[d]) \ S : row[s].next <= row[r].next
  /\ lock' = [s \in Schedule |-> IF s \in S THEN d ELSE lock[s]]
  /\ claimed' = [claimed EXCEPT ![d] = {[of |-> s, row |-> row[s]] : s \in S}]
  /\ pc' = [pc EXCEPT ![d] = IF S = {} THEN "idle" ELSE "locked"]
  /\ at' = [at EXCEPT ![d] = IF S = {} THEN 0 ELSE @]
  /\ UNCHANGED <<now, row, hand, tasks, overlap, faults>>

Unfinished(s) ==
  \/ \E i \in DOMAIN tasks[s] : tasks[s][i].stage \in {"created", "queued"}
  \/ \E d \in Dispatcher :
       pc[d] \in {"spawning", "enqueue"} /\ s \in {c.of : c \in claimed[d]}

(* The rows of claim C, once advanced at instant t from what was read. *)
Advanced(C, t) ==
  [s \in Schedule |->
     IF \E c \in C : c.of = s
       THEN LET read == (CHOOSE c \in C : c.of = s).row
                next == NextAfterFire(read, t) IN
            [row[s] EXCEPT !.next = next, !.last = t, !.count = @ + 1,
                           !.status = IF next = 0 THEN "done" ELSE "active"]
       ELSE row[s]]

(* The UPDATEs of claim_and_advance_due, and its commit. *)
Advance(d) ==
  /\ pc[d] = "locked"
  /\ row' = Advanced(claimed[d], at[d])
  /\ lock' = [s \in Schedule |-> IF lock[s] = d THEN NoDispatcher ELSE lock[s]]
  /\ overlap' = overlap \cup {s \in {c.of : c \in claimed[d]} : Unfinished(s)}
  /\ pc' = [pc EXCEPT ![d] = "spawning"]
  /\ UNCHANGED <<now, at, claimed, hand, tasks, faults>>

(* What is left of a batch, and where its dispatcher goes with it. *)
GoOn(d, C) ==
  /\ claimed' = [claimed EXCEPT ![d] = C]
  /\ pc' = [pc EXCEPT ![d] = IF C = {} THEN "idle" ELSE "spawning"]
  /\ at' = [at EXCEPT ![d] = IF C = {} THEN 0 ELSE @]

(* Faulty variants of CreateTask: the notes are left out of the prompt; the *)
(* claim is kept.                                                           *)
CreateTaskBlank(d, c) ==
  /\ pc[d] = "spawning"
  /\ c \in claimed[d]
  /\ tasks' = [tasks EXCEPT ![c.of] =
                 Append(@, [slot |-> c.row.next, fired |-> at[d], seen |-> {},
                            noted |-> FALSE, stage |-> "created"])]
  /\ hand' = [hand EXCEPT ![d] = <<c.of, Len(tasks[c.of]) + 1>>]
  /\ claimed' = [claimed EXCEPT ![d] = @ \ {c}]
  /\ pc' = [pc EXCEPT ![d] = "enqueue"]
  /\ UNCHANGED <<now, row, lock, at, overlap, faults>>

CreateTaskAgain(d, c) ==
  /\ pc[d] = "spawning"
  /\ c \in claimed[d]
  /\ tasks' = [tasks EXCEPT ![c.of] =
                 Append(@, [slot |-> c.row.next, fired |-> at[d],
                            seen |-> c.row.notes, noted |-> FALSE,
                            stage |-> "created"])]
  /\ hand' = [hand EXCEPT ![d] = <<c.of, Len(tasks[c.of]) + 1>>]
  /\ pc' = [pc EXCEPT ![d] = "enqueue"]
  /\ UNCHANGED <<now, row, lock, at, claimed, overlap, faults>>

(* _spawn_run: the task of one claimed row, its prompt rendered from what   *)
(* the claim read.  TaskLifecycle has the two statements of its creation;   *)
(* the best-effort link to the schedule decides nothing here.               *)
CreateTask(d, c) ==
  /\ pc[d] = "spawning"
  /\ c \in claimed[d]
  /\ tasks' = [tasks EXCEPT ![c.of] =
                 Append(@, [slot |-> c.row.next, fired |-> at[d],
                            seen |-> c.row.notes, noted |-> FALSE,
                            stage |-> "created"])]
  /\ hand' = [hand EXCEPT ![d] = <<c.of, Len(tasks[c.of]) + 1>>]
  /\ claimed' = [claimed EXCEPT ![d] = @ \ {c}]
  /\ pc' = [pc EXCEPT ![d] = "enqueue"]
  /\ UNCHANGED <<now, row, lock, at, overlap, faults>>

SetStage(s, i, stage) == tasks' = [tasks EXCEPT ![s][i].stage = stage]

EnqueueTask(d) ==
  /\ pc[d] = "enqueue"
  /\ SetStage(hand[d][1], hand[d][2], "queued")
  /\ hand' = [hand EXCEPT ![d] = << >>]
  /\ GoOn(d, claimed[d])
  /\ UNCHANGED <<now, row, lock, overlap, faults>>

(* Spawning one row fails, before or after its task exists; the loop goes on*)
(* with the next, and the firing is gone.                                   *)
SpawnFails(d) ==
  /\ Fault
  /\ \/ /\ pc[d] = "spawning"
        /\ \E c \in claimed[d] : GoOn(d, claimed[d] \ {c})
        /\ UNCHANGED <<hand, tasks>>
     \/ /\ pc[d] = "enqueue"
        /\ SetStage(hand[d][1], hand[d][2], "orphan")
        /\ hand' = [hand EXCEPT ![d] = << >>]
        /\ GoOn(d, claimed[d])
  /\ UNCHANGED <<now, row, lock, overlap>>

(* The worker dies, or the claim raises: a transaction not committed rolls  *)
(* back, a committed claim that was not spawned yet is dropped.             *)
DispatcherDies(d) ==
  /\ pc[d] # "idle"
  /\ Fault
  /\ lock' = [s \in Schedule |-> IF lock[s] = d THEN NoDispatcher ELSE lock[s]]
  /\ IF pc[d] = "enqueue" THEN SetStage(hand[d][1], hand[d][2], "orphan")
                          ELSE UNCHANGED tasks
  /\ hand' = [hand EXCEPT ![d] = << >>]
  /\ GoOn(d, {})
  /\ UNCHANGED <<now, row, overlap>>

-----------------------------------------------------------------------------
(* The spawned runs, from the queue to their end; TaskLifecycle has what    *)
(* one does to its task.                                                    *)

(* update_state replaces the whole blob, whatever the status. *)
UpdateState(s, blob) == Unlocked(s) /\ row' = [row EXCEPT ![s].notes = blob]

(* update_schedule_state: by what the prompt showed, with the run's own note. *)
SaveNotes(s, i) ==
  /\ tasks[s][i].stage = "queued"
  /\ UpdateState(s, tasks[s][i].seen \cup {tasks[s][i].slot})
  /\ tasks' = [tasks EXCEPT ![s][i].noted = TRUE]
  /\ UNCHANGED <<now, lock, dispatchVars, overlap, faults>>

EndRun(s, i) ==
  /\ tasks[s][i].stage = "queued"
  /\ SetStage(s, i, "ended")
  /\ UNCHANGED <<now, row, lock, dispatchVars, overlap, faults>>

-----------------------------------------------------------------------------
DispatchStep(d) ==
  \/ Wake(d)
  \/ \E S \in SUBSET Schedule : LockDue(d, S)
  \/ Advance(d)
  \/ \E c \in claimed[d] : CreateTask(d, c)
  \/ EnqueueTask(d)

Next ==
  \/ Tick
  \/ \E s \in Schedule, kind \in Kind, first \in 1..MaxTime :
       \E cap \in Caps[s], until \in Ends[s] : CreateSchedule(s, kind, first, cap, until)
  \/ \E s \in Schedule : CancelSchedule(s)
  \/ \E d \in Dispatcher : DispatchStep(d) \/ SpawnFails(d) \/ DispatcherDies(d)
  \/ \E s \in Schedule : \E i \in DOMAIN tasks[s] :
        SaveNotes(s, i) \/ EndRun(s, i)

Spec == Init /\ [][Next]_vars

(* arq fires the cron every minute and runs the job it fired. *)
FairSpec == Spec /\ \A d \in Dispatcher : WF_vars(DispatchStep(d))

-----------------------------------------------------------------------------
(* Properties. *)

(* Claims of schedule s that are committed and have no task yet. *)
Owed(s) ==
  {d \in Dispatcher : pc[d] \in {"spawning", "enqueue"} /\ s \in {c.of : c \in claimed[d]}}

(* At most one task per committed claim, and exactly one if nothing failed, *)
(* with dispatchers that overlap and dispatchers that die at any point:     *)
(* run_count tells how often the schedule fired.                            *)
FiringsAccounted ==
  \A s \in Schedule :
    LET spawned == Len(tasks[s]) + Cardinality(Owed(s)) IN
    /\ spawned <= row[s].count
    /\ faults = 0 => spawned = row[s].count

(* No slot fires twice, and an outage is not replayed: the slot of a firing *)
(* lies after the instant any firing for an earlier slot was claimed, even  *)
(* if their dispatchers read the clock in another order than they claimed.  *)
NoReplay ==
  \A s \in Schedule : \A i, j \in DOMAIN tasks[s] :
    i # j => \/ tasks[s][i].fired < tasks[s][j].slot
             \/ tasks[s][j].fired < tasks[s][i].slot

(* A schedule fires as often as its terms allow, however its claims and its *)
(* cancellation interleave; after the first it fires for no slot past its   *)
(* end; and it is not left active with nothing to wait for.                 *)
WithinTerms ==
  \A s \in Schedule :
    /\ row[s].kind = "once" => row[s].count <= 1
    /\ row[s].cap # 0 => row[s].count <= row[s].cap
    /\ row[s].until # 0 /\ row[s].count > 0 => row[s].next <= row[s].until
    /\ row[s].status = "active" <=> row[s].next # 0

(* What fired is what was claimed, once each, and within the terms. *)
FiringsOK == TypeOK /\ FiringsAccounted /\ NoReplay /\ WithinTerms

(* Once its cancellation is committed a schedule is never claimed, nor      *)
(* brought back by a claim that had read the row before.                    *)
CancelIsFinal ==
  [][\A s \in Schedule : row[s].status = "cancelled" =>
       row'[s].status = "cancelled" /\ row'[s].count = row[s].count]_vars

(* Where no two runs of a schedule overlapped, each was shown what every    *)
(* earlier one had saved.                                                   *)
NotesReachNextRun ==
  \A s \in Schedule \ overlap : \A i, j \in DOMAIN tasks[s] :
    tasks[s][i].noted /\ tasks[s][i].slot < tasks[s][j].slot
      => tasks[s][i].slot \in tasks[s][j].seen

(* A due schedule fires or is cancelled, though the batch is smaller than   *)
(* the backlog and other dispatchers die holding its row.                   *)
DueFires ==
  \A s \in Schedule, n \in 0..MaxTime :
    DueAt(s, now) /\ row[s].count = n ~> row[s].count > n \/ row[s].status = "cancelled"
=============================================================================
