------------------------------- MODULE Metering -------------------------------
(***************************************************************************)
(* What a task costs and what is kept of its model calls                   *)
(* (metering/model_client.py, recorder.py, trace_sink.py;                  *)
(* memory/tasks.py, rollup_spent_cents; workers/jobs/prune_traces.py).     *)
(* A call asks the provider, writes its token_usage row, then its trace    *)
(* row.  The task's spend is rolled up by its run when it ends and by a    *)
(* cancellation, each reading the two sums and writing the total in        *)
(* statements of their own.  Trace rows live in monthly partitions that a  *)
(* daily job provisions ahead and drops.  A month has DaysPerMonth days.   *)
(***************************************************************************)
EXTENDS Naturals, FiniteSets

CONSTANTS
  Call,                         \* model calls of one task's run
  Retention,                    \* WOLFPAW_TRACE_RETENTION_DAYS
  DaysPerMonth,
  FirstDay,                     \* the day the migration ran
  LastDay,                      \* bound: days observed
  MaxFaults                     \* bound: failed writes

ASSUME MeteringAssumption ==
  /\ DaysPerMonth \in Nat \ {0} /\ Retention \in Nat
  /\ FirstDay \in Nat /\ LastDay \in Nat /\ LastDay >= FirstDay /\ MaxFaults \in Nat
  /\ FirstDay >= Retention + DaysPerMonth

VARIABLES
  call,                         \* model calls: stage, the agent they are made for
  usage,                        \* token_usage: calls with a row -> its cost
  compute,                      \* compute_usage of the task
  run,                          \* the task's run: "running", "ended"
  cancelled,
  rollup,                       \* the two writers of tasks.spent_cents
  spent,                        \* tasks.spent_cents, and who wrote it
  trace,                        \* rows of model_call_logs
  written,                      \* every trace row ever written
  partition,                    \* months that have a partition
  today,
  pruned,                       \* the day the job last ran
  late,                         \* it once missed two changes of month
  faults

vars == <<call, usage, compute, run, cancelled, rollup, spent, trace, written,
          partition, today, pruned, late, faults>>
callVars == <<call, usage>>
costVars == <<compute, run, cancelled, rollup, spent>>
traceVars == <<trace, written, partition, today, pruned, late>>

Month(day) == day \div DaysPerMonth
AgentKind == {"executor"}       \* the agent_kind enum, as far as a task's run uses it
Agent == AgentKind \cup {"executor_recover"}
Row == [call : Call, day : FirstDay..LastDay, status : {"ok", "error"}, metered : BOOLEAN]
Tracing == {"recorded", "failing", "unrecorded", "interrupted"}
Ended == {"answered", "raised", "stopped"}
CallStage == {"idle", "asked", "replied"} \cup Tracing \cup Ended

TypeOK ==
  /\ call \in [Call -> [stage : CallStage, agent : Agent]]
  /\ DOMAIN usage \subseteq Call /\ \A c \in DOMAIN usage : usage[c] \in 0..1
  /\ compute \in 0..1 /\ run \in {"running", "closing", "ended"} /\ cancelled \in BOOLEAN
  /\ rollup \in [{"run", "cancel"} -> [at : {"none", "tokens", "compute", "write", "done"},
                                       sum : Nat]]
  /\ spent \in [cents : Nat, by : {"none", "run", "cancel"}]
  /\ trace \subseteq written /\ written \subseteq Row
  /\ partition \subseteq Nat
  /\ today \in FirstDay..LastDay /\ pruned \in FirstDay..today /\ late \in BOOLEAN
  /\ faults \in 0..MaxFaults

Init ==
  /\ call = [c \in Call |-> [stage |-> "idle", agent |-> "executor"]]
  /\ usage = [c \in {} |-> 0]
  /\ compute = 0 /\ run = "running" /\ cancelled = FALSE
  /\ rollup = [p \in {"run", "cancel"} |-> [at |-> "none", sum |-> 0]]
  /\ spent = [cents |-> 0, by |-> "none"]
  /\ trace = {} /\ written = {}
  /\ partition = {Month(FirstDay) - 1, Month(FirstDay), Month(FirstDay) + 1}
  /\ today = FirstDay /\ pruned = FirstDay /\ late = FALSE
  /\ faults = 0

Fail == faults < MaxFaults /\ faults' = faults + 1

-----------------------------------------------------------------------------
(* ModelClient.call: the enforcer lets everything through, the provider is asked. *)
Ask(c, a) ==
  /\ run # "ended" /\ call[c].stage = "idle"
  /\ call' = [call EXCEPT ![c] = [stage |-> "asked", agent |-> a]]
  /\ UNCHANGED <<usage, costVars, traceVars, faults>>

(* The provider answers, or the call raises, times out or is cancelled. *)
Reply(c) ==
  /\ call[c].stage = "asked"
  /\ \E s \in {"replied", "failing"} : call' = [call EXCEPT ![c].stage = s]
  /\ UNCHANGED <<usage, costVars, traceVars, faults>>

Cents == 0..1                   \* by the price list; a model without a price costs nothing

InsertUsage(c) ==
  \E cents \in Cents :
    usage' = [x \in DOMAIN usage \cup {c} |-> IF x = c THEN cents ELSE usage[x]]

(* Faulty variant of RecordUsage: a row that cannot be written is let go. *)
RecordUsageBestEffort(c) ==
  /\ call[c].stage = "replied"
  /\ \/ InsertUsage(c) /\ UNCHANGED faults
     \/ Fail /\ UNCHANGED usage
  /\ call' = [call EXCEPT ![c].stage = "recorded"]
  /\ UNCHANGED <<costVars, traceVars>>

(* Price lookup (no price: the call costs nothing) and record_usage.  A row *)
(* whose agent is not of the enum is rejected; the error takes the answer.  *)
RecordUsage(c) ==
  /\ call[c].stage = "replied"
  /\ \/ /\ call[c].agent \in AgentKind /\ InsertUsage(c)
        /\ call' = [call EXCEPT ![c].stage = "recorded"]
        /\ UNCHANGED faults
     \/ /\ IF call[c].agent \in AgentKind THEN Fail ELSE UNCHANGED faults
        /\ call' = [call EXCEPT ![c].stage = "unrecorded"]
        /\ UNCHANGED usage
  /\ UNCHANGED <<costVars, traceVars>>

(* The call is cancelled while its usage row is written: the row may be     *)
(* there or not, and the answer goes.                                       *)
InterruptRecord(c) ==
  /\ call[c].stage = "replied"
  /\ call' = [call EXCEPT ![c].stage = "interrupted"]
  /\ (call[c].agent \in AgentKind /\ InsertUsage(c)) \/ UNCHANGED usage
  /\ UNCHANGED <<costVars, traceVars, faults>>

TraceRow(c) ==
  [call |-> c, day |-> today,
   status |-> IF call[c].stage = "recorded" THEN "ok" ELSE "error",
   metered |-> call[c].stage = "recorded"]

InsertTrace(c) ==
  /\ Month(today) \in partition
  /\ trace' = trace \cup {TraceRow(c)} /\ written' = written \cup {TraceRow(c)}

(* The trace context closes: one row however the call ended.  A write that  *)
(* fails, or has no partition to land in, is logged and the call goes on.   *)
WriteTrace(c) ==
  /\ call[c].stage \in Tracing
  /\ call' = [call EXCEPT ![c].stage = CASE @ = "recorded" -> "answered"
                                         [] @ = "interrupted" -> "stopped"
                                         [] OTHER -> "raised"]
  /\ \/ InsertTrace(c) /\ UNCHANGED faults
     \/ /\ IF Month(today) \in partition THEN Fail ELSE UNCHANGED faults
        /\ UNCHANGED <<trace, written>>
  /\ UNCHANGED <<usage, costVars, partition, today, pruned, late>>

(* The call is cancelled while its trace is written.  _write lets that      *)
(* through: the call raises whatever it had, and the row may be missing.    *)
InterruptTrace(c) ==
  /\ call[c].stage \in Tracing
  /\ call' = [call EXCEPT ![c].stage = "stopped"]
  /\ InsertTrace(c) \/ UNCHANGED <<trace, written>>
  /\ UNCHANGED <<usage, costVars, partition, today, pruned, late, faults>>

-----------------------------------------------------------------------------
Idle == \A c \in Call : call[c].stage \in Ended \cup {"idle"}

(* execute returns: the sandbox is torn down and its seconds are written.   *)
(* The evaluator and the distiller may still ask the model.                 *)
TearDown ==
  /\ run = "running" /\ Idle
  /\ run' = "closing"
  /\ \E cents \in 0..1 : compute' = cents
  /\ UNCHANGED <<callVars, cancelled, rollup, spent, traceVars, faults>>

(* The terminal status, if no cancellation came first, then the roll-up. *)
EndRun ==
  /\ run = "closing" /\ Idle
  /\ run' = "ended"
  /\ rollup' = [rollup EXCEPT !["run"].at = "tokens"]
  /\ UNCHANGED <<callVars, compute, cancelled, spent, traceVars, faults>>

(* The user cancels the task: its run goes on to its end all the same. *)
Cancel ==
  /\ run # "ended" /\ ~cancelled
  /\ cancelled' = TRUE
  /\ rollup' = [rollup EXCEPT !["cancel"].at = "tokens"]
  /\ UNCHANGED <<callVars, compute, run, spent, traceVars, faults>>

TokenCents == LET rows == {c \in DOMAIN usage : usage[c] = 1} IN Cardinality(rows)

(* Faulty variant of RollUp: compute is left out of the total. *)
RollUpTokensOnly(p) ==
  /\ \/ /\ rollup[p].at = "tokens"
        /\ rollup' = [rollup EXCEPT ![p] = [at |-> "write", sum |-> TokenCents]]
        /\ UNCHANGED <<spent, faults>>
     \/ /\ rollup[p].at = "write"
        /\ rollup' = [rollup EXCEPT ![p].at = "done"]
        /\ spent' = [cents |-> rollup[p].sum, by |-> p] /\ UNCHANGED faults
  /\ UNCHANGED <<callVars, compute, run, cancelled, traceVars>>

(* rollup_spent_cents, statement by statement; a failure is swallowed. *)
RollUp(p) ==
  /\ \/ /\ rollup[p].at = "tokens"
        /\ rollup' = [rollup EXCEPT ![p] = [at |-> "compute", sum |-> TokenCents]]
        /\ UNCHANGED <<spent, faults>>
     \/ /\ rollup[p].at = "compute"
        /\ rollup' = [rollup EXCEPT ![p] = [at |-> "write", sum |-> @.sum + compute]]
        /\ UNCHANGED <<spent, faults>>
     \/ /\ rollup[p].at = "write"
        /\ rollup' = [rollup EXCEPT ![p].at = "done"]
        /\ \/ spent' = [cents |-> rollup[p].sum, by |-> p] /\ UNCHANGED faults
           \/ Fail /\ UNCHANGED spent
  /\ UNCHANGED <<callVars, compute, run, cancelled, traceVars>>

-----------------------------------------------------------------------------
Tick ==
  /\ today < LastDay
  /\ today' = today + 1
  /\ late' = (late \/ Month(today') > Month(pruned) + 1)
  /\ UNCHANGED <<callVars, costVars, trace, written, partition, pruned, faults>>

(* Faulty variant of Kept: the cutoff's own month goes too. *)
KeptAfterCutoff(months) == {m \in months : m > Month(today - Retention)}

(* The partitions that stay: those that do not start before the month the   *)
(* cutoff falls in.                                                         *)
Kept(months) == {m \in months : m >= Month(today - Retention)}

(* prune_traces: this month and the next are provisioned, expired months go. *)
Prune ==
  /\ partition' = Kept(partition \cup {Month(today), Month(today) + 1})
  /\ trace' = {r \in trace : Month(r.day) \in partition'}
  /\ pruned' = today
  /\ UNCHANGED <<callVars, costVars, written, today, late, faults>>

Next ==
  \/ \E c \in Call : \/ \E a \in Agent : Ask(c, a)
                     \/ Reply(c) \/ RecordUsage(c) \/ WriteTrace(c)
                     \/ InterruptRecord(c) \/ InterruptTrace(c)
  \/ TearDown \/ EndRun \/ Cancel
  \/ \E p \in {"run", "cancel"} : RollUp(p)
  \/ Tick \/ Prune

Spec == Init /\ [][Next]_vars

-----------------------------------------------------------------------------
(* An answer reaches its agent only after its usage row has persisted       *)
(* (recorder.py), and only a call that was cancelled during a write has a   *)
(* row and no answer.                                                       *)
AnswerIsMetered ==
  /\ \A c \in Call : call[c].stage = "answered" => c \in DOMAIN usage
  /\ \A c \in DOMAIN usage :
       call[c].stage \in {"recorded", "answered", "interrupted", "stopped"}

(* While the pruner keeps up, every attempt that has ended was traced, a    *)
(* failed one like an answered one, with the status it ended with, but such *)
(* as were cancelled during a write; and a trace that names a usage row     *)
(* names one that exists.                                                   *)
AttemptTraced ==
  /\ faults = 0 /\ ~late =>
       \A c \in Call :
         call[c].stage \in {"answered", "raised"} =>
           \E r \in written : r.call = c /\ (r.status = "ok" <=> call[c].stage = "answered")
  /\ \A r \in written : r.metered => r.call \in DOMAIN usage

(* Calls, their usage rows and their traces agree. *)
CallsAccounted == TypeOK /\ AnswerIsMetered /\ AttemptTraced

(* Dropping whole partitions never takes a trace younger than the retention. *)
RecentTraceKept == \A r \in written : today - r.day <= Retention => r \in trace

(* Once every roll-up is over the task shows what its rows add up to.  Only *)
(* a cancellation whose roll-up read its sums before the run's and wrote    *)
(* after it leaves an older total behind.                                   *)
SpentIsTotal ==
  LET total == TokenCents + compute IN
  /\ spent.cents <= total
  /\ rollup["run"].at = "done" /\ rollup["cancel"].at \in {"none", "done"} =>
       spent.cents = total \/ spent.by = "cancel" \/ faults > 0
=============================================================================
