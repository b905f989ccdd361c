----------------------------- MODULE PlanExecutor -----------------------------
(***************************************************************************)
(* One execution of a plan (agents/executor.py): batches of steps, the     *)
(* recovery of a failed tool call, the overwrite question, the one replan  *)
(* and the verdict.  Steps of a parallel group are coroutines that switch  *)
(* at their awaits; the tools that write a workspace file (write_doc and   *)
(* the artifact tools) race there with each other and with an upload of    *)
(* the user.  Any other step is one that returns or raises.                *)
(***************************************************************************)
EXTENDS WorkspaceFiles, Sequences, SequencesExt

CONSTANTS
  Plans,                        \* the step lists a planner may give
  Continuations,                \* and those of a replan
  MaxSteps,                     \* _MAX_STEPS
  MaxReplans,                   \* _MAX_REPLANS
  MaxAttempts,                  \* _MAX_TOOL_ATTEMPTS
  Position,                     \* bound: places in a step list
  Uploads,                      \* bound: the files the user may upload
  NoFile, NoGroup,
  Upload, Earlier               \* writers other than the steps

(* `label` tells steps apart; `group` is parallel_group; `file` and         *)
(* `overwrite` are the inputs of a writing tool, NoFile for other steps.    *)
IsStep(s) == s.file \in File \cup {NoFile} /\ s.overwrite \in BOOLEAN

ASSUME ExecutorAssumption ==
  /\ Position \subseteq Nat \ {0} /\ Uploads \subseteq File /\ NoFile \notin File
  /\ Writer = Position \cup {Upload, Earlier}
  /\ Upload # Earlier /\ {Upload, Earlier} \cap Position = {}
  /\ \A p \in Plans \cup Continuations :
       p \in Seq(Range(p)) /\ \A i \in DOMAIN p : IsStep(p[i])
  /\ \A p \in Plans : /\ DOMAIN p \subseteq Position
                      /\ \A c \in Continuations : 1..(Len(p) + Len(c)) \subseteq Position
  /\ MaxSteps \in Nat /\ MaxReplans \in 0..1 /\ MaxAttempts \in Nat \ {0}

VARIABLES
  inTask,                       \* ctx.task_id is set
  phase,                        \* where execute stands
  steps,                        \* the list it walks, as spliced
  at,                           \* i, the steps whose results are in
  upTo,                         \* j, where the batch under way ends
  results,                      \* StepResults: a step of the list and a status
  budget,                       \* replan_budget
  outcome,                      \* what execute returned or raised
  stage,                        \* where the coroutine of a step stands
  call,                         \* what it holds of its tool call
  upload,                       \* the user's upload of a file, its own stages
  spliced,                      \* history: `at` when a continuation came
  torn                          \* history: files whose writers overlapped or died

execVars == <<phase, steps, at, upTo, results, budget, outcome, spliced>>
stepVars == <<stage, call>>
fileVars == <<rows, bytes, torn>>
vars == <<inTask, execVars, stepVars, fileVars, upload>>

Stage == {"off", "run", "ask", "repair", "put", "register", "embed",
          "late", "done", "failed"}
Status == {"COMPLETED", "FAILED", "SKIPPED"}

(* The inputs of the call under way, which attempt it is, whether the user  *)
(* has confirmed it, and the latest version that its tool has read.         *)
Call == [file : File \cup {NoFile}, overwrite : BOOLEAN,
         attempt : 1..MaxAttempts, confirmed : BOOLEAN, seen : Nat]
NoCall == [file |-> NoFile, overwrite |-> FALSE, attempt |-> 1,
           confirmed |-> FALSE, seen |-> 0]

TypeOK ==
  /\ FilesTypeOK
  /\ inTask \in BOOLEAN
  /\ phase \in {"start", "next", "batch", "replan", "judge", "answer", "over"}
  /\ at \in 0..Len(steps) /\ upTo \in at..Len(steps)
  /\ DOMAIN steps \subseteq Position
  /\ \A i \in DOMAIN results : results[i].status \in Status
  /\ budget \in 0..MaxReplans /\ spliced \in 0..Len(steps)
  /\ outcome \in {"none", "refused", "success", "failure", "raised"}
  /\ stage \in [Position -> Stage]
  /\ call \in [Position -> Call]
  /\ upload \in [stage : {"none", "put", "register", "done"}, file : Uploads, seen : Nat]
  /\ torn \subseteq File

Init ==
  /\ inTask \in BOOLEAN
  /\ phase = "start" /\ outcome = "none"
  /\ steps \in Plans
  /\ at = 0 /\ upTo = 0 /\ results = << >>
  /\ budget = MaxReplans /\ spliced = 0
  /\ stage = [k \in Position |-> "off"]
  /\ call = [k \in Position |-> NoCall]
  /\ \E known \in SUBSET File :
       /\ rows = [f \in File |-> IF f \in known THEN {[version |-> 1, by |-> Earlier, leave |-> TRUE]} ELSE {}]
       /\ bytes = [f \in File |-> IF f \in known THEN Earlier ELSE NoBytes]
  /\ upload \in [stage : {"none"}, file : Uploads, seen : {0}]
  /\ torn = {}

-----------------------------------------------------------------------------
(* The loop of execute. *)

(* The step cap, checked once, before anything runs. *)
Start ==
  /\ phase = "start"
  /\ IF Len(steps) > MaxSteps
       THEN phase' = "over" /\ outcome' = "refused"
       ELSE phase' = "next" /\ UNCHANGED outcome
  /\ UNCHANGED <<inTask, steps, at, upTo, results, budget, spliced, stepVars,
                 fileVars, upload>>

(* The batch that starts after position i: one step, or the longest run of  *)
(* steps of its parallel group.                                             *)
BatchEnd(i) ==
  Max({j \in (i + 1)..Len(steps) :
        \A k \in (i + 1)..j :
          \/ k = i + 1
          \/ steps[k].group = steps[i + 1].group /\ steps[i + 1].group # NoGroup})

FirstCall(s) == [NoCall EXCEPT !.file = s.file, !.overwrite = s.overwrite]

Dispatch ==
  /\ phase = "next"
  /\ IF at = Len(steps)
       THEN phase' = "judge" /\ UNCHANGED <<upTo, stage, call>>
       ELSE /\ phase' = "batch"
            /\ upTo' = BatchEnd(at)
            /\ stage' = [k \in Position |-> IF k \in (at + 1)..upTo' THEN "run" ELSE stage[k]]
            /\ call' = [k \in Position |->
                          IF k \in (at + 1)..upTo' THEN FirstCall(steps[k]) ELSE call[k]]
  /\ UNCHANGED <<inTask, steps, at, results, budget, outcome, spliced, fileVars, upload>>

Result(k, status) == [step |-> steps[k], status |-> status]
Batch == (at + 1)..upTo

(* Results of the steps in (from, to], in the order of the list. *)
ResultsOf(from, to, Verdict(_)) ==
  [i \in 1..(to - from) |-> Result(from + i, Verdict(from + i))]

(* gather returns once every member has, and results go in in list order.   *)
Gather ==
  /\ phase = "batch"
  /\ \A k \in Batch : stage[k] \in {"done", "failed"}
  /\ LET Verdict(k) == IF stage[k] = "done" THEN "COMPLETED" ELSE "FAILED"
         Skip(k) == "SKIPPED"
         got == results \o ResultsOf(at, upTo, Verdict)
     IN CASE \A k \in Batch : stage[k] = "done" -> phase' = "next" /\ results' = got
          [] (\E k \in Batch : stage[k] = "failed") /\ budget > 0 ->
               phase' = "replan" /\ results' = got
          [] OTHER ->
               phase' = "judge" /\ results' = got \o ResultsOf(upTo, Len(steps), Skip)
  /\ at' = upTo
  /\ UNCHANGED <<inTask, steps, upTo, budget, outcome, spliced, stepVars, fileVars, upload>>

(* Faulty variant of Splice: the failed batch's last step is dropped too. *)
SpliceTooEarly(c) == SubSeq(steps, 1, at - 1) \o c

(* The continuation takes the place of what is left. *)
Splice(c) == SubSeq(steps, 1, at) \o c

(* The planner gives a continuation, possibly an empty one. *)
Replan(c) ==
  /\ phase = "replan"
  /\ steps' = Splice(c) /\ spliced' = at
  /\ budget' = budget - 1
  /\ phase' = "next"
  /\ UNCHANGED <<inTask, at, upTo, results, outcome, stepVars, fileVars, upload>>

(* It raises instead: the rest is skipped. *)
ReplanFails ==
  LET Skip(k) == "SKIPPED" IN
  /\ phase = "replan"
  /\ results' = results \o ResultsOf(at, Len(steps), Skip)
  /\ phase' = "judge"
  /\ UNCHANGED <<inTask, steps, at, upTo, budget, outcome, spliced, stepVars, fileVars, upload>>

(* The success rule: something ran, nothing was skipped and the last step   *)
(* completed.                                                               *)
Succeeded ==
  /\ results # << >>
  /\ \A i \in DOMAIN results : results[i].status # "SKIPPED"
  /\ Last(results).status = "COMPLETED"

Judge ==
  /\ phase = "judge"
  /\ IF Succeeded THEN phase' = "answer" /\ UNCHANGED outcome
                  ELSE phase' = "over" /\ outcome' = "failure"
  /\ UNCHANGED <<inTask, steps, at, upTo, results, budget, spliced, stepVars, fileVars, upload>>

(* The answer is synthesized, or the model call raises. *)
Synthesize ==
  /\ phase = "answer"
  /\ phase' = "over" /\ outcome' \in {"success", "raised"}
  /\ UNCHANGED <<inTask, steps, at, upTo, results, budget, spliced, stepVars, fileVars, upload>>

-----------------------------------------------------------------------------
(* The coroutine of step k. *)

StepUnchanged == UNCHANGED <<inTask, execVars, upload>>

Move(k, s) == stage' = [stage EXCEPT ![k] = s] /\ UNCHANGED call

(* It returns or raises, and its locals are gone. *)
Ends(k, s) == stage' = [stage EXCEPT ![k] = s] /\ call' = [call EXCEPT ![k] = NoCall]

Writes(k) == call[k].file # NoFile

(* Who is between its put and its row. *)
Uploading(f) == upload.stage \in {"put", "register"} /\ upload.file = f
Unregistered(f) == {k \in Position : stage[k] = "register" /\ call[k].file = f}
Pending(f) == Uploading(f) \/ Unregistered(f) # {}

(* A step of another kind: _run_step catches whatever it raises. *)
OtherStep(k) ==
  /\ stage[k] = "run" /\ ~Writes(k)
  /\ \E s \in {"done", "failed"} : Ends(k, s)
  /\ UNCHANGED fileVars /\ StepUnchanged

(* A WorkspaceCollision: inside a task the user is asked. *)
Collide(k) ==
  IF inTask THEN Move(k, "ask") ELSE Ends(k, "failed")

(* Faulty variant of ReadLatest: the bytes are put before the check. *)
ReadLatestAfterPut(k) ==
  LET f == call[k].file IN
  /\ stage[k] = "run" /\ Writes(k)
  /\ IF Latest(f) = 0 \/ call[k].overwrite
       THEN /\ stage' = [stage EXCEPT ![k] = "put"]
            /\ call' = [call EXCEPT ![k].seen = Latest(f)]
            /\ UNCHANGED bytes
       ELSE Collide(k) /\ Put(f, k)
  /\ UNCHANGED <<rows, torn>> /\ StepUnchanged

(* The tool reads the latest row, and collides with it unless told to       *)
(* overwrite.                                                               *)
ReadLatest(k) ==
  LET f == call[k].file IN
  /\ stage[k] = "run" /\ Writes(k)
  /\ IF Latest(f) = 0 \/ call[k].overwrite
       THEN /\ stage' = [stage EXCEPT ![k] = "put"]
            /\ call' = [call EXCEPT ![k].seen = Latest(f)]
       ELSE Collide(k)
  /\ UNCHANGED fileVars /\ StepUnchanged

(* A ToolError, of the checks of the inputs, the artifact script or the     *)
(* storage path: a model is asked to repair the first, unless the call is   *)
(* the one that follows the overwrite question.                             *)
ToolErrorRaised(k) ==
  /\ stage[k] \in {"run", "put"} /\ Writes(k)
  /\ IF call[k].confirmed \/ call[k].attempt >= MaxAttempts
       THEN Ends(k, "failed")
       ELSE Move(k, "repair")
  /\ UNCHANGED fileVars /\ StepUnchanged

Repaired(k) ==
  /\ stage[k] = "repair"
  /\ \E f \in File, o \in BOOLEAN :
       call' = [call EXCEPT ![k].file = f, ![k].overwrite = o, ![k].attempt = @ + 1]
  /\ stage' = [stage EXCEPT ![k] = "run"]
  /\ UNCHANGED fileVars /\ StepUnchanged

(* The model gives up, proposes nothing or cannot be called. *)
RepairFails(k) ==
  /\ stage[k] = "repair" /\ Ends(k, "failed")
  /\ UNCHANGED fileVars /\ StepUnchanged

(* Faulty variant of Declined: the tool is run again, unchanged. *)
DeclinedRunsAgain(k) ==
  /\ stage[k] = "ask" /\ Move(k, "run")
  /\ UNCHANGED fileVars /\ StepUnchanged

(* The user says no, or ask_user raises. *)
Declined(k) ==
  /\ stage[k] = "ask" /\ Ends(k, "failed")
  /\ UNCHANGED fileVars /\ StepUnchanged

(* The user says yes: the tool runs again with the inputs of the plan and   *)
(* overwrite set; corrected inputs are forgotten.                           *)
Confirmed(k) ==
  /\ stage[k] = "ask"
  /\ call' = [call EXCEPT ![k].file = steps[k].file, ![k].overwrite = TRUE,
                          ![k].confirmed = TRUE]
  /\ stage' = [stage EXCEPT ![k] = "run"]
  /\ UNCHANGED fileVars /\ StepUnchanged

(* storage.put, in a thread that outlives a cancelled step. *)
PutBytes(k) ==
  LET f == call[k].file IN
  /\ Put(f, k)
  /\ \/ stage[k] = "put" /\ Move(k, "register")
     \/ stage[k] = "late" /\ Ends(k, "failed")
  /\ torn' = IF Pending(f) \/ stage[k] = "late" THEN torn \cup {f} ELSE torn
  /\ UNCHANGED rows /\ StepUnchanged

(* The row one version above the one it read; a writer that was quicker     *)
(* makes the INSERT raise, and the step fails with its bytes in place.      *)
RegisterRow(k) ==
  LET f == call[k].file
      v == call[k].seen + 1 IN
  /\ stage[k] = "register"
  /\ IF Insertable(f, v)
       THEN Register(f, v, k, call[k].overwrite) /\ Move(k, "embed") /\ UNCHANGED torn
       ELSE Ends(k, "failed") /\ torn' = torn \cup {f} /\ UNCHANGED rows
  /\ UNCHANGED bytes /\ StepUnchanged

(* Faulty variant of EmbedQueued: its failure goes through the recovery. *)
EmbedFailureRepaired(k) ==
  /\ stage[k] = "embed"
  /\ Ends(k, "done") \/ Move(k, "repair")
  /\ UNCHANGED fileVars /\ StepUnchanged

(* write_doc enqueues the embedding; no queue is no ToolError, and the step *)
(* fails with its row in place.                                             *)
EmbedQueued(k) ==
  /\ stage[k] = "embed"
  /\ \E s \in {"done", "failed"} : Ends(k, s)
  /\ UNCHANGED fileVars /\ StepUnchanged

(* Any other exception: storage or database out of reach. *)
Breaks(k) ==
  /\ stage[k] \in {"run", "put", "register"} /\ Writes(k)
  /\ Ends(k, "failed")
  /\ torn' = IF stage[k] = "register" THEN torn \cup {call[k].file} ELSE torn
  /\ UNCHANGED <<rows, bytes>> /\ StepUnchanged

(* The request is cancelled: every await of the execution raises a          *)
(* CancelledError.                                                          *)
Cancel ==
  /\ phase # "over"
  /\ phase' = "over" /\ outcome' = "raised"
  /\ stage' = [k \in Position |->
                 CASE stage[k] = "put" -> "late"
                   [] stage[k] \in {"run", "ask", "repair", "register", "embed"} -> "failed"
                   [] OTHER -> stage[k]]
  /\ call' = [k \in Position |-> IF stage[k] = "put" THEN call[k] ELSE NoCall]
  /\ torn' = torn \cup {f \in File : Unregistered(f) # {}}
  /\ UNCHANGED <<inTask, steps, at, upTo, results, budget, spliced, rows, bytes, upload>>

-----------------------------------------------------------------------------
(* The user's upload: bytes first, the row by a second request, which reads *)
(* the latest version only then.                                            *)

UploadUnchanged == UNCHANGED <<inTask, execVars, stepVars>>

UploadPut ==
  LET f == upload.file IN
  /\ upload.stage = "none"
  /\ Put(f, Upload)
  /\ torn' = IF Pending(f) THEN torn \cup {f} ELSE torn
  /\ upload' = [upload EXCEPT !.stage = "put"]
  /\ UNCHANGED rows /\ UploadUnchanged

UploadRead ==
  /\ upload.stage = "put"
  /\ upload' = [upload EXCEPT !.stage = "register", !.seen = Latest(upload.file)]
  /\ UNCHANGED fileVars /\ UploadUnchanged

UploadRegister ==
  LET f == upload.file IN
  /\ upload.stage = "register"
  /\ IF Insertable(f, upload.seen + 1)
       THEN Register(f, upload.seen + 1, Upload, TRUE) /\ UNCHANGED torn
       ELSE torn' = torn \cup {f} /\ UNCHANGED rows
  /\ upload' = [upload EXCEPT !.stage = "done"]
  /\ UNCHANGED bytes /\ UploadUnchanged

-----------------------------------------------------------------------------
StepOf(k) ==
  \/ OtherStep(k) \/ ReadLatest(k) \/ ToolErrorRaised(k)
  \/ Repaired(k) \/ RepairFails(k) \/ Declined(k) \/ Confirmed(k)
  \/ PutBytes(k) \/ RegisterRow(k) \/ EmbedQueued(k) \/ Breaks(k)

Execute ==
  \/ Start \/ Dispatch \/ Gather \/ ReplanFails \/ Judge \/ Synthesize
  \/ \E c \in Continuations : Replan(c)

Next ==
  \/ Execute \/ Cancel
  \/ \E k \in Position : StepOf(k)
  \/ UploadPut \/ UploadRead \/ UploadRegister

Spec == Init /\ [][Next]_vars

(* Calls of models, tools and storage return, and ask_user answers or times *)
(* out (TaskLifecycle, RunsEnd).  Nothing obliges the user to register an   *)
(* upload or to cancel.                                                     *)
FairSpec == Spec /\ WF_vars(Execute) /\ \A k \in Position : WF_vars(StepOf(k))

-----------------------------------------------------------------------------
(* Properties. *)

Failed == {i \in DOMAIN results : results[i].status = "FAILED"}

(* Through batches, a splice and a premature end, the results stay those of *)
(* the list, in its order, and cover it when execute judges them.           *)
ResultsMatchPlan ==
  /\ \A i \in DOMAIN results : i \in DOMAIN steps /\ results[i].step = steps[i]
  /\ phase \in {"judge", "answer"} => Len(results) = Len(steps)

(* A step runs only if no step before it failed, or a continuation replaced *)
(* what followed the one batch with failures; then there is no second.      *)
StopsAtFailure ==
  phase \in {"next", "batch"} =>
    /\ \A i \in DOMAIN results : results[i].status # "SKIPPED"
    /\ \A i \in Failed : i <= spliced
    /\ spliced > 0 => budget < MaxReplans
    /\ \A i, j \in Failed : i < j =>
         steps[i].group = steps[j].group /\ steps[i].group # NoGroup

(* The execution follows its plan. *)
PlanFollowed == TypeOK /\ ResultsMatchPlan /\ StopsAtFailure

(* A step leaves at most one version of one file behind, whatever repairs,  *)
(* questions and retries its call went through, and exactly one when it     *)
(* completed.                                                               *)
MadeBy(k) == {f \in File : \E r \in rows[f] : r.by = k}
OneVersionPerStep ==
  \A k \in Position :
    /\ Cardinality(MadeBy(k)) <= 1
    /\ \A f \in File : Cardinality({r \in rows[f] : r.by = k}) <= 1
    /\ stage[k] = "done" /\ steps[k].file # NoFile => MadeBy(k) # {}

(* Whoever races for a file, its versions are numbered 1, 2, 3, ... with    *)
(* none twice, so that each row supersedes exactly the one below.           *)
HistoryIsLinear == \A f \in File : Versions(f) = 1..Cardinality(rows[f])

(* write_doc: "By default, rejects writes when a file with the same name    *)
(* already exists".  A row of a step that supersedes another was registered *)
(* by a call with overwrite set, even if the other row came after the check.*)
ReplacedWithLeave ==
  \A f \in File : \A r \in rows[f] : r.version > 1 => r.leave

(* The versions of a file are a line, and each is one that was to be. *)
VersionsOK == HistoryIsLinear /\ ReplacedWithLeave

(* The bytes under a filename are those of its latest row, unless a writer  *)
(* has yet to register its own, or two of them overlapped, or one ended     *)
(* between its bytes and its row.                                           *)
LatestDescribesBytes ==
  \A f \in File : Faithful(f) \/ f \in torn \/ Pending(f)

(* Every execution returns or raises. *)
ExecutionEnds == <>(phase = "over")
=============================================================================
