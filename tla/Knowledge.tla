------------------------------ MODULE Knowledge ------------------------------
(***************************************************************************)
(* What one user's agent learns: the outcome and the score of its plans    *)
(* (memory/procedural.py), the skills distilled from good ones             *)
(* (agents/skill_distiller.py, memory/skills.py), the tools it writes and  *)
(* the user approves (agents/tool_creator.py, memory/tools.py), and the    *)
(* sleep cycle that grades old plans again and retires near-duplicate      *)
(* skills (workers/jobs/sleep_cycle.py).  An embedding is a place on a     *)
(* line, similarity is nearness.  Every statement is a transaction of its  *)
(* own; runs and passes of the sleep cycle interleave between any two.  A  *)
(* step that writes a tool meets the user's reply only at its question's   *)
(* row, and asks at most once: its question goes by the step's name.       *)
(***************************************************************************)
EXTENDS Integers, Sequences, FiniteSets

CONSTANTS
  Run,                          \* executions of a plan
  Maker,                        \* steps that write a tool
  Pass,                         \* sleep cycles: the weekly one, one started by hand
  Place,                        \* embeddings
  Near, Same,                   \* distances below the two dedup thresholds
  Seeded,                       \* places of the starter skills
  Starts,                       \* bound: the skills there are, oldest first, and
                                \* the runs, steps and passes that there will be
  Name, Builtin,                \* names of tools, those of the registry
  Scores, EmitMin,              \* grades, and the least that is distilled
  MaxFaults                     \* bound: calls and writes that fail, processes that die

Skill == [at : Place, score : Scores, by : Nat]

(* Of the skills of q, h is preferred to i: the higher score, on a tie the newer. *)
Better(q, h, i) ==
  q[h].score > q[i].score \/ (q[h].score = q[i].score /\ h > i)

ASSUME KnowledgeAssumption ==
  /\ Place \subseteq Nat /\ Seeded \subseteq Place
  /\ Near \in Nat /\ Same \in 0..Near
  /\ Name # {} /\ Builtin \subseteq Name
  /\ Scores \subseteq Nat /\ EmitMin \in Nat
  /\ MaxFaults \in Nat
  /\ \A s \in Starts :         \* whatever is retired already has a better heir
       /\ s.skill \in Seq(Skill)
       /\ \A i \in DOMAIN s.skill : s.skill[i].by # 0 =>
            s.skill[i].by \in DOMAIN s.skill /\ Better(s.skill, s.skill[i].by, i)

Unplaced == -1                  \* the embedder failed
NoScore == -1

VARIABLES
  plan,                         \* rows of `plans`
  skill,                        \* the user's rows of `skills`, oldest first
  tool,                         \* the user's rows of `tools`
  run, maker, pass,             \* where each run, tool_creator step and pass stands
  question, clock,              \* the rows of PendingQuestions
  assent,                       \* pending_questions.answer is one of the words for yes
  ran,                          \* history: the makers whose code was dispatched
  faults

INSTANCE PendingQuestions WITH Question <- Maker

askVars == <<question, clock, assent>>
toolVars == <<tool, maker, askVars, ran>>
skillVars == <<plan, skill, run, pass>>
vars == <<toolVars, skillVars, faults>>

RunStage == {"absent", "idle", "executing", "executed", "scoring", "distilling",
             "emitting", "described", "ended"}
MakerStage == {"absent", "idle", "drafted", "storing", "asking", "delivering", "waiting",
               "leaving", "deciding", "returned"}
PassStage == {"absent", "idle", "rescoring", "listing", "scanning", "marking", "done", "bailed"}
Tool == [name : Name, at : Place \cup {Unplaced}, code : Maker,
         status : {"proposed", "approved", "rejected"}]

TypeOK ==
  /\ plan \in [Run -> [answer : BOOLEAN, score : Scores \cup {NoScore}]]
  /\ skill \in Seq(Skill) /\ tool \in Seq(Tool)
  /\ run \in [Run -> [pc : RunStage, inline : BOOLEAN, long : BOOLEAN,
                      verdict : Scores \cup {NoScore}, at : Place \cup {Unplaced}]]
  /\ maker \in [Maker -> [pc : MakerStage, name : Name, at : Place \cup {Unplaced},
                          row : 0..Len(tool), yes : BOOLEAN]]
  /\ pass \in [Pass -> [pc : PassStage, plans : SUBSET Run, todo : SUBSET DOMAIN skill,
                        pair : [loser : 0..Len(skill), survivor : 0..Len(skill)],
                        seen : 0..Len(skill)]]
  /\ QuestionsTypeOK /\ assent \in [Maker -> BOOLEAN]
  /\ ran \subseteq Maker
  /\ faults \in 0..MaxFaults

AnyName == CHOOSE n \in Name : TRUE
NoPair == [loser |-> 0, survivor |-> 0]
RunAt(s) == [pc |-> s, inline |-> FALSE, long |-> FALSE, verdict |-> NoScore, at |-> Unplaced]
MakerAt(s) == [pc |-> s, name |-> AnyName, at |-> Unplaced, row |-> 0, yes |-> FALSE]
PassAt(s) == [pc |-> s, plans |-> {}, todo |-> {}, pair |-> NoPair, seen |-> 0]

Init ==
  /\ plan = [r \in Run |-> [answer |-> FALSE, score |-> NoScore]]
  /\ tool = << >>
  /\ \E s \in Starts :
       /\ skill = s.skill
       /\ run = [r \in Run |-> RunAt(IF r \in s.runs THEN "idle" ELSE "absent")]
       /\ maker = [m \in Maker |-> MakerAt(IF m \in s.makers THEN "idle" ELSE "absent")]
       /\ pass = [p \in Pass |-> PassAt(IF p \in s.passes THEN "idle" ELSE "absent")]
  /\ QuestionsInit /\ assent = [m \in Maker |-> FALSE]
  /\ ran = {} /\ faults = 0

Fault == faults < MaxFaults /\ faults' = faults + 1
At(r, s) == run[r].pc = s
In(m, s) == maker[m].pc = s
Dist(a, b) == IF a <= b THEN b - a ELSE a - b

Active == {i \in DOMAIN skill : skill[i].by = 0}
Approved == {i \in DOMAIN tool : tool[i].status = "approved"}

-----------------------------------------------------------------------------
(* Faulty variant of UpdateOutcome: all the columns are written. *)
UpdateEveryColumn(r, answer, score) ==
  plan' = [plan EXCEPT ![r] = [answer |-> answer, score |-> score]]

(* update_outcome writes the fields it is given and no others. *)
UpdateOutcome(r, answer, score) ==
  plan' = [plan EXCEPT ![r] = [answer |-> @.answer \/ answer,
                               score |-> IF score = NoScore THEN @.score ELSE score]]

(* A plan was drafted and stored, and is executed inline or as a task.  It  *)
(* may be longer than the executor takes (_MAX_STEPS).                      *)
Begin(r, inline, long) ==
  /\ At(r, "idle")
  /\ run' = [run EXCEPT ![r].pc = "executing", ![r].inline = inline, ![r].long = long]
  /\ UNCHANGED <<plan, skill, pass, toolVars, faults>>

(* The outcome is stored, best-effort; the one of a plan that is too long   *)
(* is returned before any is stored, and its caller goes on as with others. *)
Finish(r) ==
  /\ At(r, "executing")
  /\ \/ run[r].long /\ UNCHANGED <<plan, faults>>
     \/ ~run[r].long /\ UpdateOutcome(r, TRUE, NoScore) /\ UNCHANGED faults
     \/ ~run[r].long /\ UNCHANGED plan /\ Fault
  /\ run' = [run EXCEPT ![r].pc = "executed"]
  /\ UNCHANGED <<skill, pass, toolVars>>

-----------------------------------------------------------------------------
(* The router distills before it stores the score, the task service after.  *)
AfterScore(r) == IF run[r].inline THEN "ended" ELSE "distilling"
AfterDistill(r) == IF run[r].inline THEN "scoring" ELSE "ended"

(* The score of a run is still to be written. *)
Unscored(r) ==
  \/ run[r].pc \in {"absent", "idle", "executing", "executed", "scoring"}
  \/ run[r].inline /\ run[r].pc \in {"distilling", "emitting", "described"}

(* The post-evaluator; without a verdict nothing follows. *)
Grade(r) ==
  /\ At(r, "executed")
  /\ \/ \E v \in Scores :
          run' = [run EXCEPT ![r].verdict = v,
                             ![r].pc = IF run[r].inline THEN "distilling" ELSE "scoring"]
        /\ UNCHANGED faults
     \/ run' = [run EXCEPT ![r].pc = "ended"] /\ Fault
  /\ UNCHANGED <<plan, skill, pass, toolVars>>

WriteScore(r) ==
  /\ At(r, "scoring")
  /\ \/ UpdateOutcome(r, FALSE, run[r].verdict) /\ UNCHANGED faults
     \/ UNCHANGED plan /\ Fault
  /\ run' = [run EXCEPT ![r].pc = AfterScore(r)]
  /\ UNCHANGED <<skill, pass, toolVars>>

(* Is a skill like the request known, the user's or a starter one? *)
NearKnown(q) ==
  \E a \in {skill[i].at : i \in Active} \cup Seeded : Dist(a, q) <= Near

(* maybe_distill_skill up to the dedup: the score, the plan's shape, and    *)
(* the request's embedding against the skills there are.  A search that     *)
(* fails finds none, an embedder that fails ends it.                        *)
Distill(r, q) ==
  LET to(s) == run' = [run EXCEPT ![r].pc = s] IN
  /\ At(r, "distilling")
  /\ \/ to(AfterDistill(r)) /\ UNCHANGED faults
     \/ run[r].verdict >= EmitMin /\ ~NearKnown(q) /\ to("emitting")
        /\ UNCHANGED faults
     \/ run[r].verdict >= EmitMin /\ NearKnown(q) /\ to("emitting") /\ Fault
  /\ UNCHANGED <<plan, skill, pass, toolVars>>

StoreEmitted(at, score) == skill' = Append(skill, [at |-> at, score |-> score, by |-> 0])

(* The model is made to describe the skill, and the description is embedded *)
(* anew; without either nothing is stored.                                  *)
Describe(r, at) ==
  /\ At(r, "emitting")
  /\ \/ run' = [run EXCEPT ![r].pc = "described", ![r].at = at]
     \/ run' = [run EXCEPT ![r].pc = AfterDistill(r)]
  /\ UNCHANGED <<plan, skill, pass, toolVars, faults>>

Emit(r) ==
  /\ At(r, "described")
  /\ \/ StoreEmitted(run[r].at, run[r].verdict) /\ UNCHANGED faults
     \/ UNCHANGED skill /\ Fault
  /\ run' = [run EXCEPT ![r].pc = AfterDistill(r), ![r].at = Unplaced]
  /\ UNCHANGED <<plan, pass, toolVars>>

(* The process of a run stops: nothing of it is taken up again here, and a  *)
(* task that is run again drafts another plan.                              *)
Die(r) ==
  /\ run[r].pc \notin {"absent", "idle", "ended"} /\ Fault
  /\ run' = [run EXCEPT ![r].pc = "ended", ![r].at = Unplaced]
  /\ UNCHANGED <<plan, skill, pass, toolVars>>

-----------------------------------------------------------------------------
(* create_tool: the model drafts a tool, and its description is embedded. *)
DraftTool(m, n, at) ==
  /\ In(m, "idle")
  /\ IF at = Unplaced THEN Fault ELSE UNCHANGED faults
  /\ maker' = [maker EXCEPT ![m].pc = "drafted", ![m].name = n, ![m].at = at]
  /\ UNCHANGED <<tool, askVars, ran, skillVars>>

(* search_by_task: the approved tools whose embedding is near. *)
NearTools(m) ==
  {i \in Approved : /\ tool[i].at # Unplaced /\ maker[m].at # Unplaced
                    /\ Dist(tool[i].at, maker[m].at) <= Near}

(* One of the approved tools that is near ends the step as a duplicate;     *)
(* without an embedding, or with a search that fails, there is none.        *)
DedupTool(m) ==
  /\ In(m, "drafted")
  /\ \/ /\ maker' = [maker EXCEPT ![m] = IF NearTools(m) = {} THEN [@ EXCEPT !.pc = "storing"]
                                                    ELSE MakerAt("returned")]
        /\ UNCHANGED faults
     \/ NearTools(m) # {} /\ maker' = [maker EXCEPT ![m].pc = "storing"] /\ Fault
  /\ UNCHANGED <<tool, askVars, ran, skillVars>>

Proposal(m) == [name |-> maker[m].name, at |-> maker[m].at, code |-> m, status |-> "proposed"]
Stored(m, i) == maker' = [maker EXCEPT ![m].pc = "asking", ![m].row = i, ![m].at = Unplaced]
Return(m) == maker' = [maker EXCEPT ![m] = MakerAt("returned")]

(* Faulty variant of StoreProposed: a proposal of a name that was proposed  *)
(* before replaces it.                                                      *)
StoreOrReplace(m) ==
  LET old == {i \in DOMAIN tool : tool[i].name = maker[m].name} IN
  /\ In(m, "storing")
  /\ \/ old = {} /\ tool' = Append(tool, Proposal(m)) /\ Stored(m, Len(tool) + 1)
     \/ \E i \in old : tool' = [tool EXCEPT ![i] = Proposal(m)] /\ Stored(m, i)
  /\ UNCHANGED <<askVars, ran, skillVars, faults>>

(* store_proposed: a name is taken by any row the user has, whatever its    *)
(* status; the step fails.                                                  *)
StoreProposed(m) ==
  /\ In(m, "storing")
  /\ IF \E i \in DOMAIN tool : tool[i].name = maker[m].name
       THEN Return(m) /\ UNCHANGED tool
       ELSE tool' = Append(tool, Proposal(m)) /\ Stored(m, Len(tool) + 1)
  /\ UNCHANGED <<askVars, ran, skillVars, faults>>

-----------------------------------------------------------------------------
Goes(m, s) == maker' = [maker EXCEPT ![m].pc = s]

(* ask_user writes the question's row, parks the task and logs the event.   *)
(* A failure behind the insert leaves a row that nobody waits for; without  *)
(* a task the call is refused.                                              *)
AskUser(m) ==
  /\ In(m, "asking")
  /\ \/ InsertQuestion(m) /\ Goes(m, "delivering") /\ UNCHANGED faults
     \/ InsertQuestion(m) /\ Return(m) /\ Fault
     \/ Return(m) /\ UNCHANGED <<question, faults>>
  /\ UNCHANGED <<tool, clock, assent, ran, skillVars>>

(* _deliver, best-effort.  There may be no channel, its send may fail, and  *)
(* the Telegram client cuts what is longer than one message: in each case   *)
(* the step waits like any other, its question is open from the insert on,  *)
(* and nothing that is kept tells how much of it the user got.              *)
Deliver(m) ==
  /\ In(m, "delivering") /\ Goes(m, "waiting")
  /\ UNCHANGED <<tool, askVars, ran, skillVars, faults>>

(* The UPDATE of mark_answered: the reply goes in with the status. *)
TakeReply(m, yes) ==
  /\ MarkAnswered(m)
  /\ assent' = IF question[m] = "pending" THEN [assent EXCEPT ![m] = yes] ELSE assent
  /\ UNCHANGED <<tool, maker, clock, ran, skillVars, faults>>

(* The user's next message in Telegram answers an open question, of those   *)
(* the one that expires first: not always the one that was asked last.      *)
TelegramMessage(m, yes) == m \in OpenForUser /\ TakeReply(m, yes)

(* POST /answer names the question, and asks nothing about its expiry. *)
PostAnswer(m, yes) == question[m] # "absent" /\ TakeReply(m, yes)

(* Time passes: expires_at, and later the deadline of whoever waits. *)
Lapse(m) ==
  /\ question[m] # "absent"
  /\ \/ clock[m] = "open" /\ clock' = [clock EXCEPT ![m] = "past"]
     \/ clock[m] = "past" /\ In(m, "waiting") /\ clock' = [clock EXCEPT ![m] = "deadline"]
  /\ UNCHANGED <<tool, maker, question, assent, ran, skillVars, faults>>

(* wait_for_answer finds the row answered; the answer is read once. *)
Resume(m) ==
  /\ In(m, "waiting") /\ question[m] = "answered"
  /\ maker' = [maker EXCEPT ![m].pc = "deciding", ![m].yes = assent[m]]
  /\ UNCHANGED <<tool, askVars, ran, skillVars, faults>>

(* It finds it pending once more, behind the deadline. *)
GiveUp(m) ==
  /\ In(m, "waiting") /\ question[m] = "pending" /\ clock[m] = "deadline"
  /\ Goes(m, "leaving")
  /\ UNCHANGED <<tool, askVars, ran, skillVars, faults>>

(* mark_timeout, which an answer may have forestalled; then ask_user raises *)
(* and the row of the tool stays proposed.                                  *)
Leave(m) ==
  /\ In(m, "leaving") /\ Return(m)
  /\ \/ MarkTimeout(m) /\ UNCHANGED faults
     \/ UNCHANGED question /\ Fault
  /\ UNCHANGED <<tool, clock, assent, ran, skillVars>>

(* mark_approved, mark_rejected: only a proposed row moves. *)
Decide(i, yes) ==
  tool' = [tool EXCEPT ![i].status = IF @ # "proposed" THEN @ ELSE
                                     IF yes THEN "approved" ELSE "rejected"]

(* The answer is written down; a write that fails is logged. *)
MarkDecision(m) ==
  /\ In(m, "deciding")
  /\ \/ Decide(maker[m].row, maker[m].yes) /\ UNCHANGED faults
     \/ UNCHANGED tool /\ Fault
  /\ Return(m)
  /\ UNCHANGED <<askVars, ran, skillVars>>

(* The process of the step stops; a task that is run again drafts anew.     *)
Abandon(m) ==
  /\ maker[m].pc \notin {"absent", "idle", "returned"} /\ Fault
  /\ Return(m)
  /\ UNCHANGED <<tool, askVars, ran, skillVars>>

(* _resolve_tool: the registry comes first, then the user's approved tools. *)
Resolvable == {i \in Approved : tool[i].name \notin Builtin}

(* A step dispatches a tool of the user's: its code runs in the sandbox. *)
UseTool ==
  /\ \E i \in Resolvable : ran' = ran \cup {tool[i].code}
  /\ UNCHANGED <<tool, maker, askVars, skillVars, faults>>

-----------------------------------------------------------------------------
(* The sleep cycle.  First it takes old plans with an answer and a score.   *)
WakeUp(p) ==
  /\ pass[p].pc = "idle"
  /\ \E P \in SUBSET {r \in Run : plan[r].answer /\ plan[r].score # NoScore} :
       pass' = [pass EXCEPT ![p].pc = "rescoring", ![p].plans = P]
  /\ UNCHANGED <<plan, skill, run, toolVars, faults>>

(* Each is graded anew; one that fails does not stop the batch. *)
Rescore(p, r) ==
  /\ pass[p].pc = "rescoring" /\ r \in pass[p].plans
  /\ \/ \E v \in Scores : UpdateOutcome(r, FALSE, v) /\ UNCHANGED faults
     \/ UNCHANGED plan /\ Fault
  /\ pass' = [pass EXCEPT ![p].plans = @ \ {r}]
  /\ UNCHANGED <<skill, run, toolVars>>

Rescored(p) ==
  /\ pass[p].pc = "rescoring" /\ pass[p].plans = {}
  /\ pass' = [pass EXCEPT ![p].pc = "listing"]
  /\ UNCHANGED <<plan, skill, run, toolVars, faults>>

(* _consolidate_user_skills reads the active skills. *)
ListActive(p) ==
  /\ pass[p].pc = "listing"
  /\ \/ /\ Cardinality(Active) < 2
        /\ pass' = [pass EXCEPT ![p].pc = "done", ![p].seen = Len(skill)]
     \/ /\ Cardinality(Active) >= 2
        /\ pass' = [pass EXCEPT ![p].pc = "scanning", ![p].todo = Active,
                                ![p].seen = Len(skill)]
  /\ UNCHANGED <<plan, skill, run, toolVars, faults>>

(* Faulty variant of PickSurvivor: on a tie the one looked at first stays. *)
PickFirst(i, j) ==
  IF skill[j].score > skill[i].score THEN [loser |-> i, survivor |-> j]
                                     ELSE [loser |-> j, survivor |-> i]

(* _pick_survivor: the better of the two. *)
PickSurvivor(i, j) ==
  IF Better(skill, j, i) THEN [loser |-> i, survivor |-> j]
                         ELSE [loser |-> j, survivor |-> i]

(* The active skills next to skill i, by a read of their own. *)
Neighbours(i) ==
  {j \in Active \ {i} : \A k \in Active \ {i} :
                          Dist(skill[i].at, skill[j].at) <= Dist(skill[i].at, skill[k].at)}

(* _find_supersession_pair, oldest first: the nearest neighbour of the next *)
(* skill listed; the first pair that is near enough is taken.               *)
Scan(p) ==
  /\ pass[p].pc = "scanning"
  /\ \E i \in pass[p].todo :
       LET twins == {j \in Neighbours(i) : Dist(skill[i].at, skill[j].at) <= Same} IN
       /\ \A k \in pass[p].todo : i <= k
       /\ \/ \E j \in twins : pass' = [pass EXCEPT ![p].pc = "marking", ![p].todo = {},
                                                  ![p].pair = PickSurvivor(i, j)]
          \/ /\ twins = {}
             /\ pass' = [pass EXCEPT ![p].todo = @ \ {i},
                                     ![p].pc = IF pass[p].todo = {i} THEN "done" ELSE @]
  /\ UNCHANGED <<plan, skill, run, toolVars, faults>>

(* mark_superseded: the loser must still be active, of the survivor nothing *)
(* is asked.  A pass that lost the race, or whose write failed, gives up.   *)
MarkSuperseded(p) ==
  LET l == pass[p].pair.loser IN
  /\ pass[p].pc = "marking"
  /\ \/ /\ skill[l].by = 0
        /\ skill' = [skill EXCEPT ![l].by = pass[p].pair.survivor]
        /\ pass' = [pass EXCEPT ![p].pc = "listing", ![p].pair = NoPair]
        /\ UNCHANGED faults
     \/ /\ IF skill[l].by = 0 THEN Fault ELSE UNCHANGED faults
        /\ pass' = [pass EXCEPT ![p].pc = "bailed", ![p].pair = NoPair]
        /\ UNCHANGED skill
  /\ UNCHANGED <<plan, run, toolVars>>

-----------------------------------------------------------------------------
RunStep(r) ==
  \/ \E inline, long \in BOOLEAN : Begin(r, inline, long)
  \/ Finish(r) \/ Grade(r) \/ WriteScore(r)
  \/ \E q \in Place : Distill(r, q) \/ Describe(r, q)
  \/ Emit(r) \/ Die(r)

MakerStep(m) ==
  \/ \E n \in Name, at \in Place \cup {Unplaced} : DraftTool(m, n, at)
  \/ DedupTool(m) \/ StoreProposed(m)
  \/ AskUser(m) \/ Deliver(m) \/ Resume(m) \/ GiveUp(m) \/ Leave(m)
  \/ MarkDecision(m) \/ Abandon(m)

(* What happens to the question of a step that asked. *)
QuestionStep(m) ==
  \/ \E yes \in BOOLEAN : TelegramMessage(m, yes) \/ PostAnswer(m, yes)
  \/ Lapse(m)

PassStep(p) ==
  \/ WakeUp(p) \/ \E r \in Run : Rescore(p, r)
  \/ Rescored(p) \/ ListActive(p) \/ Scan(p) \/ MarkSuperseded(p)

Next == \/ \E r \in Run : RunStep(r)
        \/ \E m \in Maker : MakerStep(m) \/ QuestionStep(m)
        \/ UseTool
        \/ \E p \in Pass : PassStep(p)

Spec == Init /\ [][Next]_vars

-----------------------------------------------------------------------------
(* Where nothing failed, a plan that was run and graded has a score, and    *)
(* the answer of its execution unless it was too long for one, in whatever  *)
(* order the executor, the evaluator and the sleep cycle wrote them.  And a *)
(* run that is yet to write its score finds none there, so that a verdict   *)
(* that comes late never replaces a newer one of the sleep cycle            *)
(* (procedural.py, update_outcome; sleep_cycle.py, _rescore_old_plans).     *)
OutcomeKept ==
  /\ TypeOK
  /\ \A r \in Run : faults = 0 /\ At(r, "ended") =>
       plan[r].score # NoScore /\ (plan[r].answer <=> ~run[r].long)
  /\ \A r \in Run : Unscored(r) => plan[r].score = NoScore

(* The questions that were answered with a yes. *)
SaidYes == {m \in Maker : question[m] = "answered" /\ assent[m]}

(* No code runs as a tool but such as the user said yes to in answer to the *)
(* question about it: with steps that propose tools of one name, replies    *)
(* that come late, twice or to a question that was given up, and rows that  *)
(* outlive their step.  How much of the code the user saw is another matter *)
(* (tool_creator.py, create_tool; pending_questions.py, mark_answered;      *)
(* executor.py, _resolve_tool).                                             *)
OnlyApprovedCodeRuns ==
  /\ ran \subseteq SaidYes
  /\ \A i \in Approved : tool[i].code \in SaidYes

(* Retiring skills loses none: from every retired one the survivors lead to *)
(* an active one, that is no set of retired skills refers only to itself,   *)
(* with passes that interleave and act on what they read before.            *)
EverySkillHasHeir ==
  \A S \in SUBSET (DOMAIN skill \ Active) :
     S # {} => \E i \in S : skill[i].by \notin S

(* A pass that ended of itself leaves no two active skills that are the     *)
(* same, except with ones stored since it last read the list.               *)
CleanPassLeavesNoTwins ==
  \A p \in Pass : pass[p].pc = "done" =>
     \A i, j \in Active \cap 1..pass[p].seen :
        i # j => Dist(skill[i].at, skill[j].at) > Same

(* Consolidation merges what is the same, and loses nothing. *)
SkillsConsolidate == EverySkillHasHeir /\ CleanPassLeavesNoTwins
=============================================================================
