--------------------------- MODULE Knowledge_proofs ---------------------------
(***************************************************************************)
(* What the agent learns stays sound: an outcome is kept, only approved    *)
(* code runs, consolidation loses no skill.  For any number of runs, tool  *)
(* steps, passes of the sleep cycle, skills and embeddings.                *)
(***************************************************************************)
EXTENDS Knowledge, FiniteSetTheorems, SequenceTheorems, WellFoundedInduction, TLAPS

-----------------------------------------------------------------------------
(* The inductive invariant. *)

Over == {"executed", "scoring", "distilling", "emitting", "described", "ended"}
Distilling == {"distilling", "emitting", "described"}

(* Where a run stands says what its plan has by now: the answer once it is  *)
(* executed, if it was short enough, and the score once it is written,      *)
(* before the distiller of a task and after the one of an inline run.  None *)
(* has either before.                                                       *)
OutcomesStand ==
  \A r \in Run :
    /\ run[r].pc \in {"scoring"} \cup Distilling => run[r].verdict \in Scores
    /\ run[r].pc = "described" => run[r].at \in Place
    /\ plan[r].answer => run[r].pc \in Over /\ ~run[r].long
    /\ Unscored(r) => plan[r].score = NoScore
    /\ faults = 0 =>
         /\ run[r].pc \in Over /\ ~run[r].long => plan[r].answer
         /\ run[r].pc = "ended" => plan[r].score # NoScore
         /\ run[r].pc \in Distilling /\ ~run[r].inline => plan[r].score # NoScore

(* What a sleep cycle is about to grade again has a score. *)
PlansPicked == \A p \in Pass : \A x \in pass[p].plans : plan[x].score # NoScore

Unasked == {"absent", "idle", "drafted", "storing", "asking"}
Owning == {"asking", "delivering", "waiting", "leaving", "deciding"}

(* A step that asks about a row asks about its own code, in a question that *)
(* is new when it asks; the yes it goes by is that question's.              *)
ToolsKept ==
  /\ OnlyApprovedCodeRuns
  /\ \A m \in Maker :
       /\ maker[m].pc \in Unasked => question[m] = "absent"
       /\ maker[m].pc \in Owning =>
            maker[m].row \in DOMAIN tool /\ tool[maker[m].row].code = m
       /\ maker[m].pc = "deciding" /\ maker[m].yes => m \in SaidYes

(* A skill is retired in favour of a better one, whoever it is by then. *)
HeirsKept ==
  /\ \A i \in DOMAIN skill : skill[i].by # 0 =>
       skill[i].by \in DOMAIN skill /\ Better(skill, skill[i].by, i)
  /\ \A p \in Pass : pass[p].pc = "marking" =>
       /\ pass[p].pair.loser \in DOMAIN skill /\ pass[p].pair.survivor \in DOMAIN skill
       /\ Better(skill, pass[p].pair.survivor, pass[p].pair.loser)

(* What a scan has been through has no twin among what it listed. *)
TwinsKept ==
  \A p \in Pass :
    /\ pass[p].pc # "scanning" => pass[p].todo = {}
    /\ pass[p].pc \in {"scanning", "done"} =>
         \A i \in (Active \cap 1..pass[p].seen) \ pass[p].todo :
         \A j \in Active \cap 1..pass[p].seen :
           i # j => Dist(skill[i].at, skill[j].at) > Same

KnowInv == TypeOK /\ OutcomesStand /\ PlansPicked /\ ToolsKept /\ HeirsKept /\ TwinsKept

-----------------------------------------------------------------------------
(* The conjuncts of TypeOK, by what an action touches. *)

RunRow == [pc : RunStage, inline : BOOLEAN, long : BOOLEAN,
           verdict : Scores \cup {NoScore}, at : Place \cup {Unplaced}]
PlanRow == [answer : BOOLEAN, score : Scores \cup {NoScore}]
MakerRow == [pc : MakerStage, name : Name, at : Place \cup {Unplaced},
             row : 0..Len(tool), yes : BOOLEAN]
PassRow == [pc : PassStage, plans : SUBSET Run, todo : SUBSET DOMAIN skill,
            pair : [loser : 0..Len(skill), survivor : 0..Len(skill)],
            seen : 0..Len(skill)]

PlanTyped == plan \in [Run -> PlanRow]
SkillTyped == skill \in Seq(Skill)
RunTyped == run \in [Run -> RunRow]
PassTyped == pass \in [Pass -> PassRow]
AskTyped == /\ QuestionsTypeOK /\ assent \in [Maker -> BOOLEAN]
ToolTyped == /\ tool \in Seq(Tool) /\ maker \in [Maker -> MakerRow]
             /\ AskTyped /\ ran \subseteq Maker
FaultsTyped == faults \in 0..MaxFaults

LEMMA TypeParts ==
  TypeOK <=> PlanTyped /\ SkillTyped /\ RunTyped /\ PassTyped /\ ToolTyped /\ FaultsTyped
  BY DEF TypeOK, PlanTyped, SkillTyped, RunTyped, PassTyped, ToolTyped, FaultsTyped,
         AskTyped, RunRow, PlanRow, MakerRow, PassRow

LEMMA TypePartsNext ==
  TypeOK' <=> (PlanTyped /\ SkillTyped /\ RunTyped /\ PassTyped /\ ToolTyped /\ FaultsTyped)'
  BY DEF TypeOK, PlanTyped, SkillTyped, RunTyped, PassTyped, ToolTyped, FaultsTyped,
         AskTyped, RunRow, PlanRow, MakerRow, PassRow

LEMMA TypeFrame ==
  /\ PlanTyped /\ UNCHANGED plan => PlanTyped'
  /\ SkillTyped /\ UNCHANGED skill => SkillTyped'
  /\ RunTyped /\ UNCHANGED run => RunTyped'
  /\ PassTyped /\ UNCHANGED <<pass, skill>> => PassTyped'
  /\ ToolTyped /\ UNCHANGED toolVars => ToolTyped'
  /\ FaultsTyped /\ UNCHANGED faults => FaultsTyped'
  BY DEF PlanTyped, SkillTyped, RunTyped, PassTyped, ToolTyped, FaultsTyped, toolVars,
         askVars, AskTyped, QuestionsTypeOK, PassRow, MakerRow

LEMMA Sentinels == NoScore \notin Scores /\ Unplaced \notin Place
  BY KnowledgeAssumption DEF NoScore, Unplaced

LEMMA FaultTyped ==
  ASSUME FaultsTyped, Fault \/ UNCHANGED faults
  PROVE  /\ FaultsTyped' /\ (faults' = 0 => faults = 0) /\ (Fault => faults' # 0)
  BY KnowledgeAssumption DEF FaultsTyped, Fault

-----------------------------------------------------------------------------
(* What runs do to their plans. *)

(* update_outcome: the row that it writes. *)
LEMMA UpdateAdds ==
  ASSUME PlanTyped, NEW r \in Run, NEW answer \in BOOLEAN, NEW score \in Scores \cup {NoScore},
         UpdateOutcome(r, answer, score)
  PROVE  /\ PlanTyped'
         /\ \A x \in Run \ {r} : plan'[x] = plan[x]
         /\ plan'[r].answer <=> plan[r].answer \/ answer
         /\ plan'[r].score = IF score = NoScore THEN plan[r].score ELSE score
  <1>1. plan[r] \in PlanRow /\ plan[r].answer \in BOOLEAN /\ plan[r].score \in Scores \cup {NoScore}
    BY DEF PlanTyped, PlanRow
  <1>2. PICK b \in BOOLEAN : b <=> plan[r].answer \/ answer
    BY <1>1, Zenon
  <1>3. b = (plan[r].answer \/ answer)
    BY <1>1, <1>2
  <1>4. PICK s \in Scores \cup {NoScore} : s = IF score = NoScore THEN plan[r].score ELSE score
    BY <1>1
  <1>5. PICK v \in PlanRow : v = [answer |-> b, score |-> s]
    BY DEF PlanRow
  <1>6. plan' = [plan EXCEPT ![r] = v]
    BY <1>3, <1>4, <1>5, <1>1 DEF UpdateOutcome, PlanTyped
  <1>7. PlanTyped' /\ plan'[r] = v /\ \A x \in Run \ {r} : plan'[x] = plan[x]
    BY <1>6 DEF PlanTyped
  <1> QED BY <1>2, <1>4, <1>5, <1>7

(* What others' writes leave of a plan's outcome. *)
SameOutcome(x) ==
  /\ plan'[x].answer <=> plan[x].answer
  /\ plan'[x].score = NoScore <=> plan[x].score = NoScore

(* A score is replaced, never removed. *)
ScoresStay == \A x \in Run : plan[x].score # NoScore => plan'[x].score # NoScore

(* A run's record after a step that moves it, and may set one field more. *)
LEMMA RunSet ==
  ASSUME RunTyped, NEW r \in Run, NEW v \in RunRow, run' = [run EXCEPT ![r] = v]
  PROVE  RunTyped' /\ run'[r] = v /\ \A x \in Run \ {r} : run'[x] = run[x]
  BY DEF RunTyped

LEMMA RunMoves ==
  ASSUME RunTyped, NEW r \in Run, NEW s \in RunStage, run' = [run EXCEPT ![r].pc = s]
  PROVE  /\ RunTyped' /\ run'[r].pc = s
         /\ run'[r].inline = run[r].inline /\ run'[r].long = run[r].long
         /\ run'[r].verdict = run[r].verdict /\ run'[r].at = run[r].at
         /\ \A x \in Run \ {r} : run'[x] = run[x]
  <1>1. run[r] \in RunRow
    BY DEF RunTyped
  <1>2. PICK v \in RunRow : v = [run[r] EXCEPT !.pc = s]
    BY <1>1 DEF RunRow
  <1>3. run' = [run EXCEPT ![r] = v]
    BY <1>2
  <1>4. /\ v.pc = s /\ v.inline = run[r].inline /\ v.long = run[r].long
        /\ v.verdict = run[r].verdict /\ v.at = run[r].at
    BY <1>1, <1>2 DEF RunRow
  <1> QED BY <1>3, <1>4, RunSet

(* What OutcomesStand says of one run. *)
Stands(r) ==
  /\ run[r].pc \in {"scoring"} \cup Distilling => run[r].verdict \in Scores
  /\ run[r].pc = "described" => run[r].at \in Place
  /\ plan[r].answer => run[r].pc \in Over /\ ~run[r].long
  /\ Unscored(r) => plan[r].score = NoScore
  /\ faults = 0 =>
       /\ run[r].pc \in Over /\ ~run[r].long => plan[r].answer
       /\ run[r].pc = "ended" => plan[r].score # NoScore
       /\ run[r].pc \in Distilling /\ ~run[r].inline => plan[r].score # NoScore

LEMMA OthersStand ==
  ASSUME OutcomesStand, NEW r \in Run, faults' = 0 => faults = 0,
         \A x \in Run \ {r} : run'[x] = run[x] /\ SameOutcome(x),
         Stands(r)'
  PROVE  OutcomesStand'
  <1>1. ASSUME NEW x \in Run \ {r} PROVE Stands(x)'
    <2>1. Stands(x) /\ run'[x] = run[x] /\ SameOutcome(x)
      BY DEF OutcomesStand, Stands
    <2> QED BY <2>1 DEF Stands, SameOutcome, Unscored
  <1> QED BY <1>1 DEF OutcomesStand, Stands

LEMMA RunsFrame ==
  ASSUME OutcomesStand, UNCHANGED run, faults' = 0 => faults = 0,
         \A x \in Run : SameOutcome(x)
  PROVE  OutcomesStand'
  <1>1. ASSUME NEW x \in Run PROVE Stands(x)'
    <2>1. Stands(x) /\ run'[x] = run[x] /\ SameOutcome(x)
      BY DEF OutcomesStand, Stands
    <2> QED BY <2>1 DEF Stands, SameOutcome, Unscored
  <1> QED BY <1>1 DEF OutcomesStand, Stands

LEMMA RunScoresStay ==
  ASSUME PlanTyped, RunTyped, NEW r \in Run, RunStep(r)
  PROVE  ScoresStay
  <1>1. CASE UNCHANGED plan
    BY <1>1 DEF ScoresStay
  <1>2. ASSUME NEW answer \in BOOLEAN, NEW score \in Scores \cup {NoScore},
               UpdateOutcome(r, answer, score)
        PROVE  ScoresStay
    BY <1>2, UpdateAdds DEF ScoresStay
  <1>3. run[r].verdict \in Scores \cup {NoScore}
    BY DEF RunTyped, RunRow
  <1>4. CASE Finish(r)
    BY <1>1, <1>2, <1>4 DEF Finish
  <1>5. CASE WriteScore(r)
    BY <1>1, <1>2, <1>3, <1>5 DEF WriteScore
  <1> QED BY <1>1, <1>4, <1>5 DEF RunStep, Begin, Grade, Distill, Describe, Emit, Die

(* A run's own steps. *)
LEMMA RunKept ==
  ASSUME PlanTyped, RunTyped, FaultsTyped, OutcomesStand, NEW r \in Run, RunStep(r)
  PROVE  PlanTyped' /\ RunTyped' /\ FaultsTyped' /\ OutcomesStand'
  <1>1. run[r] \in RunRow /\ Stands(r)
    BY DEF RunTyped, OutcomesStand, Stands
  <1>2. ASSUME Fault \/ UNCHANGED faults
        PROVE  /\ FaultsTyped' /\ (faults' = 0 => faults = 0) /\ (Fault => faults' # 0)
    BY <1>2, FaultTyped
  <1>3. ASSUME UNCHANGED plan
        PROVE  PlanTyped' /\ \A x \in Run : SameOutcome(x)
    BY <1>3 DEF PlanTyped, SameOutcome
  <1>4. ASSUME NEW inline \in BOOLEAN, NEW long \in BOOLEAN, Begin(r, inline, long)
        PROVE  PlanTyped' /\ RunTyped' /\ FaultsTyped' /\ OutcomesStand'
    <2>1. PICK v \in RunRow : v = [run[r] EXCEPT !.pc = "executing", !.inline = inline,
                                                     !.long = long]
      BY <1>1 DEF RunRow, RunStage
    <2>2. run' = [run EXCEPT ![r] = v] /\ v.pc = "executing"
      BY <1>1, <1>4, <2>1 DEF Begin, RunTyped, RunRow
    <2>3. RunTyped' /\ run'[r] = v /\ \A x \in Run \ {r} : run'[x] = run[x]
      BY <2>2, RunSet
    <2>4. UNCHANGED <<plan, faults>> /\ run[r].pc = "idle"
      BY <1>4 DEF Begin, At
    <2>5. Stands(r)'
      BY <1>1, <2>2, <2>3, <2>4 DEF Stands, Over, Distilling, Unscored
    <2> QED BY <1>2, <1>3, <2>3, <2>4, <2>5, OthersStand
  <1>5. CASE Finish(r)
    <2>1. run[r].pc = "executing" /\ run' = [run EXCEPT ![r].pc = "executed"]
            /\ (Fault \/ UNCHANGED faults)
      BY <1>5 DEF Finish, At
    <2>2. /\ RunTyped' /\ run'[r].pc = "executed" /\ run'[r].long = run[r].long
          /\ \A x \in Run \ {r} : run'[x] = run[x]
      BY <2>1, RunMoves DEF RunStage
    <2>3. /\ PlanTyped' /\ \A x \in Run \ {r} : SameOutcome(x)
          /\ plan'[r].score = plan[r].score
          /\ plan'[r].answer => ~run[r].long
          /\ run[r].long \/ plan'[r].answer \/ Fault
      <3>1. CASE ~run[r].long /\ UpdateOutcome(r, TRUE, NoScore)
        BY <3>1, UpdateAdds DEF SameOutcome
      <3>2. CASE UNCHANGED plan /\ (run[r].long \/ Fault)
        BY <1>1, <1>3, <2>1, <3>2 DEF Stands, Over
      <3> QED BY <1>5, <3>1, <3>2 DEF Finish
    <2>4. Stands(r)'
      BY <1>1, <1>2, <2>1, <2>2, <2>3 DEF Stands, Over, Distilling, Unscored
    <2> QED BY <1>2, <2>1, <2>2, <2>3, <2>4, OthersStand
  <1>6. CASE Grade(r)
    <2>1. run[r].pc = "executed" /\ UNCHANGED plan /\ (Fault \/ UNCHANGED faults)
      BY <1>6 DEF Grade, At
    <2>2. CASE run' = [run EXCEPT ![r].pc = "ended"] /\ Fault
      <3>1. /\ RunTyped' /\ run'[r].pc = "ended" /\ run'[r].long = run[r].long
            /\ \A x \in Run \ {r} : run'[x] = run[x]
        BY <2>2, RunMoves DEF RunStage
      <3>2. Stands(r)'
        BY <1>1, <1>2, <2>1, <2>2, <3>1 DEF Stands, Over, Distilling, Unscored
      <3> QED BY <1>2, <1>3, <2>1, <3>1, <3>2, OthersStand
    <2>3. ASSUME NEW s \in Scores,
                 run' = [run EXCEPT ![r].verdict = s,
                                    ![r].pc = IF run[r].inline THEN "distilling" ELSE "scoring"],
                 UNCHANGED faults
          PROVE  PlanTyped' /\ RunTyped' /\ FaultsTyped' /\ OutcomesStand'
      <3>1. PICK pc \in RunStage : pc = IF run[r].inline THEN "distilling" ELSE "scoring"
        BY DEF RunStage
      <3>2. PICK v \in RunRow : v = [run[r] EXCEPT !.verdict = s, !.pc = pc]
        BY <1>1 DEF RunRow
      <3>3. v.verdict = s /\ v.pc = pc /\ v.inline = run[r].inline /\ v.long = run[r].long
        BY <1>1, <3>2 DEF RunRow
      <3>4. run' = [run EXCEPT ![r] = v]
        BY <1>1, <2>3, <3>1, <3>2 DEF RunTyped, RunRow
      <3>5. RunTyped' /\ run'[r] = v /\ \A x \in Run \ {r} : run'[x] = run[x]
        BY <3>4, RunSet
      <3>6. Stands(r)'
        BY <1>1, <2>1, <2>3, <3>1, <3>3, <3>5 DEF Stands, Over, Distilling, Unscored
      <3> QED BY <1>2, <1>3, <2>1, <3>5, <3>6, OthersStand
    <2> QED BY <1>6, <2>2, <2>3 DEF Grade
  <1>7. CASE WriteScore(r)
    <2>1. /\ run[r].pc = "scoring" /\ run' = [run EXCEPT ![r].pc = AfterScore(r)]
          /\ Fault \/ UNCHANGED faults
      BY <1>7 DEF WriteScore, At
    <2>2. run[r].verdict \in Scores /\ run[r].verdict # NoScore
      BY <1>1, <2>1, Sentinels DEF Stands
    <2>3. PICK pc \in RunStage : pc = AfterScore(r)
      BY DEF RunStage, AfterScore
    <2>4. /\ RunTyped' /\ run'[r].pc = pc /\ run'[r].inline = run[r].inline
          /\ run'[r].long = run[r].long /\ run'[r].verdict = run[r].verdict
          /\ \A x \in Run \ {r} : run'[x] = run[x]
      BY <2>1, <2>3, RunMoves
    <2>5. /\ PlanTyped' /\ \A x \in Run \ {r} : SameOutcome(x)
          /\ plan'[r].answer <=> plan[r].answer
          /\ plan'[r].score # NoScore \/ Fault
      <3>1. CASE UpdateOutcome(r, FALSE, run[r].verdict)
        BY <2>2, <3>1, UpdateAdds DEF SameOutcome
      <3>2. CASE UNCHANGED plan /\ Fault
        BY <1>3, <3>2
      <3> QED BY <1>7, <3>1, <3>2 DEF WriteScore
    <2>6. ~Unscored(r)'
      BY <2>3, <2>4 DEF Unscored, AfterScore
    <2>7. Stands(r)'
      BY <1>1, <1>2, <2>1, <2>2, <2>3, <2>4, <2>5, <2>6 DEF Stands, Over, Distilling, AfterScore
    <2> QED BY <1>2, <2>1, <2>4, <2>5, <2>7, OthersStand
  <1>8. ASSUME run[r].pc \in Distilling, UNCHANGED plan, Fault \/ UNCHANGED faults,
               NEW s \in {"emitting", AfterDistill(r)}, NEW a \in Place \cup {Unplaced},
               run' = [run EXCEPT ![r] = [run[r] EXCEPT !.pc = s, !.at = a]]
        PROVE  PlanTyped' /\ RunTyped' /\ FaultsTyped' /\ OutcomesStand'
    <2>1. s \in RunStage
      BY DEF RunStage, AfterDistill
    <2>2. PICK v \in RunRow : v = [run[r] EXCEPT !.pc = s, !.at = a]
      BY <1>1, <2>1 DEF RunRow
    <2>3. /\ v.verdict = run[r].verdict /\ v.pc = s
          /\ v.inline = run[r].inline /\ v.long = run[r].long
      BY <1>1, <2>2 DEF RunRow
    <2>4. RunTyped' /\ run'[r] = v /\ \A x \in Run \ {r} : run'[x] = run[x]
      BY <1>8, <2>2, RunSet
    <2>5. Stands(r)'
      BY <1>1, <1>2, <1>8, <2>3, <2>4 DEF Stands, Over, Distilling, AfterDistill, Unscored
    <2> QED BY <1>2, <1>3, <1>8, <2>4, <2>5, OthersStand
  <1>9. ASSUME NEW s \in RunStage, run' = [run EXCEPT ![r].pc = s]
        PROVE  run' = [run EXCEPT ![r] = [run[r] EXCEPT !.pc = s, !.at = run[r].at]]
    BY <1>1, <1>9 DEF RunTyped, RunRow
  <1>10. /\ run[r].at \in Place \cup {Unplaced}
         /\ AfterDistill(r) \in RunStage /\ "emitting" \in RunStage
    BY <1>1 DEF RunRow, RunStage, AfterDistill
  <1>11. ASSUME NEW q \in Place, Distill(r, q)
         PROVE  PlanTyped' /\ RunTyped' /\ FaultsTyped' /\ OutcomesStand'
    <2>1. run[r].pc \in Distilling /\ UNCHANGED plan /\ (Fault \/ UNCHANGED faults)
      BY <1>11 DEF Distill, At, Distilling
    <2>2. PICK s \in {"emitting", AfterDistill(r)} : run' = [run EXCEPT ![r].pc = s]
      BY <1>11 DEF Distill
    <2> QED BY <1>8, <1>9, <1>10, <2>1, <2>2
  <1>12. ASSUME NEW at \in Place, Describe(r, at)
         PROVE  PlanTyped' /\ RunTyped' /\ FaultsTyped' /\ OutcomesStand'
    <2>1. run[r].pc = "emitting" /\ UNCHANGED <<plan, faults>>
      BY <1>12 DEF Describe, At
    <2>2. CASE run' = [run EXCEPT ![r].pc = AfterDistill(r)]
      BY <1>8, <1>9, <1>10, <2>1, <2>2 DEF Distilling
    <2>3. CASE run' = [run EXCEPT ![r].pc = "described", ![r].at = at]
      <3>1. PICK v \in RunRow : v = [run[r] EXCEPT !.pc = "described", !.at = at]
        BY <1>1 DEF RunRow, RunStage
      <3>2. /\ v.verdict = run[r].verdict /\ v.pc = "described" /\ v.at = at
            /\ v.inline = run[r].inline /\ v.long = run[r].long
        BY <1>1, <3>1 DEF RunRow
      <3>3. run' = [run EXCEPT ![r] = v]
        BY <1>1, <2>3, <3>1 DEF RunTyped, RunRow
      <3>4. RunTyped' /\ run'[r] = v /\ \A x \in Run \ {r} : run'[x] = run[x]
        BY <3>3, RunSet
      <3>5. Stands(r)'
        BY <1>1, <2>1, <3>2, <3>4 DEF Stands, Over, Distilling, Unscored
      <3> QED BY <1>2, <1>3, <2>1, <3>4, <3>5, OthersStand
    <2> QED BY <1>12, <2>2, <2>3 DEF Describe
  <1>13. CASE Emit(r)
    <2>1. /\ run[r].pc \in Distilling /\ UNCHANGED plan /\ (Fault \/ UNCHANGED faults)
          /\ run' = [run EXCEPT ![r].pc = AfterDistill(r), ![r].at = Unplaced]
      BY <1>13 DEF Emit, At, Distilling
    <2>2. run' = [run EXCEPT ![r] = [run[r] EXCEPT !.pc = AfterDistill(r), !.at = Unplaced]]
      BY <1>1, <2>1 DEF RunTyped, RunRow
    <2> QED BY <1>8, <2>1, <2>2
  <1>14. CASE Die(r)
    <2>1. /\ UNCHANGED plan /\ Fault
          /\ run' = [run EXCEPT ![r].pc = "ended", ![r].at = Unplaced]
      BY <1>14 DEF Die
    <2>2. PICK v \in RunRow : v = [run[r] EXCEPT !.pc = "ended", !.at = Unplaced]
      BY <1>1 DEF RunRow, RunStage
    <2>3. /\ run' = [run EXCEPT ![r] = v] /\ v.pc = "ended"
          /\ v.inline = run[r].inline /\ v.long = run[r].long
      BY <1>1, <2>1, <2>2 DEF RunTyped, RunRow
    <2>4. RunTyped' /\ run'[r] = v /\ \A x \in Run \ {r} : run'[x] = run[x]
      BY <2>3, RunSet
    <2>5. Stands(r)'
      BY <1>1, <1>2, <2>1, <2>3, <2>4 DEF Stands, Over, Distilling, Unscored
    <2> QED BY <1>2, <1>3, <2>1, <2>4, <2>5, OthersStand
  <1> QED BY <1>4, <1>5, <1>6, <1>7, <1>11, <1>12, <1>13, <1>14 DEF RunStep

-----------------------------------------------------------------------------
(* What steps that write tools do to the rows, and replies to their questions. *)

(* What ToolsKept says of one step. *)
Owns(m) ==
  /\ maker[m].pc \in Unasked => question[m] = "absent"
  /\ maker[m].pc \in Owning =>
       maker[m].row \in DOMAIN tool /\ tool[maker[m].row].code = m
  /\ maker[m].pc = "deciding" /\ maker[m].yes => m \in SaidYes

LEMMA Returned ==
  ASSUME ToolTyped
  PROVE  MakerAt("returned") \in MakerRow /\ MakerAt("returned").pc = "returned"
  <1>1. AnyName \in Name
    BY KnowledgeAssumption DEF AnyName
  <1>2. 0 \in 0..Len(tool)
    BY DEF ToolTyped
  <1> QED BY <1>1, <1>2 DEF MakerAt, MakerRow, MakerStage

(* A maker's record as store_proposed leaves it, with n rows before it. *)
LEMMA AskingTyped ==
  ASSUME NEW n \in Nat,
         NEW c \in [pc : MakerStage, name : Name, at : Place \cup {Unplaced},
                    row : 0..n, yes : BOOLEAN]
  PROVE  [c EXCEPT !.pc = "asking", !.row = n + 1, !.at = Unplaced]
           \in [pc : MakerStage, name : Name, at : Place \cup {Unplaced},
                row : 0..(n + 1), yes : BOOLEAN]
  <1>1. c \in [pc : MakerStage, name : Name, at : Place \cup {Unplaced},
               row : 0..(n + 1), yes : BOOLEAN]
    <2>1. c.row \in 0..(n + 1)
      OBVIOUS
    <2> QED BY <2>1
  <1>2. n + 1 \in 0..(n + 1) /\ "asking" \in MakerStage /\ Unplaced \in Place \cup {Unplaced}
    BY DEF MakerStage
  <1> HIDE DEF MakerStage
  <1> QED BY ONLY <1>1, <1>2

LEMMA AskFrame ==
  ASSUME UNCHANGED askVars
  PROVE  SaidYes' = SaidYes /\ UNCHANGED <<question, clock, assent>> /\ (AskTyped => AskTyped')
  BY DEF askVars, SaidYes, AskTyped, QuestionsTypeOK

(* A row of pending_questions is written, and only that. *)
LEMMA QuestionSet ==
  ASSUME AskTyped, NEW m \in Maker, NEW s \in QuestionStatus,
         question' = [question EXCEPT ![m] = s], UNCHANGED <<clock, assent>>,
         m \notin SaidYes
  PROVE  /\ AskTyped' /\ SaidYes \subseteq SaidYes' /\ question'[m] = s
         /\ \A x \in Maker \ {m} : question'[x] = question[x]
  BY DEF AskTyped, QuestionsTypeOK, SaidYes

(* A step moves one maker, and no tool. *)
LEMMA MakerSet ==
  ASSUME ToolTyped, ToolsKept, NEW m \in Maker, NEW v \in MakerRow,
         maker' = [maker EXCEPT ![m] = v], UNCHANGED <<tool, ran>>,
         AskTyped', SaidYes \subseteq SaidYes',
         \A x \in Maker \ {m} : question'[x] = question[x],
         v.pc \in Unasked => question'[m] = "absent",
         v.pc \in Owning => v.row \in DOMAIN tool /\ tool[v.row].code = m,
         v.pc = "deciding" /\ v.yes => m \in SaidYes'
  PROVE  ToolTyped' /\ ToolsKept'
  <1>1. /\ maker' \in [Maker -> MakerRow] /\ maker'[m] = v
        /\ \A x \in Maker \ {m} : maker'[x] = maker[x]
    BY DEF ToolTyped
  <1>2. ToolTyped'
    BY <1>1 DEF ToolTyped, MakerRow
  <1>3. OnlyApprovedCodeRuns'
    BY DEF ToolsKept, OnlyApprovedCodeRuns, Approved
  <1>4. ASSUME NEW x \in Maker PROVE Owns(x)'
    <2>1. CASE x = m
      BY <1>1, <2>1 DEF Owns
    <2>2. CASE x # m
      <3>1. Owns(x) /\ maker'[x] = maker[x] /\ question'[x] = question[x]
        BY <1>1, <2>2 DEF ToolsKept, Owns
      <3> QED BY <3>1 DEF Owns
    <2> QED BY <2>1, <2>2
  <1> QED BY <1>2, <1>3, <1>4 DEF ToolsKept, Owns

(* A step that only says where its maker stands. *)
LEMMA MakerMoves ==
  ASSUME ToolTyped, ToolsKept, NEW m \in Maker, NEW v \in MakerRow,
         maker' = [maker EXCEPT ![m] = v], UNCHANGED <<tool, askVars, ran>>,
         v.pc \in Unasked => maker[m].pc \in Unasked,
         v.pc \notin Owning
  PROVE  ToolTyped' /\ ToolsKept'
  <1>1. /\ SaidYes' = SaidYes /\ AskTyped' /\ question' = question
        /\ (v.pc \in Unasked => question'[m] = "absent") /\ v.pc # "deciding"
    BY AskFrame DEF ToolTyped, ToolsKept, Owning, askVars
  <1> QED BY <1>1, MakerSet

(* One that goes on with its question. *)
LEMMA AskerMoves ==
  ASSUME ToolTyped, ToolsKept, NEW m \in Maker, NEW s \in {"delivering", "waiting", "leaving"},
         maker[m].pc \in Owning, Goes(m, s), UNCHANGED <<tool, ran>>,
         AskTyped', SaidYes \subseteq SaidYes',
         \A x \in Maker \ {m} : question'[x] = question[x]
  PROVE  ToolTyped' /\ ToolsKept'
  <1>1. maker[m] \in MakerRow
    BY DEF ToolTyped
  <1>2. PICK v \in MakerRow : v = [maker[m] EXCEPT !.pc = s]
    BY <1>1 DEF MakerRow, MakerStage
  <1>3. v.pc = s /\ v.row = maker[m].row /\ maker' = [maker EXCEPT ![m] = v]
    BY <1>1, <1>2 DEF Goes, MakerRow
  <1>4. v.pc \notin Unasked /\ v.pc # "deciding" /\ v.row \in DOMAIN tool /\ tool[v.row].code = m
    BY <1>3 DEF ToolsKept, Unasked
  <1> QED BY <1>3, <1>4, MakerSet

LEMMA ReturnKept ==
  ASSUME ToolTyped, ToolsKept, NEW m \in Maker, Return(m), UNCHANGED <<tool, askVars, ran>>
  PROVE  ToolTyped' /\ ToolsKept'
  BY Returned, MakerMoves DEF Return, Unasked, Owning

(* One that returns, whatever became of its question. *)
LEMMA ReturnSet ==
  ASSUME ToolTyped, ToolsKept, NEW m \in Maker, Return(m), UNCHANGED <<tool, ran>>,
         AskTyped', SaidYes \subseteq SaidYes',
         \A x \in Maker \ {m} : question'[x] = question[x]
  PROVE  ToolTyped' /\ ToolsKept'
  BY Returned, MakerSet DEF Return, Unasked, Owning

LEMMA MakerKept ==
  ASSUME ToolTyped, ToolsKept, FaultsTyped, NEW m \in Maker, MakerStep(m)
  PROVE  ToolTyped' /\ ToolsKept' /\ FaultsTyped' /\ (faults' = 0 => faults = 0)
  <1>1. /\ maker[m] \in MakerRow /\ Owns(m) /\ tool \in Seq(Tool) /\ Len(tool) \in Nat
        /\ DOMAIN tool = 1..Len(tool)
    BY DEF ToolTyped, ToolsKept, Owns
  <1>2. FaultsTyped' /\ (faults' = 0 => faults = 0)
    <2>1. Fault \/ UNCHANGED faults
      BY DEF MakerStep, DraftTool, DedupTool, StoreProposed, AskUser, Deliver, Resume, GiveUp,
             Leave, MarkDecision, Abandon
    <2> QED BY <2>1, FaultTyped
  <1> SUFFICES ToolTyped' /\ ToolsKept'
    BY <1>2
  <1>3. ASSUME maker[m].pc \in Unasked, maker' = [maker EXCEPT ![m].pc = "storing"],
               UNCHANGED <<tool, askVars, ran>>
        PROVE  ToolTyped' /\ ToolsKept'
    <2>1. PICK v \in MakerRow : v = [maker[m] EXCEPT !.pc = "storing"]
      BY <1>1 DEF MakerRow, MakerStage
    <2>2. v.pc = "storing" /\ maker' = [maker EXCEPT ![m] = v] /\ v.pc \notin Owning
      BY <1>1, <1>3, <2>1 DEF MakerRow, Owning
    <2> QED BY <1>3, <2>2, MakerMoves
  <1>4. ASSUME NEW n \in Name, NEW at \in Place \cup {Unplaced}, DraftTool(m, n, at)
        PROVE  ToolTyped' /\ ToolsKept'
    <2>1. PICK v \in MakerRow : v = [maker[m] EXCEPT !.pc = "drafted", !.name = n, !.at = at]
      BY <1>1 DEF MakerRow, MakerStage
    <2>2. v.pc = "drafted" /\ maker' = [maker EXCEPT ![m] = v]
      BY <1>1, <1>4, <2>1 DEF MakerRow, DraftTool, ToolTyped
    <2>3. /\ UNCHANGED <<tool, askVars, ran>> /\ maker[m].pc \in Unasked
          /\ "drafted" \notin Owning
      BY <1>4 DEF DraftTool, In, Unasked, Owning
    <2> QED BY <2>2, <2>3, MakerMoves
  <1>5. CASE DedupTool(m)
    <2>1. UNCHANGED <<tool, askVars, ran>> /\ maker[m].pc \in Unasked
      BY <1>5 DEF DedupTool, In, Unasked
    <2>2. CASE maker' = [maker EXCEPT ![m].pc = "storing"]
      BY <1>3, <2>1, <2>2
    <2>3. CASE maker' = [maker EXCEPT ![m] = MakerAt("returned")]
      BY <2>1, <2>3, ReturnKept DEF Return
    <2>4. CASE maker' = [maker EXCEPT ![m] = [@ EXCEPT !.pc = "storing"]]
      BY <1>3, <2>1, <2>4
    <2> QED BY <1>5, <2>2, <2>3, <2>4 DEF DedupTool
  <1>6. CASE StoreProposed(m)
    <2>1. UNCHANGED <<askVars, ran>> /\ SaidYes' = SaidYes /\ UNCHANGED question
          /\ maker[m].pc \in Unasked /\ AskTyped'
      BY <1>6, AskFrame DEF StoreProposed, In, Unasked, ToolTyped, askVars
    <2>2. CASE Return(m) /\ UNCHANGED tool
      BY <2>1, <2>2, ReturnKept
    <2>3. CASE tool' = Append(tool, Proposal(m)) /\ Stored(m, Len(tool) + 1)
      <3>1. PICK n \in Nat : n = Len(tool)
        BY <1>1
      <3>2. PICK row \in Tool : row = Proposal(m)
        BY <1>1 DEF Proposal, Tool, MakerRow
      <3>3. row.code = m /\ row.status = "proposed"
        BY <3>2 DEF Proposal
      <3>4. tool' = Append(tool, row)
        BY <2>3, <3>2
      <3>5. /\ tool' \in Seq(Tool) /\ Len(tool') = n + 1 /\ tool'[n + 1] = row
            /\ \A i \in DOMAIN tool : tool'[i] = tool[i]
            /\ DOMAIN tool' = 1..(n + 1) /\ DOMAIN tool = 1..n
        BY <1>1, <3>1, <3>4
      <3>6. PICK c \in MakerRow : c = maker[m]
        BY <1>1
      <3>7. PICK v \in [pc : MakerStage, name : Name, at : Place \cup {Unplaced},
                        row : 0..(n + 1), yes : BOOLEAN] :
              v = [c EXCEPT !.pc = "asking", !.row = n + 1, !.at = Unplaced]
        BY <3>1, AskingTyped DEF MakerRow
      <3>14. v \in MakerRow' /\ v.pc = "asking" /\ v.row = n + 1
        BY <3>1, <3>5, <3>7 DEF MakerRow
      <3>8. maker' = [maker EXCEPT ![m] = v]
        BY <1>1, <2>3, <3>1, <3>6, <3>7 DEF Stored, ToolTyped, MakerRow
      <3>9. \A x \in Maker : maker[x] \in MakerRow'
        <4>1. MakerRow \subseteq MakerRow'
          BY <3>1, <3>5 DEF MakerRow
        <4> QED BY <4>1 DEF ToolTyped
      <3>10. maker'[m] = v /\ (\A x \in Maker \ {m} : maker'[x] = maker[x])
               /\ maker' \in [Maker -> MakerRow']
        BY <3>8, <3>9, <3>14 DEF ToolTyped
      <3>11. ToolTyped'
        BY <2>1, <3>5, <3>10 DEF ToolTyped, MakerRow
      <3>12. OnlyApprovedCodeRuns'
        <4>1. Approved' = Approved
          BY <3>3, <3>5 DEF Approved
        <4>2. \A i \in Approved : i \in DOMAIN tool /\ tool'[i] = tool[i]
          BY <3>5 DEF Approved
        <4> QED BY <2>1, <4>1, <4>2 DEF ToolsKept, OnlyApprovedCodeRuns
      <3>13. ASSUME NEW x \in Maker PROVE Owns(x)'
        <4>1. CASE x = m
          BY <1>1, <2>1, <3>3, <3>5, <3>14, <3>10, <4>1 DEF Owns
        <4>2. CASE x # m
          <5>1. Owns(x) /\ maker'[x] = maker[x]
            BY <3>10, <4>2 DEF ToolsKept, Owns
          <5> QED BY <2>1, <3>5, <5>1 DEF Owns
        <4> QED BY <4>1, <4>2
      <3> QED BY <3>11, <3>12, <3>13 DEF ToolsKept, Owns
    <2> QED BY <1>6, <2>2, <2>3 DEF StoreProposed
  <1>7. CASE AskUser(m)
    <2>1. /\ maker[m].pc = "asking" /\ UNCHANGED <<tool, clock, assent, ran>>
          /\ question[m] = "absent" /\ m \notin SaidYes /\ "asking" \in Owning
      BY <1>1, <1>7 DEF AskUser, In, Owns, Unasked, Owning, SaidYes
    <2>2. CASE Return(m) /\ UNCHANGED question
      BY <2>1, <2>2, ReturnKept DEF askVars
    <2>3. ASSUME InsertQuestion(m)
          PROVE  /\ AskTyped' /\ SaidYes \subseteq SaidYes' /\ question'[m] = "pending"
                 /\ \A x \in Maker \ {m} : question'[x] = question[x]
      BY <2>1, <2>3, QuestionSet DEF InsertQuestion, QuestionStatus, ToolTyped
    <2>4. CASE InsertQuestion(m) /\ Goes(m, "delivering")
      BY <2>1, <2>3, <2>4, AskerMoves
    <2>5. CASE InsertQuestion(m) /\ Return(m)
      BY <2>1, <2>3, <2>5, ReturnSet
    <2> QED BY <1>7, <2>2, <2>4, <2>5 DEF AskUser
  <1>10. CASE Deliver(m)
    <2>1. /\ maker[m].pc \in Owning /\ UNCHANGED <<tool, askVars, ran>>
          /\ Goes(m, "waiting")
      BY <1>10 DEF Deliver, In, Owning
    <2>2. SaidYes' = SaidYes /\ AskTyped' /\ question' = question
      BY <2>1, AskFrame DEF ToolTyped
    <2> QED BY <2>1, <2>2, AskerMoves
  <1>11. CASE Resume(m)
    <2>1. /\ maker[m].pc = "waiting" /\ question[m] = "answered" /\ UNCHANGED <<tool, askVars, ran>>
          /\ maker' = [maker EXCEPT ![m].pc = "deciding", ![m].yes = assent[m]]
      BY <1>11 DEF Resume, In
    <2>2. SaidYes' = SaidYes /\ AskTyped' /\ question' = question
      BY <2>1, AskFrame DEF ToolTyped
    <2>3. PICK yes \in BOOLEAN : yes = assent[m]
      BY DEF ToolTyped, AskTyped
    <2>4. PICK v \in MakerRow : v = [maker[m] EXCEPT !.pc = "deciding", !.yes = yes]
      BY <1>1 DEF MakerRow, MakerStage
    <2>5. /\ v.pc = "deciding" /\ v.row = maker[m].row /\ (v.yes => yes)
          /\ maker' = [maker EXCEPT ![m] = v]
      BY <1>1, <2>1, <2>3, <2>4 DEF MakerRow, ToolTyped
    <2>6. v.row \in DOMAIN tool /\ tool[v.row].code = m /\ v.pc \notin Unasked
      BY <1>1, <2>1, <2>5 DEF Owns, Owning, Unasked
    <2>7. v.yes => m \in SaidYes'
      BY <2>1, <2>2, <2>3, <2>5 DEF SaidYes
    <2> QED BY <2>1, <2>2, <2>5, <2>6, <2>7, MakerSet
  <1>12. CASE GiveUp(m)
    <2>1. UNCHANGED <<tool, askVars, ran>> /\ Goes(m, "leaving") /\ maker[m].pc \in Owning
      BY <1>12 DEF GiveUp, In, Owning
    <2>2. SaidYes' = SaidYes /\ AskTyped' /\ question' = question
      BY <2>1, AskFrame DEF ToolTyped
    <2> QED BY <2>1, <2>2, AskerMoves
  <1>13. CASE Leave(m)
    <2>1. UNCHANGED <<tool, clock, assent, ran>> /\ Return(m)
      BY <1>13 DEF Leave
    <2>2. CASE UNCHANGED question
      BY <2>1, <2>2, ReturnKept DEF askVars
    <2>3. CASE question[m] = "pending" /\ question' = [question EXCEPT ![m] = "timeout"]
      <3>1. m \notin SaidYes /\ "timeout" \in QuestionStatus
        BY <2>3 DEF SaidYes, QuestionStatus
      <3>2. /\ AskTyped' /\ SaidYes \subseteq SaidYes'
            /\ \A x \in Maker \ {m} : question'[x] = question[x]
        BY <2>1, <2>3, <3>1, QuestionSet DEF ToolTyped
      <3> QED BY <2>1, <3>2, ReturnSet
    <2> QED BY <1>13, <2>2, <2>3 DEF Leave, MarkTimeout, Resolve
  <1>8. CASE MarkDecision(m)
    <2>1. /\ maker[m].pc = "deciding" /\ Return(m) /\ UNCHANGED <<askVars, ran>>
          /\ SaidYes' = SaidYes /\ AskTyped' /\ UNCHANGED question /\ maker[m].pc \in Owning
      BY <1>8, AskFrame DEF MarkDecision, In, ToolTyped, Owning
    <2>2. CASE UNCHANGED tool
      BY <2>1, <2>2, ReturnKept
    <2>3. CASE Decide(maker[m].row, maker[m].yes)
      <3>1. PICK i \in DOMAIN tool : i = maker[m].row
        BY <1>1, <2>1 DEF Owns
      <3>2. tool[i].code = m /\ (maker[m].yes => m \in SaidYes) /\ tool[i] \in Tool
        BY <1>1, <2>1, <3>1 DEF Owns
      <3>3. PICK s \in {"proposed", "approved", "rejected"} :
              /\ s = IF tool[i].status # "proposed" THEN tool[i].status ELSE
                     IF maker[m].yes THEN "approved" ELSE "rejected"
        BY <3>2 DEF Tool
      <3>4. PICK row \in Tool : row = [tool[i] EXCEPT !.status = s]
        BY <3>2 DEF Tool
      <3>5. row.code = m /\ row.status = s
        BY <3>2, <3>4 DEF Tool
      <3>6. tool' = [tool EXCEPT ![i] = row]
        BY <2>3, <3>1, <3>3, <3>4 DEF Decide
      <3>7. /\ tool' \in Seq(Tool) /\ Len(tool') = Len(tool) /\ DOMAIN tool' = DOMAIN tool
            /\ tool'[i] = row /\ \A j \in DOMAIN tool \ {i} : tool'[j] = tool[j]
        BY <1>1, <3>6
      <3>8. \A j \in DOMAIN tool : tool'[j].code = tool[j].code
        BY <3>2, <3>5, <3>7
      <3>9. OnlyApprovedCodeRuns'
        <4>1. ASSUME NEW j \in Approved' PROVE tool'[j].code \in SaidYes'
          <5>1. CASE j = i
            <6>1. s = "approved"
              BY <3>5, <3>7, <4>1, <5>1 DEF Approved
            <6>2. tool[i].status = "approved" \/ maker[m].yes
              BY <3>3, <6>1
            <6>3. tool[i].status = "approved" => tool[i].code \in SaidYes
              BY DEF ToolsKept, OnlyApprovedCodeRuns, Approved
            <6> QED BY <2>1, <3>2, <3>5, <3>7, <5>1, <6>2, <6>3
          <5>2. CASE j # i
            BY <2>1, <3>7, <4>1, <5>2 DEF ToolsKept, OnlyApprovedCodeRuns, Approved
          <5> QED BY <5>1, <5>2
        <4> QED BY <2>1, <4>1 DEF ToolsKept, OnlyApprovedCodeRuns
      <3>10. PICK v \in MakerRow : v = MakerAt("returned") /\ v.pc = "returned"
        BY Returned
      <3>11. maker' \in [Maker -> MakerRow] /\ maker'[m] = v
               /\ \A x \in Maker \ {m} : maker'[x] = maker[x]
        BY <2>1, <3>10 DEF Return, ToolTyped
      <3>12. ToolTyped'
        BY <2>1, <3>7, <3>11 DEF ToolTyped, MakerRow
      <3>13. \A x \in Maker : Owns(x)'
        BY <2>1, <3>7, <3>8, <3>10, <3>11 DEF ToolsKept, Owns, Unasked, Owning
      <3> QED BY <3>9, <3>12, <3>13 DEF ToolsKept, Owns
    <2> QED BY <1>8, <2>2, <2>3 DEF MarkDecision
  <1>9. CASE Abandon(m)
    BY <1>9, ReturnKept DEF Abandon
  <1> QED BY <1>4, <1>5, <1>6, <1>7, <1>8, <1>9, <1>10, <1>11, <1>12, <1>13 DEF MakerStep

(* A reply or the time changes a question, and takes no yes back. *)
LEMMA QuestionKept ==
  ASSUME ToolTyped, ToolsKept, NEW m \in Maker, QuestionStep(m)
  PROVE  ToolTyped' /\ ToolsKept'
  <1>1. UNCHANGED <<tool, maker, ran>>
    BY DEF QuestionStep, TelegramMessage, PostAnswer, TakeReply, Lapse
  <1>2. ASSUME AskTyped', SaidYes \subseteq SaidYes',
               \A x \in Maker : question[x] = "absent" => question'[x] = "absent"
        PROVE  ToolTyped' /\ ToolsKept'
    <2>1. ToolTyped'
      BY <1>1, <1>2 DEF ToolTyped, MakerRow
    <2>2. OnlyApprovedCodeRuns'
      BY <1>1, <1>2 DEF ToolsKept, OnlyApprovedCodeRuns, Approved
    <2> QED BY <1>1, <1>2, <2>1, <2>2 DEF ToolsKept
  <1>3. CASE Lapse(m)
    <2>1. UNCHANGED <<question, assent>>
      BY <1>3 DEF Lapse
    <2>2. clock' \in [Maker -> {"open", "past", "deadline"}]
      BY <1>3 DEF Lapse, ToolTyped, AskTyped, QuestionsTypeOK
    <2>3. AskTyped' /\ SaidYes' = SaidYes
      BY <2>1, <2>2 DEF ToolTyped, AskTyped, QuestionsTypeOK, SaidYes
    <2> QED BY <1>2, <2>1, <2>3
  <1>4. ASSUME NEW yes \in BOOLEAN, TakeReply(m, yes)
        PROVE  ToolTyped' /\ ToolsKept'
    <2>1. UNCHANGED clock
      BY <1>4 DEF TakeReply
    <2>2. CASE question[m] # "pending"
      <3>1. UNCHANGED askVars
        BY <1>4, <2>1, <2>2 DEF TakeReply, MarkAnswered, Resolve, askVars
      <3> QED BY <1>2, <3>1, AskFrame DEF ToolTyped
    <2>3. CASE question[m] = "pending"
      <3>1. /\ question' = [question EXCEPT ![m] = "answered"]
            /\ assent' = [assent EXCEPT ![m] = yes]
        BY <1>4, <2>3 DEF TakeReply, MarkAnswered, Resolve
      <3>2. AskTyped'
        BY <2>1, <3>1 DEF ToolTyped, AskTyped, QuestionsTypeOK, QuestionStatus
      <3>3. \A x \in Maker \ {m} : question'[x] = question[x] /\ assent'[x] = assent[x]
        BY <3>1 DEF ToolTyped, AskTyped, QuestionsTypeOK
      <3>4. SaidYes \subseteq SaidYes'
        BY <2>3, <3>3 DEF SaidYes
      <3> QED BY <1>2, <2>3, <3>2, <3>3, <3>4
    <2> QED BY <2>2, <2>3
  <1> QED BY <1>3, <1>4 DEF QuestionStep, TelegramMessage, PostAnswer

(* What is dispatched is approved, and so had a yes. *)
LEMMA UseKept ==
  ASSUME ToolTyped, ToolsKept, UseTool
  PROVE  ToolTyped' /\ ToolsKept'
  <1>1. UNCHANGED <<tool, maker, askVars>>
    BY DEF UseTool
  <1>2. PICK i \in Approved : ran' = ran \cup {tool[i].code}
    BY DEF UseTool, Resolvable
  <1>3. tool[i].code \in SaidYes
    BY <1>2 DEF ToolsKept, OnlyApprovedCodeRuns
  <1>4. ran' \subseteq SaidYes
    BY <1>2, <1>3 DEF ToolsKept, OnlyApprovedCodeRuns
  <1>5. SaidYes' = SaidYes /\ UNCHANGED question
    BY <1>1, AskFrame
  <1>6. ToolTyped'
    BY <1>1, <1>4, AskFrame DEF ToolTyped, MakerRow, SaidYes
  <1>7. OnlyApprovedCodeRuns'
    BY <1>1, <1>4, <1>5 DEF ToolsKept, OnlyApprovedCodeRuns, Approved
  <1> QED BY <1>1, <1>5, <1>6, <1>7 DEF ToolsKept

-----------------------------------------------------------------------------
(* Skills: a preference that is total and has no cycle. *)

LEMMA SkillNumbers ==
  ASSUME NEW q \in Seq(Skill), NEW i \in DOMAIN q
  PROVE  q[i].score \in Nat /\ q[i].at \in Nat /\ i \in Nat
  <1>1. q[i] \in Skill
    OBVIOUS
  <1>2. Scores \subseteq Nat /\ Place \subseteq Nat
    BY KnowledgeAssumption
  <1>3. q[i].score \in Nat /\ q[i].at \in Nat
    BY <1>1, <1>2 DEF Skill
  <1>4. i \in Nat
    OBVIOUS
  <1> QED BY <1>3, <1>4

LEMMA BetterIsTotal ==
  ASSUME NEW q \in Seq(Skill), NEW i \in DOMAIN q, NEW j \in DOMAIN q, i # j
  PROVE  Better(q, i, j) <=> ~Better(q, j, i)
  <1>1. q[i].score \in Nat /\ q[j].score \in Nat /\ i \in Nat /\ j \in Nat
    BY SkillNumbers
  <1> QED BY <1>1 DEF Better

LEMMA BetterIsTransitive ==
  ASSUME NEW q \in Seq(Skill), NEW i \in DOMAIN q, NEW j \in DOMAIN q, NEW k \in DOMAIN q,
         Better(q, i, j), Better(q, j, k)
  PROVE  Better(q, i, k)
  <1>1. /\ q[i].score \in Nat /\ q[j].score \in Nat /\ q[k].score \in Nat
        /\ i \in Nat /\ j \in Nat /\ k \in Nat
    BY SkillNumbers
  <1> QED BY <1>1 DEF Better

LEMMA LeastExists ==
  ASSUME NEW T \in SUBSET Nat, T # {}
  PROVE  \E x \in T : \A y \in T : x <= y
  <1> DEFINE R == OpToRel(<, Nat)
  <1>1. R = {ss \in Nat \X Nat : ss[1] < ss[2]}
    BY DEF OpToRel
  <1>2. IsWellFoundedOn(R, Nat)
    BY NatLessThanWellFounded
  <1> HIDE DEF R
  <1>3. PICK x \in T : \A y \in T : <<y, x>> \notin R
    BY <1>2, WFMin
  <1>4. \A y \in T : ~(y < x)
    BY <1>1, <1>3
  <1> QED BY <1>3, <1>4

LEMMA OneMore ==
  ASSUME NEW n \in Nat, n >= 1
  PROVE  1..n = (1..(n - 1)) \cup {n} /\ n \notin 1..(n - 1)
  OBVIOUS

(* Among any skills one is the best: the first prefix of the list without   *)
(* one would have a best before its last.                                   *)
LEMMA BestExists ==
  ASSUME NEW q \in Seq(Skill), NEW S \in SUBSET DOMAIN q, S # {}
  PROVE  \E b \in S : \A i \in S \ {b} : Better(q, b, i)
  <1> DEFINE Upto(n) == S \cap (1..n)
             HasBest(n) == \E b \in Upto(n) : \A i \in Upto(n) \ {b} : Better(q, b, i)
             Bad == {n \in 1..Len(q) : Upto(n) # {} /\ ~HasBest(n)}
  <1>1. Len(q) \in Nat /\ DOMAIN q = 1..Len(q) /\ Upto(Len(q)) = S
    OBVIOUS
  <1>2. Bad = {}
    <2>1. SUFFICES ASSUME Bad # {} PROVE FALSE
      OBVIOUS
    <2>2. Bad \in SUBSET Nat
      BY <1>1
    <2>3. PICK n \in Bad : \A k \in Bad : n <= k
      BY <2>1, <2>2, LeastExists
    <2>4. n \in 1..Len(q) /\ Upto(n) # {} /\ ~HasBest(n) /\ n \in Nat /\ n - 1 \in Nat
      BY <1>1
    <2>5. Upto(n) \subseteq Upto(n - 1) \cup {n} /\ Upto(n - 1) \subseteq Upto(n) /\ n \notin Upto(n - 1)
      <3>1. n >= 1
        BY <2>4
      <3>2. 1..n = (1..(n - 1)) \cup {n} /\ n \notin 1..(n - 1)
        BY ONLY <2>4, <3>1, OneMore
      <3> QED BY <3>2
    <2>6. n - 1 \notin Bad
      <3>1. ASSUME n - 1 \in Bad PROVE n <= n - 1
        BY <2>3, <3>1
      <3>2. ~(n <= n - 1)
        BY <2>4
      <3> QED BY <3>1, <3>2
    <2>7. CASE Upto(n - 1) = {}
      <3>1. Upto(n) = {n}
        BY <2>4, <2>5, <2>7
      <3> QED BY <2>4, <3>1
    <2>8. CASE Upto(n - 1) # {}
      <3>1. n - 1 \in 1..Len(q)
        BY <1>1, <2>4, <2>8
      <3>2. HasBest(n - 1)
        BY <2>6, <2>8, <3>1
      <3>3. PICK b \in Upto(n - 1) : \A i \in Upto(n - 1) \ {b} : Better(q, b, i)
        BY <3>2
      <3>4. CASE n \notin S
        <4>1. Upto(n) = Upto(n - 1)
          BY <2>5, <3>4
        <4> QED BY <2>4, <3>3, <4>1
      <3>5. CASE n \in S
        <4>1. b \in DOMAIN q /\ n \in DOMAIN q /\ b # n /\ b \in Upto(n) /\ n \in Upto(n)
          BY <1>1, <2>4, <2>5, <3>3, <3>5
        <4>2. CASE Better(q, b, n)
          <5>1. \A i \in Upto(n) \ {b} : Better(q, b, i)
            BY <2>5, <3>3, <4>2
          <5> QED BY <2>4, <4>1, <5>1
        <4>3. CASE ~Better(q, b, n)
          <5>1. Better(q, n, b)
            BY <4>1, <4>3, BetterIsTotal
          <5>2. ASSUME NEW i \in Upto(n) \ {n} PROVE Better(q, n, i)
            <6>1. i \in Upto(n - 1) /\ i \in DOMAIN q
              BY <2>5
            <6>2. CASE i = b
              BY <5>1, <6>2
            <6>3. CASE i # b
              <7>1. Better(q, b, i)
                BY <3>3, <6>1, <6>3
              <7> QED BY <4>1, <5>1, <6>1, <7>1, BetterIsTransitive
            <6> QED BY <6>2, <6>3
          <5> QED BY <2>4, <4>1, <5>2
        <4> QED BY <4>2, <4>3
      <3> QED BY <3>4, <3>5
    <2> QED BY <2>7, <2>8
  <1>3. S # {} => 1 <= Len(q)
    BY <1>1
  <1>4. HasBest(Len(q))
    BY <1>1, <1>2, <1>3
  <1> QED BY <1>1, <1>4

(* Every skill that has others has a nearest one among them. *)
LEMMA NearestExists ==
  ASSUME NEW q \in Seq(Skill), NEW i \in DOMAIN q, NEW A \in SUBSET DOMAIN q, A # {}
  PROVE  \E j \in A : \A k \in A : Dist(q[i].at, q[j].at) <= Dist(q[i].at, q[k].at)
  <1>1. \A j \in A : Dist(q[i].at, q[j].at) \in Nat
    <2>1. ASSUME NEW j \in A PROVE Dist(q[i].at, q[j].at) \in Nat
      <3>1. q[i].at \in Nat /\ q[j].at \in Nat
        BY SkillNumbers
      <3> QED BY <3>1 DEF Dist
    <2> QED BY <2>1
  <1> DEFINE T == {Dist(q[i].at, q[j].at) : j \in A}
  <1>2. T \in SUBSET Nat /\ T # {}
    BY <1>1
  <1>3. PICK d \in T : \A y \in T : d <= y
    BY <1>2, LeastExists
  <1> QED BY <1>3

-----------------------------------------------------------------------------
(* What passes of the sleep cycle hold, and what they do to skills. *)

ActiveIn(q) == {i \in DOMAIN q : q[i].by = 0}

(* What the invariant says of one pass with record v and the skills q. *)
Marks(q, v) ==
  v.pc = "marking" =>
    /\ v.pair.loser \in DOMAIN q /\ v.pair.survivor \in DOMAIN q
    /\ Better(q, v.pair.survivor, v.pair.loser)

Scanned(q, v) ==
  /\ v.pc # "scanning" => v.todo = {}
  /\ v.pc \in {"scanning", "done"} =>
       \A i \in (ActiveIn(q) \cap 1..v.seen) \ v.todo :
       \A j \in ActiveIn(q) \cap 1..v.seen :
         i # j => Dist(q[i].at, q[j].at) > Same

Inherited(q) ==
  \A i \in DOMAIN q : q[i].by # 0 => q[i].by \in DOMAIN q /\ Better(q, q[i].by, i)

LEMMA SkillParts ==
  HeirsKept /\ TwinsKept
    <=> Inherited(skill) /\ \A p \in Pass : Marks(skill, pass[p]) /\ Scanned(skill, pass[p])
  BY DEF HeirsKept, TwinsKept, Inherited, Marks, Scanned, Active, ActiveIn

LEMMA SkillPartsNext ==
  (HeirsKept /\ TwinsKept)'
    <=> Inherited(skill') /\ \A p \in Pass : Marks(skill', pass'[p]) /\ Scanned(skill', pass'[p])
  BY DEF HeirsKept, TwinsKept, Inherited, Marks, Scanned, Active, ActiveIn

LEMMA SkillsFrame ==
  ASSUME HeirsKept, TwinsKept, UNCHANGED <<skill, pass>>
  PROVE  HeirsKept' /\ TwinsKept'
  BY DEF HeirsKept, TwinsKept, Active

(* A step of one pass that leaves the skills alone. *)
LEMMA PassSet ==
  ASSUME SkillTyped, PassTyped, HeirsKept, TwinsKept, UNCHANGED skill,
         NEW p \in Pass, NEW v \in PassRow, pass' = [pass EXCEPT ![p] = v],
         Marks(skill, v), Scanned(skill, v)
  PROVE  PassTyped' /\ HeirsKept' /\ TwinsKept'
  <1>1. pass' \in [Pass -> PassRow] /\ pass'[p] = v /\ \A x \in Pass \ {p} : pass'[x] = pass[x]
    BY DEF PassTyped
  <1>2. PassTyped'
    BY <1>1 DEF PassTyped, PassRow
  <1>3. Inherited(skill) /\ \A x \in Pass : Marks(skill, pass[x]) /\ Scanned(skill, pass[x])
    BY SkillParts
  <1>4. \A x \in Pass : Marks(skill', pass'[x]) /\ Scanned(skill', pass'[x])
    BY <1>1, <1>3
  <1> QED BY <1>2, <1>3, <1>4, SkillPartsNext

(* A skill more: those that were keep their place, so what is known of them holds. *)
LEMMA AppendKeeps ==
  ASSUME NEW q \in Seq(Skill), NEW new \in Skill, new.by = 0, NEW q2, q2 = Append(q, new),
         Inherited(q)
  PROVE  /\ q2 \in Seq(Skill) /\ DOMAIN q \subseteq DOMAIN q2 /\ Len(q2) = Len(q) + 1
         /\ Len(q) \in Nat
         /\ Inherited(q2)
         /\ \A v : Marks(q, v) => Marks(q2, v)
         /\ \A v : v.seen \in 0..Len(q) /\ Scanned(q, v) => Scanned(q2, v)
  <1>1. /\ q2 \in Seq(Skill) /\ Len(q2) = Len(q) + 1 /\ Len(q) \in Nat
        /\ DOMAIN q = 1..Len(q) /\ DOMAIN q2 = 1..(Len(q) + 1)
        /\ q2[Len(q) + 1] = new /\ \A i \in 1..Len(q) : q2[i] = q[i]
    OBVIOUS
  <1>2. \A i \in DOMAIN q : q2[i] = q[i] /\ i \in DOMAIN q2
    BY <1>1
  <1>3. \A i \in DOMAIN q2 : i \in DOMAIN q \/ q2[i].by = 0
    <2>1. \A i \in DOMAIN q2 : i \in DOMAIN q \/ i = Len(q) + 1
      BY <1>1
    <2> QED BY <1>1, <2>1
  <1>4. \A i, j \in DOMAIN q : Better(q2, i, j) <=> Better(q, i, j)
    BY <1>2 DEF Better
  <1>5. Inherited(q2)
    BY <1>2, <1>3, <1>4 DEF Inherited
  <1>6. \A v : Marks(q, v) => Marks(q2, v)
    BY <1>2, <1>4 DEF Marks
  <1>7. ASSUME NEW v, v.seen \in 0..Len(q), Scanned(q, v) PROVE Scanned(q2, v)
    <2>1. (1..v.seen) \subseteq DOMAIN q
      BY <1>1, <1>7
    <2>2. ActiveIn(q2) \cap (1..v.seen) = ActiveIn(q) \cap (1..v.seen)
      BY <1>2, <2>1 DEF ActiveIn
    <2>3. \A i, j \in 1..v.seen : Dist(q2[i].at, q2[j].at) = Dist(q[i].at, q[j].at)
      BY <1>2, <2>1
    <2> QED BY <1>7, <2>2, <2>3 DEF Scanned
  <1> QED BY <1>1, <1>2, <1>5, <1>6, <1>7

(* One retired in favour of a better one takes nothing from the others. *)
LEMMA RetireKeeps ==
  ASSUME NEW q \in Seq(Skill), NEW l \in DOMAIN q, NEW s \in DOMAIN q, Better(q, s, l),
         NEW q2, DOMAIN q2 = DOMAIN q,
         \A i \in DOMAIN q : q2[i].at = q[i].at /\ q2[i].score = q[i].score,
         \A i \in DOMAIN q \ {l} : q2[i].by = q[i].by,
         q2[l].by = s, Inherited(q)
  PROVE  /\ Inherited(q2)
         /\ \A v : Marks(q, v) => Marks(q2, v)
         /\ \A v : Scanned(q, v) => Scanned(q2, v)
  <1>1. s \in Nat /\ s # 0
    <2>1. DOMAIN q = 1..Len(q) /\ Len(q) \in Nat
      OBVIOUS
    <2> QED BY <2>1
  <1>2. DOMAIN q2 = DOMAIN q
    OBVIOUS
  <1>3. /\ \A i \in DOMAIN q : q2[i].at = q[i].at /\ q2[i].score = q[i].score
        /\ \A i \in DOMAIN q \ {l} : q2[i].by = q[i].by
        /\ q2[l].by = s
    OBVIOUS
  <1>4. \A i, j \in DOMAIN q : Better(q2, i, j) <=> Better(q, i, j)
    BY <1>3 DEF Better
  <1>5. Inherited(q2)
    <2>1. ASSUME NEW i \in DOMAIN q, q2[i].by # 0
          PROVE  q2[i].by \in DOMAIN q /\ Better(q2, q2[i].by, i)
      <3>1. CASE i = l
        BY <1>3, <1>4, <3>1
      <3>2. CASE i # l
        <4>1. q[i].by # 0 /\ q2[i].by = q[i].by
          BY <1>3, <2>1, <3>2
        <4>2. q[i].by \in DOMAIN q /\ Better(q, q[i].by, i)
          BY <4>1 DEF Inherited
        <4> QED BY <1>4, <4>1, <4>2
      <3> QED BY <3>1, <3>2
    <2> QED BY <1>2, <2>1 DEF Inherited
  <1>6. \A v : Marks(q, v) => Marks(q2, v)
    BY <1>2, <1>4 DEF Marks
  <1>7. ActiveIn(q2) \subseteq ActiveIn(q)
    BY <1>1, <1>2, <1>3 DEF ActiveIn
  <1>8. ASSUME NEW v, Scanned(q, v) PROVE Scanned(q2, v)
    <2>1. \A i, j \in ActiveIn(q2) : Dist(q2[i].at, q2[j].at) = Dist(q[i].at, q[j].at)
      BY <1>3, <1>7 DEF ActiveIn
    <2>2. v.pc # "scanning" => v.todo = {}
      BY <1>8 DEF Scanned
    <2>3. ASSUME v.pc \in {"scanning", "done"},
                 NEW i \in (ActiveIn(q2) \cap 1..v.seen) \ v.todo,
                 NEW j \in ActiveIn(q2) \cap 1..v.seen, i # j
          PROVE  Dist(q2[i].at, q2[j].at) > Same
      <3>1. i \in (ActiveIn(q) \cap 1..v.seen) \ v.todo /\ j \in ActiveIn(q) \cap 1..v.seen
        BY <1>7
      <3>2. Dist(q[i].at, q[j].at) > Same
        BY <1>8, <2>3, <3>1 DEF Scanned
      <3> QED BY <2>1, <3>2
    <2> QED BY <2>2, <2>3 DEF Scanned
  <1> QED BY <1>5, <1>6, <1>8

LEMMA FewAreNone ==
  ASSUME NEW n \in Nat, NEW A \in SUBSET (1..n), Cardinality(A) < 2
  PROVE  \A i, j \in A : i = j
  <1>1. SUFFICES ASSUME NEW i \in A, NEW j \in A, i # j PROVE FALSE
    OBVIOUS
  <1>2. IsFiniteSet(1..n)
    BY FS_Interval
  <1>3. IsFiniteSet(A)
    BY <1>2, FS_Subset
  <1>4. IsFiniteSet({i}) /\ Cardinality({i}) = 1
    BY FS_Singleton
  <1>5. IsFiniteSet({i} \cup {j}) /\ Cardinality({i} \cup {j}) = 2
    BY <1>1, <1>4, FS_AddElement
  <1>6. Cardinality({i} \cup {j}) <= Cardinality(A) /\ Cardinality(A) \in Nat
    BY <1>1, <1>3, <1>5, FS_Subset, FS_CardinalityType
  <1> QED BY <1>5, <1>6

(* A pass: it rescores, lists, scans, and marks what its scan found. *)
LEMMA PassKept ==
  ASSUME SkillTyped, PlanTyped, PassTyped, FaultsTyped, HeirsKept, TwinsKept, PlansPicked,
         NEW p \in Pass, PassStep(p)
  PROVE  /\ SkillTyped' /\ PlanTyped' /\ PassTyped' /\ FaultsTyped' /\ HeirsKept' /\ TwinsKept'
         /\ faults' = 0 => faults = 0
         /\ \A x \in Run : SameOutcome(x)
         /\ PlansPicked'
  <1>1. /\ pass[p] \in PassRow /\ skill \in Seq(Skill) /\ Len(skill) \in Nat
        /\ DOMAIN skill = 1..Len(skill) /\ ActiveIn(skill) = Active
    BY DEF PassTyped, SkillTyped, ActiveIn, Active
  <1>2. /\ Inherited(skill) /\ Marks(skill, pass[p]) /\ Scanned(skill, pass[p])
        /\ \A x \in Pass : Marks(skill, pass[x]) /\ Scanned(skill, pass[x])
    BY SkillParts
  <1>3. FaultsTyped' /\ (faults' = 0 => faults = 0)
    <2>1. Fault \/ UNCHANGED faults
      BY DEF PassStep, WakeUp, Rescore, Rescored, ListActive, Scan, MarkSuperseded
    <2> QED BY <2>1, FaultTyped
  <1>4. PlanTyped' /\ \A x \in Run : SameOutcome(x)
    <2>1. CASE UNCHANGED plan
      BY <2>1 DEF PlanTyped, SameOutcome
    <2>2. ASSUME NEW r \in Run, NEW v \in Scores, UpdateOutcome(r, FALSE, v), plan[r].score # NoScore
          PROVE  PlanTyped' /\ \A x \in Run : SameOutcome(x)
      BY <2>2, UpdateAdds, Sentinels DEF SameOutcome
    <2>3. ASSUME NEW r \in Run, Rescore(p, r)
          PROVE  PlanTyped' /\ \A x \in Run : SameOutcome(x)
      BY <2>1, <2>2, <2>3 DEF Rescore, PlansPicked
    <2> QED BY <2>1, <2>3 DEF PassStep, WakeUp, Rescored, ListActive, Scan, MarkSuperseded
  <1>15. PlansPicked'
    <2>1. \A x \in Pass \ {p} : pass'[x].plans = pass[x].plans
      BY DEF PassStep, WakeUp, Rescore, Rescored, ListActive, Scan, MarkSuperseded, PassTyped
    <2>2. \A x \in pass'[p].plans : x \in Run /\ (x \in pass[p].plans \/ plan[x].score # NoScore)
      <3>1. CASE WakeUp(p)
        BY <3>1 DEF WakeUp, PassTyped, PassRow
      <3>2. CASE ~WakeUp(p)
        <4>1. pass'[p].plans \subseteq pass[p].plans
          <5>1. ASSUME NEW r \in Run, Rescore(p, r)
                PROVE  pass'[p].plans \subseteq pass[p].plans
            BY <1>1, <5>1 DEF Rescore, PassTyped, PassRow
          <5>2. CASE Rescored(p) \/ ListActive(p)
            BY <1>1, <5>2 DEF Rescored, ListActive, PassTyped, PassRow
          <5>3. CASE Scan(p)
            <6>1. \/ \E i, j \in DOMAIN skill :
                       pass' = [pass EXCEPT ![p].pc = "marking", ![p].todo = {},
                                            ![p].pair = PickSurvivor(i, j)]
                  \/ \E i \in DOMAIN skill :
                       pass' = [pass EXCEPT ![p].todo = @ \ {i},
                                            ![p].pc = IF pass[p].todo = {i} THEN "done" ELSE @]
              BY <1>1, <5>3 DEF Scan, Neighbours, Active, PassRow
            <6>2. DOMAIN pass = Pass /\ pass[p] = [pc |-> pass[p].pc, plans |-> pass[p].plans,
                     todo |-> pass[p].todo, pair |-> pass[p].pair, seen |-> pass[p].seen]
              BY <1>1 DEF PassTyped, PassRow
            <6> QED BY ONLY <6>1, <6>2, p \in Pass
          <5>4. CASE MarkSuperseded(p)
            <6>1. \E s \in PassStage : pass' = [pass EXCEPT ![p].pc = s, ![p].pair = NoPair]
              BY <5>4 DEF MarkSuperseded, PassStage
            <6>2. DOMAIN pass = Pass /\ pass[p] = [pc |-> pass[p].pc, plans |-> pass[p].plans,
                     todo |-> pass[p].todo, pair |-> pass[p].pair, seen |-> pass[p].seen]
              BY <1>1 DEF PassTyped, PassRow
            <6> QED BY ONLY <6>1, <6>2, p \in Pass
          <5> QED BY <3>2, <5>1, <5>2, <5>3, <5>4 DEF PassStep
        <4> QED BY <1>1, <4>1 DEF PassRow
      <3> QED BY <3>1, <3>2
    <2>3. \A x \in Pass : pass[x].plans \subseteq Run
      BY DEF PassTyped, PassRow
    <2> QED BY <1>4, <2>1, <2>2, <2>3 DEF PlansPicked, SameOutcome
  <1> SUFFICES SkillTyped' /\ PassTyped' /\ HeirsKept' /\ TwinsKept'
    BY <1>3, <1>4, <1>15
  <1>5. UNCHANGED skill => SkillTyped'
    BY TypeFrame DEF SkillTyped
  <1>6. ASSUME NEW v \in PassRow, pass' = [pass EXCEPT ![p] = v], UNCHANGED skill,
               Marks(skill, v), Scanned(skill, v)
        PROVE  SkillTyped' /\ PassTyped' /\ HeirsKept' /\ TwinsKept'
    BY <1>5, <1>6, PassSet
  <1>7. CASE WakeUp(p)
    <2>1. PICK P \in SUBSET Run : pass' = [pass EXCEPT ![p].pc = "rescoring", ![p].plans = P]
      BY <1>7 DEF WakeUp
    <2>2. PICK v \in PassRow : v = [pass[p] EXCEPT !.pc = "rescoring", !.plans = P]
      BY <1>1 DEF PassRow, PassStage
    <2>3. v.pc = "rescoring" /\ v.todo = pass[p].todo /\ pass' = [pass EXCEPT ![p] = v]
      BY <1>1, <2>1, <2>2 DEF PassRow, PassTyped
    <2>4. pass[p].pc # "scanning" /\ UNCHANGED skill
      BY <1>7 DEF WakeUp
    <2> QED BY <1>2, <1>6, <2>3, <2>4 DEF Marks, Scanned
  <1>8. ASSUME NEW r \in Run, Rescore(p, r)
        PROVE  SkillTyped' /\ PassTyped' /\ HeirsKept' /\ TwinsKept'
    <2>1. pass' = [pass EXCEPT ![p].plans = @ \ {r}] /\ pass[p].pc = "rescoring" /\ UNCHANGED skill
      BY <1>8 DEF Rescore
    <2>2. PICK P \in SUBSET Run : P = pass[p].plans \ {r}
      BY <1>1 DEF PassRow
    <2>3. PICK v \in PassRow : v = [pass[p] EXCEPT !.plans = P]
      BY <1>1 DEF PassRow
    <2>4. v.pc = "rescoring" /\ v.todo = pass[p].todo /\ pass' = [pass EXCEPT ![p] = v]
      BY <1>1, <2>1, <2>2, <2>3 DEF PassRow, PassTyped
    <2> QED BY <1>2, <1>6, <2>1, <2>4 DEF Marks, Scanned
  <1>9. CASE Rescored(p)
    <2>1. pass' = [pass EXCEPT ![p].pc = "listing"] /\ pass[p].pc = "rescoring" /\ UNCHANGED skill
      BY <1>9 DEF Rescored
    <2>2. PICK v \in PassRow : v = [pass[p] EXCEPT !.pc = "listing"]
      BY <1>1 DEF PassRow, PassStage
    <2>3. v.pc = "listing" /\ v.todo = pass[p].todo /\ pass' = [pass EXCEPT ![p] = v]
      BY <1>1, <2>1, <2>2 DEF PassRow, PassTyped
    <2> QED BY <1>2, <1>6, <2>1, <2>3 DEF Marks, Scanned
  <1>10. CASE ListActive(p)
    <2>1. pass[p].pc = "listing" /\ UNCHANGED skill /\ Active \in SUBSET DOMAIN skill
      BY <1>10 DEF ListActive, Active
    <2>2. CASE /\ Cardinality(Active) < 2
               /\ pass' = [pass EXCEPT ![p].pc = "done", ![p].seen = Len(skill)]
      <3>1. PICK v \in PassRow : v = [pass[p] EXCEPT !.pc = "done", !.seen = Len(skill)]
        <4>1. Len(skill) \in 0..Len(skill) /\ "done" \in PassStage
          BY <1>1 DEF PassStage
        <4> QED BY <1>1, <4>1 DEF PassRow
      <3>2. /\ v.pc = "done" /\ v.todo = pass[p].todo /\ v.seen = Len(skill)
            /\ pass' = [pass EXCEPT ![p] = v]
        BY <1>1, <2>2, <3>1 DEF PassRow, PassTyped
      <3>3. \A i, j \in Active : i = j
        BY <1>1, <2>1, <2>2, FewAreNone
      <3>4. Scanned(skill, v)
        BY <1>1, <1>2, <2>1, <3>2, <3>3 DEF Scanned
      <3> QED BY <1>6, <2>1, <3>2, <3>4 DEF Marks
    <2>3. CASE /\ Cardinality(Active) >= 2
               /\ pass' = [pass EXCEPT ![p].pc = "scanning", ![p].todo = Active,
                                       ![p].seen = Len(skill)]
      <3>1. PICK v \in PassRow :
              v = [pass[p] EXCEPT !.pc = "scanning", !.todo = Active, !.seen = Len(skill)]
        <4>1. Len(skill) \in 0..Len(skill) /\ "scanning" \in PassStage
          BY <1>1 DEF PassStage
        <4> QED BY <1>1, <2>1, <4>1 DEF PassRow
      <3>2. v.pc = "scanning" /\ v.todo = Active /\ pass' = [pass EXCEPT ![p] = v]
        BY <1>1, <2>3, <3>1 DEF PassRow, PassTyped
      <3>3. Scanned(skill, v)
        BY <1>1, <3>2 DEF Scanned
      <3> QED BY <1>6, <2>1, <3>2, <3>3 DEF Marks
    <2> QED BY <1>10, <2>2, <2>3 DEF ListActive
  <1>11. CASE Scan(p)
    <2>1. pass[p].pc = "scanning" /\ UNCHANGED skill
      BY <1>11 DEF Scan
    <2> DEFINE twins(i) == {j \in Neighbours(i) : Dist(skill[i].at, skill[j].at) <= Same}
    <2>2. PICK i \in pass[p].todo :
            \/ \E j \in twins(i) :
                 pass' = [pass EXCEPT ![p].pc = "marking", ![p].todo = {},
                                      ![p].pair = PickSurvivor(i, j)]
            \/ /\ twins(i) = {}
               /\ pass' = [pass EXCEPT ![p].todo = @ \ {i},
                                       ![p].pc = IF pass[p].todo = {i} THEN "done" ELSE @]
      BY <1>11 DEF Scan
    <2>3. i \in DOMAIN skill /\ Active \in SUBSET DOMAIN skill
      BY <1>1 DEF PassRow, Active
    <2>4. ASSUME NEW j \in twins(i),
                 pass' = [pass EXCEPT ![p].pc = "marking", ![p].todo = {},
                                      ![p].pair = PickSurvivor(i, j)]
          PROVE  SkillTyped' /\ PassTyped' /\ HeirsKept' /\ TwinsKept'
      <3>1. j \in Active /\ j # i /\ j \in DOMAIN skill
        BY <2>3, <2>4 DEF Neighbours
      <3>2. PICK l, s \in DOMAIN skill :
              PickSurvivor(i, j) = [loser |-> l, survivor |-> s] /\ Better(skill, s, l)
        <4>1. CASE Better(skill, j, i)
          BY <2>3, <3>1, <4>1 DEF PickSurvivor
        <4>2. CASE ~Better(skill, j, i)
          <5>1. Better(skill, i, j)
            BY <1>1, <2>3, <3>1, <4>2, BetterIsTotal
          <5> QED BY <2>3, <3>1, <4>2, <5>1 DEF PickSurvivor
        <4> QED BY <4>1, <4>2
      <3>3. PICK pair \in [loser : 0..Len(skill), survivor : 0..Len(skill)] :
              pair = [loser |-> l, survivor |-> s] /\ pair.loser = l /\ pair.survivor = s
        <4>1. ASSUME NEW n \in Nat, NEW a \in 1..n, NEW b \in 1..n
              PROVE  [loser |-> a, survivor |-> b] \in [loser : 0..n, survivor : 0..n]
          <5>1. a \in 0..n /\ b \in 0..n
            OBVIOUS
          <5> QED BY <5>1
        <4>2. [loser |-> l, survivor |-> s] \in [loser : 0..Len(skill), survivor : 0..Len(skill)]
          BY <1>1, <4>1
        <4> QED BY <4>2
      <3>4. PICK v \in PassRow : v = [pass[p] EXCEPT !.pc = "marking", !.todo = {}, !.pair = pair]
        BY <1>1 DEF PassRow, PassStage
      <3>5. /\ v.pc = "marking" /\ v.todo = {} /\ v.pair = pair
            /\ pass' = [pass EXCEPT ![p] = v]
        BY <1>1, <2>4, <3>2, <3>3, <3>4 DEF PassRow, PassTyped
      <3> QED BY <1>6, <2>1, <3>2, <3>3, <3>5 DEF Marks, Scanned
    <2>5. ASSUME twins(i) = {},
                 pass' = [pass EXCEPT ![p].todo = @ \ {i},
                                      ![p].pc = IF pass[p].todo = {i} THEN "done" ELSE @]
          PROVE  SkillTyped' /\ PassTyped' /\ HeirsKept' /\ TwinsKept'
      <3>1. ASSUME NEW k \in Active, k # i PROVE Dist(skill[i].at, skill[k].at) > Same
        <4>1. PICK j \in Active \ {i} : \A x \in Active \ {i} :
                Dist(skill[i].at, skill[j].at) <= Dist(skill[i].at, skill[x].at)
          BY <1>1, <2>3, <3>1, NearestExists
        <4>2. j \in Neighbours(i)
          BY <4>1 DEF Neighbours
        <4>3. ~(Dist(skill[i].at, skill[j].at) <= Same)
          BY <2>5, <4>2
        <4>4. Dist(skill[i].at, skill[j].at) \in Nat /\ Dist(skill[i].at, skill[k].at) \in Nat
          <5>1. skill[i].at \in Nat /\ skill[j].at \in Nat /\ skill[k].at \in Nat
            BY <1>1, <2>3, <3>1, <4>1, SkillNumbers
          <5> QED BY <5>1 DEF Dist
        <4>5. Same \in Nat
          BY KnowledgeAssumption
        <4> QED BY <3>1, <4>1, <4>3, <4>4, <4>5
      <3>2. PICK todo \in SUBSET DOMAIN skill : todo = pass[p].todo \ {i}
        BY <1>1 DEF PassRow
      <3>3. PICK pc \in PassStage : pc = IF pass[p].todo = {i} THEN "done" ELSE pass[p].pc
        BY <1>1 DEF PassRow, PassStage
      <3>4. PICK v \in PassRow : v = [pass[p] EXCEPT !.todo = todo, !.pc = pc]
        BY <1>1 DEF PassRow
      <3>5. /\ v.pc = pc /\ v.todo = todo /\ v.seen = pass[p].seen
            /\ pass' = [pass EXCEPT ![p] = v]
        BY <1>1, <2>5, <3>2, <3>3, <3>4 DEF PassRow, PassTyped
      <3>6. pc \in {"scanning", "done"} /\ (pc = "done" => todo = {})
        BY <2>1, <3>2, <3>3
      <3>7. ASSUME NEW k \in (ActiveIn(skill) \cap 1..v.seen) \ v.todo,
                   NEW j \in ActiveIn(skill) \cap 1..v.seen, k # j
            PROVE  Dist(skill[k].at, skill[j].at) > Same
        <4>1. CASE k = i
          BY <1>1, <3>1, <3>7, <4>1
        <4>2. CASE k # i
          <5>1. k \in (ActiveIn(skill) \cap 1..pass[p].seen) \ pass[p].todo
            BY <3>2, <3>5, <3>7, <4>2
          <5> QED BY <1>2, <2>1, <3>5, <3>7, <5>1 DEF Scanned
        <4> QED BY <4>1, <4>2
      <3>8. Scanned(skill, v)
        BY <3>5, <3>6, <3>7 DEF Scanned
      <3> QED BY <1>6, <2>1, <3>5, <3>6, <3>8 DEF Marks
    <2> QED BY <2>2, <2>4, <2>5
  <1>12. CASE MarkSuperseded(p)
    <2>1. PICK l, s \in DOMAIN skill :
            l = pass[p].pair.loser /\ s = pass[p].pair.survivor /\ Better(skill, s, l)
      BY <1>2, <1>12 DEF MarkSuperseded, Marks
    <2>2. pass[p].todo = {} /\ NoPair \in [loser : 0..Len(skill), survivor : 0..Len(skill)]
      BY <1>1, <1>2, <1>12 DEF MarkSuperseded, Scanned, NoPair
    <2>3. ASSUME NEW pc \in {"listing", "bailed"},
                 pass' = [pass EXCEPT ![p].pc = pc, ![p].pair = NoPair]
          PROVE  \E v \in PassRow : /\ v.pc = pc /\ v.todo = {}
                                    /\ pass' = [pass EXCEPT ![p] = v]
      <3>1. PICK v \in PassRow : v = [pass[p] EXCEPT !.pc = pc, !.pair = NoPair]
        BY <1>1, <2>2 DEF PassRow, PassStage
      <3> QED BY <1>1, <2>2, <2>3, <3>1 DEF PassRow, PassTyped
    <2>4. CASE UNCHANGED skill /\ pass' = [pass EXCEPT ![p].pc = "bailed", ![p].pair = NoPair]
      <3>1. PICK v \in PassRow : v.pc = "bailed" /\ v.todo = {} /\ pass' = [pass EXCEPT ![p] = v]
        BY <2>3, <2>4
      <3> QED BY <1>6, <2>4, <3>1 DEF Marks, Scanned
    <2>5. CASE /\ skill' = [skill EXCEPT ![l].by = s]
               /\ pass' = [pass EXCEPT ![p].pc = "listing", ![p].pair = NoPair]
      <3>1. PICK v \in PassRow : v.pc = "listing" /\ v.todo = {} /\ pass' = [pass EXCEPT ![p] = v]
        BY <2>3, <2>5
      <3>2. PICK q, q2 : q = skill /\ q2 = skill'
        OBVIOUS
      <3>3. /\ q2 \in Seq(Skill) /\ DOMAIN q2 = DOMAIN q /\ Len(q2) = Len(q)
            /\ Inherited(q2)
            /\ \A w : Marks(q, w) => Marks(q2, w)
            /\ \A w : Scanned(q, w) => Scanned(q2, w)
        <4>1. q \in Seq(Skill) /\ l \in DOMAIN q /\ s \in DOMAIN q /\ Better(q, s, l)
                /\ Inherited(q)
          BY <1>1, <1>2, <2>1, <3>2
        <4>2. skill[l] \in Skill /\ s \in Nat
          BY <1>1, <2>1
        <4>3. PICK row \in Skill : row = [skill[l] EXCEPT !.by = s]
          BY <4>2 DEF Skill
        <4>4. row.at = skill[l].at /\ row.score = skill[l].score /\ row.by = s
          BY <4>2, <4>3 DEF Skill
        <4>5. skill' = [skill EXCEPT ![l] = row]
          BY <2>5, <4>3
        <4>6. /\ skill' \in Seq(Skill) /\ DOMAIN skill' = DOMAIN skill /\ Len(skill') = Len(skill)
              /\ skill'[l] = row /\ \A i \in DOMAIN skill \ {l} : skill'[i] = skill[i]
          BY <1>1, <2>1, <4>5
        <4>7. /\ q2 \in Seq(Skill) /\ DOMAIN q2 = DOMAIN q /\ Len(q2) = Len(q)
              /\ \A i \in DOMAIN q : q2[i].at = q[i].at /\ q2[i].score = q[i].score
              /\ \A i \in DOMAIN q \ {l} : q2[i].by = q[i].by
              /\ q2[l].by = s
          BY <3>2, <4>4, <4>6
        <4> QED BY ONLY <4>1, <4>7, RetireKeeps
      <3>4. pass' \in [Pass -> PassRow] /\ pass'[p] = v /\ \A x \in Pass \ {p} : pass'[x] = pass[x]
        BY <3>1 DEF PassTyped
      <3>5. SkillTyped' /\ PassTyped'
        BY <3>2, <3>3, <3>4 DEF SkillTyped, PassTyped, PassRow
      <3>6. Marks(q2, v) /\ Scanned(q2, v)
        BY <3>1 DEF Marks, Scanned
      <3>7. \A x \in Pass : Marks(q2, pass'[x]) /\ Scanned(q2, pass'[x])
        BY <1>2, <3>2, <3>3, <3>4, <3>6
      <3> QED BY <3>2, <3>3, <3>5, <3>7, SkillPartsNext
    <2> QED BY <1>12, <2>1, <2>4, <2>5 DEF MarkSuperseded
  <1> QED BY <1>7, <1>8, <1>9, <1>10, <1>11, <1>12 DEF PassStep

(* A run stores a skill, or leaves the skills alone. *)
LEMMA StoreKept ==
  ASSUME SkillTyped, RunTyped, PassTyped, OutcomesStand, HeirsKept, TwinsKept,
         NEW r \in Run, RunStep(r)
  PROVE  SkillTyped' /\ PassTyped' /\ HeirsKept' /\ TwinsKept'
  <1>1. UNCHANGED pass
    BY DEF RunStep, Begin, Finish, Grade, WriteScore, Distill, Describe, Emit, Die
  <1>2. CASE UNCHANGED skill
    BY <1>1, <1>2, TypeFrame, SkillsFrame
  <1>3. CASE Emit(r) /\ StoreEmitted(run[r].at, run[r].verdict)
    <2>1. run[r].at \in Place /\ run[r].verdict \in Scores
      BY <1>3 DEF Emit, At, OutcomesStand, Distilling
    <2>2. PICK new \in Skill :
            new = [at |-> run[r].at, score |-> run[r].verdict, by |-> 0] /\ new.by = 0
      <3>1. ASSUME NEW a \in Place, NEW v \in Scores
            PROVE  [at |-> a, score |-> v, by |-> 0] \in Skill
        BY DEF Skill
      <3> QED BY <2>1, <3>1
    <2>3. PICK q, q2 : q = skill /\ q2 = skill'
      OBVIOUS
    <2>4. /\ Inherited(q) /\ q \in Seq(Skill) /\ q2 = Append(q, new)
          /\ \A x \in Pass : Marks(q, pass[x]) /\ Scanned(q, pass[x])
      BY <1>3, <2>2, <2>3, SkillParts DEF SkillTyped, StoreEmitted
    <2>5. /\ q2 \in Seq(Skill) /\ DOMAIN q \subseteq DOMAIN q2 /\ Len(q2) = Len(q) + 1
          /\ Len(q) \in Nat /\ Inherited(q2)
          /\ \A v : Marks(q, v) => Marks(q2, v)
          /\ \A v : v.seen \in 0..Len(q) /\ Scanned(q, v) => Scanned(q2, v)
      <3>1. q \in Seq(Skill) /\ new \in Skill /\ new.by = 0 /\ q2 = Append(q, new) /\ Inherited(q)
        BY <2>2, <2>4
      <3> QED BY ONLY <3>1, AppendKeeps, Zenon
    <2>6. \A x \in Pass : pass[x].seen \in 0..Len(q)
      BY <2>3 DEF PassTyped, PassRow
    <2>7. \A x \in Pass : Marks(q2, pass'[x]) /\ Scanned(q2, pass'[x])
      BY <1>1, <2>4, <2>5, <2>6
    <2>8. PassRow \subseteq PassRow'
      BY <2>3, <2>5 DEF PassRow
    <2>9. SkillTyped' /\ PassTyped'
      BY <1>1, <2>3, <2>5, <2>8 DEF SkillTyped, PassTyped
    <2> QED BY <2>3, <2>5, <2>7, <2>9, SkillPartsNext
  <1> QED BY <1>2, <1>3 DEF RunStep, Begin, Finish, Grade, WriteScore, Distill, Describe, Emit, Die

-----------------------------------------------------------------------------
(* The invariant holds from the start and is kept. *)

LEMMA KnowInit == Init => KnowInv
  <1> SUFFICES ASSUME Init PROVE KnowInv
    OBVIOUS
  <1>1. PICK s \in Starts :
          /\ skill = s.skill
          /\ run = [r \in Run |-> RunAt(IF r \in s.runs THEN "idle" ELSE "absent")]
          /\ maker = [m \in Maker |-> MakerAt(IF m \in s.makers THEN "idle" ELSE "absent")]
          /\ pass = [p \in Pass |-> PassAt(IF p \in s.passes THEN "idle" ELSE "absent")]
    BY DEF Init
  <1>2. skill \in Seq(Skill) /\ Inherited(skill)
    BY <1>1, KnowledgeAssumption DEF Inherited
  <1>3. tool = << >> /\ ran = {} /\ faults = 0
          /\ question = [m \in Maker |-> "absent"] /\ clock = [m \in Maker |-> "open"]
          /\ assent = [m \in Maker |-> FALSE]
          /\ plan = [r \in Run |-> [answer |-> FALSE, score |-> NoScore]]
    BY DEF Init, QuestionsInit
  <1>4. PlanTyped /\ FaultsTyped
    <2>1. [answer |-> FALSE, score |-> NoScore] \in PlanRow
      BY DEF PlanRow
    <2> QED BY <1>3, <2>1, KnowledgeAssumption DEF PlanTyped, FaultsTyped
  <1>5. RunTyped /\ \A r \in Run : run[r].pc \in {"idle", "absent"}
    <2>1. ASSUME NEW pc \in {"idle", "absent"} PROVE RunAt(pc) \in RunRow /\ RunAt(pc).pc = pc
      BY DEF RunAt, RunRow, RunStage
    <2> QED BY <1>1, <2>1 DEF RunTyped
  <1>6. ToolTyped /\ \A m \in Maker : maker[m].pc \in {"idle", "absent"}
    <2>1. tool \in Seq(Tool) /\ Len(tool) = 0
      BY <1>3
    <2>2. AnyName \in Name
      BY KnowledgeAssumption DEF AnyName
    <2>3. ASSUME NEW pc \in {"idle", "absent"} PROVE MakerAt(pc) \in MakerRow /\ MakerAt(pc).pc = pc
      BY <2>1, <2>2 DEF MakerAt, MakerRow, MakerStage
    <2>4. AskTyped
      BY <1>3 DEF AskTyped, QuestionsTypeOK, QuestionStatus
    <2> QED BY <1>1, <1>3, <2>1, <2>3, <2>4 DEF ToolTyped
  <1>7. PassTyped /\ \A p \in Pass : /\ pass[p].pc \in {"idle", "absent"}
                                   /\ pass[p].todo = {} /\ pass[p].plans = {}
    <2>1. Len(skill) \in Nat /\ 0 \in 0..Len(skill)
      BY <1>2
    <2>2. ASSUME NEW pc \in {"idle", "absent"}
          PROVE  /\ PassAt(pc) \in PassRow /\ PassAt(pc).pc = pc
                 /\ PassAt(pc).todo = {} /\ PassAt(pc).plans = {}
      BY <2>1 DEF PassAt, PassRow, PassStage, NoPair
    <2> QED BY <1>1, <2>2 DEF PassTyped
  <1>8. TypeOK
    BY <1>2, <1>4, <1>5, <1>6, <1>7, TypeParts DEF SkillTyped
  <1>9. OutcomesStand /\ PlansPicked
    BY <1>3, <1>5, <1>7 DEF OutcomesStand, PlansPicked, Over, Distilling, Unscored
  <1>10. ToolsKept
    BY <1>3, <1>6 DEF ToolsKept, OnlyApprovedCodeRuns, Approved, Owning, Unasked
  <1>11. HeirsKept /\ TwinsKept
    BY <1>2, <1>7, SkillParts DEF Marks, Scanned
  <1> QED BY <1>8, <1>9, <1>10, <1>11 DEF KnowInv

LEMMA KnowStep == ASSUME KnowInv, [Next]_vars PROVE KnowInv'
  <1>1. /\ PlanTyped /\ SkillTyped /\ RunTyped /\ PassTyped /\ ToolTyped /\ FaultsTyped
        /\ OutcomesStand /\ PlansPicked /\ ToolsKept /\ HeirsKept /\ TwinsKept
    BY TypeParts DEF KnowInv
  <1>2. ASSUME UNCHANGED toolVars PROVE ToolTyped' /\ ToolsKept'
    <2>1. ToolTyped' /\ SaidYes' = SaidYes /\ UNCHANGED <<tool, maker, question, ran>>
      BY <1>1, <1>2, TypeFrame, AskFrame DEF toolVars
    <2> QED BY <1>1, <2>1 DEF ToolsKept, OnlyApprovedCodeRuns, Approved
  <1>3. ASSUME UNCHANGED skillVars, faults' = 0 => faults = 0
        PROVE  /\ PlanTyped' /\ SkillTyped' /\ RunTyped' /\ PassTyped'
               /\ OutcomesStand' /\ PlansPicked' /\ HeirsKept' /\ TwinsKept'
    <2>1. (\A x \in Run : SameOutcome(x)) /\ PlansPicked'
      BY <1>1, <1>3 DEF skillVars, SameOutcome, PlansPicked
    <2> QED BY <1>1, <1>3, <2>1, TypeFrame, RunsFrame, SkillsFrame DEF skillVars
  <1>4. ASSUME NEW r \in Run, RunStep(r) PROVE KnowInv'
    <2>1. UNCHANGED toolVars
      BY <1>4 DEF RunStep, Begin, Finish, Grade, WriteScore, Distill, Describe, Emit, Die
    <2>2. PlanTyped' /\ RunTyped' /\ FaultsTyped' /\ OutcomesStand'
      BY <1>1, <1>4, RunKept
    <2>3. SkillTyped' /\ PassTyped' /\ HeirsKept' /\ TwinsKept'
      BY <1>1, <1>4, StoreKept
    <2>4. PlansPicked'
      <3>1. ScoresStay /\ UNCHANGED pass
        BY <1>1, <1>4, RunScoresStay DEF RunStep, Begin, Finish, Grade, WriteScore, Distill,
                                         Describe, Emit, Die
      <3> QED BY <1>1, <3>1 DEF PlansPicked, ScoresStay, PassTyped, PassRow
    <2> QED BY <1>2, <2>1, <2>2, <2>3, <2>4, TypePartsNext DEF KnowInv
  <1>5. ASSUME NEW m \in Maker, MakerStep(m) PROVE KnowInv'
    <2>1. UNCHANGED skillVars
      BY <1>5 DEF MakerStep, DraftTool, DedupTool, StoreProposed, AskUser, Deliver, Resume,
                  GiveUp, Leave, MarkDecision, Abandon
    <2>2. ToolTyped' /\ ToolsKept' /\ FaultsTyped' /\ (faults' = 0 => faults = 0)
      BY <1>1, <1>5, MakerKept
    <2> QED BY <1>3, <2>1, <2>2, TypePartsNext DEF KnowInv
  <1>9. ASSUME NEW m \in Maker, QuestionStep(m) PROVE KnowInv'
    <2>1. UNCHANGED skillVars /\ UNCHANGED faults
      BY <1>9 DEF QuestionStep, TelegramMessage, PostAnswer, TakeReply, Lapse
    <2>2. ToolTyped' /\ ToolsKept' /\ FaultsTyped'
      BY <1>1, <1>9, <2>1, QuestionKept, TypeFrame
    <2> QED BY <1>3, <2>1, <2>2, TypePartsNext DEF KnowInv
  <1>6. CASE UseTool
    <2>1. UNCHANGED skillVars /\ UNCHANGED faults
      BY <1>6 DEF UseTool
    <2>2. ToolTyped' /\ ToolsKept' /\ FaultsTyped'
      BY <1>1, <1>6, <2>1, UseKept, TypeFrame
    <2> QED BY <1>3, <2>1, <2>2, TypePartsNext DEF KnowInv
  <1>7. ASSUME NEW p \in Pass, PassStep(p) PROVE KnowInv'
    <2>1. UNCHANGED toolVars /\ UNCHANGED run
      BY <1>7 DEF PassStep, WakeUp, Rescore, Rescored, ListActive, Scan, MarkSuperseded
    <2>2. /\ SkillTyped' /\ PlanTyped' /\ PassTyped' /\ FaultsTyped' /\ HeirsKept' /\ TwinsKept'
          /\ faults' = 0 => faults = 0
          /\ \A x \in Run : SameOutcome(x)
          /\ PlansPicked'
      BY <1>1, <1>7, PassKept
    <2>3. RunTyped' /\ OutcomesStand'
      BY <1>1, <2>1, <2>2, TypeFrame, RunsFrame
    <2> QED BY <1>2, <2>1, <2>2, <2>3, TypePartsNext DEF KnowInv
  <1>8. CASE UNCHANGED vars
    <2>1. UNCHANGED toolVars /\ UNCHANGED skillVars /\ UNCHANGED faults
      BY <1>8 DEF vars
    <2>2. FaultsTyped'
      BY <1>1, <2>1, TypeFrame
    <2> QED BY <1>2, <1>3, <2>1, <2>2, TypePartsNext DEF KnowInv
  <1> QED BY <1>4, <1>5, <1>6, <1>7, <1>8, <1>9 DEF Next

LEMMA KnowInvariant == Spec => []KnowInv
  BY KnowInit, KnowStep, PTL DEF Spec

-----------------------------------------------------------------------------
(* Where nothing failed, a plan that was run and graded has a score, and    *)
(* its answer unless it was too long for one, however the executor, the     *)
(* evaluator and the sleep cycle interleave their writes; and none of them  *)
(* replaces a newer verdict.                                                *)
THEOREM OutcomeKeptHolds == Spec => []OutcomeKept
  <1>1. KnowInv => OutcomeKept
    BY DEF KnowInv, OutcomesStand, OutcomeKept, At, Over
  <1> QED BY <1>1, KnowInvariant, PTL

(* No code is ever dispatched as a tool but such as the question about it   *)
(* was answered with a yes, however many steps propose, and in whatever     *)
(* order, how late or how often the replies come.                           *)
THEOREM OnlyApprovedCodeRunsHolds == Spec => []OnlyApprovedCodeRuns
  <1>1. KnowInv => OnlyApprovedCodeRuns
    BY DEF KnowInv, ToolsKept
  <1> QED BY <1>1, KnowInvariant, PTL

(* Consolidation loses no skill and leaves no two that are the same, with   *)
(* any number of passes that act on what they read before.                  *)
THEOREM SkillsConsolidateHolds == Spec => []SkillsConsolidate
  <1>1. ASSUME KnowInv PROVE EverySkillHasHeir
    <2>1. skill \in Seq(Skill) /\ Inherited(skill)
      BY <1>1, SkillParts, TypeParts DEF KnowInv, SkillTyped
    <2>2. SUFFICES ASSUME NEW S \in SUBSET (DOMAIN skill \ Active), S # {}
                   PROVE  \E i \in S : skill[i].by \notin S
      BY DEF EverySkillHasHeir
    <2>3. PICK b \in S : \A i \in S \ {b} : Better(skill, b, i)
      BY <2>1, <2>2, BestExists
    <2>4. b \in DOMAIN skill /\ skill[b].by # 0
      BY <2>2 DEF Active
    <2>5. skill[b].by \in DOMAIN skill /\ Better(skill, skill[b].by, b)
      BY <2>1, <2>4 DEF Inherited
    <2>6. skill[b].by # b
      <3>1. ~Better(skill, b, b)
        BY <2>1, <2>4, SkillNumbers DEF Better
      <3> QED BY <2>5, <3>1
    <2>7. skill[b].by \notin S
      <3>1. ASSUME skill[b].by \in S PROVE FALSE
        <4>1. Better(skill, b, skill[b].by)
          BY <2>3, <2>6, <3>1
        <4> QED BY <2>1, <2>4, <2>5, <2>6, <4>1, BetterIsTotal
      <3> QED BY <3>1
    <2> QED BY <2>7
  <1>2. KnowInv => CleanPassLeavesNoTwins
    BY DEF KnowInv, TwinsKept, CleanPassLeavesNoTwins
  <1>3. KnowInv => SkillsConsolidate
    BY <1>1, <1>2 DEF SkillsConsolidate
  <1> QED BY <1>3, KnowInvariant, PTL
==============================================================================
