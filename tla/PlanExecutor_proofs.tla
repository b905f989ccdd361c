------------------------- MODULE PlanExecutor_proofs -------------------------
(***************************************************************************)
(* An execution follows its plan, and whoever races for a file, its        *)
(* versions are a line and the latest describes the bytes: for any plans,  *)
(* continuations, files and uploads.                                       *)
(***************************************************************************)
EXTENDS PlanExecutor, FiniteSetTheorems, SequenceTheorems,
        WellFoundedInduction, TLAPS

-----------------------------------------------------------------------------
(* The inductive invariant. *)

StepsOf(P) == UNION {Range(p) : p \in P}
AnyStep == StepsOf(Plans \cup Continuations)
StepResult == [step : AnyStep, status : Status]

(* Where execute stands in its list. *)
Walking == {"start", "next", "batch", "replan"}
WalkKept ==
  /\ steps \in Seq(AnyStep) /\ results \in Seq(StepResult)
  /\ budget > 0 => \E p \in Plans : Len(steps) = Len(p)
  /\ phase \notin {"batch", "over"} => upTo = at
  /\ phase \in Walking => Len(results) = at
  /\ phase = "replan" => budget > 0

(* What failed so far, and what may fail together. *)
Together(i, j) == steps[i].group = steps[j].group /\ steps[i].group # NoGroup
FailuresKept ==
  /\ phase \in Walking =>
       /\ \A i \in DOMAIN results : results[i].status # "SKIPPED"
       /\ spliced > 0 => budget < MaxReplans
       /\ \A i, j \in Failed : i < j => Together(i, j)
  /\ phase \in Walking \ {"replan"} => \A i \in Failed : i <= spliced
  /\ phase = "batch" => \A i, j \in Batch : i < j => Together(i, j)

WalkTyped ==
  /\ inTask \in BOOLEAN
  /\ phase \in {"start", "next", "batch", "replan", "judge", "answer", "over"}
  /\ at \in 0..Len(steps) /\ upTo \in at..Len(steps)
  /\ DOMAIN steps \subseteq Position
  /\ \A i \in DOMAIN results : results[i].status \in Status
  /\ budget \in 0..MaxReplans /\ spliced \in 0..Len(steps)
  /\ outcome \in {"none", "refused", "success", "failure", "raised"}
WalkInv == WalkTyped /\ WalkKept /\ FailuresKept /\ ResultsMatchPlan

(* Only steps of the batch under way run, and those of a cancelled          *)
(* execution whose put outlives them.                                       *)
Active == {"run", "ask", "repair", "put", "register", "embed"}
StageKept(k) ==
  /\ stage[k] # "off" => k \in 1..upTo
  /\ stage[k] \in Active => phase = "batch" /\ k \in Batch
  /\ stage[k] = "late" => phase = "over"

(* What a step holds of its call. *)
Count(f) == Cardinality(rows[f])
CallKept(k) ==
  /\ stage[k] \in Active \cup {"late"} /\ stage[k] # "run" => call[k].file # NoFile
  /\ stage[k] \in Active => (call[k].file = NoFile <=> steps[k].file = NoFile)
  /\ stage[k] = "repair" => call[k].attempt < MaxAttempts
  /\ stage[k] \in {"put", "register", "late"} =>
       /\ call[k].seen <= Count(call[k].file)
       /\ call[k].seen > 0 => call[k].overwrite

(* The versions are a line, and nobody has read one that is not there yet.  *)
LineKept ==
  /\ \A f \in File : IsFiniteSet(rows[f])
  /\ VersionsOK
  /\ upload.stage = "register" => upload.seen <= Count(upload.file)

MadeKept(k) ==
  /\ stage[k] \notin {"embed", "done", "failed"} => MadeBy(k) = {}
  /\ \A f, g \in MadeBy(k) : f = g
  /\ \A f \in File : \A r, s \in rows[f] : r.by = k /\ s.by = k => r = s
  /\ stage[k] = "embed" => MadeBy(k) # {}
  /\ stage[k] = "done" /\ steps[k].file # NoFile => MadeBy(k) # {}

(* The bytes of a file that nobody tore are those of the writer that has    *)
(* yet to register its row.                                                 *)
BytesKept ==
  /\ LatestDescribesBytes
  /\ \A k \in Position :
       stage[k] = "register" => call[k].file \in torn \/ bytes[call[k].file] = k
  /\ upload.stage \in {"put", "register"} =>
       upload.file \in torn \/ bytes[upload.file] = Upload

StepTyped == stage \in [Position -> Stage] /\ call \in [Position -> Call]
DiskTyped ==
  /\ FilesTypeOK /\ torn \subseteq File
  /\ upload \in [stage : {"none", "put", "register", "done"}, file : Uploads, seen : Nat]

StepInv == StepTyped /\ \A k \in Position : StageKept(k) /\ CallKept(k)
FileInv == DiskTyped /\ LineKept /\ (\A k \in Position : MadeKept(k)) /\ BytesKept
ExecInv == WalkInv /\ StepInv /\ FileInv

-----------------------------------------------------------------------------
(* Versions and rows. *)

(* The greatest of 0..n is n. *)
LEMMA MaxUpTo == ASSUME NEW n \in Nat PROVE Max(0..n) = n
  <1>1. n \in 0..n /\ \A y \in 0..n : n >= y
    OBVIOUS
  <1>2. \A x \in 0..n : (\A y \in 0..n : x >= y) => x = n
    OBVIOUS
  <1>3. QED BY <1>1, <1>2 DEF Max

(* Of a set without two different elements there is at most one.            *)
LEMMA AtMostOne ==
  ASSUME NEW S, \A x, y \in S : x = y
  PROVE  Cardinality(S) <= 1
  <1>1. CASE S = {}
    BY <1>1, FS_EmptySet
  <1>2. CASE S # {}
    <2>1. PICK x \in S : TRUE
      BY <1>2
    <2>2. S = {x}
      BY <2>1
    <2>3. Cardinality({x}) = 1
      BY FS_Singleton
    <2>4. QED BY <2>2, <2>3
  <1>3. QED BY <1>1, <1>2

(* The latest version of a file is the number of its rows. *)
LEMMA LatestIsCount ==
  ASSUME FilesTypeOK, LineKept, NEW f \in File
  PROVE  /\ Count(f) \in Nat /\ Latest(f) = Count(f)
         /\ Versions(f) = 1..Count(f)
         /\ \A r \in rows[f] : r.version \in 1..Count(f)
  <1>1. Count(f) \in Nat
    BY FS_CardinalityType DEF LineKept, Count
  <1>2. Versions(f) = 1..Count(f)
    BY DEF LineKept, VersionsOK, HistoryIsLinear, Count
  <1>3. {0} \cup Versions(f) = 0..Count(f)
    BY <1>1, <1>2
  <1>4. Latest(f) = Count(f)
    BY <1>1, <1>3, MaxUpTo DEF Latest
  <1>5. \A r \in rows[f] : r.version \in Versions(f)
    BY DEF Versions
  <1>6. QED BY <1>1, <1>2, <1>4, <1>5

(* A version that can be inserted above one there was is the next.          *)
LEMMA NextVersion ==
  ASSUME FilesTypeOK, LineKept, NEW f \in File,
         NEW v \in Nat, v <= Count(f), Insertable(f, v + 1)
  PROVE  v = Count(f)
  <1>1. Count(f) \in Nat /\ Versions(f) = 1..Count(f)
    BY LatestIsCount
  <1>2. ~(v + 1 \in 1..Count(f))
    BY <1>1 DEF Insertable
  <1>3. QED BY <1>1, <1>2

(* One row more, of the next version. *)
LEMMA OneRowMore ==
  ASSUME NEW S, IsFiniteSet(S), NEW r, NEW n \in Nat, Cardinality(S) = n,
         {x.version : x \in S} = 1..n, r.version = n + 1
  PROVE  /\ IsFiniteSet(S \cup {r}) /\ Cardinality(S \cup {r}) = n + 1
         /\ {x.version : x \in S \cup {r}} = 1..(n + 1)
         /\ r \notin S
  <1>1. r \notin S
    <2>1. SUFFICES ASSUME r \in S PROVE FALSE
      OBVIOUS
    <2>2. r.version \in {x.version : x \in S}
      BY <2>1
    <2>3. n + 1 \in 1..n
      BY <2>2
    <2>4. QED BY <2>3
  <1>2. IsFiniteSet(S \cup {r}) /\ Cardinality(S \cup {r}) = n + 1
    BY <1>1, FS_AddElement
  <1>3. {x.version : x \in S \cup {r}} = {x.version : x \in S} \cup {n + 1}
    OBVIOUS
  <1>4. 1..(n + 1) = 1..n \cup {n + 1}
    OBVIOUS
  <1>5. QED BY <1>1, <1>2, <1>3, <1>4

(* What a writer leaves that registers a version above one it has read.     *)
Grown(f, r) ==
  /\ rows' = [rows EXCEPT ![f] = @ \cup {r}]
  /\ r \in FileRow /\ r \notin rows[f]
  /\ r.version = Count(f) + 1
  /\ Count(f)' = Count(f) + 1

LEMMA RegisteredRow ==
  ASSUME FilesTypeOK, LineKept, NEW f \in File, NEW w \in Writer,
         NEW leave \in BOOLEAN, NEW v \in Nat, v <= Count(f), v > 0 => leave,
         Insertable(f, v + 1), Register(f, v + 1, w, leave)
  PROVE  \E r \in FileRow :
           /\ r.by = w /\ Grown(f, r)
           /\ r.version > 1 => r.leave
           /\ \A g \in File : IsFiniteSet(rows'[g])
           /\ VersionsOK'
  <1> DEFINE r == [version |-> v + 1, by |-> w, leave |-> leave]
  <1>1. v = Count(f) /\ Count(f) \in Nat
    BY NextVersion, LatestIsCount
  <1>2. r \in FileRow /\ r.by = w /\ r.version = v + 1 /\ (r.version > 1 => r.leave)
    BY DEF FileRow
  <1>3. rows' = [rows EXCEPT ![f] = @ \cup {r}]
    BY DEF Register
  <1> HIDE DEF r
  <1>4. \A g \in File : rows'[g] = IF g = f THEN rows[f] \cup {r} ELSE rows[g]
    BY <1>3 DEF FilesTypeOK
  <1>5. \A g \in File : IsFiniteSet(rows[g]) /\ {x.version : x \in rows[g]} = 1..Cardinality(rows[g])
    BY DEF LineKept, VersionsOK, HistoryIsLinear, Versions
  <1>6. /\ IsFiniteSet(rows[f] \cup {r}) /\ Cardinality(rows[f] \cup {r}) = v + 1
        /\ {x.version : x \in rows[f] \cup {r}} = 1..(v + 1)
        /\ r \notin rows[f]
    <2>1. IsFiniteSet(rows[f]) /\ Cardinality(rows[f]) = v /\ {x.version : x \in rows[f]} = 1..v
      BY <1>1, <1>5 DEF Count
    <2> DEFINE S == rows[f]
    <2>2. IsFiniteSet(S) /\ Cardinality(S) = v /\ {x.version : x \in S} = 1..v
      BY <2>1
    <2> HIDE DEF S
    <2>3. /\ IsFiniteSet(S \cup {r}) /\ Cardinality(S \cup {r}) = v + 1
          /\ {x.version : x \in S \cup {r}} = 1..(v + 1)
          /\ r \notin S
      BY <1>2, <2>2, OneRowMore
    <2>4. QED BY <2>3 DEF S
  <1>7. Grown(f, r)
    BY <1>1, <1>2, <1>3, <1>4, <1>6 DEF Grown, Count
  <1>8. \A g \in File : IsFiniteSet(rows'[g]) /\ {x.version : x \in rows'[g]} = 1..Cardinality(rows'[g])
    BY <1>4, <1>5, <1>6
  <1>9. \A g \in File : \A x \in rows'[g] : x.version > 1 => x.leave
    BY <1>2, <1>4 DEF LineKept, VersionsOK, ReplacedWithLeave
  <1>10. VersionsOK'
    BY <1>8, <1>9 DEF VersionsOK, HistoryIsLinear, ReplacedWithLeave, Versions
  <1>11. QED BY <1>2, <1>7, <1>8, <1>10

-----------------------------------------------------------------------------
(* The loop of execute. *)

(* Of natural numbers some one is least, and of a bounded set greatest. *)
LEMMA LeastExists ==
  ASSUME NEW T \in SUBSET Nat, T # {}
  PROVE  \E x \in T : \A y \in T : x <= y
  <1> DEFINE R == OpToRel(<, Nat)
  <1>1. R = {ss \in Nat \X Nat : ss[1] < ss[2]}
    BY DEF OpToRel
  <1>2. IsWellFoundedOn(R, Nat)
    BY NatLessThanWellFounded
  <1> HIDE DEF R
  <1>3. PICK x \in T : \A y \in T : <<y, x>> \notin R
    BY <1>2, WFMin
  <1>4. \A y \in T : ~(y < x)
    BY <1>1, <1>3
  <1>5. QED BY <1>3, <1>4

LEMMA MaxOf ==
  ASSUME NEW n \in Nat, NEW S \in SUBSET (0..n), S # {}
  PROVE  Max(S) \in S /\ \A y \in S : y <= Max(S)
  <1> DEFINE T == {n - x : x \in S}
  <1>1. T \in SUBSET Nat /\ T # {}
    OBVIOUS
  <1>2. PICK t \in T : \A u \in T : t <= u
    BY <1>1, LeastExists
  <1>3. PICK m \in S : t = n - m
    BY <1>2
  <1>4. \A y \in S : m >= y
    <2> SUFFICES ASSUME NEW y \in S PROVE m >= y
      OBVIOUS
    <2>1. t <= n - y /\ y \in 0..n /\ m \in 0..n
      BY <1>2
    <2>2. QED BY <1>3, <2>1
  <1>5. \E x \in S : \A y \in S : x >= y
    BY <1>4
  <1>6. Max(S) \in S /\ \A y \in S : Max(S) >= y
    BY <1>5 DEF Max
  <1>7. QED BY <1>6

(* The batch that starts after i has the next step, and one group if more.  *)
LEMMA BatchIsOneGroup ==
  ASSUME NEW i \in Nat, Len(steps) \in Nat, i < Len(steps)
  PROVE  /\ BatchEnd(i) \in (i + 1)..Len(steps)
         /\ \A j, k \in (i + 1)..BatchEnd(i) : j < k => Together(j, k)
  <1> DEFINE n == Len(steps)
             Same(k) == \/ k = i + 1
                        \/ steps[k].group = steps[i + 1].group /\ steps[i + 1].group # NoGroup
             S == {j \in (i + 1)..n : \A k \in (i + 1)..j : Same(k)}
  <1>1. BatchEnd(i) = Max(S)
    BY DEF BatchEnd
  <1>2. n \in Nat /\ i < n
    OBVIOUS
  <1> HIDE DEF n
  <1>3. S \in SUBSET (0..n) /\ i + 1 \in S
    BY <1>2
  <1> HIDE DEF S
  <1>4. Max(S) \in S
    BY <1>2, <1>3, MaxOf
  <1>5. Max(S) \in (i + 1)..n /\ \A k \in (i + 1)..Max(S) : Same(k)
    BY <1>4 DEF S
  <1>6. \A j, k \in (i + 1)..Max(S) : j < k => Together(j, k)
    <2> SUFFICES ASSUME NEW j \in (i + 1)..Max(S), NEW k \in (i + 1)..Max(S), j < k
                 PROVE  Together(j, k)
      OBVIOUS
    <2>1. k # i + 1
      OBVIOUS
    <2>2. Same(j) /\ Same(k)
      BY <1>5
    <2>3. QED BY <2>1, <2>2 DEF Together
  <1>7. QED BY <1>1, <1>5, <1>6 DEF n

LEMMA LoopFacts ==
  ASSUME WalkInv
  PROVE  /\ Len(steps) \in Nat /\ DOMAIN steps = 1..Len(steps)
         /\ \A i \in 1..Len(steps) : steps[i] \in AnyStep
         /\ Len(results) \in Nat /\ DOMAIN results = 1..Len(results)
         /\ Len(results) <= Len(steps)
         /\ \A i \in 1..Len(results) : results[i] \in StepResult
         /\ at \in Nat /\ upTo \in Nat /\ at <= upTo /\ upTo <= Len(steps)
         /\ budget \in Nat /\ spliced \in Nat /\ spliced <= Len(steps)
  <1>1. steps \in Seq(AnyStep) /\ results \in Seq(StepResult)
    BY DEF WalkInv, WalkKept
  <1>2. /\ Len(steps) \in Nat /\ DOMAIN steps = 1..Len(steps)
        /\ Len(results) \in Nat /\ DOMAIN results = 1..Len(results)
    BY <1>1, LenProperties
  <1>3. /\ \A i \in 1..Len(steps) : steps[i] \in AnyStep
        /\ \A i \in 1..Len(results) : results[i] \in StepResult
    BY <1>1, ElementOfSeq
  <1>4. Len(results) <= Len(steps)
    <2>1. \A i \in 1..Len(results) : i \in 1..Len(steps)
      BY <1>2 DEF WalkInv, ResultsMatchPlan
    <2>2. Len(results) > 0 => Len(results) \in 1..Len(steps)
      BY <1>2, <2>1
    <2>3. QED BY <1>2, <2>2
  <1>5. QED BY <1>2, <1>3, <1>4, ExecutorAssumption DEF WalkInv, WalkTyped

(* Results of the steps that come next are results of the list. *)
LEMMA ResultsGrow ==
  ASSUME WalkInv, NEW s \in Seq(StepResult), NEW n \in Len(s)..Len(steps),
         NEW t \in [1..(n - Len(s)) -> StepResult],
         \A i \in 1..Len(s) : s[i].step = steps[i],
         \A i \in 1..(n - Len(s)) : t[i].step = steps[Len(s) + i]
  PROVE  /\ s \o t \in Seq(StepResult) /\ Len(s \o t) = n
         /\ \A i \in 1..n : (s \o t)[i] = IF i <= Len(s) THEN s[i] ELSE t[i - Len(s)]
         /\ \A i \in 1..n : (s \o t)[i].step = steps[i]
  <1>1. Len(s) \in Nat /\ Len(steps) \in Nat
    BY LoopFacts, LenProperties
  <1>2. t \in Seq(StepResult) /\ Len(t) = n - Len(s)
    <2>1. n - Len(s) \in Nat
      BY <1>1
    <2>2. t \in Seq(StepResult)
      BY <2>1, SeqDef
    <2>3. DOMAIN t = 1..(n - Len(s)) /\ DOMAIN t = 1..Len(t) /\ Len(t) \in Nat
      BY <2>2, LenProperties
    <2>4. QED BY <2>1, <2>2, <2>3
  <1>3. /\ s \o t \in Seq(StepResult) /\ Len(s \o t) = n
        /\ \A i \in 1..n : (s \o t)[i] = IF i <= Len(s) THEN s[i] ELSE t[i - Len(s)]
    <2>1. /\ s \o t \in Seq(StepResult)
          /\ Len(s \o t) = Len(s) + Len(t)
          /\ \A i \in 1..(Len(s) + Len(t)) : (s \o t)[i] = IF i <= Len(s) THEN s[i] ELSE t[i - Len(s)]
      BY ONLY s \in Seq(StepResult), <1>2, ConcatProperties
    <2>2. Len(s) + Len(t) = n
      BY <1>1, <1>2
    <2>3. QED BY <2>1, <2>2
  <1>4. \A i \in 1..n : (s \o t)[i].step = steps[i]
    <2> SUFFICES ASSUME NEW i \in 1..n PROVE (s \o t)[i].step = steps[i]
      OBVIOUS
    <2>1. CASE i <= Len(s)
      BY <1>1, <1>3, <2>1
    <2>2. CASE ~(i <= Len(s))
      <3>1. i - Len(s) \in 1..(n - Len(s)) /\ Len(s) + (i - Len(s)) = i
        BY <1>1, <2>2
      <3>2. QED BY <1>3, <2>2, <3>1
    <2>3. QED BY <2>1, <2>2
  <1>5. QED BY <1>3, <1>4

(* Execute has come to another phase and nothing else. *)
LEMMA StartKeepsWalk == ASSUME WalkInv, Start PROVE WalkInv'
  <1>1. /\ phase = "start" /\ phase' \in {"over", "next"}
        /\ outcome' \in {outcome, "refused"}
        /\ UNCHANGED <<inTask, steps, at, upTo, results, budget, spliced>>
    BY DEF Start
  <1>2. WalkTyped'
    BY <1>1 DEF WalkInv, WalkTyped
  <1>3. WalkKept'
    BY <1>1 DEF WalkInv, WalkKept, Walking
  <1>4. FailuresKept'
    BY <1>1 DEF WalkInv, FailuresKept, Failed, Together, Walking
  <1>5. ResultsMatchPlan'
    BY <1>1 DEF WalkInv, ResultsMatchPlan
  <1>6. QED BY <1>2, <1>3, <1>4, <1>5 DEF WalkInv

LEMMA EndKeepsWalk == ASSUME WalkInv, Judge \/ Synthesize \/ Cancel PROVE WalkInv'
  <1>1. /\ (phase = "judge" /\ phase' \in {"answer", "over"}) \/ phase' = "over"
        /\ outcome' \in {outcome, "failure", "success", "raised"}
        /\ UNCHANGED <<inTask, steps, at, upTo, results, budget, spliced>>
    BY DEF Judge, Synthesize, Cancel
  <1>2. WalkTyped'
    BY <1>1 DEF WalkInv, WalkTyped
  <1>3. WalkKept'
    BY <1>1 DEF WalkInv, WalkKept, Walking
  <1>4. FailuresKept'
    BY <1>1 DEF WalkInv, FailuresKept, Walking
  <1>5. ResultsMatchPlan'
    BY <1>1 DEF WalkInv, ResultsMatchPlan
  <1>6. QED BY <1>2, <1>3, <1>4, <1>5 DEF WalkInv

LEMMA DispatchKeepsWalk == ASSUME WalkInv, Dispatch PROVE WalkInv'
  <1> USE LoopFacts
  <1>1. /\ phase = "next" /\ Len(results) = at
        /\ UNCHANGED <<inTask, steps, at, results, budget, outcome, spliced>>
    BY DEF Dispatch, WalkInv, WalkKept, Walking
  <1>2. CASE at = Len(steps)
    <2>1. phase' = "judge" /\ upTo' = upTo
      BY <1>2 DEF Dispatch
    <2>2. WalkTyped'
      BY <1>1, <2>1 DEF WalkInv, WalkTyped
    <2>3. WalkKept'
      BY <1>1, <2>1 DEF WalkInv, WalkKept, Walking
    <2>4. FailuresKept'
      BY <1>1, <2>1 DEF WalkInv, FailuresKept, Walking
    <2>5. ResultsMatchPlan'
      BY <1>1, <1>2, <2>1 DEF WalkInv, ResultsMatchPlan
    <2>6. QED BY <2>2, <2>3, <2>4, <2>5 DEF WalkInv
  <1>3. CASE at # Len(steps)
    <2>1. phase' = "batch" /\ upTo' = BatchEnd(at)
      BY <1>3 DEF Dispatch
    <2>2. /\ upTo' \in (at + 1)..Len(steps)
          /\ \A i, j \in (at + 1)..upTo' : i < j => Together(i, j)
      BY <1>3, <2>1, BatchIsOneGroup
    <2>3. WalkTyped'
      BY <1>1, <2>1, <2>2 DEF WalkInv, WalkTyped
    <2>4. WalkKept'
      BY <1>1, <2>1 DEF WalkInv, WalkKept, Walking
    <2>5. FailuresKept'
      BY <1>1, <2>1, <2>2 DEF WalkInv, FailuresKept, Failed, Together, Walking, Batch
    <2>6. ResultsMatchPlan'
      BY <1>1, <2>1 DEF WalkInv, ResultsMatchPlan
    <2>7. QED BY <2>3, <2>4, <2>5, <2>6 DEF WalkInv
  <1>4. QED BY <1>2, <1>3

(* What is left is skipped. *)
SkippedFrom(n) == [i \in 1..(Len(steps) - n) |-> [step |-> steps[n + i], status |-> "SKIPPED"]]

LEMMA SkipsRest ==
  ASSUME WalkInv, NEW s \in Seq(StepResult), Len(s) <= Len(steps),
         \A i \in 1..Len(s) : s[i].step = steps[i],
         results' = s \o SkippedFrom(Len(s)), phase' = "judge",
         at' = upTo, UNCHANGED <<inTask, steps, upTo, budget, outcome, spliced>>
  PROVE  WalkInv'
  <1> DEFINE n == Len(s)
             t == SkippedFrom(n)
  <1>1. n \in Nat /\ n \in 0..Len(steps) /\ Len(steps) \in n..Len(steps)
    BY LoopFacts, LenProperties
  <1>2. /\ t \in [1..(Len(steps) - n) -> StepResult]
        /\ \A i \in 1..(Len(steps) - n) : t[i].step = steps[n + i]
    <2>1. \A i \in 1..(Len(steps) - n) : steps[n + i] \in AnyStep
      BY <1>1, LoopFacts
    <2>2. QED BY <2>1 DEF SkippedFrom, StepResult, Status
  <1>3. /\ results' \in Seq(StepResult) /\ Len(results') = Len(steps)
        /\ \A i \in 1..Len(steps) : results'[i].step = steps[i]
    BY <1>1, <1>2, ResultsGrow
  <1>4. /\ DOMAIN results' = 1..Len(steps) /\ DOMAIN steps = 1..Len(steps)
        /\ \A i \in 1..Len(steps) : results'[i] \in StepResult
    BY <1>3, LenProperties, ElementOfSeq, LoopFacts
  <1>5. WalkTyped'
    <2>1. \A i \in DOMAIN results' : results'[i].status \in Status
      BY <1>4 DEF StepResult
    <2>2. at' \in 0..Len(steps') /\ upTo' \in at'..Len(steps')
      BY LoopFacts
    <2>3. QED BY <2>1, <2>2 DEF WalkInv, WalkTyped
  <1>6. WalkKept'
    BY <1>3 DEF WalkInv, WalkKept, Walking
  <1>7. FailuresKept'
    BY DEF FailuresKept, Walking
  <1>8. ResultsMatchPlan'
    BY <1>3, <1>4 DEF ResultsMatchPlan
  <1>9. QED BY <1>5, <1>6, <1>7, <1>8 DEF WalkInv

LEMMA ReplanFailsKeepsWalk == ASSUME WalkInv, ReplanFails PROVE WalkInv'
  <1>1. /\ phase = "replan" /\ phase' = "judge" /\ Len(results) = at /\ upTo = at
        /\ UNCHANGED <<inTask, steps, at, upTo, budget, outcome, spliced>>
    BY DEF ReplanFails, WalkInv, WalkKept, Walking
  <1>2. results' = results \o SkippedFrom(Len(results))
    BY <1>1 DEF ReplanFails, ResultsOf, Result, SkippedFrom
  <1>3. /\ results \in Seq(StepResult) /\ Len(results) <= Len(steps)
        /\ \A i \in 1..Len(results) : results[i].step = steps[i]
    BY LoopFacts DEF WalkInv, WalkKept, ResultsMatchPlan
  <1>4. at' = upTo
    BY <1>1
  <1>5. QED BY <1>1, <1>2, <1>3, <1>4, SkipsRest

LEMMA GatherKeepsWalk == ASSUME WalkInv, Gather PROVE WalkInv'
  <1> USE LoopFacts
  <1> DEFINE t == [i \in 1..(upTo - at) |->
                     [step   |-> steps[at + i],
                      status |-> IF stage[at + i] = "done" THEN "COMPLETED" ELSE "FAILED"]]
             got == results \o t
  <1>1. /\ phase = "batch" /\ at' = upTo
        /\ UNCHANGED <<inTask, steps, upTo, budget, outcome, spliced>>
    BY DEF Gather
  <1>2. \/ phase' = "next" /\ results' = got /\ \A k \in Batch : stage[k] = "done"
        \/ phase' = "replan" /\ results' = got /\ budget > 0
        \/ phase' = "judge" /\ results' = got \o SkippedFrom(upTo)
    BY DEF Gather, ResultsOf, Result, SkippedFrom
  <1>3. Len(results) = at /\ results \in Seq(StepResult) /\ at \in 0..Len(steps)
    BY <1>1 DEF WalkInv, WalkKept, Walking
  <1>4. /\ t \in [1..(upTo - at) -> StepResult]
        /\ \A i \in 1..(upTo - at) : t[i].step = steps[at + i] /\ t[i].status # "SKIPPED"
    <2>1. \A i \in 1..(upTo - at) : steps[at + i] \in AnyStep
      BY <1>3
    <2>2. QED BY <2>1 DEF StepResult, Status
  <1>5. /\ got \in Seq(StepResult) /\ Len(got) = upTo
        /\ \A i \in 1..upTo : got[i] = IF i <= at THEN results[i] ELSE t[i - at]
        /\ \A i \in 1..upTo : got[i].step = steps[i]
    <2>1. \A i \in 1..Len(results) : results[i].step = steps[i]
      BY DEF WalkInv, ResultsMatchPlan
    <2>2. upTo \in Len(results)..Len(steps) /\ Len(results) = at
      BY <1>3
    <2> HIDE DEF t
    <2>3. /\ t \in [1..(upTo - Len(results)) -> StepResult]
          /\ \A i \in 1..(upTo - Len(results)) : t[i].step = steps[Len(results) + i]
      BY <1>4, <2>2
    <2>4. /\ got \in Seq(StepResult) /\ Len(got) = upTo
          /\ \A i \in 1..upTo : got[i] = IF i <= Len(results) THEN results[i] ELSE t[i - Len(results)]
          /\ \A i \in 1..upTo : got[i].step = steps[i]
      BY <1>3, <2>1, <2>2, <2>3, ResultsGrow
    <2>5. QED BY <2>2, <2>4
  <1>6. DOMAIN got = 1..upTo /\ \A i \in 1..upTo : got[i] \in StepResult
    <2> HIDE DEF got
    <2>1. QED BY <1>5, LenProperties, ElementOfSeq
  <1> HIDE DEF got
  <1>7. CASE phase' = "judge" /\ results' = got \o SkippedFrom(upTo)
    BY <1>1, <1>5, <1>7, SkipsRest
  <1>8. CASE phase' \in {"next", "replan"} /\ results' = got
    <2>1. WalkTyped'
      <3>1. \A i \in DOMAIN results' : results'[i].status \in Status
        BY <1>6, <1>8 DEF StepResult
      <3>2. at' \in 0..Len(steps') /\ upTo' \in at'..Len(steps')
        BY <1>1
      <3>3. QED BY <1>1, <1>8, <3>1, <3>2 DEF WalkInv, WalkTyped
    <2>2. WalkKept'
      BY <1>1, <1>2, <1>5, <1>8 DEF WalkInv, WalkKept, Walking
    <2>3. ResultsMatchPlan'
      BY <1>1, <1>5, <1>6, <1>8 DEF ResultsMatchPlan
    <2>4. \A i \in DOMAIN results' :
            IF i <= at THEN i \in DOMAIN results /\ results'[i] = results[i]
                       ELSE i \in Batch /\ i - at \in 1..(upTo - at) /\ results'[i] = t[i - at]
      <3> SUFFICES ASSUME NEW i \in 1..upTo
                   PROVE  IF i <= at THEN i \in DOMAIN results /\ got[i] = results[i]
                          ELSE i \in Batch /\ i - at \in 1..(upTo - at) /\ got[i] = t[i - at]
        BY <1>6, <1>8
      <3> HIDE DEF t
      <3>1. CASE i <= at
        BY <1>3, <1>5, <3>1
      <3>2. CASE ~(i <= at)
        <4>1. i \in Batch /\ i - at \in 1..(upTo - at)
          BY <1>3, <3>2 DEF Batch
        <4>2. QED BY <1>5, <3>2, <4>1
      <3>3. QED BY <3>1, <3>2
    <2>5. \A i \in DOMAIN results' : results'[i].status # "SKIPPED"
      BY <1>1, <1>4, <2>4 DEF WalkInv, FailuresKept, Walking
    <2>6. \A i \in Failed' : i \in DOMAIN results' /\ (i \in Failed \/ i \in Batch)
      BY <2>4 DEF Failed
    <2>7. ASSUME phase' = "next" PROVE FailuresKept'
      <3>1. Failed' = Failed
        <4>1. \A k \in Batch : stage[k] = "done"
          BY <1>2, <2>7
        <4>2. \A i \in DOMAIN results' : i > at => results'[i].status = "COMPLETED"
          <5> SUFFICES ASSUME NEW i \in DOMAIN results', i > at
                       PROVE  results'[i].status = "COMPLETED"
            OBVIOUS
          <5>1. i \in Batch /\ i - at \in 1..(upTo - at) /\ results'[i] = t[i - at] /\ i \in Nat
            <6>1. i \in 1..upTo
              BY <1>6, <1>8
            <6> HIDE DEF t
            <6>2. QED BY <2>4, <6>1
          <5>2. stage[at + (i - at)] = "done"
            BY <4>1, <5>1
          <5>3. QED BY <5>1, <5>2
        <4>3. \A i \in DOMAIN results : i \in DOMAIN results' /\ i <= at
          BY <1>3, <1>6, <1>8
        <4>4. ASSUME NEW i PROVE i \in Failed' <=> i \in Failed
          <5>1. CASE i \in Failed
            <6>1. i \in DOMAIN results /\ i \in DOMAIN results' /\ i <= at
              BY <4>3, <5>1 DEF Failed
            <6>2. results'[i] = results[i]
              BY <2>4, <6>1
            <6>3. QED BY <5>1, <6>1, <6>2 DEF Failed
          <5>2. CASE i \in Failed'
            <6>1. i \in DOMAIN results' /\ results'[i].status = "FAILED" /\ i \in Nat
              BY <1>6, <1>8, <5>2 DEF Failed
            <6>2. i <= at
              BY <4>2, <6>1
            <6>3. i \in DOMAIN results /\ results'[i] = results[i]
              BY <2>4, <6>1, <6>2
            <6>4. QED BY <6>1, <6>3 DEF Failed
          <5>3. QED BY <5>1, <5>2
        <4>5. QED BY <4>4
      <3>2. /\ spliced > 0 => budget < MaxReplans
            /\ \A i \in Failed : i <= spliced
            /\ \A i, j \in Failed : i < j => Together(i, j)
        BY <1>1 DEF WalkInv, FailuresKept, Walking
      <3>3. \A i, j \in Failed' : i < j => Together(i, j)'
        BY <1>1, <3>1, <3>2 DEF Together
      <3>4. QED BY <1>1, <2>5, <2>7, <3>1, <3>2, <3>3 DEF FailuresKept, Walking
    <2>8. ASSUME phase' = "replan" PROVE FailuresKept'
      <3>1. budget = MaxReplans /\ spliced = 0
        BY <1>1, <1>2, <2>8, ExecutorAssumption DEF WalkInv, WalkTyped, FailuresKept, Walking
      <3>2. Failed = {}
        BY <1>1, <3>1 DEF WalkInv, FailuresKept, Walking, Failed
      <3>3. \A i, j \in Failed' : i < j => Together(i, j)
        <4>1. \A i \in Failed' : i \in Batch
          BY <2>6, <3>2
        <4>2. \A i, j \in Batch : i < j => Together(i, j)
          BY <1>1 DEF WalkInv, FailuresKept
        <4>3. QED BY <4>1, <4>2
      <3>4. \A i, j \in Failed' : i < j => Together(i, j)'
        BY <1>1, <3>3 DEF Together
      <3>5. QED BY <1>1, <2>5, <2>8, <3>1, <3>4 DEF FailuresKept, Walking
    <2>9. QED BY <1>8, <2>1, <2>2, <2>3, <2>7, <2>8 DEF WalkInv
  <1>9. QED BY <1>2, <1>7, <1>8

(* A continuation leaves what has run as it was. *)
LEMMA SpliceIs ==
  ASSUME WalkInv, NEW c \in Continuations
  PROVE  /\ Splice(c) \in Seq(AnyStep) /\ Len(Splice(c)) = at + Len(c) /\ Len(c) \in Nat
         /\ \A i \in 1..at : Splice(c)[i] = steps[i]
  <1> USE LoopFacts
  <1>1. /\ SubSeq(steps, 1, at) \in Seq(AnyStep) /\ Len(SubSeq(steps, 1, at)) = at
        /\ \A i \in 1..at : SubSeq(steps, 1, at)[i] = steps[i]
    <2>1. 1 \in Int /\ at \in Int /\ \A i \in 1..at : steps[i] \in AnyStep
      OBVIOUS
    <2>2. /\ SubSeq(steps, 1, at) \in Seq(AnyStep)
          /\ Len(SubSeq(steps, 1, at)) = IF 1 <= at THEN at - 1 + 1 ELSE 0
          /\ \A i \in 1..(at - 1 + 1) : SubSeq(steps, 1, at)[i] = steps[1 + i - 1]
      BY ONLY <2>1, SubSeqProperties
    <2>3. QED BY <2>2
  <1>2. c \in Seq(AnyStep) /\ Len(c) \in Nat
    <2>1. c \in Seq(Range(c)) /\ Range(c) \subseteq AnyStep
      BY ExecutorAssumption DEF AnyStep, StepsOf
    <2>2. QED BY <2>1, SeqMonotonic, LenProperties
  <1> DEFINE s == SubSeq(steps, 1, at)
  <1>3. s \in Seq(AnyStep) /\ c \in Seq(AnyStep) /\ Len(s) = at
    BY <1>1, <1>2
  <1> HIDE DEF s
  <1>4. /\ s \o c \in Seq(AnyStep) /\ Len(s \o c) = Len(s) + Len(c)
        /\ \A i \in 1..(Len(s) + Len(c)) : (s \o c)[i] = IF i <= Len(s) THEN s[i] ELSE c[i - Len(s)]
    BY ONLY <1>3, ConcatProperties
  <1>5. \A i \in 1..at : (s \o c)[i] = s[i]
    BY <1>2, <1>3, <1>4
  <1>6. Splice(c) = s \o c
    BY DEF Splice, s
  <1>7. QED BY <1>1, <1>2, <1>3, <1>4, <1>5, <1>6 DEF s

LEMMA ReplanKeepsWalk ==
  ASSUME WalkInv, NEW c \in Continuations, Replan(c) PROVE WalkInv'
  <1> USE LoopFacts
  <1>1. /\ phase = "replan" /\ phase' = "next" /\ spliced' = at /\ budget' = budget - 1
        /\ steps' = Splice(c)
        /\ UNCHANGED <<inTask, at, upTo, results, outcome>>
    BY DEF Replan
  <1>2. budget = 1 /\ MaxReplans = 1 /\ Len(results) = at /\ upTo = at
    BY <1>1, ExecutorAssumption DEF WalkInv, WalkTyped, WalkKept, Walking
  <1>4. Len(c) \in Nat
    BY SpliceIs
  <1>5. /\ steps' \in Seq(AnyStep) /\ Len(steps') = at + Len(c)
        /\ \A i \in 1..at : steps'[i] = steps[i]
    BY <1>1, SpliceIs
  <1>6. DOMAIN steps' = 1..(at + Len(c)) /\ DOMAIN steps' \subseteq Position
    <2>1. DOMAIN steps' = 1..(at + Len(c))
      BY <1>5, LenProperties
    <2>2. PICK p \in Plans : Len(steps) = Len(p)
      BY <1>2 DEF WalkInv, WalkKept
    <2>3. 1..(Len(p) + Len(c)) \subseteq Position
      BY ExecutorAssumption
    <2>4. QED BY <1>4, <2>1, <2>2, <2>3
  <1>7. WalkTyped'
    BY <1>1, <1>2, <1>4, <1>5, <1>6 DEF WalkInv, WalkTyped
  <1>8. WalkKept'
    BY <1>1, <1>2, <1>5 DEF WalkInv, WalkKept, Walking
  <1>9. ResultsMatchPlan'
    BY <1>1, <1>2, <1>4, <1>5, <1>6 DEF WalkInv, ResultsMatchPlan
  <1>10. FailuresKept'
    <2>1. Failed' = Failed /\ \A i \in Failed : i \in 1..at
      BY <1>1, <1>2 DEF Failed
    <2>2. \A i, j \in Failed : i < j => Together(i, j)'
      BY <1>1, <1>5, <2>1 DEF WalkInv, FailuresKept, Walking, Together
    <2>3. QED BY <1>1, <1>2, <2>1, <2>2 DEF WalkInv, FailuresKept, Walking
  <1>11. QED BY <1>7, <1>8, <1>9, <1>10 DEF WalkInv

LEMMA WalkSame == ASSUME WalkInv, UNCHANGED <<inTask, execVars>> PROVE WalkInv'
  BY DEF WalkInv, WalkTyped, WalkKept, FailuresKept, ResultsMatchPlan, execVars,
         Failed, Together, Batch

-----------------------------------------------------------------------------
(* The coroutines of the steps. *)

MovesTo(k, s, c) ==
  stage' = [stage EXCEPT ![k] = s] /\ call' = [call EXCEPT ![k] = c]

(* What a step may go on to, given where it stands: s with the call c.      *)
Allowed(k, s, c) ==
  /\ stage[k] \in Active \cup {"late"} /\ s \in Stage \ {"off", "late"} /\ c \in Call
  /\ stage[k] = "late" => s \in {"done", "failed"}
  /\ s \in Active \ {"run"} => c.file # NoFile
  /\ s \in Active => (c.file = NoFile <=> call[k].file = NoFile)
  /\ s = "repair" => c.attempt < MaxAttempts
  /\ s \in {"put", "register"} =>
       /\ c.file \in File => c.seen <= Count(c.file)
       /\ c.seen > 0 => c.overwrite

CountsGrow == \A f \in File : Count(f) \in Nat /\ Count(f)' \in Nat /\ Count(f) <= Count(f)'

LEMMA MovedTo ==
  ASSUME StepTyped, NEW k \in Position, NEW s \in Stage, NEW c \in Call, MovesTo(k, s, c)
  PROVE  /\ StepTyped'
         /\ \A j \in Position : /\ stage'[j] = IF j = k THEN s ELSE stage[j]
                                /\ call'[j] = IF j = k THEN c ELSE call[j]
  BY DEF StepTyped, MovesTo

LEMMA CallTyped ==
  ASSUME StepTyped, NEW k \in Position
  PROVE  /\ call[k] \in Call /\ call[k].file \in File \cup {NoFile}
         /\ call[k].overwrite \in BOOLEAN /\ call[k].attempt \in 1..MaxAttempts
         /\ call[k].confirmed \in BOOLEAN /\ call[k].seen \in Nat
         /\ stage[k] \in Stage
  <1>1. call[k] \in Call /\ stage[k] \in Stage
    BY DEF StepTyped
  <1>2. QED BY <1>1 DEF Call

LEMMA MoveKeepsSteps ==
  ASSUME WalkInv, StepInv, NEW k \in Position, NEW s, NEW c, Allowed(k, s, c),
         MovesTo(k, s, c), CountsGrow, StepUnchanged
  PROVE  StepInv'
  <1>1. s \in Stage /\ c \in Call /\ StepTyped
    BY DEF Allowed, StepInv
  <1>2. /\ StepTyped'
        /\ \A j \in Position : /\ stage'[j] = IF j = k THEN s ELSE stage[j]
                               /\ call'[j] = IF j = k THEN c ELSE call[j]
    BY <1>1, MovedTo
  <1>3. UNCHANGED <<phase, steps, at, upTo>>
    BY DEF StepUnchanged, execVars
  <1>4. \A j \in Position : StageKept(j)'
    <2> SUFFICES ASSUME NEW j \in Position PROVE StageKept(j)'
      OBVIOUS
    <2>1. StageKept(j) /\ StageKept(k)
      BY DEF StepInv
    <2>2. CASE j = k
      <3>1. stage'[j] = s /\ s # "off" /\ s # "late" /\ stage[k] # "off"
        BY <1>2, <2>2 DEF Allowed, Active
      <3>2. s \in Active => stage[k] \in Active
        BY DEF Allowed, Active
      <3>3. QED BY <1>3, <2>1, <2>2, <3>1, <3>2 DEF StageKept, Batch
    <2>3. CASE j # k
      BY <1>2, <1>3, <2>1, <2>3 DEF StageKept, Batch
    <2>4. QED BY <2>2, <2>3
  <1>5. \A j \in Position : CallKept(j)'
    <2> SUFFICES ASSUME NEW j \in Position PROVE CallKept(j)'
      OBVIOUS
    <2>1. CallKept(j) /\ CallKept(k)
      BY DEF StepInv
    <2>2. CASE j = k
      <3>1. stage'[j] = s /\ call'[j] = c /\ steps'[j] = steps[j]
        BY <1>2, <1>3, <2>2
      <3>2. c.file \in File \cup {NoFile} /\ c.seen \in Nat
        BY <1>1 DEF Call
      <3>3. s \in Active => stage[k] \in Active
        BY DEF Allowed, Active
      <3>4. s \in Active \cup {"late"} /\ s # "run" => c.file # NoFile
        BY DEF Allowed
      <3>5. s \in Active => (c.file = NoFile <=> steps[k].file = NoFile)
        BY <2>1, <3>3 DEF Allowed, CallKept
      <3>6. s \in {"put", "register", "late"} =>
              Cardinality(rows'[c.file]) \in Nat /\ c.seen <= Cardinality(rows'[c.file])
        <4> SUFFICES ASSUME s \in {"put", "register"}
                     PROVE  Cardinality(rows'[c.file]) \in Nat /\ c.seen <= Cardinality(rows'[c.file])
          BY DEF Allowed
        <4>1. c.file \in File /\ c.seen <= Count(c.file)
          BY <3>2, <3>4 DEF Allowed, Active
        <4>2. Count(c.file) \in Nat /\ Count(c.file)' \in Nat /\ Count(c.file) <= Cardinality(rows'[c.file])
              /\ Cardinality(rows'[c.file]) \in Nat
          BY <4>1 DEF CountsGrow, Count
        <4>3. QED BY <3>2, <4>1, <4>2
      <3>7. /\ s = "repair" => c.attempt < MaxAttempts
            /\ s \in {"put", "register", "late"} => (c.seen > 0 => c.overwrite)
        BY DEF Allowed
      <3>8. QED BY <2>2, <3>1, <3>4, <3>5, <3>6, <3>7 DEF CallKept, Count
    <2>3. CASE j # k
      <3>1. stage'[j] = stage[j] /\ call'[j] = call[j] /\ steps'[j] = steps[j]
        BY <1>2, <1>3, <2>3
      <3>2. stage[j] \in {"put", "register", "late"} =>
              call[j].seen <= Cardinality(rows'[call[j].file])
        <4> SUFFICES ASSUME stage[j] \in {"put", "register", "late"}
                     PROVE  call[j].seen <= Cardinality(rows'[call[j].file])
          OBVIOUS
        <4>1. call[j].file \in File /\ call[j].seen \in Nat /\ call[j].seen <= Count(call[j].file)
          BY <1>1, <2>1, CallTyped DEF CallKept, Active
        <4> DEFINE f == call[j].file
                   n == call[j].seen
        <4>2. f \in File /\ n \in Nat /\ n <= Count(f)
          BY <4>1
        <4> HIDE DEF f, n
        <4>3. n <= Cardinality(rows'[f])
          BY <4>2 DEF CountsGrow, Count
        <4>4. QED BY <4>3 DEF f, n
      <3>3. QED BY <2>1, <3>1, <3>2 DEF CallKept, Count
    <2>4. QED BY <2>2, <2>3
  <1>6. QED BY <1>2, <1>4, <1>5 DEF StepInv

(* A step that neither registers a row nor has one to register.             *)
Quiet(k, s) ==
  /\ stage[k] # "register" /\ s \notin {"register", "embed"}
  /\ stage[k] = "embed" => s \in {"done", "failed"}
  /\ s = "done" => stage[k] = "embed" \/ steps[k].file = NoFile

QuietStep(k) ==
  \/ OtherStep(k) \/ ReadLatest(k) \/ ToolErrorRaised(k) \/ Repaired(k)
  \/ RepairFails(k) \/ Declined(k) \/ Confirmed(k) \/ EmbedQueued(k)
  \/ Breaks(k) /\ stage[k] # "register"

LEMMA StepsAreSteps == ASSUME WalkInv PROVE \A i \in 1..Len(steps) : IsStep(steps[i])
  <1> SUFFICES ASSUME NEW i \in 1..Len(steps) PROVE IsStep(steps[i])
    OBVIOUS
  <1>1. steps[i] \in AnyStep
    BY LoopFacts
  <1>2. PICK p \in Plans \cup Continuations : steps[i] \in Range(p)
    BY <1>1 DEF AnyStep, StepsOf
  <1>3. PICK j \in DOMAIN p : steps[i] = p[j]
    BY <1>2 DEF Range
  <1>4. IsStep(p[j])
    BY ExecutorAssumption
  <1>5. QED BY <1>3, <1>4

LEMMA EndsMoves ==
  ASSUME StepTyped, NEW k \in Position, NEW s \in {"done", "failed"}, Ends(k, s),
         stage[k] \in Active \cup {"late"}
  PROVE  Allowed(k, s, NoCall) /\ MovesTo(k, s, NoCall)
  <1>1. NoCall \in Call
    BY ExecutorAssumption DEF NoCall, Call
  <1>2. QED BY <1>1 DEF Allowed, MovesTo, Ends, Stage, Active

LEMMA MoveMoves ==
  ASSUME StepTyped, NEW k \in Position, NEW s, Move(k, s)
  PROVE  MovesTo(k, s, call[k])
  BY DEF StepTyped, Move, MovesTo

LEMMA CallChanged ==
  ASSUME StepTyped, NEW k \in Position, NEW c, call' = [call EXCEPT ![k] = c], c \in Call
  PROVE  call'[k] = c
  BY DEF StepTyped

LEMMA QuietMoves ==
  ASSUME WalkInv, StepInv, FileInv, NEW k \in Position, QuietStep(k)
  PROVE  /\ \E s, c : Allowed(k, s, c) /\ MovesTo(k, s, c) /\ Quiet(k, s)
         /\ UNCHANGED fileVars /\ StepUnchanged
  <1>1. /\ StepTyped /\ CallKept(k) /\ call[k] \in Call
        /\ call[k].file \in File \cup {NoFile} /\ call[k].seen \in Nat
        /\ call[k].attempt \in 1..MaxAttempts /\ stage[k] \in Stage
        /\ call[k].overwrite \in BOOLEAN /\ call[k].confirmed \in BOOLEAN
    BY CallTyped DEF StepInv
  <1>2. MaxAttempts \in Nat \ {0} /\ NoFile \notin File
    BY ExecutorAssumption
  <1>3. UNCHANGED fileVars /\ StepUnchanged
    BY DEF QuietStep, OtherStep, ReadLatest, ToolErrorRaised, Repaired, RepairFails,
           Declined, Confirmed, EmbedQueued, Breaks, fileVars
  <1> SUFFICES \E s, c : Allowed(k, s, c) /\ MovesTo(k, s, c) /\ Quiet(k, s)
    BY <1>3
  <1>4. ASSUME NEW s \in {"done", "failed"}, Ends(k, s), stage[k] \in Active, stage[k] # "register",
               s = "done" => stage[k] = "embed" \/ steps[k].file = NoFile
        PROVE  \E t, c : Allowed(k, t, c) /\ MovesTo(k, t, c) /\ Quiet(k, t)
    <2>1. Quiet(k, s)
      BY <1>4 DEF Quiet
    <2>2. QED BY <1>1, <1>4, <2>1, EndsMoves
  <1>5. CASE OtherStep(k)
    <2>1. PICK s \in {"done", "failed"} : Ends(k, s)
      BY <1>5 DEF OtherStep
    <2>2. stage[k] = "run" /\ steps[k].file = NoFile
      BY <1>1, <1>5 DEF OtherStep, Writes, CallKept, Active
    <2>3. QED BY <1>4, <2>1, <2>2 DEF Active
  <1>6. CASE ReadLatest(k)
    <2>1. stage[k] = "run" /\ call[k].file \in File
      BY <1>1, <1>6 DEF ReadLatest, Writes
    <2>2. CASE Latest(call[k].file) = 0 \/ call[k].overwrite
      <3> DEFINE c == [call[k] EXCEPT !.seen = Latest(call[k].file)]
      <3>1. Latest(call[k].file) \in Nat /\ Latest(call[k].file) = Count(call[k].file)
        BY <2>1, LatestIsCount DEF FileInv, DiskTyped
      <3>2. /\ c \in Call /\ c.file = call[k].file /\ c.overwrite = call[k].overwrite
            /\ c.seen = Latest(call[k].file)
        BY <1>1, <3>1 DEF Call
      <3>3. stage' = [stage EXCEPT ![k] = "put"] /\ call' = [call EXCEPT ![k] = c]
        BY <1>1, <1>6, <2>2 DEF ReadLatest, StepTyped
      <3> HIDE DEF c
      <3>4. Allowed(k, "put", c)
        <4>1. c.seen <= Count(c.file) /\ (c.seen > 0 => c.overwrite)
          BY <2>2, <3>1, <3>2
        <4>2. c.file # NoFile /\ call[k].file # NoFile
          BY <1>2, <2>1, <3>2
        <4>3. QED BY <2>1, <3>2, <4>1, <4>2 DEF Allowed, Active, Stage
      <3>5. MovesTo(k, "put", c) /\ Quiet(k, "put")
        BY <2>1, <3>3 DEF MovesTo, Quiet
      <3>6. QED BY <3>4, <3>5
    <2>3. CASE ~(Latest(call[k].file) = 0 \/ call[k].overwrite)
      <3>1. Collide(k)
        BY <1>6, <2>3 DEF ReadLatest
      <3>2. CASE inTask
        <4>1. Move(k, "ask")
          BY <3>1, <3>2 DEF Collide
        <4>2. Allowed(k, "ask", call[k]) /\ Quiet(k, "ask")
          BY <1>1, <1>2, <2>1 DEF Allowed, Quiet, Active, Stage
        <4>3. QED BY <1>1, <4>1, <4>2, MoveMoves
      <3>3. CASE ~inTask
        <4>1. Ends(k, "failed")
          BY <3>1, <3>3 DEF Collide
        <4>2. QED BY <1>4, <2>1, <4>1 DEF Active
      <3>4. QED BY <3>2, <3>3
    <2>4. QED BY <2>2, <2>3
  <1>7. CASE ToolErrorRaised(k)
    <2>1. stage[k] \in {"run", "put"} /\ call[k].file # NoFile
      BY <1>7 DEF ToolErrorRaised, Writes
    <2>2. CASE call[k].confirmed \/ call[k].attempt >= MaxAttempts
      <3>1. Ends(k, "failed")
        BY <1>7, <2>2 DEF ToolErrorRaised
      <3>2. QED BY <1>4, <2>1, <3>1 DEF Active
    <2>3. CASE ~(call[k].confirmed \/ call[k].attempt >= MaxAttempts)
      <3>1. Move(k, "repair")
        BY <1>7, <2>3 DEF ToolErrorRaised
      <3>2. Allowed(k, "repair", call[k]) /\ Quiet(k, "repair")
        BY <1>1, <1>2, <2>1, <2>3 DEF Allowed, Quiet, Active, Stage
      <3>3. QED BY <1>1, <3>1, <3>2, MoveMoves
    <2>4. QED BY <2>2, <2>3
  <1>8. CASE Repaired(k)
    <2>1. PICK f \in File, o \in BOOLEAN :
            call' = [call EXCEPT ![k].file = f, ![k].overwrite = o, ![k].attempt = @ + 1]
      BY <1>8 DEF Repaired
    <2> DEFINE c == [call[k] EXCEPT !.file = f, !.overwrite = o, !.attempt = @ + 1]
    <2>2. stage[k] = "repair" /\ stage' = [stage EXCEPT ![k] = "run"]
      BY <1>8 DEF Repaired
    <2>3. call[k].attempt + 1 \in 1..MaxAttempts /\ call[k].file # NoFile
      BY <1>1, <1>2, <2>2 DEF CallKept, Active
    <2>4. c \in Call /\ c.file = f
      BY <1>1, <2>3 DEF Call
    <2>5. call' = [call EXCEPT ![k] = c]
      BY <1>1, <2>1 DEF StepTyped
    <2> HIDE DEF c
    <2>6. Allowed(k, "run", c) /\ Quiet(k, "run")
      BY <1>2, <2>2, <2>3, <2>4 DEF Allowed, Quiet, Active, Stage
    <2>7. QED BY <2>2, <2>5, <2>6 DEF MovesTo
  <1>9. CASE RepairFails(k) \/ Declined(k)
    <2>1. stage[k] \in {"repair", "ask"} /\ Ends(k, "failed")
      BY <1>9 DEF RepairFails, Declined
    <2>2. QED BY <1>4, <2>1 DEF Active
  <1>10. CASE Confirmed(k)
    <2> DEFINE c == [call[k] EXCEPT !.file = steps[k].file, !.overwrite = TRUE, !.confirmed = TRUE]
    <2>1. stage[k] = "ask" /\ stage' = [stage EXCEPT ![k] = "run"]
      BY <1>10 DEF Confirmed
    <2>2. call[k].file # NoFile /\ steps[k].file # NoFile
      BY <1>1, <2>1 DEF CallKept, Active
    <2>3. steps[k].file \in File \cup {NoFile}
      <3>1. k \in 1..Len(steps)
        BY <2>1, LoopFacts DEF StepInv, StageKept
      <3>2. QED BY <3>1, StepsAreSteps DEF IsStep
    <2>4. c \in Call /\ c.file = steps[k].file
      BY <1>1, <2>3 DEF Call
    <2>5. call' = [call EXCEPT ![k] = c]
      BY <1>1, <1>10 DEF Confirmed, StepTyped
    <2> HIDE DEF c
    <2>6. Allowed(k, "run", c) /\ Quiet(k, "run")
      BY <2>1, <2>2, <2>4 DEF Allowed, Quiet, Active, Stage
    <2>7. QED BY <2>1, <2>5, <2>6 DEF MovesTo
  <1>11. CASE EmbedQueued(k)
    <2>1. PICK s \in {"done", "failed"} : Ends(k, s)
      BY <1>11 DEF EmbedQueued
    <2>2. stage[k] = "embed"
      BY <1>11 DEF EmbedQueued
    <2>3. QED BY <1>4, <2>1, <2>2 DEF Active
  <1>12. CASE Breaks(k) /\ stage[k] # "register"
    <2>1. stage[k] \in {"run", "put"} /\ Ends(k, "failed")
      BY <1>12 DEF Breaks
    <2>2. QED BY <1>4, <2>1 DEF Active
  <1>13. QED BY <1>5, <1>6, <1>7, <1>8, <1>9, <1>10, <1>11, <1>12 DEF QuietStep

LEMMA CountsSame ==
  ASSUME FileInv, rows' = rows
  PROVE  CountsGrow
  <1>1. \A f \in File : Count(f) \in Nat
    BY LatestIsCount DEF FileInv, DiskTyped
  <1>2. QED BY <1>1 DEF CountsGrow, Count

(* What does not touch the rows leaves them a line. *)
LEMMA LineSame ==
  ASSUME FileInv, rows' = rows, upload' = upload
  PROVE  LineKept'
  BY DEF FileInv, LineKept, VersionsOK, HistoryIsLinear, ReplacedWithLeave, Versions, Count

LEMMA MadeSame ==
  ASSUME NEW j \in Position, MadeKept(j), rows' = rows,
         stage'[j] = stage[j], stage[j] = "done" => steps'[j] = steps[j]
  PROVE  MadeKept(j)'
  BY DEF MadeKept, MadeBy

LEMMA QuietKeepsFiles ==
  ASSUME WalkInv, StepInv, FileInv, NEW k \in Position, NEW s, NEW c,
         Allowed(k, s, c), MovesTo(k, s, c), Quiet(k, s), UNCHANGED fileVars, StepUnchanged
  PROVE  FileInv'
  <1>1. UNCHANGED <<rows, bytes, torn, upload, steps>>
    BY DEF fileVars, StepUnchanged, execVars
  <1>2. \A j \in Position : stage'[j] = (IF j = k THEN s ELSE stage[j])
                            /\ call'[j] = (IF j = k THEN c ELSE call[j])
    BY MovedTo DEF StepInv, Allowed
  <1>3. DiskTyped'
    BY <1>1 DEF FileInv, DiskTyped, FilesTypeOK
  <1>4. LineKept'
    BY <1>1, LineSame
  <1>5. \A j \in Position : MadeKept(j)'
    <2> SUFFICES ASSUME NEW j \in Position PROVE MadeKept(j)'
      OBVIOUS
    <2>1. MadeKept(j)
      BY DEF FileInv
    <2>2. CASE j # k
      BY <1>1, <1>2, <2>1, <2>2, MadeSame
    <2>3. CASE j = k
      <3>1. MadeBy(j)' = MadeBy(j) /\ stage'[j] = s
        BY <1>1, <1>2, <2>3 DEF MadeBy
      <3>2. s \notin {"embed", "done", "failed"} => MadeBy(j) = {}
        BY <2>1, <2>3 DEF Quiet, Allowed, MadeKept, Active
      <3>3. s = "done" /\ steps[j].file # NoFile => MadeBy(j) # {}
        BY <2>1, <2>3 DEF Quiet, MadeKept
      <3>4. s # "embed"
        BY DEF Quiet
      <3>5. QED BY <1>1, <2>1, <3>1, <3>2, <3>3, <3>4 DEF MadeKept
    <2>4. QED BY <2>2, <2>3
  <1>6. \A j \in Position : stage'[j] = "register" <=> stage[j] = "register" /\ j # k
    BY <1>2 DEF Quiet
  <1>7. \A j \in Position : stage[j] = "register" => stage'[j] = "register" /\ call'[j] = call[j]
    BY <1>2 DEF Quiet
  <1>8. BytesKept'
    <2>1. \A f \in File : Pending(f)' <=> Pending(f)
      BY <1>1, <1>6, <1>7 DEF Pending, Uploading, Unregistered
    <2>2. LatestDescribesBytes'
      BY <1>1, <2>1 DEF FileInv, BytesKept, LatestDescribesBytes, Faithful, Latest, Versions
    <2>3. QED BY <1>1, <1>6, <1>7, <2>2 DEF FileInv, BytesKept
  <1>9. QED BY <1>3, <1>4, <1>5, <1>8 DEF FileInv

-----------------------------------------------------------------------------
(* Bytes and rows. *)

LEMMA LatestOf ==
  ASSUME NEW S, IsFiniteSet(S), {x.version : x \in S} = 1..Cardinality(S)
  PROVE  Cardinality(S) \in Nat /\ Max({0} \cup {x.version : x \in S}) = Cardinality(S)
  <1>1. Cardinality(S) \in Nat
    BY FS_CardinalityType
  <1>2. {0} \cup {x.version : x \in S} = 0..Cardinality(S)
    BY <1>1
  <1>3. QED BY <1>1, <1>2, MaxUpTo

(* The new row is the latest, the rows of the other files are the same.     *)
LEMMA GrownRows ==
  ASSUME FileInv, NEW f \in File, NEW r \in FileRow, Grown(f, r), VersionsOK',
         \A g \in File : IsFiniteSet(rows'[g])
  PROVE  /\ FilesTypeOK' <=> bytes' \in [File -> Writer \cup {NoBytes}]
         /\ \A g \in File : rows'[g] = IF g = f THEN rows[f] \cup {r} ELSE rows[g]
         /\ CountsGrow
         /\ \A g \in File : g # f => (Faithful(g)' <=> (\A x \in rows[g] : x.version = Latest(g) => bytes'[g] = x.by))
         /\ Faithful(f)' <=> bytes'[f] = r.by
  <1>1. DiskTyped /\ FilesTypeOK /\ LineKept
    BY DEF FileInv, DiskTyped
  <1>2. \A g \in File : rows'[g] = IF g = f THEN rows[f] \cup {r} ELSE rows[g]
    BY <1>1 DEF Grown, FilesTypeOK
  <1>3. rows' \in [File -> SUBSET FileRow]
    BY <1>1 DEF Grown, FilesTypeOK
  <1>4. \A g \in File : Count(g) \in Nat /\ Latest(g) = Count(g)
                        /\ \A x \in rows[g] : x.version \in 1..Count(g)
    BY <1>1, LatestIsCount
  <1>5. \A g \in File : Cardinality(rows'[g]) \in Nat
    BY FS_CardinalityType
  <1>6. CountsGrow
    <2>1. \A g \in File : g # f => Cardinality(rows'[g]) = Cardinality(rows[g])
      BY <1>2
    <2>2. Cardinality(rows'[f]) = Cardinality(rows[f]) + 1
      BY DEF Grown, Count
    <2>3. QED BY <1>4, <1>5, <2>1, <2>2 DEF CountsGrow, Count
  <1>7. \A g \in File : g # f => (Faithful(g)' <=> (\A x \in rows[g] : x.version = Latest(g) => bytes'[g] = x.by))
    BY <1>2 DEF Faithful, Latest, Versions
  <1>8. Faithful(f)' <=> bytes'[f] = r.by
    <2>1. Latest(f)' = Count(f) + 1
      <3> DEFINE S == rows'[f]
      <3>1. IsFiniteSet(S) /\ {x.version : x \in S} = 1..Cardinality(S)
        BY DEF VersionsOK, HistoryIsLinear, Versions
      <3> HIDE DEF S
      <3>2. Max({0} \cup {x.version : x \in S}) = Cardinality(S)
        BY <3>1, LatestOf
      <3>3. Cardinality(S) = Count(f) + 1
        BY DEF S, Grown, Count
      <3>4. QED BY <3>2, <3>3 DEF S, Latest, Versions
    <2>2. r.version = Count(f) + 1 /\ r \in rows'[f]
      BY <1>2 DEF Grown
    <2>3. \A x \in rows'[f] : x.version = Count(f) + 1 => x = r
      BY <1>2, <1>4
    <2>4. QED BY <2>1, <2>2, <2>3 DEF Faithful
  <1>9. FilesTypeOK' <=> bytes' \in [File -> Writer \cup {NoBytes}]
    BY <1>3 DEF FilesTypeOK
  <1>10. QED BY <1>2, <1>6, <1>7, <1>8, <1>9

(* Of the steps, only the one that registered has made another row.         *)
LEMMA MadeByOthers ==
  ASSUME FileInv, NEW f \in File, NEW r \in FileRow,
         \A g \in File : rows'[g] = IF g = f THEN rows[f] \cup {r} ELSE rows[g],
         NEW j \in Position, j # r.by, MadeKept(j),
         stage'[j] = stage[j], steps' = steps
  PROVE  MadeKept(j)'
  <1>1. \A g \in File : {x \in rows'[g] : x.by = j} = {x \in rows[g] : x.by = j}
    OBVIOUS
  <1>2. \A g \in File : (\E x \in rows'[g] : x.by = j) <=> (\E x \in rows[g] : x.by = j)
    OBVIOUS
  <1>3. MadeBy(j)' = MadeBy(j)
    BY <1>2 DEF MadeBy
  <1>4. \A g \in File : \A x, y \in rows'[g] : x.by = j /\ y.by = j => x = y
    BY DEF MadeKept
  <1>5. QED BY <1>3, <1>4 DEF MadeKept

LEMMA PutKeeps ==
  ASSUME WalkInv, StepInv, FileInv, NEW k \in Position, PutBytes(k)
  PROVE  StepInv' /\ FileInv'
  <1>0. PICK f : f = call[k].file
    OBVIOUS
  <1>1. /\ StepTyped /\ StageKept(k) /\ CallKept(k) /\ MadeKept(k) /\ call[k] \in Call
        /\ f \in File \cup {NoFile}
    BY <1>0, CallTyped DEF StepInv, FileInv
  <1>2. /\ stage[k] \in {"put", "late"} /\ bytes' = [bytes EXCEPT ![f] = k]
        /\ torn' = (IF Pending(f) \/ stage[k] = "late" THEN torn \cup {f} ELSE torn)
        /\ UNCHANGED <<rows, upload, steps>> /\ StepUnchanged
    BY <1>0 DEF PutBytes, Put, StepUnchanged, execVars
  <1>3. f \in File /\ f # NoFile
    BY <1>0, <1>1, <1>2, ExecutorAssumption DEF CallKept, Active
  <1>4. PICK s, c : /\ Allowed(k, s, c) /\ MovesTo(k, s, c)
                    /\ \/ stage[k] = "put" /\ s = "register" /\ c = call[k]
                       \/ stage[k] = "late" /\ s = "failed"
    <2>1. CASE stage[k] = "put" /\ Move(k, "register")
      <3>1. call[k].seen > 0 => call[k].overwrite
        BY <1>1, <2>1 DEF CallKept
      <3>2. call[k].seen <= Count(call[k].file)
        BY <1>1, <2>1 DEF CallKept
      <3>3. Allowed(k, "register", call[k])
        BY <1>0, <1>1, <1>3, <2>1, <3>1, <3>2 DEF Allowed, Active, Stage
      <3>4. MovesTo(k, "register", call[k])
        BY <1>1, <2>1, MoveMoves
      <3>5. QED BY <2>1, <3>3, <3>4
    <2>2. CASE stage[k] = "late" /\ Ends(k, "failed")
      <3>1. Allowed(k, "failed", NoCall) /\ MovesTo(k, "failed", NoCall)
        BY <1>1, <2>2, EndsMoves
      <3>2. QED BY <2>2, <3>1
    <2>3. QED BY <2>1, <2>2 DEF PutBytes
  <1>5. StepInv'
    BY <1>2, <1>4, CountsSame, MoveKeepsSteps
  <1>6. \A j \in Position : stage'[j] = (IF j = k THEN s ELSE stage[j])
                            /\ call'[j] = (IF j = k THEN c ELSE call[j])
    BY <1>1, <1>4, MovedTo DEF Allowed
  <1>7. DiskTyped'
    <2>1. k \in Writer
      BY ExecutorAssumption
    <2>2. QED BY <1>2, <1>3, <2>1 DEF FileInv, DiskTyped, FilesTypeOK
  <1>8. LineKept'
    BY <1>2, LineSame
  <1>9. \A j \in Position : MadeKept(j)'
    <2> SUFFICES ASSUME NEW j \in Position PROVE MadeKept(j)'
      OBVIOUS
    <2>1. MadeKept(j)
      BY DEF FileInv
    <2>2. CASE j # k
      BY <1>2, <1>6, <2>1, <2>2, MadeSame
    <2>3. CASE j = k
      <3>1. MadeBy(j)' = MadeBy(j) /\ stage'[j] \in {"register", "failed"} /\ MadeBy(j) = {}
        BY <1>2, <1>4, <1>6, <2>1, <2>3 DEF MadeBy, MadeKept
      <3>2. QED BY <1>2, <2>1, <3>1 DEF MadeKept
    <2>4. QED BY <2>2, <2>3
  <1>10. BytesKept'
    <2>1. torn \subseteq torn' /\ (stage[k] = "late" => f \in torn') /\ (Pending(f) => f \in torn')
      BY <1>2
    <2>2. bytes'[f] = k /\ \A g \in File : g # f => bytes'[g] = bytes[g]
      BY <1>2, <1>3 DEF FileInv, DiskTyped, FilesTypeOK
    <2>3. \A g \in File : g # f => Unregistered(g)' = Unregistered(g)
      BY <1>0, <1>2, <1>4, <1>6 DEF Unregistered
    <2>4. LatestDescribesBytes'
      <3> SUFFICES ASSUME NEW g \in File PROVE Faithful(g)' \/ g \in torn' \/ Pending(g)'
        BY DEF LatestDescribesBytes
      <3>1. CASE g # f
        <4>1. Faithful(g)' <=> Faithful(g)
          BY <1>2, <2>2, <3>1 DEF Faithful, Latest, Versions
        <4>2. Pending(g)' <=> Pending(g)
          BY <1>2, <2>3, <3>1 DEF Pending, Uploading
        <4>3. QED BY <2>1, <4>1, <4>2 DEF FileInv, BytesKept, LatestDescribesBytes
      <3>2. CASE g = f
        <4>1. CASE stage[k] = "late"
          BY <2>1, <3>2, <4>1
        <4>2. CASE stage[k] = "put"
          <5>1. k \in Unregistered(f)'
            BY <1>0, <1>4, <1>6, <4>2 DEF Unregistered
          <5>2. QED BY <3>2, <5>1 DEF Pending
        <4>3. QED BY <1>2, <4>1, <4>2
      <3>3. QED BY <3>1, <3>2
    <2>5. ASSUME NEW j \in Position, stage'[j] = "register"
          PROVE  call'[j].file \in torn' \/ bytes'[call'[j].file] = j
      <3>1. CASE j = k
        BY <1>0, <1>4, <1>6, <2>2, <2>5, <3>1
      <3>2. CASE j # k
        <4>1. /\ stage[j] = "register" /\ call'[j] = call[j] /\ call[j].file \in File
              /\ call[j].file \in torn \/ bytes[call[j].file] = j
          BY <1>1, <1>6, <2>5, <3>2, CallTyped DEF FileInv, BytesKept, StepInv, CallKept, Active
        <4>2. CASE call[j].file = f
          <5>1. j \in Unregistered(f)
            BY <4>1, <4>2 DEF Unregistered
          <5>2. Pending(f)
            BY <5>1 DEF Pending
          <5>3. QED BY <2>1, <4>1, <4>2, <5>2
        <4>3. CASE call[j].file # f
          BY <2>1, <2>2, <4>1, <4>3
        <4>4. QED BY <4>2, <4>3
      <3>3. QED BY <3>1, <3>2
    <2>6. ASSUME upload'.stage \in {"put", "register"}
          PROVE  upload'.file \in torn' \/ bytes'[upload'.file] = Upload
      <3>1. /\ upload.stage \in {"put", "register"} /\ upload' = upload /\ upload.file \in File
            /\ upload.file \in torn \/ bytes[upload.file] = Upload
        BY <1>2, <2>6, ExecutorAssumption DEF FileInv, BytesKept, DiskTyped
      <3>2. CASE upload.file = f
        <4>1. Pending(f)
          BY <3>1, <3>2 DEF Pending, Uploading
        <4>2. QED BY <2>1, <3>1, <3>2, <4>1
      <3>3. CASE upload.file # f
        BY <2>1, <2>2, <3>1, <3>3
      <3>4. QED BY <3>2, <3>3
    <2>7. QED BY <2>4, <2>5, <2>6 DEF BytesKept
  <1>11. QED BY <1>5, <1>7, <1>8, <1>9, <1>10 DEF FileInv

(* A registration that comes to nothing tears the file. *)
Torn(k) ==
  /\ stage[k] = "register" /\ Ends(k, "failed")
  /\ torn' = torn \cup {call[k].file}
  /\ UNCHANGED <<rows, bytes>> /\ StepUnchanged

LEMMA TornKeeps ==
  ASSUME WalkInv, StepInv, FileInv, NEW k \in Position, Torn(k)
  PROVE  StepInv' /\ FileInv'
  <1>1. /\ StepTyped /\ CallKept(k) /\ call[k].file \in File \cup {NoFile}
        /\ stage[k] = "register" /\ torn' = torn \cup {call[k].file}
        /\ UNCHANGED <<rows, bytes, upload, steps>> /\ StepUnchanged
    BY CallTyped DEF StepInv, Torn, StepUnchanged, execVars
  <1>2. call[k].file \in File
    BY <1>1 DEF CallKept, Active
  <1>3. Allowed(k, "failed", NoCall) /\ MovesTo(k, "failed", NoCall)
    BY <1>1, EndsMoves DEF Torn, Active
  <1>4. StepInv'
    BY <1>1, <1>3, CountsSame, MoveKeepsSteps
  <1>5. \A j \in Position : stage'[j] = (IF j = k THEN "failed" ELSE stage[j])
                            /\ call'[j] = (IF j = k THEN NoCall ELSE call[j])
    BY <1>1, <1>3, MovedTo DEF Allowed
  <1>6. DiskTyped'
    BY <1>1, <1>2 DEF FileInv, DiskTyped, FilesTypeOK
  <1>7. LineKept'
    BY <1>1, LineSame
  <1>8. \A j \in Position : MadeKept(j)'
    <2> SUFFICES ASSUME NEW j \in Position PROVE MadeKept(j)'
      OBVIOUS
    <2>1. MadeKept(j)
      BY DEF FileInv
    <2>2. CASE j # k
      BY <1>1, <1>5, <2>1, <2>2, MadeSame
    <2>3. CASE j = k
      <3>1. MadeBy(j)' = MadeBy(j) /\ stage'[j] = "failed"
        BY <1>1, <1>5, <2>3 DEF MadeBy
      <3>2. QED BY <1>1, <2>1, <3>1 DEF MadeKept
    <2>4. QED BY <2>2, <2>3
  <1>9. BytesKept'
    <2>1. \A g \in File : Pending(g) => Pending(g)' \/ g \in torn'
      <3> SUFFICES ASSUME NEW g \in File, Pending(g), g # call[k].file PROVE Pending(g)'
        BY <1>1
      <3>1. Unregistered(g) \subseteq Unregistered(g)'
        BY <1>5 DEF Unregistered
      <3>2. QED BY <1>1, <3>1 DEF Pending, Uploading
    <2>2. LatestDescribesBytes'
      BY <1>1, <2>1 DEF FileInv, BytesKept, LatestDescribesBytes, Faithful, Latest, Versions
    <2>3. \A j \in Position : stage'[j] = "register" => stage[j] = "register" /\ call'[j] = call[j]
      BY <1>5
    <2>4. QED BY <1>1, <2>2, <2>3 DEF FileInv, BytesKept
  <1>10. QED BY <1>4, <1>6, <1>7, <1>8, <1>9 DEF FileInv

LEMMA RegisterKeeps ==
  ASSUME WalkInv, StepInv, FileInv, NEW k \in Position, RegisterRow(k)
  PROVE  StepInv' /\ FileInv'
  <1>0. PICK f : f = call[k].file
    OBVIOUS
  <1>1. /\ StepTyped /\ CallKept(k) /\ call[k] \in Call /\ f \in File \cup {NoFile}
        /\ call[k].seen \in Nat /\ call[k].overwrite \in BOOLEAN
        /\ stage[k] = "register" /\ StepUnchanged /\ UNCHANGED <<bytes, upload, steps>>
    BY <1>0, CallTyped DEF StepInv, RegisterRow, StepUnchanged, execVars
  <1>2. /\ f \in File /\ call[k].file # NoFile /\ call[k].seen <= Count(f)
        /\ call[k].seen > 0 => call[k].overwrite
    BY <1>0, <1>1 DEF CallKept, Active
  <1>3. CASE ~Insertable(f, call[k].seen + 1)
    <2>1. Torn(k)
      BY <1>0, <1>1, <1>3 DEF RegisterRow, Torn
    <2>2. QED BY <2>1, TornKeeps
  <1>4. CASE Insertable(f, call[k].seen + 1)
    <2>1. Register(f, call[k].seen + 1, k, call[k].overwrite) /\ Move(k, "embed") /\ torn' = torn
      BY <1>0, <1>4 DEF RegisterRow
    <2>2. FilesTypeOK /\ LineKept /\ DiskTyped /\ k \in Writer /\ k # Upload
      BY ExecutorAssumption DEF FileInv, DiskTyped
    <2>3. PICK r \in FileRow : /\ r.by = k /\ Grown(f, r) /\ VersionsOK'
                               /\ \A g \in File : IsFiniteSet(rows'[g])
      BY <1>1, <1>2, <1>4, <2>1, <2>2, RegisteredRow
    <2>4. /\ FilesTypeOK' <=> bytes' \in [File -> Writer \cup {NoBytes}]
          /\ \A g \in File : rows'[g] = IF g = f THEN rows[f] \cup {r} ELSE rows[g]
          /\ CountsGrow
          /\ \A g \in File : g # f => (Faithful(g)' <=> (\A x \in rows[g] : x.version = Latest(g) => bytes'[g] = x.by))
          /\ Faithful(f)' <=> bytes'[f] = r.by
      BY <1>2, <2>3, GrownRows
    <2>5. Allowed(k, "embed", call[k]) /\ MovesTo(k, "embed", call[k])
      <3>1. Allowed(k, "embed", call[k])
        BY <1>1, <1>2 DEF Allowed, Active, Stage
      <3>2. QED BY <1>1, <2>1, <3>1, MoveMoves
    <2>6. StepInv'
      BY <1>1, <2>4, <2>5, MoveKeepsSteps
    <2>7. \A j \in Position : stage'[j] = (IF j = k THEN "embed" ELSE stage[j]) /\ call'[j] = call[j]
      BY <1>1, <2>5, MovedTo DEF Allowed
    <2>8. DiskTyped'
      BY <1>1, <2>1, <2>2, <2>4 DEF DiskTyped, FilesTypeOK
    <2>9. LineKept'
      <3>1. upload.stage = "register" => upload.seen <= Count(upload.file)'
        <4> SUFFICES ASSUME upload.stage = "register" PROVE upload.seen <= Cardinality(rows'[upload.file])
          BY <1>1 DEF Count
        <4>1. upload.file \in File /\ upload.seen \in Nat /\ upload.seen <= Count(upload.file)
          BY <2>2, ExecutorAssumption DEF DiskTyped, LineKept
        <4> DEFINE g == upload.file
                   n == upload.seen
        <4>2. g \in File /\ n \in Nat /\ n <= Count(g)
          BY <4>1
        <4> HIDE DEF g, n
        <4>3. n <= Cardinality(rows'[g])
          BY <2>4, <4>2 DEF CountsGrow, Count
        <4>4. QED BY <4>3 DEF g, n
      <3>2. QED BY <1>1, <2>3, <3>1 DEF LineKept, Count
    <2>10. \A j \in Position : MadeKept(j)'
      <3> SUFFICES ASSUME NEW j \in Position PROVE MadeKept(j)'
        OBVIOUS
      <3>1. MadeKept(j)
        BY DEF FileInv
      <3>2. CASE j # k
        <4>1. j # r.by /\ stage'[j] = stage[j] /\ steps' = steps
          BY <1>1, <2>3, <2>7, <3>2
        <4>2. \A g \in File : rows'[g] = IF g = f THEN rows[f] \cup {r} ELSE rows[g]
          BY <2>4
        <4>3. QED BY <1>2, <3>1, <4>1, <4>2, MadeByOthers
      <3>3. CASE j = k
        <4>1. \A g \in File : \A x \in rows[g] : x.by # k
          BY <1>1, <3>1, <3>3 DEF MadeKept, MadeBy
        <4>2. \A g \in File : \A x \in rows'[g] : x.by = k => g = f /\ x = r
          BY <2>4, <4>1
        <4>3. f \in MadeBy(k)' /\ \A g \in MadeBy(k)' : g = f
          BY <1>2, <2>3, <2>4, <4>2 DEF MadeBy
        <4>4. \A g \in File : \A x, y \in rows'[g] : x.by = k /\ y.by = k => x = y
          BY <4>2
        <4>5. stage'[k] = "embed"
          BY <2>7
        <4>6. QED BY <3>3, <4>3, <4>4, <4>5 DEF MadeKept
      <3>4. QED BY <3>2, <3>3
    <2>11. BytesKept'
      <3>1. \A g \in File : g # f => (Pending(g)' <=> Pending(g))
        <4>1. \A g \in File : g # f => Unregistered(g)' = Unregistered(g)
          BY <1>0, <2>7 DEF Unregistered
        <4>2. QED BY <1>1, <4>1 DEF Pending, Uploading
      <3>2. f \in torn \/ bytes[f] = k
        BY <1>0, <1>1 DEF FileInv, BytesKept
      <3>3. LatestDescribesBytes'
        <4> SUFFICES ASSUME NEW g \in File PROVE Faithful(g)' \/ g \in torn' \/ Pending(g)'
          BY DEF LatestDescribesBytes
        <4>1. CASE g = f
          BY <1>1, <2>1, <2>3, <2>4, <3>2, <4>1
        <4>2. CASE g # f
          <5>1. Faithful(g)' <=> Faithful(g)
            BY <1>1, <2>4, <4>2 DEF Faithful
          <5>2. QED BY <2>1, <3>1, <4>2, <5>1 DEF FileInv, BytesKept, LatestDescribesBytes
        <4>3. QED BY <4>1, <4>2
      <3>4. \A j \in Position : stage'[j] = "register" => stage[j] = "register" /\ call'[j] = call[j]
        BY <2>7
      <3>5. QED BY <1>1, <2>1, <3>3, <3>4 DEF FileInv, BytesKept
    <2>12. QED BY <2>6, <2>8, <2>9, <2>10, <2>11 DEF FileInv
  <1>5. QED BY <1>3, <1>4

-----------------------------------------------------------------------------
(* The upload. *)

LEMMA StepsSame ==
  ASSUME WalkInv, StepInv, CountsGrow, UNCHANGED <<phase, steps, at, upTo, stage, call>>
  PROVE  StepInv'
  <1>1. StepTyped'
    BY DEF StepInv, StepTyped
  <1>2. \A j \in Position : StageKept(j)'
    BY DEF StepInv, StageKept, Batch
  <1>3. \A j \in Position : CallKept(j)'
    <2> SUFFICES ASSUME NEW j \in Position PROVE CallKept(j)'
      OBVIOUS
    <2>1. CallKept(j)
      BY DEF StepInv
    <2>2. stage[j] \in {"put", "register", "late"} => call[j].seen <= Cardinality(rows'[call[j].file])
      <3> SUFFICES ASSUME stage[j] \in {"put", "register", "late"}
                   PROVE  call[j].seen <= Cardinality(rows'[call[j].file])
        OBVIOUS
      <3> DEFINE f == call[j].file
                 n == call[j].seen
      <3>1. f \in File /\ n \in Nat /\ n <= Count(f)
        BY <2>1, CallTyped DEF CallKept, StepInv, Active
      <3> HIDE DEF f, n
      <3>2. n <= Cardinality(rows'[f])
        BY <3>1 DEF CountsGrow, Count
      <3>3. QED BY <3>2 DEF f, n
    <2>3. QED BY <2>1, <2>2 DEF CallKept, Count
  <1>4. QED BY <1>1, <1>2, <1>3 DEF StepInv

LEMMA UploadPutKeeps ==
  ASSUME WalkInv, StepInv, FileInv, UploadPut
  PROVE  StepInv' /\ FileInv'
  <1>0. PICK f : f = upload.file
    OBVIOUS
  <1>1. /\ f \in File /\ upload.stage = "none" /\ Upload \in Writer
        /\ bytes' = [bytes EXCEPT ![f] = Upload]
        /\ torn' = (IF Pending(f) THEN torn \cup {f} ELSE torn)
        /\ upload' = [upload EXCEPT !.stage = "put"]
        /\ UNCHANGED <<rows, stage, call, steps, phase, at, upTo>>
    BY <1>0, ExecutorAssumption
       DEF FileInv, DiskTyped, UploadPut, Put, UploadUnchanged, execVars, stepVars
  <1>2. upload'.stage = "put" /\ upload'.file = f
    BY <1>0, <1>1 DEF FileInv, DiskTyped
  <1>3. StepInv'
    BY <1>1, CountsSame, StepsSame
  <1>4. DiskTyped'
    BY <1>1 DEF FileInv, DiskTyped, FilesTypeOK
  <1>5. LineKept'
    <2>1. upload'.stage # "register"
      BY <1>2
    <2>2. QED BY <1>1, <2>1 DEF FileInv, LineKept, VersionsOK, HistoryIsLinear, ReplacedWithLeave, Versions
  <1>6. \A j \in Position : MadeKept(j)'
    BY <1>1, MadeSame DEF FileInv
  <1>7. BytesKept'
    <2>1. torn \subseteq torn' /\ (Pending(f) => f \in torn')
      BY <1>1
    <2>2. bytes'[f] = Upload /\ \A g \in File : g # f => bytes'[g] = bytes[g]
      BY <1>1 DEF FileInv, DiskTyped, FilesTypeOK
    <2>3. \A g \in File : Unregistered(g)' = Unregistered(g)
      BY <1>1 DEF Unregistered
    <2>4. LatestDescribesBytes'
      <3> SUFFICES ASSUME NEW g \in File PROVE Faithful(g)' \/ g \in torn' \/ Pending(g)'
        BY DEF LatestDescribesBytes
      <3>1. CASE g # f
        <4>1. Faithful(g)' <=> Faithful(g)
          BY <1>1, <2>2, <3>1 DEF Faithful, Latest, Versions
        <4>2. Pending(g)' <=> Pending(g)
          BY <1>0, <1>2, <2>3, <3>1 DEF Pending, Uploading
        <4>3. QED BY <2>1, <4>1, <4>2 DEF FileInv, BytesKept, LatestDescribesBytes
      <3>2. CASE g = f
        BY <1>2, <3>2 DEF Pending, Uploading
      <3>3. QED BY <3>1, <3>2
    <2>5. ASSUME NEW j \in Position, stage'[j] = "register"
          PROVE  call'[j].file \in torn' \/ bytes'[call'[j].file] = j
      <3>1. /\ stage[j] = "register" /\ call'[j] = call[j] /\ call[j].file \in File
            /\ call[j].file \in torn \/ bytes[call[j].file] = j
        BY <1>1, <2>5, CallTyped DEF FileInv, BytesKept, StepInv, CallKept, Active
      <3>2. CASE call[j].file = f
        <4>1. j \in Unregistered(f)
          BY <3>1, <3>2 DEF Unregistered
        <4>2. Pending(f)
          BY <4>1 DEF Pending
        <4>3. QED BY <2>1, <3>1, <3>2, <4>2
      <3>3. CASE call[j].file # f
        BY <2>1, <2>2, <3>1, <3>3
      <3>4. QED BY <3>2, <3>3
    <2>6. QED BY <1>2, <2>2, <2>4, <2>5 DEF BytesKept
  <1>8. QED BY <1>3, <1>4, <1>5, <1>6, <1>7 DEF FileInv

LEMMA UploadReadKeeps ==
  ASSUME WalkInv, StepInv, FileInv, UploadRead
  PROVE  StepInv' /\ FileInv'
  <1>0. PICK f : f = upload.file
    OBVIOUS
  <1>1. /\ f \in File /\ upload.stage = "put" /\ DiskTyped /\ FilesTypeOK /\ LineKept
        /\ upload' = [upload EXCEPT !.stage = "register", !.seen = Latest(f)]
        /\ UNCHANGED <<rows, bytes, torn, stage, call, steps, phase, at, upTo>>
    BY <1>0, ExecutorAssumption
       DEF FileInv, DiskTyped, UploadRead, UploadUnchanged, execVars, stepVars, fileVars
  <1>2. Latest(f) = Count(f) /\ Count(f) \in Nat
    BY <1>1, LatestIsCount
  <1>3. upload'.stage = "register" /\ upload'.file = f /\ upload'.seen = Count(f)
    BY <1>0, <1>1, <1>2 DEF DiskTyped
  <1>4. StepInv'
    BY <1>1, CountsSame, StepsSame
  <1>5. DiskTyped'
    BY <1>1, <1>2 DEF DiskTyped, FilesTypeOK
  <1>6. LineKept'
    <2>1. upload'.seen <= Cardinality(rows'[upload'.file])
      BY <1>1, <1>2, <1>3 DEF Count
    <2>2. QED BY <1>1, <2>1 DEF LineKept, VersionsOK, HistoryIsLinear, ReplacedWithLeave, Versions, Count
  <1>7. \A j \in Position : MadeKept(j)'
    BY <1>1, MadeSame DEF FileInv
  <1>8. BytesKept'
    <2>1. \A g \in File : Pending(g)' <=> Pending(g)
      BY <1>0, <1>1, <1>3 DEF Pending, Uploading, Unregistered
    <2>2. LatestDescribesBytes'
      BY <1>1, <2>1 DEF FileInv, BytesKept, LatestDescribesBytes, Faithful, Latest, Versions
    <2>3. upload.file \in torn \/ bytes[upload.file] = Upload
      BY <1>1 DEF FileInv, BytesKept
    <2>4. QED BY <1>0, <1>1, <1>3, <2>2, <2>3 DEF FileInv, BytesKept
  <1>9. QED BY <1>4, <1>5, <1>6, <1>7, <1>8 DEF FileInv

LEMMA UploadRegisterKeeps ==
  ASSUME WalkInv, StepInv, FileInv, UploadRegister
  PROVE  StepInv' /\ FileInv'
  <1>0. PICK f, v : f = upload.file /\ v = upload.seen
    OBVIOUS
  <1>1. /\ f \in File /\ v \in Nat /\ upload.stage = "register" /\ DiskTyped /\ FilesTypeOK /\ LineKept
        /\ upload' = [upload EXCEPT !.stage = "done"]
        /\ v <= Count(f) /\ Upload \in Writer /\ Upload \notin Position
        /\ UNCHANGED <<bytes, stage, call, steps, phase, at, upTo>>
    BY <1>0, ExecutorAssumption
       DEF FileInv, DiskTyped, LineKept, UploadRegister, UploadUnchanged, execVars, stepVars
  <1>2. upload'.stage = "done"
    BY <1>1 DEF DiskTyped
  <1>3. \A g \in File : g # f => (Pending(g)' <=> Pending(g))
    BY <1>0, <1>1, <1>2 DEF Pending, Uploading, Unregistered
  <1>4. \A j \in Position : stage'[j] = "register" => stage[j] = "register" /\ call'[j] = call[j]
    BY <1>1
  <1>5. CASE ~Insertable(f, v + 1)
    <2>1. torn' = torn \cup {f} /\ rows' = rows
      BY <1>0, <1>5 DEF UploadRegister
    <2>2. StepInv'
      BY <1>1, <2>1, CountsSame, StepsSame
    <2>3. DiskTyped'
      BY <1>1, <2>1 DEF DiskTyped, FilesTypeOK
    <2>4. LineKept'
      BY <1>1, <1>2, <2>1 DEF LineKept, VersionsOK, HistoryIsLinear, ReplacedWithLeave, Versions
    <2>5. \A j \in Position : MadeKept(j)'
      BY <1>1, <2>1, MadeSame DEF FileInv
    <2>6. LatestDescribesBytes'
      BY <1>1, <1>3, <2>1 DEF FileInv, BytesKept, LatestDescribesBytes, Faithful, Latest, Versions
    <2>7. BytesKept'
      BY <1>1, <1>2, <1>4, <2>1, <2>6 DEF FileInv, BytesKept
    <2>8. QED BY <2>2, <2>3, <2>4, <2>5, <2>7 DEF FileInv
  <1>6. CASE Insertable(f, v + 1)
    <2>1. Register(f, v + 1, Upload, TRUE) /\ torn' = torn
      BY <1>0, <1>6 DEF UploadRegister
    <2>2. PICK r \in FileRow : /\ r.by = Upload /\ Grown(f, r) /\ VersionsOK'
                               /\ \A g \in File : IsFiniteSet(rows'[g])
      BY <1>1, <1>6, <2>1, RegisteredRow
    <2>3. /\ FilesTypeOK' <=> bytes' \in [File -> Writer \cup {NoBytes}]
          /\ \A g \in File : rows'[g] = IF g = f THEN rows[f] \cup {r} ELSE rows[g]
          /\ CountsGrow
          /\ \A g \in File : g # f => (Faithful(g)' <=> (\A x \in rows[g] : x.version = Latest(g) => bytes'[g] = x.by))
          /\ Faithful(f)' <=> bytes'[f] = r.by
      BY <1>1, <2>2, GrownRows
    <2>4. StepInv'
      BY <1>1, <2>3, StepsSame
    <2>5. DiskTyped'
      BY <1>1, <2>1, <2>3 DEF DiskTyped, FilesTypeOK
    <2>6. LineKept'
      BY <1>2, <2>2 DEF LineKept
    <2>7. \A j \in Position : MadeKept(j)'
      <3> SUFFICES ASSUME NEW j \in Position PROVE MadeKept(j)'
        OBVIOUS
      <3>1. MadeKept(j)
        BY DEF FileInv
      <3>2. j # r.by /\ stage'[j] = stage[j] /\ steps' = steps
        BY <1>1, <2>2
      <3>3. \A g \in File : rows'[g] = IF g = f THEN rows[f] \cup {r} ELSE rows[g]
        BY <2>3
      <3>4. QED BY <1>1, <3>1, <3>2, <3>3, MadeByOthers
    <2>8. BytesKept'
      <3>1. f \in torn \/ bytes[f] = Upload
        BY <1>0, <1>1 DEF FileInv, BytesKept
      <3>2. LatestDescribesBytes'
        <4> SUFFICES ASSUME NEW g \in File PROVE Faithful(g)' \/ g \in torn' \/ Pending(g)'
          BY DEF LatestDescribesBytes
        <4>1. CASE g = f
          BY <1>1, <2>1, <2>2, <2>3, <3>1, <4>1
        <4>2. CASE g # f
          <5>1. Faithful(g)' <=> Faithful(g)
            BY <1>1, <2>3, <4>2 DEF Faithful
          <5>2. QED BY <1>3, <2>1, <4>2, <5>1 DEF FileInv, BytesKept, LatestDescribesBytes
        <4>3. QED BY <4>1, <4>2
      <3>3. QED BY <1>1, <1>2, <1>4, <2>1, <3>2 DEF FileInv, BytesKept
    <2>9. QED BY <2>4, <2>5, <2>6, <2>7, <2>8 DEF FileInv
  <1>7. QED BY <1>5, <1>6

-----------------------------------------------------------------------------
(* The loop and the steps it starts. *)

Resting == {"off", "done", "failed"}

(* When no step runs, a move of the loop leaves them as they are.           *)
LEMMA AtRestKeeps ==
  ASSUME WalkInv, StepInv, FileInv, \A k \in Position : stage[k] \in Resting,
         UNCHANGED <<upTo, stepVars, fileVars, upload>>,
         \A i \in 1..upTo : steps'[i] = steps[i]
  PROVE  StepInv' /\ FileInv'
  <1>1. UNCHANGED <<upTo, stage, call, rows, bytes, torn, upload>>
    BY DEF stepVars, fileVars
  <1>2. StepInv'
    <2>1. StepTyped'
      BY <1>1 DEF StepInv, StepTyped
    <2>2. \A k \in Position : stage[k] \notin Active \cup {"late"}
      BY DEF Resting, Active
    <2>3. \A k \in Position : StageKept(k)'
      BY <1>1, <2>2 DEF StepInv, StageKept
    <2>4. \A k \in Position : CallKept(k)'
      <3> SUFFICES ASSUME NEW k \in Position PROVE CallKept(k)'
        OBVIOUS
      <3>1. stage'[k] \notin Active \cup {"late", "repair", "put", "register"}
        BY <1>1, <2>2 DEF Active
      <3>2. QED BY <3>1 DEF CallKept
    <2>5. QED BY <2>1, <2>3, <2>4 DEF StepInv
  <1>3. DiskTyped' /\ LineKept'
    BY <1>1, LineSame DEF FileInv, DiskTyped, FilesTypeOK
  <1>4. \A j \in Position : MadeKept(j)'
    <2> SUFFICES ASSUME NEW j \in Position PROVE MadeKept(j)'
      OBVIOUS
    <2>1. MadeKept(j) /\ StageKept(j)
      BY DEF FileInv, StepInv
    <2>2. stage[j] = "done" => steps'[j] = steps[j]
      BY <2>1 DEF StageKept
    <2>3. QED BY <1>1, <2>1, <2>2, MadeSame
  <1>5. BytesKept'
    <2>1. \A g \in File : Pending(g)' <=> Pending(g)
      BY <1>1 DEF Pending, Uploading, Unregistered
    <2>2. LatestDescribesBytes'
      BY <1>1, <2>1 DEF FileInv, BytesKept, LatestDescribesBytes, Faithful, Latest, Versions
    <2>3. QED BY <1>1, <2>2 DEF FileInv, BytesKept
  <1>6. QED BY <1>2, <1>3, <1>4, <1>5 DEF FileInv

LEMMA RestingOutsideBatch ==
  ASSUME StepInv, phase # "over"
  PROVE  \A k \in Position : (phase = "batch" => k \notin Batch) => stage[k] \in Resting
  <1> SUFFICES ASSUME NEW k \in Position, phase = "batch" => k \notin Batch
               PROVE  stage[k] \in Resting
    OBVIOUS
  <1>1. StageKept(k) /\ stage[k] \in Stage
    BY DEF StepInv, StepTyped
  <1>2. QED BY <1>1 DEF StageKept, Stage, Active, Resting

LEMMA FirstCallTyped ==
  ASSUME NEW s, s.file \in File \cup {NoFile}, s.overwrite \in BOOLEAN
  PROVE  FirstCall(s) \in Call /\ FirstCall(s).file = s.file
  <1> DEFINE c == [NoCall EXCEPT !.file = s.file]
  <1>1. NoCall \in Call
    BY ExecutorAssumption DEF NoCall, Call
  <1>2. c \in Call /\ c.file = s.file
    BY <1>1 DEF Call
  <1>3. FirstCall(s) = [c EXCEPT !.overwrite = s.overwrite]
    BY DEF FirstCall
  <1> HIDE DEF c
  <1>4. QED BY <1>2, <1>3 DEF Call

LEMMA DispatchKeeps ==
  ASSUME WalkInv, StepInv, FileInv, Dispatch, at # Len(steps)
  PROVE  StepInv' /\ FileInv'
  <1>0. PICK B : B = (at + 1)..upTo'
    OBVIOUS
  <1>1. /\ phase = "next" /\ phase' = "batch" /\ upTo' = BatchEnd(at) /\ upTo = at
        /\ stage' = [k \in Position |-> IF k \in B THEN "run" ELSE stage[k]]
        /\ call' = [k \in Position |-> IF k \in B THEN FirstCall(steps[k]) ELSE call[k]]
        /\ UNCHANGED <<steps, at, rows, bytes, torn, upload>>
    BY <1>0 DEF Dispatch, fileVars, WalkInv, WalkKept
  <1>2. upTo' \in (at + 1)..Len(steps) /\ upTo = at
    BY <1>1, LoopFacts, BatchIsOneGroup
  <1>3. \A k \in Position : /\ stage[k] \in Resting
                            /\ k \in B => stage[k] = "off"
                            /\ k \in 1..upTo => k \in 1..upTo'
    <2>1. \A k \in Position : stage[k] \in Resting
      BY <1>1, RestingOutsideBatch
    <2>2. \A k \in Position : k \in B => k \notin 1..upTo
      BY <1>0, <1>2, LoopFacts
    <2>3. \A k \in Position : k \in 1..upTo => k \in 1..upTo'
      BY <1>2, LoopFacts
    <2>4. QED BY <2>1, <2>2, <2>3 DEF StepInv, StageKept
  <1>4. \A k \in Position : k \in B =>
          /\ FirstCall(steps[k]) \in Call /\ FirstCall(steps[k]).file = steps[k].file
          /\ k \in 1..upTo'
    <2> SUFFICES ASSUME NEW k \in Position, k \in B
                 PROVE  /\ FirstCall(steps[k]) \in Call /\ FirstCall(steps[k]).file = steps[k].file
                        /\ k \in 1..upTo'
      OBVIOUS
    <2>1. k \in 1..Len(steps) /\ k \in 1..upTo'
      BY <1>0, <1>2, LoopFacts
    <2>2. steps[k].file \in File \cup {NoFile} /\ steps[k].overwrite \in BOOLEAN
      BY <2>1, StepsAreSteps DEF IsStep
    <2>3. QED BY <2>1, <2>2, FirstCallTyped
  <1>5. \A k \in Position : /\ stage'[k] = IF k \in B THEN "run" ELSE stage[k]
                            /\ call'[k] = IF k \in B THEN FirstCall(steps[k]) ELSE call[k]
    BY <1>1
  <1>6. StepInv'
    <2>1. StepTyped'
      BY <1>1, <1>4 DEF StepInv, StepTyped, Stage
    <2>2. \A k \in Position : StageKept(k)'
      <3> SUFFICES ASSUME NEW k \in Position PROVE StageKept(k)'
        OBVIOUS
      <3>1. CASE k \in B
        <4>1. stage'[k] = "run" /\ k \in Batch' /\ k \in 1..upTo'
          BY <1>0, <1>1, <1>4, <1>5, <3>1 DEF Batch
        <4>2. QED BY <1>1, <4>1 DEF StageKept
      <3>2. CASE k \notin B
        BY <1>3, <1>5, <3>2 DEF StepInv, StageKept, Resting, Active
      <3>3. QED BY <3>1, <3>2
    <2>3. \A k \in Position : CallKept(k)'
      <3> SUFFICES ASSUME NEW k \in Position PROVE CallKept(k)'
        OBVIOUS
      <3>1. CASE k \in B
        <4>1. stage'[k] = "run" /\ call'[k].file = steps'[k].file
          BY <1>1, <1>4, <1>5, <3>1
        <4>2. QED BY <4>1 DEF CallKept
      <3>2. CASE k \notin B
        <4>1. stage'[k] \in Resting
          BY <1>3, <1>5, <3>2
        <4>2. QED BY <4>1 DEF CallKept, Resting, Active
      <3>3. QED BY <3>1, <3>2
    <2>4. QED BY <2>1, <2>2, <2>3 DEF StepInv
  <1>7. DiskTyped' /\ LineKept'
    BY <1>1, LineSame DEF FileInv, DiskTyped, FilesTypeOK
  <1>8. \A k \in Position : MadeKept(k)'
    <2> SUFFICES ASSUME NEW k \in Position PROVE MadeKept(k)'
      OBVIOUS
    <2>1. MadeKept(k)
      BY DEF FileInv
    <2>2. CASE k \in B
      <3>1. stage[k] = "off" /\ stage'[k] = "run" /\ MadeBy(k)' = MadeBy(k)
        BY <1>1, <1>3, <1>5, <2>2 DEF MadeBy
      <3>2. QED BY <1>1, <2>1, <3>1 DEF MadeKept
    <2>3. CASE k \notin B
      BY <1>1, <1>5, <2>1, <2>3, MadeSame
    <2>4. QED BY <2>2, <2>3
  <1>9. BytesKept'
    <2>1. \A k \in Position : stage[k] # "register" /\ stage'[k] # "register"
      BY <1>3, <1>5 DEF Resting
    <2>2. \A g \in File : Pending(g)' <=> Pending(g)
      BY <1>1, <2>1 DEF Pending, Uploading, Unregistered
    <2>3. LatestDescribesBytes'
      BY <1>1, <2>2 DEF FileInv, BytesKept, LatestDescribesBytes, Faithful, Latest, Versions
    <2>4. QED BY <1>1, <2>1, <2>3 DEF FileInv, BytesKept
  <1>10. QED BY <1>6, <1>7, <1>8, <1>9 DEF FileInv

LEMMA ExecuteKeeps ==
  ASSUME WalkInv, StepInv, FileInv, Execute
  PROVE  StepInv' /\ FileInv'
  <1>1. CASE Dispatch /\ at # Len(steps)
    BY <1>1, DispatchKeeps
  <1>2. CASE (Dispatch /\ at = Len(steps)) \/ Start \/ Gather \/ ReplanFails \/ Judge
             \/ Synthesize \/ \E c \in Continuations : Replan(c)
    <2>1. phase # "over" /\ UNCHANGED <<upTo, stepVars, fileVars, upload>>
      BY <1>2 DEF Dispatch, Start, Gather, ReplanFails, Judge, Synthesize, Replan, stepVars
    <2>2. \A k \in Position : stage[k] \in Resting
      <3>1. phase = "batch" => \A k \in Batch : stage[k] \in {"done", "failed"}
        BY <1>2 DEF Dispatch, Start, Gather, ReplanFails, Judge, Synthesize, Replan
      <3>2. QED BY <2>1, <3>1, RestingOutsideBatch DEF Resting
    <2>3. \A i \in 1..upTo : steps'[i] = steps[i]
      <3>1. CASE \E c \in Continuations : Replan(c)
        <4>1. PICK c \in Continuations : Replan(c)
          BY <3>1
        <4>2. steps' = Splice(c) /\ upTo = at
          BY <4>1 DEF Replan, WalkInv, WalkKept
        <4>3. QED BY <4>2, SpliceIs
      <3>2. CASE ~\E c \in Continuations : Replan(c)
        BY <1>2, <3>2 DEF Dispatch, Start, Gather, ReplanFails, Judge, Synthesize
      <3>3. QED BY <3>1, <3>2
    <2>4. QED BY <2>1, <2>2, <2>3, AtRestKeeps
  <1>3. QED BY <1>1, <1>2 DEF Execute

LEMMA CancelKeeps ==
  ASSUME WalkInv, StepInv, FileInv, Cancel
  PROVE  StepInv' /\ FileInv'
  <1>1. /\ phase # "over" /\ phase' = "over"
        /\ torn' = torn \cup {f \in File : Unregistered(f) # {}}
        /\ UNCHANGED <<steps, at, upTo, rows, bytes, upload>>
    BY DEF Cancel
  <1>2. \A k \in Position :
          /\ StageKept(k) /\ CallKept(k) /\ MadeKept(k) /\ call[k] \in Call
          /\ stage[k] \in Resting \cup Active
    <2>1. \A k \in Position : stage[k] \in Stage /\ StageKept(k)
      BY DEF StepInv, StepTyped
    <2>2. \A k \in Position : stage[k] \in Resting \cup Active
      BY <1>1, <2>1 DEF StageKept, Stage, Resting, Active
    <2>3. QED BY <2>2 DEF StepInv, FileInv, StepTyped
  <1>3. \A k \in Position :
          /\ stage'[k] = IF stage[k] = "put" THEN "late"
                         ELSE IF stage[k] \in Active THEN "failed" ELSE stage[k]
          /\ call'[k] = IF stage[k] = "put" THEN call[k] ELSE NoCall
    BY DEF Cancel, Active
  <1>4. NoCall \in Call
    BY ExecutorAssumption DEF NoCall, Call
  <1>5. StepInv'
    <2>1. StepTyped'
      <3>1. \A k \in Position : stage'[k] \in Stage /\ call'[k] \in Call
        BY <1>2, <1>3, <1>4 DEF Stage, Resting, Active
      <3>2. /\ stage' = [k \in Position |-> stage'[k]]
            /\ call' = [k \in Position |-> call'[k]]
        BY DEF Cancel
      <3>3. QED BY <3>1, <3>2 DEF StepTyped
    <2>2. \A k \in Position : StageKept(k)' /\ CallKept(k)'
      <3> SUFFICES ASSUME NEW k \in Position PROVE StageKept(k)' /\ CallKept(k)'
        OBVIOUS
      <3>1. CASE stage[k] = "put"
        <4>1. stage'[k] = "late" /\ call'[k] = call[k] /\ k \in 1..upTo /\ call[k].file # NoFile
              /\ call[k].seen <= Count(call[k].file)
          BY <1>2, <1>3, <3>1 DEF StageKept, CallKept, Active
        <4>2. call[k].seen > 0 => call[k].overwrite
          BY <1>2, <3>1 DEF CallKept
        <4>3. StageKept(k)'
          BY <1>1, <4>1 DEF StageKept, Active
        <4>4. CallKept(k)'
          BY <1>1, <4>1, <4>2 DEF CallKept, Active, Count
        <4>5. QED BY <4>3, <4>4
      <3>2. CASE stage[k] # "put"
        <4>1. stage'[k] \in Resting /\ (stage'[k] # "off" => stage[k] # "off")
          BY <1>2, <1>3, <3>2 DEF Resting, Active
        <4>2. StageKept(k)'
          BY <1>1, <1>2, <4>1 DEF StageKept, Resting, Active
        <4>3. CallKept(k)'
          BY <4>1 DEF CallKept, Resting, Active
        <4>4. QED BY <4>2, <4>3
      <3>3. QED BY <3>1, <3>2
    <2>3. QED BY <2>1, <2>2 DEF StepInv
  <1>6. DiskTyped'
    BY <1>1 DEF FileInv, DiskTyped, FilesTypeOK
  <1>7. LineKept'
    BY <1>1, LineSame
  <1>8. \A k \in Position : MadeKept(k)'
    <2> SUFFICES ASSUME NEW k \in Position PROVE MadeKept(k)'
      OBVIOUS
    <2>1. MadeBy(k)' = MadeBy(k)
      BY <1>1 DEF MadeBy
    <2>2. stage'[k] \notin {"embed", "done", "failed"} => stage[k] \in {"put", "off"}
      BY <1>2, <1>3 DEF Resting, Active
    <2>3. stage'[k] # "embed" /\ (stage'[k] = "done" => stage[k] = "done")
      BY <1>2, <1>3 DEF Resting, Active
    <2>4. QED BY <1>1, <1>2, <2>1, <2>2, <2>3 DEF MadeKept
  <1>9. BytesKept'
    <2>1. \A k \in Position : stage'[k] # "register"
      BY <1>2, <1>3 DEF Resting, Active
    <2>2. \A f \in File : Pending(f) => Pending(f)' \/ f \in torn'
      BY <1>1 DEF Pending, Uploading
    <2>3. LatestDescribesBytes'
      BY <1>1, <2>2 DEF FileInv, BytesKept, LatestDescribesBytes, Faithful, Latest, Versions
    <2>4. QED BY <1>1, <2>1, <2>3 DEF FileInv, BytesKept
  <1>10. QED BY <1>5, <1>6, <1>7, <1>8, <1>9 DEF FileInv

-----------------------------------------------------------------------------
(* The theorems. *)

LEMMA InitWalk == Init => WalkInv
  <1> SUFFICES ASSUME Init PROVE WalkInv
    OBVIOUS
  <1>1. /\ steps \in Plans /\ results = << >> /\ phase = "start" /\ outcome = "none"
        /\ at = 0 /\ upTo = 0 /\ budget = MaxReplans /\ spliced = 0 /\ inTask \in BOOLEAN
    BY DEF Init
  <1>2. steps \in Seq(AnyStep) /\ DOMAIN steps \subseteq Position
    <2>1. steps \in Seq(Range(steps)) /\ Range(steps) \subseteq AnyStep
      BY <1>1, ExecutorAssumption DEF AnyStep, StepsOf
    <2>2. steps \in Seq(AnyStep)
      BY <2>1, SeqMonotonic
    <2>3. QED BY <1>1, <2>2, ExecutorAssumption
  <1>3. Len(steps) \in Nat
    BY <1>2, LenProperties
  <1>4. results \in Seq(StepResult) /\ Len(results) = 0 /\ DOMAIN results = {}
    BY <1>1, EmptySeq, LenProperties
  <1>5. WalkTyped
    BY <1>1, <1>2, <1>3, <1>4, ExecutorAssumption DEF WalkTyped
  <1>6. WalkKept
    BY <1>1, <1>2, <1>4 DEF WalkKept
  <1>7. FailuresKept
    BY <1>1, <1>4 DEF FailuresKept, Failed
  <1>8. ResultsMatchPlan
    BY <1>1, <1>4 DEF ResultsMatchPlan
  <1>9. QED BY <1>5, <1>6, <1>7, <1>8 DEF WalkInv

LEMMA InitFiles == Init => StepInv /\ FileInv
  <1> SUFFICES ASSUME Init PROVE StepInv /\ FileInv
    OBVIOUS
  <1> DEFINE first == [version |-> 1, by |-> Earlier, leave |-> TRUE]
  <1>1. PICK known \in SUBSET File :
          /\ rows = [f \in File |-> IF f \in known THEN {first} ELSE {}]
          /\ bytes = [f \in File |-> IF f \in known THEN Earlier ELSE NoBytes]
    BY DEF Init
  <1>2. /\ stage = [k \in Position |-> "off"] /\ call = [k \in Position |-> NoCall]
        /\ upload \in [stage : {"none"}, file : Uploads, seen : {0}] /\ torn = {}
    BY DEF Init
  <1>3. first \in FileRow /\ first.version = 1 /\ first.by = Earlier /\ first.leave
    BY ExecutorAssumption DEF FileRow
  <1> HIDE DEF first
  <1>4. \A f \in File : /\ rows[f] = (IF f \in known THEN {first} ELSE {})
                        /\ bytes[f] = (IF f \in known THEN Earlier ELSE NoBytes)
    BY <1>1
  <1>5. NoCall \in Call
    BY ExecutorAssumption DEF NoCall, Call
  <1>6. StepInv
    <2>1. StepTyped
      BY <1>2, <1>5 DEF StepTyped, Stage
    <2>2. \A k \in Position : stage[k] = "off"
      BY <1>2
    <2>3. QED BY <2>1, <2>2 DEF StepInv, StageKept, CallKept, Active
  <1>7. DiskTyped
    <2>1. rows \in [File -> SUBSET FileRow]
      BY <1>1, <1>3
    <2>2. bytes \in [File -> Writer \cup {NoBytes}]
      BY <1>1, ExecutorAssumption
    <2>3. QED BY <1>2, <2>1, <2>2 DEF DiskTyped, FilesTypeOK
  <1>8. \A f \in File : IsFiniteSet(rows[f]) /\ Versions(f) = 1..Cardinality(rows[f])
    <2> SUFFICES ASSUME NEW f \in File
                 PROVE  IsFiniteSet(rows[f]) /\ Versions(f) = 1..Cardinality(rows[f])
      OBVIOUS
    <2>1. CASE f \in known
      <3>1. rows[f] = {first} /\ IsFiniteSet({first}) /\ Cardinality({first}) = 1
        BY <1>4, <2>1, FS_Singleton
      <3>2. Versions(f) = {1}
        BY <1>3, <3>1 DEF Versions
      <3>3. QED BY <3>1, <3>2
    <2>2. CASE f \notin known
      <3>1. rows[f] = {} /\ IsFiniteSet({}) /\ Cardinality({}) = 0
        BY <1>4, <2>2, FS_EmptySet
      <3>2. Versions(f) = {}
        BY <3>1 DEF Versions
      <3>3. QED BY <3>1, <3>2
    <2>3. QED BY <2>1, <2>2
  <1>9. LineKept
    BY <1>2, <1>3, <1>4, <1>8 DEF LineKept, VersionsOK, HistoryIsLinear, ReplacedWithLeave
  <1>10. \A k \in Position : MadeKept(k)
    <2> SUFFICES ASSUME NEW k \in Position PROVE MadeKept(k)
      OBVIOUS
    <2>1. \A f \in File : \A r \in rows[f] : r.by # k
      BY <1>3, <1>4, ExecutorAssumption
    <2>2. MadeBy(k) = {} /\ stage[k] = "off"
      BY <1>2, <2>1 DEF MadeBy
    <2>3. QED BY <2>1, <2>2 DEF MadeKept
  <1>11. BytesKept
    <2>1. LatestDescribesBytes
      BY <1>3, <1>4 DEF LatestDescribesBytes, Faithful
    <2>2. (\A k \in Position : stage[k] = "off") /\ upload.stage = "none"
      BY <1>2
    <2>3. QED BY <2>1, <2>2 DEF BytesKept
  <1>12. QED BY <1>6, <1>7, <1>9, <1>10, <1>11 DEF FileInv

(* One step of the execution, of one of its steps or of the upload.         *)
LEMMA NextKeeps == ExecInv /\ [Next]_vars => ExecInv'
  <1> SUFFICES ASSUME WalkInv, StepInv, FileInv, [Next]_vars
               PROVE  WalkInv' /\ StepInv' /\ FileInv'
    BY DEF ExecInv
  <1>1. CASE Execute
    <2>1. WalkInv'
      BY <1>1, StartKeepsWalk, DispatchKeepsWalk, GatherKeepsWalk, ReplanFailsKeepsWalk,
         EndKeepsWalk, ReplanKeepsWalk DEF Execute
    <2>2. QED BY <1>1, <2>1, ExecuteKeeps
  <1>2. CASE Cancel
    BY <1>2, EndKeepsWalk, CancelKeeps
  <1>3. CASE \E k \in Position : StepOf(k)
    <2>1. PICK k \in Position : StepOf(k)
      BY <1>3
    <2>2. WalkInv'
      <3>1. StepUnchanged
        BY <2>1 DEF StepOf, OtherStep, ReadLatest, ToolErrorRaised, Repaired, RepairFails,
                    Declined, Confirmed, PutBytes, RegisterRow, EmbedQueued, Breaks
      <3>2. QED BY <3>1, WalkSame DEF StepUnchanged
    <2>3. CASE QuietStep(k)
      <3>1. PICK s, c : Allowed(k, s, c) /\ MovesTo(k, s, c) /\ Quiet(k, s)
        BY <2>3, QuietMoves
      <3>2. UNCHANGED fileVars /\ StepUnchanged
        BY <2>3, QuietMoves
      <3>3. CountsGrow
        BY <3>2, CountsSame DEF fileVars
      <3>4. StepInv'
        BY <3>1, <3>2, <3>3, MoveKeepsSteps
      <3>5. FileInv'
        BY <3>1, <3>2, QuietKeepsFiles
      <3>6. QED BY <2>2, <3>4, <3>5
    <2>4. CASE PutBytes(k)
      BY <2>2, <2>4, PutKeeps
    <2>5. CASE RegisterRow(k)
      BY <2>2, <2>5, RegisterKeeps
    <2>6. CASE Breaks(k) /\ stage[k] = "register"
      <3>1. Torn(k)
        BY <2>6 DEF Breaks, Torn
      <3>2. QED BY <2>2, <3>1, TornKeeps
    <2>7. QED BY <2>1, <2>3, <2>4, <2>5, <2>6 DEF StepOf, QuietStep
  <1>4. CASE UploadPut \/ UploadRead \/ UploadRegister
    <2>1. WalkInv'
      BY <1>4, WalkSame DEF UploadPut, UploadRead, UploadRegister, UploadUnchanged
    <2>2. QED BY <1>4, <2>1, UploadPutKeeps, UploadReadKeeps, UploadRegisterKeeps
  <1>5. CASE UNCHANGED vars
    <2>1. UNCHANGED <<inTask, execVars>> /\ UNCHANGED <<rows, bytes, torn, upload, stage, call, steps, phase, at, upTo>>
      BY <1>5 DEF vars, execVars, stepVars, fileVars
    <2>2. WalkInv'
      BY <2>1, WalkSame
    <2>3. StepInv'
      BY <2>1, CountsSame, StepsSame
    <2>4. DiskTyped' /\ LineKept'
      BY <2>1, LineSame DEF FileInv, DiskTyped, FilesTypeOK
    <2>5. \A j \in Position : MadeKept(j)'
      BY <2>1, MadeSame DEF FileInv
    <2>6. BytesKept'
      BY <2>1 DEF FileInv, BytesKept, LatestDescribesBytes, Faithful, Latest, Versions,
                  Pending, Uploading, Unregistered
    <2>7. QED BY <2>2, <2>3, <2>4, <2>5, <2>6 DEF FileInv
  <1>6. QED BY <1>1, <1>2, <1>3, <1>4, <1>5 DEF Next

LEMMA ExecInvHolds == Spec => []ExecInv
  <1>1. Init => ExecInv
    BY InitWalk, InitFiles DEF ExecInv
  <1>2. QED BY <1>1, NextKeeps, PTL DEF Spec

(* The results of an execution are those of its list, in its order, through *)
(* batches, one splice and a premature end, and no step runs after a        *)
(* failure that no continuation answered (executor.py, execute).            *)
THEOREM PlanFollowedHolds == Spec => []PlanFollowed
  <1>1. ExecInv => PlanFollowed
    <2> SUFFICES ASSUME WalkInv, StepInv, FileInv PROVE PlanFollowed
      BY DEF ExecInv
    <2>1. TypeOK
      BY DEF WalkInv, WalkTyped, StepInv, StepTyped, FileInv, DiskTyped, TypeOK
    <2>2. StopsAtFailure
      BY DEF WalkInv, FailuresKept, Walking, Together, StopsAtFailure
    <2>3. QED BY <2>1, <2>2 DEF WalkInv, PlanFollowed
  <1>2. QED BY <1>1, ExecInvHolds, PTL

(* A step leaves at most one version of one file behind, and exactly one    *)
(* when it completed, through repairs, questions and a cancellation         *)
(* (executor.py, _run_step_with_recovery).                                  *)
THEOREM OneVersionPerStepHolds == Spec => []OneVersionPerStep
  <1>1. ExecInv => OneVersionPerStep
    <2> SUFFICES ASSUME FileInv, NEW k \in Position
                 PROVE  /\ Cardinality(MadeBy(k)) <= 1
                        /\ \A f \in File : Cardinality({r \in rows[f] : r.by = k}) <= 1
                        /\ stage[k] = "done" /\ steps[k].file # NoFile => MadeBy(k) # {}
      BY DEF ExecInv, OneVersionPerStep
    <2>1. MadeKept(k)
      BY DEF FileInv
    <2>2. Cardinality(MadeBy(k)) <= 1
      <3>1. \A f, g \in MadeBy(k) : f = g
        BY <2>1 DEF MadeKept
      <3>2. QED BY <3>1, AtMostOne
    <2>3. ASSUME NEW f \in File PROVE Cardinality({r \in rows[f] : r.by = k}) <= 1
      <3> DEFINE S == {r \in rows[f] : r.by = k}
      <3>1. \A x, y \in S : x = y
        BY <2>1 DEF MadeKept
      <3> HIDE DEF S
      <3>2. Cardinality(S) <= 1
        BY <3>1, AtMostOne
      <3>3. QED BY <3>2 DEF S
    <2>4. stage[k] = "done" /\ steps[k].file # NoFile => MadeBy(k) # {}
      BY <2>1 DEF MadeKept
    <2>5. QED BY <2>2, <2>3, <2>4
  <1>2. QED BY <1>1, ExecInvHolds, PTL

(* The versions of a file are numbered 1, 2, 3, ..., whoever races for it,  *)
(* and no row of a call without leave to overwrite stands above another     *)
(* (workspace/files.py, register).                                          *)
THEOREM VersionsOKHolds == Spec => []VersionsOK
  <1>1. ExecInv => VersionsOK
    BY DEF ExecInv, FileInv, LineKept
  <1>2. QED BY <1>1, ExecInvHolds, PTL

(* Unless writers overlapped, or one ended between its bytes and its row,   *)
(* or has yet to register it, storage holds the bytes that the latest row   *)
(* of a file describes (executor.py; workspace/files.py).                   *)
THEOREM LatestDescribesBytesHolds == Spec => []LatestDescribesBytes
  <1>1. ExecInv => LatestDescribesBytes
    BY DEF ExecInv, FileInv, BytesKept
  <1>2. QED BY <1>1, ExecInvHolds, PTL
==============================================================================
