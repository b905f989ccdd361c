------------------------- MODULE TurnRecords_proofs -------------------------
(***************************************************************************)
(* What a turn leaves behind.  Of the meter and the log (Metering): every  *)
(* answer is metered and traced, no trace goes before its time, and the    *)
(* spend of a task is the sum of its rows, for any number of calls, any    *)
(* retention and any length of a month.  Of the conversation (Turns): no   *)
(* reply without its request, no message lost to a collection, no rejected *)
(* draft run, for any number of messages and threads and any troubles.     *)
(***************************************************************************)
EXTENDS Metering, Turns, FiniteSetTheorems, SequenceTheorems, WellFoundedInduction, TLAPS

-----------------------------------------------------------------------------
(* The meter and the log: the inductive invariant. *)

Metered == {"recorded", "answered"}
MaybeMetered == Metered \cup {"interrupted", "stopped"}

(* A call has a usage row from the moment it is recorded, and none else but *)
(* one that was interrupted; when the run has ended, no call is under way.  *)
UsageKept ==
  /\ IsFiniteSet(DOMAIN usage)
  /\ \A c \in Call : /\ call[c].stage \in Metered => c \in DOMAIN usage
                     /\ c \in DOMAIN usage => call[c].stage \in MaybeMetered
  /\ run = "ended" => Idle

(* While the pruner keeps up there is a partition for today, and whatever   *)
(* trace is kept lies in one.                                               *)
PartitionKept ==
  /\ {Month(pruned), Month(pruned) + 1} \subseteq partition
  /\ ~late => Month(today) <= Month(pruned) + 1
  /\ \A r \in trace : Month(r.day) \in partition

(* What a roll-up has read is no more than there is; when the run rolls up, *)
(* it is all there is.                                                      *)
SumsKept ==
  /\ run = "running" => compute = 0
  /\ rollup["run"].at # "none" <=> run = "ended"
  /\ spent.cents <= TokenCents + compute
  /\ \A p \in {"run", "cancel"} :
       /\ rollup[p].at = "compute" => rollup[p].sum <= TokenCents
       /\ rollup[p].at = "write" => rollup[p].sum <= TokenCents + compute
  /\ rollup["run"].at = "compute" => rollup["run"].sum = TokenCents
  /\ rollup["run"].at = "write" => rollup["run"].sum = TokenCents + compute
  /\ rollup["run"].at = "done" =>
       spent.cents = TokenCents + compute \/ spent.by = "cancel" \/ faults > 0

MeterInv ==
  /\ TypeOK /\ UsageKept /\ PartitionKept /\ SumsKept
  /\ AttemptTraced /\ RecentTraceKept

-----------------------------------------------------------------------------
(* Months follow days, and the retention never reaches before day zero. *)

LEMMA MonthOrder ==
  ASSUME NEW a \in Nat, NEW b \in Nat, a <= b
  PROVE  Month(a) \in Nat /\ Month(b) \in Nat /\ Month(a) <= Month(b)
  <1>1. DaysPerMonth \in Nat /\ DaysPerMonth > 0
    BY MeteringAssumption
  <1> DEFINE d == DaysPerMonth
             qa == a \div d
             qb == b \div d
  <1>2. qa \in Nat /\ a = d * qa + (a % d) /\ a % d \in 0..(d - 1)
    BY <1>1
  <1>3. qb \in Nat /\ b = d * qb + (b % d) /\ b % d \in 0..(d - 1)
    BY <1>1
  <1>4. qa <= qb
    <2>1. SUFFICES ASSUME qa >= qb + 1 PROVE FALSE
      BY <1>2, <1>3
    <2>2. d * qa >= d * (qb + 1)
      BY <2>1, <1>1, <1>2, <1>3
    <2>3. d * (qb + 1) = d * qb + d
      BY <1>1, <1>3
    <2> QED BY <2>2, <2>3, <1>1, <1>2, <1>3
  <1> QED BY <1>2, <1>3, <1>4 DEF Month

(* The migration's day has a month before it. *)
LEMMA FirstMonth == Month(FirstDay) \in Nat /\ Month(FirstDay) >= 1
  <1>1. DaysPerMonth \in Nat /\ DaysPerMonth > 0 /\ FirstDay \in Nat
          /\ DaysPerMonth <= FirstDay
    BY MeteringAssumption
  <1>2. Month(DaysPerMonth) <= Month(FirstDay) /\ Month(FirstDay) \in Nat
          /\ Month(DaysPerMonth) \in Nat
    BY <1>1, MonthOrder
  <1>3. DaysPerMonth \div DaysPerMonth = 1
    BY <1>1
  <1> QED BY <1>2, <1>3 DEF Month

(* The days of the model are natural numbers, and so is the cutoff. *)
LEMMA DaysInRange ==
  ASSUME TypeOK
  PROVE  /\ today \in Nat /\ pruned \in Nat /\ pruned <= today
         /\ today - Retention \in Nat /\ Retention \in Nat
         /\ \A r \in written : r.day \in Nat /\ r.call \in Call
  BY MeteringAssumption DEF TypeOK, Row

(* The month of today has a partition as long as the pruner keeps up. *)
LEMMA TodayHasPartition ==
  ASSUME TypeOK, PartitionKept, ~late
  PROVE  Month(today) \in partition
  <1>1. Month(pruned) \in Nat /\ Month(today) \in Nat /\ Month(pruned) <= Month(today)
    BY DaysInRange, MonthOrder
  <1>2. Month(today) = Month(pruned) \/ Month(today) = Month(pruned) + 1
    BY <1>1 DEF PartitionKept
  <1> QED BY <1>2 DEF PartitionKept

-----------------------------------------------------------------------------
(* A usage row more never lowers what the rows add up to. *)

Priced(f) == {c \in DOMAIN f : f[c] = 1}

LEMMA RowsAddUp ==
  ASSUME NEW f, IsFiniteSet(DOMAIN f), NEW c, c \notin DOMAIN f, NEW cents,
         NEW g, g = [x \in DOMAIN f \cup {c} |-> IF x = c THEN cents ELSE f[x]]
  PROVE  /\ IsFiniteSet(DOMAIN g)
         /\ Cardinality(Priced(f)) \in Nat /\ Cardinality(Priced(g)) \in Nat
         /\ Cardinality(Priced(f)) <= Cardinality(Priced(g))
  <1>1. DOMAIN g = DOMAIN f \cup {c}
    OBVIOUS
  <1>2. IsFiniteSet(DOMAIN g)
    BY <1>1, FS_AddElement
  <1>3. Priced(g) \subseteq DOMAIN g
    BY DEF Priced
  <1>4. IsFiniteSet(Priced(g))
    BY <1>2, <1>3, FS_Subset
  <1>5. Priced(f) \subseteq Priced(g)
    BY DEF Priced
  <1>6. /\ IsFiniteSet(Priced(f))
        /\ Cardinality(Priced(f)) <= Cardinality(Priced(g))
    BY <1>4, <1>5, FS_Subset
  <1> QED BY <1>2, <1>4, <1>6, FS_CardinalityType

LEMMA RowsTyped ==
  ASSUME NEW f, IsFiniteSet(DOMAIN f) PROVE Cardinality(Priced(f)) \in Nat
  <1>1. Priced(f) \subseteq DOMAIN f
    BY DEF Priced
  <1> QED BY <1>1, FS_Subset, FS_CardinalityType

LEMMA TokensTyped ==
  ASSUME UsageKept PROVE TokenCents \in Nat
  BY RowsTyped DEF UsageKept, TokenCents, Priced

-----------------------------------------------------------------------------
(* The conjuncts of TypeOK, by what an action touches. *)

CallTyped == call \in [Call -> [stage : CallStage, agent : Agent]]
UsageTyped == DOMAIN usage \subseteq Call /\ \A c \in DOMAIN usage : usage[c] \in 0..1
RollupTyped ==
  rollup \in [{"run", "cancel"} -> [at : {"none", "tokens", "compute", "write", "done"},
                                    sum : Nat]]
CostTyped ==
  /\ compute \in 0..1 /\ run \in {"running", "closing", "ended"} /\ cancelled \in BOOLEAN
  /\ RollupTyped
  /\ spent \in [cents : Nat, by : {"none", "run", "cancel"}]
TraceTyped ==
  /\ trace \subseteq written /\ written \subseteq Row
  /\ partition \subseteq Nat
  /\ today \in FirstDay..LastDay /\ pruned \in FirstDay..today /\ late \in BOOLEAN
FaultsTyped == faults \in 0..MaxFaults

LEMMA TypeParts == TypeOK <=> CallTyped /\ UsageTyped /\ CostTyped /\ TraceTyped /\ FaultsTyped
  BY DEF TypeOK, CallTyped, UsageTyped, CostTyped, RollupTyped, TraceTyped, FaultsTyped

LEMMA TypePartsNext ==
  TypeOK' <=> (CallTyped /\ UsageTyped /\ CostTyped /\ TraceTyped /\ FaultsTyped)'
  BY DEF TypeOK, CallTyped, UsageTyped, CostTyped, RollupTyped, TraceTyped, FaultsTyped

LEMMA TypeFrame ==
  /\ CallTyped /\ UNCHANGED call => CallTyped'
  /\ UsageTyped /\ UNCHANGED usage => UsageTyped'
  /\ CostTyped /\ UNCHANGED costVars => CostTyped'
  /\ TraceTyped /\ UNCHANGED traceVars => TraceTyped'
  /\ FaultsTyped /\ UNCHANGED faults => FaultsTyped'
  BY DEF CallTyped, UsageTyped, CostTyped, RollupTyped, TraceTyped, FaultsTyped, costVars, traceVars

LEMMA FailTyped ==
  ASSUME FaultsTyped, Fail \/ UNCHANGED faults
  PROVE  FaultsTyped' /\ faults' >= faults /\ (Fail => faults' > 0) /\ faults \in Nat /\ faults' \in Nat
  BY MeteringAssumption DEF FaultsTyped, Fail

(* Moving a call's stage keeps `call` in its type. *)
LEMMA StageTyped ==
  ASSUME CallTyped, NEW c \in Call,
         NEW s \in CallStage,
         call' = [call EXCEPT ![c].stage = s]
  PROVE  /\ CallTyped'
         /\ call'[c].stage = s /\ \A x \in Call \ {c} : call'[x] = call[x]
  <1>1. call[c] \in [stage : CallStage, agent : Agent]
    BY DEF CallTyped
  <1>2. [call[c] EXCEPT !.stage = s] \in [stage : CallStage, agent : Agent]
    BY <1>1
  <1>3. call' = [call EXCEPT ![c] = [call[c] EXCEPT !.stage = s]]
    OBVIOUS
  <1> QED BY <1>1, <1>2, <1>3 DEF CallTyped

LEMMA RollupSet ==
  ASSUME RollupTyped, NEW p \in {"run", "cancel"},
         NEW v \in [at : {"none", "tokens", "compute", "write", "done"}, sum : Nat],
         rollup' = [rollup EXCEPT ![p] = v]
  PROVE  /\ RollupTyped'
         /\ rollup'[p] = v /\ \A q \in {"run", "cancel"} : q # p => rollup'[q] = rollup[q]
  BY DEF RollupTyped

(* What each action does to a call, its row and its trace. *)

LEMMA AskStep ==
  ASSUME MeterInv, NEW c \in Call, NEW a \in Agent, Ask(c, a)
  PROVE  /\ TypeOK'
         /\ call[c].stage = "idle" /\ call'[c].stage = "asked"
         /\ \A x \in Call \ {c} : call'[x] = call[x]
  <1>1. CallTyped /\ UsageTyped /\ CostTyped /\ TraceTyped /\ FaultsTyped
    BY TypeParts DEF MeterInv
  <1>2. [stage |-> "asked", agent |-> a] \in [stage : CallStage, agent : Agent]
    BY DEF CallStage
  <1>3. CallTyped' /\ call'[c].stage = "asked" /\ \A x \in Call \ {c} : call'[x] = call[x]
    BY <1>1, <1>2 DEF CallTyped, Ask
  <1>4. TypeOK'
    BY <1>1, <1>3, TypeFrame, TypePartsNext DEF Ask
  <1> QED BY <1>3, <1>4 DEF Ask

LEMMA ReplyStep ==
  ASSUME MeterInv, NEW c \in Call, Reply(c)
  PROVE  /\ TypeOK'
         /\ call[c].stage = "asked" /\ call'[c].stage \in {"replied", "failing"}
         /\ \A x \in Call \ {c} : call'[x] = call[x]
  <1>1. CallTyped /\ UsageTyped /\ CostTyped /\ TraceTyped /\ FaultsTyped
    BY TypeParts DEF MeterInv
  <1>2. PICK s \in {"replied", "failing"} : call' = [call EXCEPT ![c].stage = s]
    BY DEF Reply
  <1>3. CallTyped' /\ call'[c].stage = s /\ \A x \in Call \ {c} : call'[x] = call[x]
    BY <1>1, <1>2, StageTyped DEF CallStage, Tracing
  <1>4. TypeOK'
    BY <1>1, <1>3, TypeFrame, TypePartsNext DEF Reply
  <1> QED BY <1>3, <1>4 DEF Reply

(* The row is there and the call recorded, or neither, or the call was      *)
(* interrupted.                                                             *)
LEMMA RecordStep ==
  ASSUME MeterInv, NEW c \in Call, RecordUsage(c) \/ InterruptRecord(c)
  PROVE  /\ TypeOK' /\ faults' >= faults /\ UNCHANGED <<costVars, traceVars>>
         /\ call[c].stage = "replied" /\ c \notin DOMAIN usage
         /\ \A x \in Call \ {c} : call'[x] = call[x]
         /\ \/ call'[c].stage \in {"recorded", "interrupted"} /\ InsertUsage(c)
            \/ call'[c].stage \in {"unrecorded", "interrupted"} /\ UNCHANGED usage
  <1>1. CallTyped /\ UsageTyped /\ CostTyped /\ TraceTyped /\ FaultsTyped
    BY TypeParts DEF MeterInv
  <1>2. call[c].stage = "replied" /\ UNCHANGED <<costVars, traceVars>>
    BY DEF RecordUsage, InterruptRecord
  <1>3. c \notin DOMAIN usage
    BY <1>2 DEF MeterInv, UsageKept, Metered, MaybeMetered
  <1>4. CostTyped' /\ TraceTyped' /\ FaultsTyped' /\ faults' >= faults
    <2>1. Fail \/ UNCHANGED faults
      BY DEF RecordUsage, InterruptRecord
    <2>2. CostTyped' /\ TraceTyped'
      BY <1>1, <1>2, TypeFrame
    <2> QED BY <1>1, <2>1, <2>2, FailTyped
  <1>5. PICK s \in {"recorded", "unrecorded", "interrupted"} :
          /\ call' = [call EXCEPT ![c].stage = s]
          /\ \/ s \in {"recorded", "interrupted"} /\ InsertUsage(c)
             \/ s \in {"unrecorded", "interrupted"} /\ UNCHANGED usage
    BY DEF RecordUsage, InterruptRecord
  <1>6. CallTyped' /\ call'[c].stage = s /\ \A x \in Call \ {c} : call'[x] = call[x]
    BY <1>1, <1>5, StageTyped DEF CallStage, Tracing
  <1>7. UsageTyped'
    <2>1. CASE InsertUsage(c)
      BY <1>1, <2>1 DEF UsageTyped, InsertUsage, Cents
    <2>2. CASE UNCHANGED usage
      BY <1>1, <2>2, TypeFrame
    <2> QED BY <1>5, <2>1, <2>2
  <1> QED BY <1>2, <1>3, <1>4, <1>5, <1>6, <1>7, TypePartsNext

(* A call that ends in an answer or an error has its trace, short of a      *)
(* failure or of a pruner that lags.                                        *)
LEMMA TraceStep ==
  ASSUME MeterInv, NEW c \in Call, WriteTrace(c) \/ InterruptTrace(c)
  PROVE  /\ TypeOK' /\ faults' >= faults /\ UNCHANGED <<usage, costVars, partition, today, pruned, late>>
         /\ call[c].stage \in Tracing /\ call'[c].stage \in Ended
         /\ call'[c].stage = "answered" => call[c].stage = "recorded"
         /\ call'[c].stage = "raised" => call[c].stage \in {"failing", "unrecorded"}
         /\ \A x \in Call \ {c} : call'[x] = call[x]
         /\ \/ InsertTrace(c)
            \/ /\ UNCHANGED <<trace, written>>
               /\ faults' > 0 \/ late \/ call'[c].stage = "stopped"
  <1>1. CallTyped /\ UsageTyped /\ CostTyped /\ TraceTyped /\ FaultsTyped
    BY TypeParts DEF MeterInv
  <1>2. UNCHANGED <<usage, costVars, partition, today, pruned, late>>
    BY DEF WriteTrace, InterruptTrace
  <1>3. call[c].stage \in Tracing
    BY DEF WriteTrace, InterruptTrace
  <1>4. PICK s \in Ended :
          /\ call' = [call EXCEPT ![c].stage = s]
          /\ s = "answered" => call[c].stage = "recorded"
          /\ s = "raised" => call[c].stage \in {"failing", "unrecorded"}
          /\ WriteTrace(c) \/ s = "stopped"
    <2>1. CASE WriteTrace(c)
      <3>1. CASE call[c].stage = "recorded"
        <4>1. call' = [call EXCEPT ![c].stage = "answered"]
          BY <2>1, <3>1 DEF WriteTrace
        <4> QED BY <2>1, <3>1, <4>1 DEF Ended
      <3>2. CASE call[c].stage = "interrupted"
        <4>1. call' = [call EXCEPT ![c].stage = "stopped"]
          BY <2>1, <3>2 DEF WriteTrace
        <4> QED BY <2>1, <3>2, <4>1 DEF Ended
      <3>3. CASE call[c].stage \in {"failing", "unrecorded"}
        <4>1. call' = [call EXCEPT ![c].stage = "raised"]
          BY <2>1, <3>3 DEF WriteTrace
        <4> QED BY <2>1, <3>3, <4>1 DEF Ended
      <3> QED BY <1>3, <3>1, <3>2, <3>3 DEF Tracing
    <2>2. CASE InterruptTrace(c)
      BY <2>2 DEF InterruptTrace, Ended
    <2> QED BY <2>1, <2>2
  <1>5. CallTyped' /\ call'[c].stage = s /\ \A x \in Call \ {c} : call'[x] = call[x]
    BY <1>1, <1>4, StageTyped DEF CallStage
  <1>6. FaultsTyped' /\ faults' >= faults
    <2>1. Fail \/ UNCHANGED faults
      BY DEF WriteTrace, InterruptTrace
    <2> QED BY <1>1, <2>1, FailTyped
  <1>7. UsageTyped' /\ CostTyped'
    BY <1>1, <1>2, TypeFrame
  <1>8. CASE InsertTrace(c)
    <2>1. TraceRow(c) \in Row
      BY <1>1 DEF TraceRow, Row, TraceTyped
    <2>2. TraceTyped'
      BY <1>1, <1>2, <1>8, <2>1 DEF TraceTyped, InsertTrace
    <2> QED BY <1>2, <1>3, <1>4, <1>5, <1>6, <1>7, <1>8, <2>2, TypePartsNext
  <1>9. CASE /\ UNCHANGED <<trace, written>>
             /\ \/ IF Month(today) \in partition THEN Fail ELSE UNCHANGED faults
                \/ s = "stopped"
    <2>1. TraceTyped'
      BY <1>1, <1>2, <1>9, TypeFrame DEF traceVars
    <2>2. faults' > 0 \/ late \/ s = "stopped"
      <3>1. CASE Fail
        BY <1>1, <3>1, FailTyped
      <3>2. CASE Month(today) \notin partition
        BY <3>2, TodayHasPartition DEF MeterInv
      <3> QED BY <1>9, <3>1, <3>2
    <2> QED BY <1>2, <1>3, <1>4, <1>5, <1>6, <1>7, <1>9, <2>1, <2>2, TypePartsNext
  <1>10. InsertTrace(c) \/ UNCHANGED <<trace, written>>
    BY DEF WriteTrace, InterruptTrace
  <1> QED BY <1>4, <1>8, <1>9, <1>10 DEF WriteTrace

LEMMA RunStep ==
  ASSUME MeterInv, TearDown \/ EndRun \/ Cancel
  PROVE  TypeOK' /\ UNCHANGED <<callVars, spent, traceVars, faults>>
  <1>1. CallTyped /\ UsageTyped /\ CostTyped /\ TraceTyped /\ FaultsTyped
    BY TypeParts DEF MeterInv
  <1>2. UNCHANGED <<callVars, spent, traceVars, faults>>
    BY DEF TearDown, EndRun, Cancel
  <1>3. CallTyped' /\ UsageTyped' /\ TraceTyped' /\ FaultsTyped'
    BY <1>1, <1>2, TypeFrame DEF callVars
  <1>4. CASE TearDown
    BY <1>1, <1>2, <1>3, <1>4, TypePartsNext DEF TearDown, CostTyped, RollupTyped
  <1>5. ASSUME NEW p \in {"run", "cancel"}, rollup' = [rollup EXCEPT ![p].at = "tokens"]
        PROVE  RollupTyped'
    <2>1. rollup[p] \in [at : {"none", "tokens", "compute", "write", "done"}, sum : Nat]
      BY <1>1 DEF CostTyped, RollupTyped
    <2>2. PICK v \in [at : {"none", "tokens", "compute", "write", "done"}, sum : Nat] :
            v = [rollup[p] EXCEPT !.at = "tokens"]
      BY <2>1
    <2>3. rollup' = [rollup EXCEPT ![p] = v]
      BY <1>5, <2>2
    <2> QED BY <1>1, <2>3, RollupSet DEF CostTyped
  <1>6. CASE EndRun
    <2>1. RollupTyped'
      BY <1>5, <1>6 DEF EndRun
    <2> QED BY <1>1, <1>2, <1>3, <1>6, <2>1, TypePartsNext DEF EndRun, CostTyped
  <1>7. CASE Cancel
    <2>1. RollupTyped'
      BY <1>5, <1>7 DEF Cancel
    <2> QED BY <1>1, <1>2, <1>3, <1>7, <2>1, TypePartsNext DEF Cancel, CostTyped
  <1> QED BY <1>4, <1>6, <1>7

(* A roll-up reads the rows, then compute, then writes; each once. *)
LEMMA RollUpStep ==
  ASSUME MeterInv, NEW p \in {"run", "cancel"}, RollUp(p)
  PROVE  /\ TypeOK' /\ UNCHANGED <<callVars, compute, run, cancelled, traceVars>>
         /\ \A q \in {"run", "cancel"} : q # p => rollup'[q] = rollup[q]
         /\ \/ /\ rollup[p].at = "tokens" /\ rollup'[p] = [at |-> "compute", sum |-> TokenCents]
               /\ UNCHANGED <<spent, faults>>
            \/ /\ rollup[p].at = "compute"
               /\ rollup'[p] = [at |-> "write", sum |-> rollup[p].sum + compute]
               /\ UNCHANGED <<spent, faults>>
            \/ /\ rollup[p].at = "write"
               /\ rollup'[p] = [at |-> "done", sum |-> rollup[p].sum]
               /\ \/ spent' = [cents |-> rollup[p].sum, by |-> p] /\ UNCHANGED faults
                  \/ UNCHANGED spent /\ faults' > 0
  <1>1. CallTyped /\ UsageTyped /\ CostTyped /\ TraceTyped /\ FaultsTyped
    BY TypeParts DEF MeterInv
  <1>2. UNCHANGED <<callVars, compute, run, cancelled, traceVars>>
    BY DEF RollUp
  <1>3. CallTyped' /\ UsageTyped' /\ TraceTyped'
    BY <1>1, <1>2, TypeFrame DEF callVars
  <1>4. TokenCents \in Nat /\ compute \in Nat
    BY <1>1, TokensTyped DEF MeterInv, CostTyped
  <1>5. RollupTyped /\ rollup[p] \in [at : {"none", "tokens", "compute", "write", "done"}, sum : Nat]
    BY <1>1 DEF CostTyped, RollupTyped
  <1>6. ASSUME RollupTyped', spent' \in [cents : Nat, by : {"none", "run", "cancel"}], FaultsTyped'
        PROVE  TypeOK'
    BY <1>1, <1>2, <1>3, <1>6, TypePartsNext DEF CostTyped
  <1>7. CASE /\ rollup[p].at = "tokens"
             /\ rollup' = [rollup EXCEPT ![p] = [at |-> "compute", sum |-> TokenCents]]
             /\ UNCHANGED <<spent, faults>>
    <2>1. PICK v \in [at : {"none", "tokens", "compute", "write", "done"}, sum : Nat] :
            v = [at |-> "compute", sum |-> TokenCents]
      BY <1>4
    <2>2. RollupTyped' /\ rollup'[p] = v /\ \A q \in {"run", "cancel"} : q # p => rollup'[q] = rollup[q]
      BY <1>5, <1>7, <2>1, RollupSet
    <2>3. TypeOK'
      BY <1>1, <1>6, <1>7, <2>2, TypeFrame DEF CostTyped
    <2> QED BY <1>2, <1>7, <2>1, <2>2, <2>3
  <1>8. CASE /\ rollup[p].at = "compute"
             /\ rollup' = [rollup EXCEPT ![p] = [at |-> "write", sum |-> @.sum + compute]]
             /\ UNCHANGED <<spent, faults>>
    <2>1. rollup[p].sum + compute \in Nat
      BY <1>4, <1>5
    <2>2. PICK v \in [at : {"none", "tokens", "compute", "write", "done"}, sum : Nat] :
            v = [at |-> "write", sum |-> rollup[p].sum + compute]
      BY <2>1
    <2>3. rollup' = [rollup EXCEPT ![p] = v]
      BY <1>8, <2>2, <1>5 DEF RollupTyped
    <2>4. RollupTyped' /\ rollup'[p] = v /\ \A q \in {"run", "cancel"} : q # p => rollup'[q] = rollup[q]
      BY <1>5, <2>3, RollupSet
    <2>5. TypeOK'
      BY <1>1, <1>6, <1>8, <2>4, TypeFrame DEF CostTyped
    <2> QED BY <1>2, <1>8, <2>2, <2>4, <2>5
  <1>9. CASE /\ rollup[p].at = "write"
             /\ rollup' = [rollup EXCEPT ![p].at = "done"]
             /\ \/ spent' = [cents |-> rollup[p].sum, by |-> p] /\ UNCHANGED faults
                \/ Fail /\ UNCHANGED spent
    <2>1. PICK v \in [at : {"none", "tokens", "compute", "write", "done"}, sum : Nat] :
            v = [rollup[p] EXCEPT !.at = "done"] /\ v = [at |-> "done", sum |-> rollup[p].sum]
      <3>1. ASSUME NEW r \in [at : {"none", "tokens", "compute", "write", "done"}, sum : Nat]
            PROVE  /\ [r EXCEPT !.at = "done"] = [at |-> "done", sum |-> r.sum]
                   /\ [at |-> "done", sum |-> r.sum]
                        \in [at : {"none", "tokens", "compute", "write", "done"}, sum : Nat]
        OBVIOUS
      <3> QED BY <1>5, <3>1
    <2>2. rollup' = [rollup EXCEPT ![p] = v]
      BY <1>9, <2>1
    <2>3. RollupTyped' /\ rollup'[p] = v /\ \A q \in {"run", "cancel"} : q # p => rollup'[q] = rollup[q]
      BY <1>5, <2>2, RollupSet
    <2>4. FaultsTyped' /\ (Fail => faults' > 0)
      BY <1>1, <1>9, FailTyped
    <2>5. spent' \in [cents : Nat, by : {"none", "run", "cancel"}]
      BY <1>1, <1>5, <1>9 DEF CostTyped
    <2>6. TypeOK'
      BY <1>6, <2>3, <2>4, <2>5
    <2> QED BY <1>2, <1>9, <2>1, <2>3, <2>4, <2>6
  <1> QED BY <1>7, <1>8, <1>9 DEF RollUp

(* A day passes, or the pruner runs. *)
LEMMA DayStep ==
  ASSUME MeterInv, Tick \/ Prune
  PROVE  /\ TypeOK' /\ UNCHANGED <<callVars, costVars, written, faults>>
         /\ \A r \in written : today' - r.day <= Retention => today - r.day <= Retention
         /\ late => late'
  <1>1. CallTyped /\ UsageTyped /\ CostTyped /\ TraceTyped /\ FaultsTyped /\ TypeOK
    BY TypeParts DEF MeterInv
  <1>2. UNCHANGED <<callVars, costVars, written, faults>>
    BY DEF Tick, Prune
  <1>3. CallTyped' /\ UsageTyped' /\ CostTyped' /\ FaultsTyped'
    BY <1>1, <1>2, TypeFrame DEF callVars
  <1>4. /\ today \in Nat /\ pruned \in Nat /\ pruned <= today /\ Retention \in Nat
        /\ today - Retention \in Nat /\ \A r \in written : r.day \in Nat
    BY <1>1, DaysInRange
  <1>5. FirstDay \in Nat /\ LastDay \in Nat
    BY MeteringAssumption
  <1>6. CASE Tick
    <2>1. today' \in FirstDay..LastDay /\ pruned' \in FirstDay..today'
      BY <1>1, <1>4, <1>5, <1>6 DEF Tick, TraceTyped
    <2>2. late' \in BOOLEAN
      <3>1. late' = (late \/ Month(today') > Month(pruned) + 1)
        BY <1>6 DEF Tick
      <3>2. late \in BOOLEAN
        BY <1>1 DEF TraceTyped
      <3> QED BY <3>1, <3>2, Zenon
    <2>3. UNCHANGED <<trace, written, partition>>
      BY <1>6 DEF Tick
    <2>4. TraceTyped'
      BY <1>1, <2>1, <2>2, <2>3 DEF TraceTyped
    <2>5. late => late'
      BY <1>6, Zenon DEF Tick
    <2>6. \A r \in written : today' - r.day <= Retention => today - r.day <= Retention
      BY <1>4, <1>6 DEF Tick
    <2> QED BY <1>2, <1>3, <2>4, <2>5, <2>6, TypePartsNext
  <1>7. CASE Prune
    <2>1. UNCHANGED <<today, late, written>> /\ pruned' = today /\ trace' \subseteq trace
      BY <1>7 DEF Prune
    <2>2. Month(today) \in Nat
      BY <1>4, MonthOrder
    <2>3. partition' \subseteq Nat
      <3>1. partition' \subseteq partition \cup {Month(today), Month(today) + 1}
        BY <1>7 DEF Prune, Kept
      <3>2. partition \subseteq Nat /\ Month(today) + 1 \in Nat
        BY <1>1, <2>2 DEF TraceTyped
      <3> QED BY <2>2, <3>1, <3>2
    <2>4. TraceTyped'
      BY <1>1, <1>4, <1>5, <2>1, <2>3 DEF TraceTyped
    <2> QED BY <1>2, <1>3, <2>1, <2>4, TypePartsNext
  <1> QED BY <1>6, <1>7

-----------------------------------------------------------------------------
(* A call and its usage row come and go together. *)

LEMMA UsageStep ==
  ASSUME MeterInv, [Next]_vars
  PROVE  UsageKept'
  <1>1. UsageKept
    BY DEF MeterInv
  <1>2. ASSUME UNCHANGED <<call, usage, run>> PROVE UsageKept'
    BY <1>1, <1>2 DEF UsageKept, Idle
  <1>3. ASSUME NEW c \in Call, UNCHANGED <<usage, run>>, call[c].stage # "idle" \/ run # "ended",
               call[c].stage \notin Ended,
               \A x \in Call \ {c} : call'[x] = call[x],
               call'[c].stage \in Metered => call[c].stage \in Metered,
               call[c].stage \in MaybeMetered => call'[c].stage \in MaybeMetered
        PROVE  UsageKept'
    <2>1. run # "ended"
      BY <1>1, <1>3 DEF UsageKept, Idle
    <2> QED BY <1>1, <1>3, <2>1 DEF UsageKept
  <1>4. ASSUME NEW c \in Call, NEW a \in Agent, Ask(c, a) PROVE UsageKept'
    BY <1>3, <1>4, AskStep DEF Ask, costVars, Metered, MaybeMetered, Ended
  <1>5. ASSUME NEW c \in Call, Reply(c) PROVE UsageKept'
    BY <1>3, <1>5, ReplyStep DEF Reply, costVars, Metered, MaybeMetered, Ended
  <1>6. ASSUME NEW c \in Call, RecordUsage(c) \/ InterruptRecord(c) PROVE UsageKept'
    <2>1. /\ call[c].stage = "replied" /\ c \notin DOMAIN usage
          /\ \A x \in Call \ {c} : call'[x] = call[x]
          /\ UNCHANGED run
      BY <1>6, RecordStep DEF costVars
    <2>2. run # "ended"
      BY <1>1, <2>1 DEF UsageKept, Idle, Ended
    <2>3. CASE call'[c].stage \in {"unrecorded", "interrupted"} /\ UNCHANGED usage
      BY <1>1, <2>1, <2>2, <2>3 DEF UsageKept, Metered
    <2>4. CASE call'[c].stage \in {"recorded", "interrupted"} /\ InsertUsage(c)
      <3>1. DOMAIN usage' = DOMAIN usage \cup {c}
        BY <2>4 DEF InsertUsage
      <3>2. IsFiniteSet(DOMAIN usage')
        BY <1>1, <3>1, FS_AddElement DEF UsageKept
      <3> QED BY <1>1, <2>1, <2>2, <2>4, <3>1, <3>2 DEF UsageKept, Metered, MaybeMetered
    <2> QED BY <1>6, <2>3, <2>4, RecordStep
  <1>7. ASSUME NEW c \in Call, WriteTrace(c) \/ InterruptTrace(c) PROVE UsageKept'
    BY <1>3, <1>7, TraceStep DEF costVars, Metered, MaybeMetered, Tracing, Ended
  <1>8. CASE TearDown \/ Cancel
    BY <1>1, <1>8 DEF TearDown, Cancel, UsageKept, Idle, callVars
  <1>9. CASE EndRun
    BY <1>1, <1>9 DEF EndRun, UsageKept, Idle, callVars
  <1>10. ASSUME NEW p \in {"run", "cancel"}, RollUp(p) PROVE UsageKept'
    BY <1>2, <1>10 DEF RollUp, callVars
  <1>11. CASE Tick \/ Prune
    BY <1>2, <1>11 DEF Tick, Prune, callVars, costVars
  <1>12. CASE UNCHANGED vars
    BY <1>2, <1>12 DEF vars
  <1> QED BY <1>4, <1>5, <1>6, <1>7, <1>8, <1>9, <1>10, <1>11, <1>12 DEF Next

-----------------------------------------------------------------------------
(* The pruner provisions this month and the next before either is needed,   *)
(* and takes a trace only with the partition it lies in.                    *)

LEMMA PartitionStep ==
  ASSUME MeterInv, [Next]_vars
  PROVE  PartitionKept'
  <1>1. TypeOK /\ PartitionKept
    BY DEF MeterInv
  <1>2. /\ today \in Nat /\ pruned \in Nat /\ pruned <= today /\ Retention \in Nat
        /\ today - Retention \in Nat /\ \A r \in written : r.day \in Nat
    BY <1>1, DaysInRange
  <1>3. ASSUME UNCHANGED <<trace, partition, today, pruned, late>> PROVE PartitionKept'
    BY <1>1, <1>3 DEF PartitionKept
  <1>4. ASSUME NEW c \in Call, WriteTrace(c) \/ InterruptTrace(c) PROVE PartitionKept'
    <2>1. UNCHANGED <<partition, today, pruned, late>>
      BY <1>4, TraceStep
    <2>2. \A r \in trace' : Month(r.day) \in partition
      <3>1. UNCHANGED <<trace, written>> \/ (/\ Month(today) \in partition
                                             /\ trace' = trace \cup {TraceRow(c)})
        BY <1>4, TraceStep DEF InsertTrace
      <3>2. TraceRow(c).day = today
        BY DEF TraceRow
      <3> QED BY <1>1, <3>1, <3>2 DEF PartitionKept
    <2> QED BY <1>1, <2>1, <2>2 DEF PartitionKept
  <1>5. CASE Tick
    <2>1. UNCHANGED <<trace, partition, pruned>>
      BY <1>5 DEF Tick
    <2>2. late' = (late \/ Month(today') > Month(pruned) + 1)
      BY <1>5 DEF Tick
    <2>3. today' \in Nat
      BY <1>2, <1>5 DEF Tick
    <2>4. Month(today') \in Nat /\ Month(pruned) \in Nat
      BY <1>2, <2>3, MonthOrder
    <2>5. ~late' => ~(Month(today') > Month(pruned) + 1)
      BY <2>2, Zenon
    <2>6. ~late' => Month(today') <= Month(pruned) + 1
      BY <2>4, <2>5
    <2> QED BY <1>1, <2>1, <2>6 DEF PartitionKept, Month
  <1>6. CASE Prune
    <2>1. /\ UNCHANGED <<today, late>> /\ pruned' = today
          /\ partition' = Kept(partition \cup {Month(today), Month(today) + 1})
          /\ trace' = {r \in trace : Month(r.day) \in partition'}
      BY <1>6 DEF Prune
    <2>2. Month(today) \in Nat /\ Month(today - Retention) \in Nat
             /\ Month(today - Retention) <= Month(today)
      BY <1>2, MonthOrder
    <2>3. Month(today) \in partition' /\ Month(today) + 1 \in partition'
      BY <2>1, <2>2 DEF Kept
    <2>4. Month(today) <= Month(today) + 1
      BY <2>2
    <2> QED BY <2>1, <2>3, <2>4 DEF PartitionKept, Month
  <1>7. ASSUME NEW c \in Call, NEW a \in Agent, Ask(c, a) PROVE PartitionKept'
    BY <1>3, <1>7 DEF Ask, traceVars
  <1>8. ASSUME NEW c \in Call, Reply(c) \/ RecordUsage(c) \/ InterruptRecord(c) PROVE PartitionKept'
    BY <1>3, <1>8 DEF Reply, RecordUsage, InterruptRecord, traceVars
  <1>9. CASE TearDown \/ EndRun \/ Cancel
    BY <1>3, <1>9 DEF TearDown, EndRun, Cancel, traceVars
  <1>10. ASSUME NEW p \in {"run", "cancel"}, RollUp(p) PROVE PartitionKept'
    BY <1>3, <1>10 DEF RollUp, traceVars
  <1>11. CASE UNCHANGED vars
    BY <1>3, <1>11 DEF vars
  <1> QED BY <1>4, <1>5, <1>6, <1>7, <1>8, <1>9, <1>10, <1>11 DEF Next

(* A trace that falls within the retention lies in a month the pruner keeps. *)
LEMMA RecentStep ==
  ASSUME MeterInv, [Next]_vars
  PROVE  RecentTraceKept'
  <1>1. TypeOK /\ PartitionKept /\ RecentTraceKept
    BY DEF MeterInv
  <1>2. /\ today \in Nat /\ today - Retention \in Nat /\ Retention \in Nat
        /\ \A r \in written : r.day \in Nat
    BY <1>1, DaysInRange
  <1>3. ASSUME UNCHANGED <<trace, written, today>> PROVE RecentTraceKept'
    BY <1>1, <1>3 DEF RecentTraceKept
  <1>4. ASSUME NEW c \in Call, WriteTrace(c) \/ InterruptTrace(c) PROVE RecentTraceKept'
    <2>1. UNCHANGED today
      BY <1>4, TraceStep
    <2>2. UNCHANGED <<trace, written>> \/ (/\ trace' = trace \cup {TraceRow(c)}
                                           /\ written' = written \cup {TraceRow(c)})
      BY <1>4, TraceStep DEF InsertTrace
    <2> QED BY <1>1, <2>1, <2>2 DEF RecentTraceKept
  <1>5. CASE Tick
    <2>1. UNCHANGED <<trace, written>>
      BY <1>5 DEF Tick
    <2>2. \A r \in written : today' - r.day <= Retention => today - r.day <= Retention
      BY <1>5, DayStep
    <2> QED BY <1>1, <2>1, <2>2 DEF RecentTraceKept
  <1>6. CASE Prune
    <2>1. /\ UNCHANGED <<today, written>>
          /\ partition' = Kept(partition \cup {Month(today), Month(today) + 1})
          /\ trace' = {r \in trace : Month(r.day) \in partition'}
      BY <1>6 DEF Prune
    <2>2. ASSUME NEW r \in written, today - r.day <= Retention PROVE r \in trace'
      <3>1. r \in trace /\ Month(r.day) \in partition
        BY <1>1, <2>2 DEF RecentTraceKept, PartitionKept
      <3>2. today - Retention <= r.day /\ r.day \in Nat
        BY <1>2, <2>2
      <3>3. Month(today - Retention) <= Month(r.day)
        BY <1>2, <3>2, MonthOrder
      <3>4. Month(r.day) \in Nat /\ Month(today - Retention) \in Nat
        BY <1>2, <3>2, MonthOrder
      <3>5. Month(r.day) \in partition'
        BY <2>1, <3>1, <3>3, <3>4 DEF Kept
      <3> QED BY <2>1, <3>1, <3>5
    <2> QED BY <2>1, <2>2 DEF RecentTraceKept
  <1>7. ASSUME NEW c \in Call, NEW a \in Agent, Ask(c, a) PROVE RecentTraceKept'
    BY <1>3, <1>7 DEF Ask, traceVars
  <1>8. ASSUME NEW c \in Call, Reply(c) \/ RecordUsage(c) \/ InterruptRecord(c) PROVE RecentTraceKept'
    BY <1>3, <1>8 DEF Reply, RecordUsage, InterruptRecord, traceVars
  <1>9. CASE TearDown \/ EndRun \/ Cancel
    BY <1>3, <1>9 DEF TearDown, EndRun, Cancel, traceVars
  <1>10. ASSUME NEW p \in {"run", "cancel"}, RollUp(p) PROVE RecentTraceKept'
    BY <1>3, <1>10 DEF RollUp, traceVars
  <1>11. CASE UNCHANGED vars
    BY <1>3, <1>11 DEF vars
  <1> QED BY <1>4, <1>5, <1>6, <1>7, <1>8, <1>9, <1>10, <1>11 DEF Next

-----------------------------------------------------------------------------
(* A call that ends leaves its trace, whichever way it ended. *)

Closed == {"answered", "raised"}
Traced(c) ==
  \E r \in written : r.call = c /\ (r.status = "ok" <=> call[c].stage = "answered")

LEMMA TracedStep ==
  ASSUME MeterInv, [Next]_vars
  PROVE  AttemptTraced'
  <1>1. TypeOK /\ AttemptTraced /\ UsageKept /\ UsageKept'
    BY UsageStep DEF MeterInv
  <1>2. /\ faults = 0 /\ ~late => \A c \in Call : call[c].stage \in Closed => Traced(c)
        /\ \A r \in written : r.metered => r.call \in DOMAIN usage
    BY <1>1 DEF AttemptTraced, Traced, Closed
  <1>3. faults \in Nat
    BY <1>1, MeteringAssumption DEF TypeOK
  <1>4. SUFFICES /\ faults' = 0 /\ ~late' => \A c \in Call : call'[c].stage \in Closed => Traced(c)'
                 /\ \A r \in written' : r.metered => r.call \in DOMAIN usage'
    BY DEF AttemptTraced, Traced, Closed
  <1>5. ASSUME NEW c \in Call, UNCHANGED <<late, written>>, faults' >= faults, faults' \in Nat,
               DOMAIN usage \subseteq DOMAIN usage',
               call'[c].stage \notin Closed,
               \A x \in Call \ {c} : call'[x] = call[x]
        PROVE  /\ faults' = 0 /\ ~late' => \A x \in Call : call'[x].stage \in Closed => Traced(x)'
               /\ \A r \in written' : r.metered => r.call \in DOMAIN usage'
    BY <1>2, <1>3, <1>5 DEF Traced
  <1>6. ASSUME UNCHANGED <<call, usage, written>>, faults' = 0 /\ ~late' => faults = 0 /\ ~late
        PROVE  /\ faults' = 0 /\ ~late' => \A x \in Call : call'[x].stage \in Closed => Traced(x)'
               /\ \A r \in written' : r.metered => r.call \in DOMAIN usage'
    BY <1>2, <1>6 DEF Traced
  <1>7. ASSUME NEW c \in Call, WriteTrace(c) \/ InterruptTrace(c)
        PROVE  /\ faults' = 0 /\ ~late' => \A x \in Call : call'[x].stage \in Closed => Traced(x)'
               /\ \A r \in written' : r.metered => r.call \in DOMAIN usage'
    <2>1. /\ TypeOK' /\ faults' >= faults /\ UNCHANGED <<usage, late>>
          /\ call'[c].stage = "answered" => call[c].stage = "recorded"
          /\ call'[c].stage = "raised" => call[c].stage \in {"failing", "unrecorded"}
          /\ \A x \in Call \ {c} : call'[x] = call[x]
      BY <1>7, TraceStep
    <2>2. \/ written' = written \cup {TraceRow(c)}
          \/ UNCHANGED written /\ (faults' > 0 \/ late \/ call'[c].stage = "stopped")
      BY <1>7, TraceStep DEF InsertTrace
    <2>3. faults' \in Nat
      BY <2>1, MeteringAssumption DEF TypeOK
    <2>4. /\ TraceRow(c).call = c
          /\ TraceRow(c).status = "ok" <=> call[c].stage = "recorded"
          /\ TraceRow(c).metered <=> call[c].stage = "recorded"
      BY Zenon DEF TraceRow
    <2>5. \A r \in written' : r.metered => r.call \in DOMAIN usage'
      <3>1. call[c].stage = "recorded" => c \in DOMAIN usage
        BY <1>1 DEF UsageKept, Metered
      <3> QED BY <1>2, <2>1, <2>2, <2>4, <3>1
    <2>6. ASSUME faults' = 0, ~late', NEW x \in Call, call'[x].stage \in Closed
          PROVE  Traced(x)'
      <3>1. faults = 0 /\ ~late
        BY <1>3, <2>1, <2>3, <2>6
      <3>2. CASE x = c
        <4>1. call'[c].stage = "answered" <=> call[c].stage = "recorded"
          BY <2>1, <2>6, <3>2 DEF Closed
        <4>2. written' = written \cup {TraceRow(c)}
          BY <2>2, <2>3, <2>6, <3>1, <3>2 DEF Closed
        <4> QED BY <2>4, <3>2, <4>1, <4>2 DEF Traced
      <3>3. CASE x # c
        BY <1>2, <2>1, <2>2, <2>6, <3>1, <3>3 DEF Traced
      <3> QED BY <3>2, <3>3
    <2> QED BY <2>5, <2>6
  <1>8. ASSUME NEW c \in Call, NEW a \in Agent, Ask(c, a)
        PROVE  /\ faults' = 0 /\ ~late' => \A x \in Call : call'[x].stage \in Closed => Traced(x)'
               /\ \A r \in written' : r.metered => r.call \in DOMAIN usage'
    BY <1>3, <1>5, <1>8, AskStep DEF Ask, traceVars, Closed
  <1>9. ASSUME NEW c \in Call, Reply(c)
        PROVE  /\ faults' = 0 /\ ~late' => \A x \in Call : call'[x].stage \in Closed => Traced(x)'
               /\ \A r \in written' : r.metered => r.call \in DOMAIN usage'
    BY <1>3, <1>5, <1>9, ReplyStep DEF Reply, traceVars, Closed
  <1>10. ASSUME NEW c \in Call, RecordUsage(c) \/ InterruptRecord(c)
        PROVE  /\ faults' = 0 /\ ~late' => \A x \in Call : call'[x].stage \in Closed => Traced(x)'
               /\ \A r \in written' : r.metered => r.call \in DOMAIN usage'
    <2>1. /\ TypeOK' /\ faults' >= faults /\ \A x \in Call \ {c} : call'[x] = call[x]
          /\ call'[c].stage \in {"recorded", "unrecorded", "interrupted"}
          /\ DOMAIN usage \subseteq DOMAIN usage'
      BY <1>10, RecordStep DEF InsertUsage
    <2>2. faults' \in Nat
      BY <2>1, MeteringAssumption DEF TypeOK
    <2>3. UNCHANGED <<late, written>>
      BY <1>10, RecordStep DEF traceVars
    <2> QED BY <1>5, <2>1, <2>2, <2>3 DEF Closed
  <1>11. CASE TearDown \/ EndRun \/ Cancel
    BY <1>6, <1>11 DEF TearDown, EndRun, Cancel, callVars, traceVars
  <1>12. ASSUME NEW p \in {"run", "cancel"}, RollUp(p)
        PROVE  /\ faults' = 0 /\ ~late' => \A x \in Call : call'[x].stage \in Closed => Traced(x)'
               /\ \A r \in written' : r.metered => r.call \in DOMAIN usage'
    <2>1. UNCHANGED <<call, usage, written, late>>
      BY <1>12 DEF RollUp, callVars, traceVars
    <2>2. faults' = 0 => faults = 0
      BY <1>3, <1>12 DEF RollUp, Fail
    <2> QED BY <1>6, <2>1, <2>2
  <1>13. CASE Tick \/ Prune
    <2>1. UNCHANGED <<callVars, written, faults>> /\ (late => late')
      BY <1>13, DayStep
    <2> QED BY <1>6, <2>1 DEF callVars
  <1>14. CASE UNCHANGED vars
    BY <1>6, <1>14 DEF vars
  <1> QED BY <1>7, <1>8, <1>9, <1>10, <1>11, <1>12, <1>13, <1>14 DEF Next

-----------------------------------------------------------------------------
(* The sums only grow while a roll-up may still be out of date, and are     *)
(* final when the run's own begins.                                         *)

(* More rows, or the sandbox's seconds, as long as the run has not ended. *)
LEMMA SumsGrow ==
  ASSUME SumsKept, UsageKept, UsageKept', TypeOK, TypeOK',
         UNCHANGED <<rollup, spent>>, faults' >= faults,
         run # "ended", run' # "ended", run' = "running" => compute' = 0,
         TokenCents <= TokenCents', compute <= compute'
  PROVE  SumsKept'
  <1>1. TokenCents \in Nat /\ compute \in Nat /\ TokenCents' \in Nat /\ compute' \in Nat
    <2>1. TokenCents \in Nat /\ compute \in Nat /\ compute' \in Nat
      BY TokensTyped DEF TypeOK
    <2>2. TokenCents' \in Nat
      <3>1. PICK g : g = usage'
        OBVIOUS
      <3>2. Cardinality(Priced(g)) \in Nat
        BY <3>1, RowsTyped DEF UsageKept
      <3>3. TokenCents' = Cardinality(Priced(g))
        BY <3>1 DEF TokenCents, Priced
      <3> QED BY <3>2, <3>3
    <2> QED BY <2>1, <2>2
  <1>2. rollup["run"].at = "none"
    BY DEF SumsKept
  <1>3. spent.cents \in Nat /\ \A p \in {"run", "cancel"} : rollup[p].sum \in Nat
    BY DEF TypeOK
  <1>4. spent'.cents <= TokenCents' + compute'
    BY <1>1, <1>3 DEF SumsKept
  <1>5. ASSUME NEW p \in {"run", "cancel"}
        PROVE  /\ rollup'[p].at = "compute" => rollup'[p].sum <= TokenCents'
               /\ rollup'[p].at = "write" => rollup'[p].sum <= TokenCents' + compute'
    <2>1. rollup[p].sum \in Nat
      BY <1>3
    <2>2. /\ rollup[p].at = "compute" => rollup[p].sum <= TokenCents
          /\ rollup[p].at = "write" => rollup[p].sum <= TokenCents + compute
      BY DEF SumsKept
    <2> QED BY <1>1, <2>1, <2>2
  <1> QED BY <1>2, <1>4, <1>5 DEF SumsKept

LEMMA SumsStep ==
  ASSUME MeterInv, [Next]_vars
  PROVE  SumsKept'
  <1>1. TypeOK /\ UsageKept /\ UsageKept' /\ SumsKept
    BY UsageStep DEF MeterInv
  <1>2. TokenCents \in Nat /\ compute \in Nat
    BY <1>1, TokensTyped DEF TypeOK
  <1>3. faults \in Nat /\ spent.cents \in Nat /\ \A p \in {"run", "cancel"} : rollup[p].sum \in Nat
    BY <1>1, MeteringAssumption DEF TypeOK
  <1>4. ASSUME UNCHANGED <<usage, compute, run, rollup, spent>>,
               faults' > 0 \/ faults' = faults
        PROVE  SumsKept'
    <2>1. TokenCents' = TokenCents
      BY <1>4 DEF TokenCents
    <2> QED BY <1>1, <1>4, <2>1 DEF SumsKept
  <1>5. ASSUME NEW c \in Call, RecordUsage(c) \/ InterruptRecord(c) PROVE SumsKept'
    <2>1. /\ TypeOK' /\ faults' >= faults /\ call[c].stage = "replied" /\ c \notin DOMAIN usage
          /\ UNCHANGED usage \/ InsertUsage(c)
      BY <1>5, RecordStep
    <2>2. UNCHANGED <<compute, run, rollup, spent>>
      BY <1>5, RecordStep DEF costVars
    <2>3. run # "ended"
      BY <1>1, <2>1 DEF UsageKept, Idle, Ended
    <2>4. TokenCents <= TokenCents'
      <3>1. CASE UNCHANGED usage
        BY <1>2, <3>1 DEF TokenCents
      <3>2. ASSUME NEW cents \in Cents,
                   usage' = [x \in DOMAIN usage \cup {c} |-> IF x = c THEN cents ELSE usage[x]]
            PROVE  TokenCents <= TokenCents'
        <4>1. PICK f, g : f = usage /\ g = usage'
          OBVIOUS
        <4>2. Cardinality(Priced(f)) <= Cardinality(Priced(g))
          BY <1>1, <2>1, <3>2, <4>1, RowsAddUp DEF UsageKept
        <4>3. TokenCents = Cardinality(Priced(f)) /\ TokenCents' = Cardinality(Priced(g))
          BY <4>1 DEF TokenCents, Priced
        <4> QED BY <4>2, <4>3
      <3> QED BY <2>1, <3>1, <3>2 DEF InsertUsage
    <2>5. compute <= compute' /\ (run' = "running" => compute' = 0)
      BY <1>1, <1>2, <2>2 DEF SumsKept
    <2> QED BY <1>1, <2>1, <2>2, <2>3, <2>4, <2>5, SumsGrow
  <1>6. CASE TearDown
    <2>1. TypeOK' /\ UNCHANGED <<usage, spent, faults>>
      BY <1>6, RunStep DEF callVars
    <2>2. run = "running" /\ run' = "closing" /\ UNCHANGED rollup /\ compute = 0 /\ compute' \in Nat
      BY <1>1, <1>6 DEF TearDown, SumsKept
    <2>3. TokenCents' = TokenCents
      BY <2>1 DEF TokenCents
    <2>4. TokenCents <= TokenCents' /\ compute <= compute' /\ faults' >= faults
      BY <1>2, <1>3, <2>1, <2>2, <2>3
    <2> QED BY <1>1, <2>1, <2>2, <2>4, SumsGrow
  <1>7. CASE EndRun
    <2>1. UNCHANGED <<usage, compute, spent, faults>> /\ run = "closing" /\ run' = "ended"
            /\ rollup' = [rollup EXCEPT !["run"].at = "tokens"]
      BY <1>7 DEF EndRun, callVars
    <2>2. TokenCents' = TokenCents
      BY <2>1 DEF TokenCents
    <2>3. /\ rollup'["run"].at = "tokens"
          /\ rollup'["cancel"] = rollup["cancel"]
      BY <1>1, <2>1 DEF TypeOK
    <2> QED BY <1>1, <2>1, <2>2, <2>3 DEF SumsKept
  <1>8. CASE Cancel
    <2>1. UNCHANGED <<usage, compute, run, spent, faults>>
            /\ rollup' = [rollup EXCEPT !["cancel"].at = "tokens"]
      BY <1>8 DEF Cancel, callVars
    <2>2. TokenCents' = TokenCents
      BY <2>1 DEF TokenCents
    <2>3. /\ rollup'["cancel"].at = "tokens"
          /\ rollup'["run"] = rollup["run"]
      BY <1>1, <2>1 DEF TypeOK
    <2> QED BY <1>1, <2>1, <2>2, <2>3 DEF SumsKept
  <1>9. ASSUME NEW p \in {"run", "cancel"}, RollUp(p) PROVE SumsKept'
    <2>1. /\ UNCHANGED <<usage, compute, run>>
          /\ \A q \in {"run", "cancel"} : q # p => rollup'[q] = rollup[q]
      BY <1>9, RollUpStep DEF callVars
    <2>2. TokenCents' = TokenCents
      BY <2>1 DEF TokenCents
    <2>3. CASE /\ rollup[p].at = "tokens" /\ rollup'[p] = [at |-> "compute", sum |-> TokenCents]
               /\ UNCHANGED <<spent, faults>>
      BY <1>1, <1>2, <2>1, <2>2, <2>3 DEF SumsKept
    <2>4. CASE /\ rollup[p].at = "compute"
               /\ rollup'[p] = [at |-> "write", sum |-> rollup[p].sum + compute]
               /\ UNCHANGED <<spent, faults>>
      BY <1>1, <1>2, <1>3, <2>1, <2>2, <2>4 DEF SumsKept
    <2>5. CASE /\ rollup[p].at = "write"
               /\ rollup'[p] = [at |-> "done", sum |-> rollup[p].sum]
               /\ spent' = [cents |-> rollup[p].sum, by |-> p] /\ UNCHANGED faults
      <3>1. spent'.cents <= TokenCents + compute
        BY <1>1, <2>5 DEF SumsKept
      <3>2. CASE p = "run"
        BY <1>1, <2>1, <2>2, <2>5, <3>1, <3>2 DEF SumsKept
      <3>3. CASE p = "cancel"
        BY <1>1, <2>1, <2>2, <2>5, <3>1, <3>3 DEF SumsKept
      <3> QED BY <3>2, <3>3
    <2>6. CASE /\ rollup[p].at = "write"
               /\ rollup'[p] = [at |-> "done", sum |-> rollup[p].sum]
               /\ UNCHANGED spent /\ faults' > 0
      BY <1>1, <2>1, <2>2, <2>6 DEF SumsKept
    <2> QED BY <1>9, <2>3, <2>4, <2>5, <2>6, RollUpStep
  <1>10. ASSUME NEW c \in Call, NEW a \in Agent, Ask(c, a) PROVE SumsKept'
    BY <1>4, <1>10 DEF Ask, costVars
  <1>11. ASSUME NEW c \in Call, Reply(c) PROVE SumsKept'
    BY <1>4, <1>11 DEF Reply, costVars
  <1>12. ASSUME NEW c \in Call, WriteTrace(c) \/ InterruptTrace(c) PROVE SumsKept'
    <2>1. faults' > 0 \/ faults' = faults
      BY <1>3, <1>12 DEF WriteTrace, InterruptTrace, Fail
    <2> QED BY <1>4, <1>12, <2>1 DEF WriteTrace, InterruptTrace, costVars
  <1>13. CASE Tick \/ Prune
    BY <1>4, <1>13 DEF Tick, Prune, callVars, costVars
  <1>14. CASE UNCHANGED vars
    BY <1>4, <1>14 DEF vars
  <1> QED BY <1>5, <1>6, <1>7, <1>8, <1>9, <1>10, <1>11, <1>12, <1>13, <1>14 DEF Next

-----------------------------------------------------------------------------
LEMMA TypeStep ==
  ASSUME MeterInv, [Next]_vars PROVE TypeOK'
  <1>1. CASE UNCHANGED vars
    <2>1. TypeOK
      BY DEF MeterInv
    <2> QED BY <1>1, <2>1, TypeParts, TypeFrame, TypePartsNext DEF vars, costVars, traceVars
  <1> QED BY <1>1, AskStep, ReplyStep, RecordStep, TraceStep, RunStep, RollUpStep, DayStep DEF Next

LEMMA MeterInit == Init => MeterInv
  <1> SUFFICES ASSUME Init PROVE MeterInv
    OBVIOUS
  <1>1. usage = [c \in {} |-> 0] /\ DOMAIN usage = {}
    BY DEF Init
  <1>2. TypeOK
    <2>1. CallTyped /\ UsageTyped /\ FaultsTyped
      BY <1>1, MeteringAssumption DEF Init, CallTyped, UsageTyped, FaultsTyped, Agent, AgentKind, CallStage
    <2>2. RollupTyped
      <3>1. rollup = [p \in {"run", "cancel"} |-> [at |-> "none", sum |-> 0]]
        BY DEF Init
      <3>2. [at |-> "none", sum |-> 0]
              \in [at : {"none", "tokens", "compute", "write", "done"}, sum : Nat]
        OBVIOUS
      <3> QED BY <3>1, <3>2 DEF RollupTyped
    <2>3. CostTyped
      <3>1. spent = [cents |-> 0, by |-> "none"]
        BY DEF Init
      <3>2. spent \in [cents : Nat, by : {"none", "run", "cancel"}]
        BY <3>1
      <3>3. compute \in 0..1 /\ run \in {"running", "closing", "ended"}
        BY DEF Init
      <3>4. cancelled \in BOOLEAN
        BY Zenon DEF Init
      <3> QED BY <2>2, <3>2, <3>3, <3>4 DEF CostTyped
    <2>4. today \in FirstDay..LastDay /\ pruned \in FirstDay..today /\ late \in BOOLEAN
      <3>1. today = FirstDay /\ pruned = FirstDay
        BY DEF Init
      <3>2. late \in BOOLEAN
        BY Zenon DEF Init
      <3> QED BY <3>1, <3>2, MeteringAssumption
    <2>5. trace \subseteq written /\ written \subseteq Row
      BY DEF Init
    <2>6. partition \subseteq Nat
      <3>1. Month(FirstDay) - 1 \in Nat /\ Month(FirstDay) \in Nat /\ Month(FirstDay) + 1 \in Nat
        BY FirstMonth
      <3> QED BY <3>1 DEF Init
    <2>7. TraceTyped
      BY <2>4, <2>5, <2>6 DEF TraceTyped
    <2> QED BY <2>1, <2>3, <2>7, TypeParts
  <1>3. UsageKept
    BY <1>1, FS_EmptySet DEF Init, UsageKept, Metered, MaybeMetered
  <1>4. PartitionKept
    BY FirstMonth DEF Init, PartitionKept
  <1>5. SumsKept
    <2>1. TokenCents \in Nat
      BY <1>3, TokensTyped
    <2>2. compute = 0 /\ run = "running" /\ spent.cents = 0
            /\ \A p \in {"run", "cancel"} : rollup[p].at = "none"
      BY DEF Init
    <2> QED BY <2>1, <2>2 DEF SumsKept
  <1>6. AttemptTraced /\ RecentTraceKept
    BY DEF Init, AttemptTraced, RecentTraceKept, Ended
  <1> QED BY <1>2, <1>3, <1>4, <1>5, <1>6 DEF MeterInv

LEMMA MeterInvariant == Spec => []MeterInv
  <1>1. MeterInv /\ [Next]_vars => MeterInv'
    BY TypeStep, UsageStep, PartitionStep, SumsStep, TracedStep, RecentStep DEF MeterInv
  <1> QED BY <1>1, MeterInit, PTL DEF Spec

(* No call's answer reaches its agent without its usage row, no usage row   *)
(* is written for a call that failed, and while the pruner keeps up and no  *)
(* write fails every attempt leaves a trace with the status it ended with.  *)
THEOREM CallsAccountedHolds == Spec => []CallsAccounted
  <1>1. MeterInv => CallsAccounted
    BY DEF MeterInv, CallsAccounted, UsageKept, AnswerIsMetered, Metered, MaybeMetered, TypeOK
  <1> QED BY <1>1, MeterInvariant, PTL

(* Whatever the retention and the length of a month, dropping partitions by *)
(* the month never takes a trace that is younger than the retention.        *)
THEOREM RecentTraceKeptHolds == Spec => []RecentTraceKept
  <1>1. MeterInv => RecentTraceKept
    BY DEF MeterInv
  <1> QED BY <1>1, MeterInvariant, PTL

(* When the roll-ups are over, the task's spend is what its rows add up to, *)
(* unless a cancellation wrote it or a write failed; it is never more.      *)
THEOREM SpentIsTotalHolds == Spec => []SpentIsTotal
  <1>1. MeterInv => SpentIsTotal
    BY DEF MeterInv, SumsKept, SpentIsTotal
  <1> QED BY <1>1, MeterInvariant, PTL

-----------------------------------------------------------------------------
(* The turns: the inductive invariant, in parts. *)

(* Where a handling stands before it has a draft, before its plan is routed, *)
(* and once it has a thread.                                                *)
Undrafted == {"idle", "queued", "creating", "triage", "opening", "thinking",
              "answering", "planning"}
Unrouted == Undrafted \cup {"vetting", "redrafting", "routing", "running"}
Placed == {"triage", "opening", "thinking", "answering", "planning", "vetting",
           "redrafting", "routing", "running", "closing", "closed", "sending",
           "replied"}

(* The draft in hand is the one its stage says; a rejected one is followed  *)
(* by a second before anything runs.                                        *)
DraftKept(h) ==
  LET t == turn[h] IN
  /\ t.stage \in Undrafted => t.draft.no = 0 /\ t.rejected = 0
  /\ t.stage = "vetting" => t.draft.no = 1 /\ t.rejected = 0
  /\ t.stage = "redrafting" => t.draft.no = 1
  /\ t.stage \in {"routing", "running"} =>
       t.draft.no # 0 /\ t.draft.no # t.rejected
  /\ t.stage \in Unrouted => t.ran = 0
  /\ t.ran > 0 => t.ran # t.rejected

(* A turn of the web is routed once: it has no task before.                 *)
TaskKept(h) ==
  LET t == turn[h] IN
  /\ t.stage = "idle" \/ (t.web /\ t.stage \in Unrouted) => ~task[h]
  /\ task[h] /\ t.web /\ InFlight(h) => ~t.draft.needsUser

PlansKept == \A h \in Turn : DraftKept(h) /\ TaskKept(h)

ThreadsFinite == IsFiniteSet({t \in Thread : thread[t] # "absent"})

(* A handling that stands somewhere has a thread, which may be gone since;  *)
(* finitely many were ever made.                                            *)
ThreadsKept ==
  /\ ThreadsFinite
  /\ \A h \in Turn : turn[h].stage \in Placed =>
       turn[h].thread \in Thread /\ thread[turn[h].thread] # "absent"

(* The row h writes, and the request a reply answers.                       *)
RowOf(h, role) == [role |-> role, turn |-> h, thread |-> turn[h].thread]
RequestOf(row) == [row EXCEPT !.role = "user"]

(* Before a handling appended its request, once it did, and once it failed. *)
Unasked == {"idle", "queued", "creating", "triage", "opening", "planning", "vetting",
            "redrafting", "routing", "running", "closing"}
Asked == {"thinking", "answering", "closed"}
Gone == {"failed", "apologised", "silent", "abandoned", "lost"}

(* The request is appended before the reply, in one thread.                 *)
RequestKept ==
  /\ \A h \in Turn : turn[h].stage \in Asked =>
       \E i \in DOMAIN rows : rows[i] = RowOf(h, "user")
  /\ \A i \in DOMAIN rows : rows[i].role = "assistant" =>
       \E j \in DOMAIN rows : j < i /\ rows[j] = RequestOf(rows[i])

(* As long as nothing fails a handling appends each of its rows once.       *)
RowsOnce ==
  \A i, j \in DOMAIN rows :
     rows[i].turn = rows[j].turn /\ rows[i].role = rows[j].role => i = j

RowsOfTurn(h) ==
  /\ turn[h].stage \in Unasked => \A i \in DOMAIN rows : rows[i].turn # h
  /\ turn[h].stage \in Asked =>
       \A i \in DOMAIN rows : rows[i].turn = h => rows[i].role = "user"
  /\ turn[h].stage \in {"sending", "replied"} /\ thread[turn[h].thread] # "deleted" =>
       \A role \in {"user", "assistant"} : \E i \in DOMAIN rows : rows[i] = RowOf(h, role)

OnceKept == trouble = 0 => RowsOnce /\ \A h \in Turn : RowsOfTurn(h)

(* What a collection found empty has no message from before.                *)
CollectionKept ==
  /\ ~lost /\ \A i \in 1..known : rows[i].thread \notin doomed
  /\ \A t \in doomed : thread[t] # "absent"

TalkInv == TurnsTypeOK /\ ThreadsKept /\ RequestKept /\ OnceKept /\ CollectionKept

TurnsInv == TalkInv /\ PlansKept

Handling == [stage : Stage, msg : Turn \cup {0}, web : BOOLEAN,
             thread : Thread \cup {NoThread}, draft : Draft,
             rejected : {0, 1}, ran : 0..2]

LEMMA LeastThread ==
  ASSUME NEW T \in SUBSET Nat, T # {}
  PROVE  \E x \in T : \A y \in T : x <= y
  <1> DEFINE R == OpToRel(<, Nat)
  <1>1. R = {ss \in Nat \X Nat : ss[1] < ss[2]}
    BY DEF OpToRel
  <1>2. IsWellFoundedOn(R, Nat)
    BY NatLessThanWellFounded
  <1> HIDE DEF R
  <1>3. PICK x \in T : \A y \in T : <<y, x>> \notin R
    BY <1>2, WFMin
  <1>4. \A y \in T : ~(y < x)
    BY <1>1, <1>3
  <1> QED BY <1>3, <1>4

(* The thread that is made is one that was not there.                       *)
LEMMA NewThreadIsAbsent ==
  ASSUME \E t \in Thread : thread[t] = "absent"
  PROVE  NewThread \in Thread /\ thread[NewThread] = "absent"
  <1> DEFINE T == {t \in Thread : thread[t] = "absent"}
  <1>1. T \in SUBSET Nat /\ T # {}
    BY TurnsAssumption
  <1>2. PICK x \in T : \A y \in T : x <= y
    BY <1>1, LeastThread
  <1>3. x \in Thread /\ thread[x] = "absent" /\ \A u \in Thread : thread[u] = "absent" => x <= u
    BY <1>2
  <1> QED BY <1>3 DEF NewThread

(* A step of a handling touches that handling alone.                        *)
Moves(h) == turn' \in [Turn -> Handling] /\ \A g \in Turn \ {h} : turn'[g] = turn[g]

LEMMA HandlingsTyped ==
  ASSUME TurnsTypeOK
  PROVE  turn \in [Turn -> Handling]
  BY DEF TurnsTypeOK, Handling

LEMMA Recorded ==
  ASSUME TurnsTypeOK, NEW h \in Turn, NEW r \in Handling, turn' = [turn EXCEPT ![h] = r]
  PROVE  Moves(h) /\ turn'[h] = r
  <1> HIDE DEF Handling
  <1> QED BY HandlingsTyped DEF Moves

(* Where h went, the rest of its record as it was. *)
Goes(h, s) ==
  /\ Moves(h)
  /\ turn'[h].stage = s /\ turn'[h].web = turn[h].web /\ turn'[h].draft = turn[h].draft
  /\ turn'[h].rejected = turn[h].rejected /\ turn'[h].ran = turn[h].ran
  /\ turn'[h].thread = turn[h].thread

LEMMA GoesTo ==
  ASSUME TurnsTypeOK, NEW h \in Turn, NEW s \in Stage, To(h, s)
  PROVE  Goes(h, s)
  <1> DEFINE r == [turn[h] EXCEPT !.stage = s]
  <1>1. turn \in [Turn -> Handling] /\ turn[h] \in Handling
    BY HandlingsTyped
  <1>2. /\ r \in Handling
        /\ r.stage = s /\ r.web = turn[h].web /\ r.draft = turn[h].draft
        /\ r.rejected = turn[h].rejected /\ r.ran = turn[h].ran /\ r.thread = turn[h].thread
    BY <1>1 DEF Handling
  <1>3. turn' = [turn EXCEPT ![h] = r]
    BY <1>1 DEF To
  <1> HIDE DEF r
  <1> QED BY <1>2, <1>3, Recorded DEF Goes

LEMMA HandlingMoved ==
  ASSUME TurnsTypeOK, NEW h \in Turn, NEW s \in Stage, NEW d \in Draft,
         turn' = [turn EXCEPT ![h].draft = d, ![h].stage = s]
  PROVE  /\ Moves(h)
         /\ turn'[h].draft = d /\ turn'[h].stage = s /\ turn'[h].web = turn[h].web
         /\ turn'[h].thread = turn[h].thread /\ turn'[h].rejected = turn[h].rejected
         /\ turn'[h].ran = turn[h].ran
  <1> DEFINE r == [turn[h] EXCEPT !.draft = d, !.stage = s]
  <1>1. turn \in [Turn -> Handling] /\ turn[h] \in Handling
    BY HandlingsTyped
  <1>2. /\ r \in Handling
        /\ r.stage = s /\ r.web = turn[h].web /\ r.draft = d
        /\ r.rejected = turn[h].rejected /\ r.ran = turn[h].ran /\ r.thread = turn[h].thread
    BY <1>1 DEF Handling
  <1>3. turn' = [turn EXCEPT ![h] = r]
    BY <1>1
  <1> HIDE DEF r
  <1> QED BY <1>2, <1>3, Recorded

LEMMA GoesToEnd ==
  ASSUME TurnsTypeOK, NEW h \in Turn, NEW s \in Stage, End(h, s)
  PROVE  /\ Moves(h)
         /\ turn'[h].stage = s /\ turn'[h].web = turn[h].web /\ turn'[h].draft = NoDraft
         /\ turn'[h].rejected = 0 /\ turn'[h].ran = 0 /\ turn'[h].thread = turn[h].thread
  <1>1. NoDraft \in Draft
    BY DEF NoDraft, Draft
  <1>2. PICK x \in {0, 1}, y \in 0..2, d \in Draft : x = 0 /\ y = 0 /\ d = NoDraft
    BY <1>1
  <1> DEFINE r == [turn[h] EXCEPT !.stage = s, !.draft = d, !.rejected = x, !.ran = y]
  <1>3. turn \in [Turn -> Handling] /\ turn[h] \in Handling
    BY HandlingsTyped
  <1>4. /\ r \in Handling
        /\ r.draft = d /\ r.stage = s /\ r.web = turn[h].web
        /\ r.thread = turn[h].thread /\ r.rejected = x /\ r.ran = y
    BY <1>3 DEF Handling
  <1>5. turn' = [turn EXCEPT ![h] = r]
    BY <1>2, <1>3 DEF End
  <1> HIDE DEF r
  <1> QED BY <1>2, <1>4, <1>5, Recorded

LEMMA Redrafts ==
  ASSUME TurnsTypeOK, NEW h \in Turn, NEW next \in Stage, CallPlanner(h, next)
  PROVE  \/ /\ Moves(h)
            /\ turn'[h].stage = next /\ turn'[h].web = turn[h].web
            /\ turn'[h].draft.no = turn[h].draft.no + 1
            /\ turn'[h].rejected = turn[h].rejected /\ turn'[h].ran = turn[h].ran
            /\ turn'[h].thread = turn[h].thread
         \/ Goes(h, "failed")
  <1>1. CASE To(h, "failed")
    BY <1>1, GoesTo DEF Stage
  <1>2. CASE ~To(h, "failed")
    <2>1. PICK d \in Draft : d.no = turn[h].draft.no + 1
                 /\ turn' = [turn EXCEPT ![h].draft = d, ![h].stage = next]
      BY <1>2 DEF CallPlanner
    <2>2. /\ Moves(h)
          /\ turn'[h].draft = d /\ turn'[h].stage = next /\ turn'[h].web = turn[h].web
          /\ turn'[h].thread = turn[h].thread /\ turn'[h].rejected = turn[h].rejected
          /\ turn'[h].ran = turn[h].ran
      BY <2>1, HandlingMoved
    <2>3. d.no = turn[h].draft.no + 1
      BY <2>1
    <2> QED BY <2>2, <2>3
  <1> QED BY <1>1, <1>2

(* The other steps of a handling. *)
Chose(h, s, t) == turn' = [turn EXCEPT ![h].stage = s, ![h].thread = t]

LEMMA Chooses ==
  ASSUME TurnsTypeOK, NEW h \in Turn, NEW s \in Stage, NEW t \in Thread \cup {NoThread},
         Chose(h, s, t)
  PROVE  /\ Moves(h)
         /\ turn'[h].stage = s /\ turn'[h].web = turn[h].web /\ turn'[h].draft = turn[h].draft
         /\ turn'[h].rejected = turn[h].rejected /\ turn'[h].ran = turn[h].ran
         /\ turn'[h].thread = t
  <1> DEFINE r == [turn[h] EXCEPT !.stage = s, !.thread = t]
  <1>1. turn \in [Turn -> Handling] /\ turn[h] \in Handling
    BY HandlingsTyped
  <1>2. /\ r \in Handling
        /\ r.stage = s /\ r.web = turn[h].web /\ r.draft = turn[h].draft
        /\ r.rejected = turn[h].rejected /\ r.ran = turn[h].ran /\ r.thread = t
    BY <1>1 DEF Handling
  <1>3. turn' = [turn EXCEPT ![h] = r]
    BY <1>1 DEF Chose
  <1> HIDE DEF r
  <1> QED BY <1>2, <1>3, Recorded

LEMMA Receives ==
  ASSUME TurnsTypeOK, NEW h \in Turn, NEW s \in Stage, NEW m \in Turn \cup {0}, NEW w \in BOOLEAN,
         turn' = [turn EXCEPT ![h] = [@ EXCEPT !.stage = s, !.msg = m, !.web = w]]
  PROVE  /\ Moves(h)
         /\ turn'[h].stage = s /\ turn'[h].web = w /\ turn'[h].draft = turn[h].draft
         /\ turn'[h].rejected = turn[h].rejected /\ turn'[h].ran = turn[h].ran
         /\ turn'[h].thread = turn[h].thread
  <1> DEFINE r == [turn[h] EXCEPT !.stage = s, !.msg = m, !.web = w]
  <1>1. turn \in [Turn -> Handling] /\ turn[h] \in Handling
    BY HandlingsTyped
  <1>2. /\ r \in Handling
        /\ r.stage = s /\ r.web = w /\ r.draft = turn[h].draft
        /\ r.rejected = turn[h].rejected /\ r.ran = turn[h].ran /\ r.thread = turn[h].thread
    BY <1>1 DEF Handling
  <1>3. turn' = [turn EXCEPT ![h] = r]
    BY <1>1
  <1> HIDE DEF r
  <1> QED BY <1>2, <1>3, Recorded

LEMMA IsVetted ==
  ASSUME TurnsTypeOK, NEW h \in Turn, NEW s \in Stage, NEW x \in {0, 1},
         turn' = [turn EXCEPT ![h].stage = s, ![h].rejected = x]
  PROVE  /\ Moves(h)
         /\ turn'[h].stage = s /\ turn'[h].web = turn[h].web /\ turn'[h].draft = turn[h].draft
         /\ turn'[h].rejected = x /\ turn'[h].ran = turn[h].ran
         /\ turn'[h].thread = turn[h].thread
  <1> DEFINE r == [turn[h] EXCEPT !.stage = s, !.rejected = x]
  <1>1. turn \in [Turn -> Handling] /\ turn[h] \in Handling
    BY HandlingsTyped
  <1>2. /\ r \in Handling
        /\ r.stage = s /\ r.web = turn[h].web /\ r.draft = turn[h].draft
        /\ r.rejected = x /\ r.ran = turn[h].ran /\ r.thread = turn[h].thread
    BY <1>1 DEF Handling
  <1>3. turn' = [turn EXCEPT ![h] = r]
    BY <1>1
  <1> HIDE DEF r
  <1> QED BY <1>2, <1>3, Recorded

LEMMA HasRun ==
  ASSUME TurnsTypeOK, NEW h \in Turn, NEW s \in Stage, NEW n \in 0..2,
         turn' = [turn EXCEPT ![h].stage = s, ![h].ran = n]
  PROVE  /\ Moves(h)
         /\ turn'[h].stage = s /\ turn'[h].web = turn[h].web /\ turn'[h].draft = turn[h].draft
         /\ turn'[h].rejected = turn[h].rejected /\ turn'[h].ran = n
         /\ turn'[h].thread = turn[h].thread
  <1> DEFINE r == [turn[h] EXCEPT !.stage = s, !.ran = n]
  <1>1. turn \in [Turn -> Handling] /\ turn[h] \in Handling
    BY HandlingsTyped
  <1>2. /\ r \in Handling
        /\ r.stage = s /\ r.web = turn[h].web /\ r.draft = turn[h].draft
        /\ r.rejected = turn[h].rejected /\ r.ran = n /\ r.thread = turn[h].thread
    BY <1>1 DEF Handling
  <1>3. turn' = [turn EXCEPT ![h] = r]
    BY <1>1
  <1> HIDE DEF r
  <1> QED BY <1>2, <1>3, Recorded

(* A worker runs the job again, or nobody does.                             *)
LEMMA StopMoves ==
  ASSUME TurnsTypeOK, NEW h \in Turn, Stop(h)
  PROVE  /\ Moves(h) /\ ~turn[h].web /\ turn'[h].web = turn[h].web
         /\ turn'[h].stage \in {"queued", "lost"} /\ turn'[h].draft.no = 0
         /\ turn'[h].rejected = 0 /\ turn'[h].ran = 0
         /\ trouble' > 0
         /\ UNCHANGED <<workers, thread, rows, known, lost, old, doomed, fresh, task>>
  <1>1. PICK s \in Stage, t \in Thread \cup {NoThread}, d \in Draft, x \in {0, 1}, y \in 0..2 :
          /\ s = (IF workers THEN "queued" ELSE "lost") /\ t = NoThread /\ d = NoDraft
          /\ x = 0 /\ y = 0
    <2>1. NoDraft \in Draft
      BY DEF NoDraft, Draft
    <2>2. (IF workers THEN "queued" ELSE "lost") \in Stage
      BY DEF Stage, Final
    <2> QED BY <2>1, <2>2
  <1> DEFINE r == [turn[h] EXCEPT !.stage = s, !.thread = t, !.draft = d, !.rejected = x,
                                  !.ran = y]
  <1>2. turn \in [Turn -> Handling] /\ turn[h] \in Handling
    BY HandlingsTyped
  <1>3. /\ r \in Handling
        /\ r.draft = d /\ r.stage = s /\ r.web = turn[h].web
        /\ r.thread = t /\ r.rejected = x /\ r.ran = y
    BY <1>2 DEF Handling
  <1>7. turn' = [turn EXCEPT ![h] = r]
    BY <1>1, <1>2 DEF Stop
  <1> HIDE DEF r
  <1>4. ~turn[h].web /\ UNCHANGED <<workers, thread, rows, known, lost, old, doomed, fresh, task>>
    BY DEF Stop, MessageStore
  <1>5. s \in {"queued", "lost"} /\ d.no = 0 /\ x = 0 /\ y = 0
    BY <1>1 DEF NoDraft
  <1>6. trouble' > 0
    BY DEF Stop, Trouble, TurnsTypeOK
  <1>8. Moves(h) /\ turn'[h] = r
    BY <1>3, <1>7, Recorded
  <1> QED BY <1>3, <1>4, <1>5, <1>6, <1>8

(* Of finitely many threads one is the newest: a smallest set without one   *)
(* would have one but for any of its members.                               *)
LEMMA NewestExists ==
  ASSUME NEW S \in SUBSET Nat, IsFiniteSet(S), S # {}
  PROVE  Max(S) \in S /\ \A y \in S : y <= Max(S)
  <1> DEFINE HasMax(U) == \E x \in U : \A y \in U : x >= y
             N == {n \in Nat : \E U \in SUBSET S : U # {} /\ ~HasMax(U) /\ Cardinality(U) = n}
  <1>1. HasMax(S)
    <2> SUFFICES ASSUME ~HasMax(S) PROVE FALSE
      OBVIOUS
    <2>1. Cardinality(S) \in N
      BY FS_CardinalityType
    <2>2. PICK n \in N : \A k \in N : n <= k
      BY <2>1, LeastThread
    <2>3. PICK U \in SUBSET S : U # {} /\ ~HasMax(U) /\ Cardinality(U) = n
      BY <2>2
    <2>4. PICK x : x \in U
      BY <2>3
    <2> DEFINE V == U \ {x}
    <2>5. IsFiniteSet(U)
      BY <2>3, FS_Subset
    <2>6. Cardinality(V) = n - 1 /\ IsFiniteSet(V) /\ Cardinality(V) \in Nat
      BY <2>3, <2>4, <2>5, FS_RemoveElement, FS_CardinalityType
    <2>7. n \in Nat /\ U \subseteq Nat
      BY <2>2
    <2>8. HasMax(V) \/ V = {}
      <3> SUFFICES ASSUME ~HasMax(V), V # {} PROVE FALSE
        OBVIOUS
      <3>1. V \in SUBSET S
        OBVIOUS
      <3>2. Cardinality(V) \in N
        BY <2>6, <3>1
      <3> HIDE DEF N, V, HasMax
      <3> QED BY <3>2, <2>2, <2>6, <2>7
    <2>9. CASE V = {}
      <3>1. U = {x}
        BY <2>4, <2>9
      <3> QED BY <2>3, <2>7, <3>1
    <2>10. CASE HasMax(V)
      <3>1. PICK m \in V : \A y \in V : m >= y
        BY <2>10
      <3>2. CASE x >= m
        <4>1. \A y \in U : x >= y
          BY <3>1, <3>2, <2>4, <2>7
        <4> QED BY <4>1, <2>3, <2>4
      <3>3. CASE ~(x >= m)
        <4>1. \A y \in U : m >= y
          BY <3>1, <3>3, <2>4, <2>7
        <4> QED BY <4>1, <3>1, <2>3
      <3> QED BY <3>2, <3>3
    <2> QED BY <2>8, <2>9, <2>10
  <1>2. PICK x \in S : \A y \in S : x >= y
    BY <1>1
  <1>3. Max(S) \in S /\ \A y \in S : Max(S) >= y
    BY <1>2 DEF Max
  <1> QED BY <1>3

LEMMA LatestIsNewest ==
  ASSUME IsFiniteSet({t \in Thread : thread[t] # "absent"})
  PROVE  /\ LatestThread \in Thread \cup {NoThread}
         /\ LatestThread # NoThread => Live(LatestThread)
         /\ \A t \in Thread : Live(t) => LatestThread # NoThread /\ t <= LatestThread
  <1> DEFINE live == {t \in Thread : Live(t)}
  <1>1. live \in SUBSET {t \in Thread : thread[t] # "absent"}
    BY DEF Live
  <1>2. IsFiniteSet(live) /\ live \in SUBSET Nat
    BY <1>1, FS_Subset, TurnsAssumption
  <1>3. CASE live = {}
    BY <1>3 DEF LatestThread
  <1>4. CASE live # {}
    <2>1. Max(live) \in live /\ \A y \in live : y <= Max(live)
      BY <1>2, <1>4, NewestExists
    <2>2. LatestThread = Max(live)
      BY <1>4 DEF LatestThread
    <2>3. NoThread \notin Thread
      BY TurnsAssumption DEF NoThread
    <2> QED BY <2>1, <2>2, <2>3
  <1> QED BY <1>3, <1>4

-----------------------------------------------------------------------------
LEMMA ArrivesMoves ==
  ASSUME TurnsTypeOK, NEW h \in Turn, NEW m \in Turn, NEW w \in BOOLEAN, Arrives(h, m, w)
  PROVE  /\ Moves(h) /\ turn[h].stage = "idle" /\ turn'[h].stage = "queued" /\ turn'[h].web = w
         /\ turn'[h].draft = turn[h].draft /\ turn'[h].rejected = turn[h].rejected
         /\ turn'[h].ran = turn[h].ran /\ turn'[h].thread = turn[h].thread
         /\ UNCHANGED <<workers, thread, rows, known, lost, old, doomed, fresh, task>>
  <1>1. turn' = [turn EXCEPT ![h] = [@ EXCEPT !.stage = "queued", !.msg = m, !.web = w]]
    BY DEF Arrives
  <1>2. PICK s \in Stage, k \in Turn \cup {0} : s = "queued" /\ k = m
    BY DEF Stage
  <1>3. turn' = [turn EXCEPT ![h] = [@ EXCEPT !.stage = s, !.msg = k, !.web = w]]
    BY <1>1, <1>2
  <1>4. /\ Moves(h)
        /\ turn'[h].stage = s /\ turn'[h].web = w /\ turn'[h].draft = turn[h].draft
        /\ turn'[h].rejected = turn[h].rejected /\ turn'[h].ran = turn[h].ran
        /\ turn'[h].thread = turn[h].thread
    BY <1>3, Receives
  <1> QED BY <1>2, <1>4 DEF Arrives, At, MessageStore

LEMMA ChooseMoves ==
  ASSUME TurnsTypeOK, IsFiniteSet({t \in Thread : thread[t] # "absent"}),
         NEW h \in Turn, ChooseThread(h) \/ ContinueThread(h)
  PROVE  /\ Moves(h) /\ turn[h].stage = "queued"
         /\ turn'[h].web = turn[h].web /\ turn'[h].draft = turn[h].draft
         /\ turn'[h].rejected = turn[h].rejected /\ turn'[h].ran = turn[h].ran
         /\ \/ turn'[h].stage = "creating"
            \/ /\ turn'[h].stage = "triage" /\ turn'[h].thread \in Thread
               /\ thread[turn'[h].thread] # "absent"
         /\ UNCHANGED <<workers, thread, rows, known, lost, old, doomed, fresh, task, trouble>>
  <1>1. CASE ChooseThread(h)
    <2>1. LatestThread \in Thread \cup {NoThread}
          /\ (LatestThread # NoThread => Live(LatestThread))
      BY LatestIsNewest
    <2>2. PICK s \in Stage : s = IF LatestThread = NoThread THEN "creating" ELSE "triage"
      BY DEF Stage
    <2>3. Chose(h, s, LatestThread)
      BY <1>1, <2>2 DEF ChooseThread, Chose
    <2>4. /\ Moves(h) /\ turn'[h].stage = s /\ turn'[h].web = turn[h].web
          /\ turn'[h].draft = turn[h].draft
          /\ turn'[h].rejected = turn[h].rejected /\ turn'[h].ran = turn[h].ran
          /\ turn'[h].thread = LatestThread
      BY <2>1, <2>3, Chooses
    <2>5. s = "creating" \/ (s = "triage" /\ Live(LatestThread))
      BY <2>1, <2>2
    <2> QED BY <1>1, <2>4, <2>5 DEF ChooseThread, At, MessageStore, Live
  <1>2. CASE ContinueThread(h)
    <2>1. PICK t \in Thread : /\ thread[t] # "absent"
       /\ turn' = IF Live(t) THEN [turn EXCEPT ![h].stage = "triage", ![h].thread = t]
                  ELSE [turn EXCEPT ![h].stage = "creating"]
      BY <1>2 DEF ContinueThread
    <2>2. CASE Live(t)
      <3>1. "triage" \in Stage /\ t \in Thread \cup {NoThread}
        BY DEF Stage
      <3>2. Chose(h, "triage", t)
        BY <2>1, <2>2 DEF Chose
      <3>3. /\ Moves(h) /\ turn'[h].stage = "triage" /\ turn'[h].web = turn[h].web
            /\ turn'[h].draft = turn[h].draft
            /\ turn'[h].rejected = turn[h].rejected /\ turn'[h].ran = turn[h].ran
            /\ turn'[h].thread = t
        BY <3>1, <3>2, Chooses
      <3> QED BY <1>2, <2>1, <3>3 DEF ContinueThread, At, MessageStore
    <2>3. CASE ~Live(t)
      <3>1. "creating" \in Stage /\ To(h, "creating")
        BY <2>1, <2>3 DEF Stage, To
      <3>2. Goes(h, "creating")
        BY <3>1, GoesTo
      <3> QED BY <1>2, <3>2 DEF ContinueThread, At, MessageStore, Goes
    <2> QED BY <2>2, <2>3
  <1> QED BY <1>1, <1>2

-----------------------------------------------------------------------------
(* Drafts. *)

(* A step of h leaves the others as they were. *)
LEMMA OthersKeepPlan ==
  ASSUME NEW g \in Turn, DraftKept(g), TaskKept(g), turn'[g] = turn[g], task'[g] = task[g]
  PROVE  DraftKept(g)' /\ TaskKept(g)'
  BY DEF DraftKept, TaskKept, InFlight

LEMMA OneKeepsPlan ==
  ASSUME PlansKept, NEW h \in Turn, Moves(h), \A g \in Turn \ {h} : task'[g] = task[g],
         DraftKept(h)', TaskKept(h)'
  PROVE  PlansKept'
  <1> SUFFICES ASSUME NEW g \in Turn PROVE DraftKept(g)' /\ TaskKept(g)'
    BY DEF PlansKept
  <1>1. CASE g = h
    BY <1>1
  <1>2. CASE g # h
    BY <1>2, OthersKeepPlan DEF Moves, PlansKept
  <1> QED BY <1>1, <1>2

(* h before a step. *)
LEMMA PlanNow ==
  ASSUME TurnsTypeOK, PlansKept, NEW h \in Turn
  PROVE  /\ turn[h].draft.no \in 0..2 /\ turn[h].draft.needsUser \in BOOLEAN
         /\ turn[h].rejected \in {0, 1} /\ turn[h].ran \in 0..2 /\ turn[h].stage \in Stage
         /\ turn[h].web \in BOOLEAN /\ task[h] \in BOOLEAN
         /\ DraftKept(h) /\ TaskKept(h)
  BY DEF PlansKept, TurnsTypeOK, Draft

LEMMA PlansStep ==
  ASSUME TurnsTypeOK, ThreadsFinite, PlansKept, [TurnsNext]_turnVars
  PROVE  PlansKept'
  <1> USE DEF At, MessageStore
  <1>1. ASSUME NEW h \in Turn, NEW m \in Turn, NEW w \in BOOLEAN, Arrives(h, m, w) PROVE PlansKept'
    <2>1. DraftKept(h)' /\ TaskKept(h)'
      BY <1>1, ArrivesMoves, PlanNow DEF DraftKept, TaskKept, Undrafted, Unrouted, InFlight
    <2> QED BY <1>1, <2>1, ArrivesMoves, OneKeepsPlan
  <1>2. ASSUME NEW h \in Turn, ChooseThread(h) \/ ContinueThread(h) PROVE PlansKept'
    <2>1. DraftKept(h)' /\ TaskKept(h)'
      BY <1>2, ChooseMoves, PlanNow DEF DraftKept, TaskKept, Undrafted, Unrouted, InFlight, ThreadsFinite
    <2> QED BY <1>2, <2>1, ChooseMoves, OneKeepsPlan DEF ThreadsFinite
  <1>3. ASSUME NEW h \in Turn, NEW s \in Stage, Goes(h, s), UNCHANGED task, InFlight(h),
               \/ turn[h].stage \in Undrafted /\ s \in Undrafted \ {"idle"}
               \/ s \in {"failed", "closed", "sending"}
               \/ turn[h].stage = "routing" /\ s = "running"
        PROVE  PlansKept'
    <2>1. DraftKept(h)' /\ TaskKept(h)'
      <3>1. CASE turn[h].stage \in Undrafted /\ s \in Undrafted \ {"idle"}
        BY <1>3, <3>1, PlanNow DEF Goes, DraftKept, TaskKept, Undrafted, Unrouted, InFlight, Final
      <3>2. CASE s \in {"failed", "closed", "sending"}
        BY <1>3, <3>2, PlanNow DEF Goes, DraftKept, TaskKept, Undrafted, Unrouted, InFlight, Final
      <3>3. CASE turn[h].stage = "routing" /\ s = "running"
        BY <1>3, <3>3, PlanNow DEF Goes, DraftKept, TaskKept, Undrafted, Unrouted, InFlight, Final
      <3> QED BY <1>3, <3>1, <3>2, <3>3
    <2> QED BY <1>3, <2>1, OneKeepsPlan DEF Goes
  <1>4. ASSUME NEW h \in Turn, NEW s \in Stage, To(h, s), UNCHANGED task, InFlight(h),
               \/ turn[h].stage \in Undrafted /\ s \in Undrafted \ {"idle"}
               \/ s \in {"failed", "closed", "sending"}
               \/ turn[h].stage = "routing" /\ s = "running"
        PROVE  PlansKept'
    BY <1>3, <1>4, GoesTo
  <1>5. ASSUME NEW h \in Turn, NEW s \in Final, End(h, s), UNCHANGED task PROVE PlansKept'
    <2>1. s \in Stage
      BY DEF Stage
    <2>2. DraftKept(h)' /\ TaskKept(h)'
      BY <1>5, <2>1, GoesToEnd, PlanNow
         DEF DraftKept, TaskKept, Undrafted, Unrouted, InFlight, Final
    <2> QED BY <1>5, <2>1, <2>2, GoesToEnd, OneKeepsPlan
  <1>6. ASSUME NEW h \in Turn, DraftPlan(h) \/ Redraft(h) PROVE PlansKept'
    <2>1. PICK next \in {"vetting", "routing"} :
            /\ CallPlanner(h, next) /\ UNCHANGED task
            /\ \/ turn[h].stage = "planning" /\ next = "vetting"
               \/ turn[h].stage = "redrafting" /\ next = "routing"
      BY <1>6 DEF DraftPlan, Redraft
    <2>2. next \in Stage
      BY DEF Stage
    <2>3. CASE Goes(h, "failed")
      BY <1>3, <2>1, <2>3 DEF Stage, Final, InFlight
    <2>4. CASE /\ Moves(h)
               /\ turn'[h].stage = next /\ turn'[h].web = turn[h].web
               /\ turn'[h].draft.no = turn[h].draft.no + 1
               /\ turn'[h].rejected = turn[h].rejected /\ turn'[h].ran = turn[h].ran
      <3>1. DraftKept(h)' /\ TaskKept(h)'
        BY <2>1, <2>4, PlanNow DEF DraftKept, TaskKept, Undrafted, Unrouted, InFlight, Final
      <3> QED BY <2>1, <2>4, <3>1, OneKeepsPlan
    <2> QED BY <2>1, <2>2, <2>3, <2>4, Redrafts
  <1>7. ASSUME NEW h \in Turn, Vet(h) PROVE PlansKept'
    <2>1. PICK s \in Stage, r \in {0, 1} :
            /\ turn' = [turn EXCEPT ![h].stage = s, ![h].rejected = r]
            /\ \/ s = "routing" /\ r = 0
               \/ s = "redrafting" /\ r = 1
      <3>1. PICK approved \in BOOLEAN :
       turn' = [turn EXCEPT ![h].stage = IF approved THEN "routing" ELSE "redrafting",
                            ![h].rejected = IF approved THEN 0 ELSE 1]
        BY <1>7 DEF Vet
      <3>2. CASE approved
        BY <3>1, <3>2 DEF Stage
      <3>3. CASE ~approved
        BY <3>1, <3>3 DEF Stage
      <3> QED BY <3>2, <3>3
    <2>2. /\ Moves(h)
          /\ turn'[h].stage = s /\ turn'[h].web = turn[h].web /\ turn'[h].draft = turn[h].draft
          /\ turn'[h].rejected = r /\ turn'[h].ran = turn[h].ran
      BY <2>1, IsVetted
    <2>3. turn[h].stage = "vetting" /\ task' = task
      BY <1>7 DEF Vet
    <2>4. DraftKept(h)' /\ TaskKept(h)'
      BY <2>1, <2>2, <2>3, PlanNow DEF DraftKept, TaskKept, Undrafted, Unrouted, InFlight, Final
    <2> QED BY <2>2, <2>3, <2>4, OneKeepsPlan
  <1>8. ASSUME NEW h \in Turn, RoutePlan(h) PROVE PlansKept'
    <2>1. CASE Inline(h)
      BY <1>4, <1>8, <2>1 DEF RoutePlan, Stage, InFlight, Final
    <2>2. CASE ~Inline(h)
      <3>1. /\ Goes(h, "closing") /\ turn[h].stage = "routing"
            /\ task' = [task EXCEPT ![h] = TRUE]
            /\ turn[h].web => ~turn[h].draft.needsUser
        BY <1>8, <2>2, GoesTo DEF RoutePlan, Inline, Stage
      <3>2. DraftKept(h)' /\ TaskKept(h)'
        BY <3>1, PlanNow DEF Goes, DraftKept, TaskKept, Undrafted, Unrouted, InFlight, Final
      <3>3. \A g \in Turn \ {h} : task'[g] = task[g]
        BY <3>1 DEF TurnsTypeOK
      <3> QED BY <3>1, <3>2, <3>3, OneKeepsPlan DEF Goes
    <2> QED BY <2>1, <2>2
  <1>9. ASSUME NEW h \in Turn, RunPlan(h) PROVE PlansKept'
    <2>1. turn[h].stage = "running" /\ UNCHANGED task
      BY <1>9 DEF RunPlan
    <2>2. CASE To(h, "failed")
      BY <1>4, <2>1, <2>2 DEF Stage, InFlight, Final
    <2>3. CASE ~To(h, "failed")
      <3>1. PICK s \in Stage, n \in 0..2 : s = "closing" /\ n = turn[h].draft.no
        BY PlanNow DEF Stage
      <3>2. turn' = [turn EXCEPT ![h].stage = s, ![h].ran = n]
        BY <1>9, <2>3, <3>1 DEF RunPlan
      <3>3. /\ Moves(h)
            /\ turn'[h].stage = s /\ turn'[h].web = turn[h].web /\ turn'[h].draft = turn[h].draft
            /\ turn'[h].rejected = turn[h].rejected /\ turn'[h].ran = n
        BY <3>2, HasRun
      <3>4. DraftKept(h)' /\ TaskKept(h)'
        BY <2>1, <3>1, <3>3, PlanNow
           DEF DraftKept, TaskKept, Undrafted, Unrouted, InFlight, Final
      <3> QED BY <2>1, <3>3, <3>4, OneKeepsPlan
    <2> QED BY <2>2, <2>3
  <1>10. ASSUME NEW h \in Turn, CreateThread(h) PROVE PlansKept'
    <2>1. PICK s \in Stage, t \in Thread \cup {NoThread} : s = "triage" /\ t = NewThread
      BY <1>10, NewThreadIsAbsent DEF CreateThread, Stage
    <2>2. Chose(h, s, t)
      BY <1>10, <2>1 DEF CreateThread, Chose
    <2>3. /\ Moves(h)
          /\ turn'[h].stage = s /\ turn'[h].web = turn[h].web /\ turn'[h].draft = turn[h].draft
          /\ turn'[h].rejected = turn[h].rejected /\ turn'[h].ran = turn[h].ran
      BY <2>2, Chooses
    <2>4. turn[h].stage = "creating" /\ UNCHANGED task
      BY <1>10 DEF CreateThread
    <2>5. DraftKept(h)' /\ TaskKept(h)'
      BY <2>1, <2>3, <2>4, PlanNow DEF DraftKept, TaskKept, Undrafted, Unrouted, InFlight, Final
    <2> QED BY <2>3, <2>4, <2>5, OneKeepsPlan
  <1>11. ASSUME NEW h \in Turn, Stop(h) PROVE PlansKept'
    <2>1. DraftKept(h)' /\ TaskKept(h)'
      BY <1>11, StopMoves, PlanNow
         DEF DraftKept, TaskKept, Undrafted, Unrouted, InFlight, Final
    <2> QED BY <1>11, <2>1, StopMoves, OneKeepsPlan
  <1>12. ASSUME UNCHANGED <<turn, task>> PROVE PlansKept'
    BY <1>12 DEF PlansKept, DraftKept, TaskKept, InFlight
  <1>13. ASSUME NEW h \in Turn, Handle(h) PROVE PlansKept'
    <2>1. CASE Triage(h)
      BY <1>4, <2>1 DEF Triage, Stage, Final, InFlight, Undrafted
    <2>2. CASE QuickOpen(h)
      BY <1>4, <2>2 DEF QuickOpen, Stage, Final, InFlight, Undrafted
    <2>3. CASE QuickLoop(h)
      BY <1>4, <2>3 DEF QuickLoop, Stage, Final, InFlight, Undrafted
    <2>4. CASE QuickClose(h)
      BY <1>4, <2>4 DEF QuickClose, Stage, Final, InFlight, Undrafted
    <2>5. CASE PlanClose(h)
      <3>1. UNCHANGED task /\ InFlight(h) /\ (To(h, "closed") \/ To(h, "sending"))
        BY <2>5 DEF PlanClose, InFlight, Final, To
      <3> QED BY <1>4, <3>1 DEF Stage
    <2>6. CASE Send(h)
      <3>1. UNCHANGED task /\ InFlight(h) /\ (End(h, "replied") \/ To(h, "failed"))
        BY <2>6 DEF Send, InFlight, Final
      <3> QED BY <1>4, <1>5, <3>1 DEF Stage, Final
    <2>7. CASE ErrorEvent(h) \/ Apologise(h)
      BY <1>5, <2>7 DEF ErrorEvent, Apologise, Final
    <2> QED
      BY <1>2, <1>6, <1>7, <1>8, <1>9, <1>10, <1>13, <2>1, <2>2, <2>3, <2>4, <2>5, <2>6, <2>7
         DEF Handle
  <1>14. ASSUME NEW h \in Turn, Leave(h) PROVE PlansKept'
    BY <1>5, <1>14 DEF Leave, Final
  <1>15. CASE Reset \/ Age \/ Collect \/ CollectDone \/ UNCHANGED turnVars
    BY <1>12, <1>15 DEF Reset, Age, Collect, CollectDone, turnVars
  <1>16. ASSUME NEW h \in Turn, Post(h) \/ Push(h) \/ (\E g \in Turn : Redeliver(h, g))
         PROVE  PlansKept'
    <2>1. PICK m \in Turn, w \in BOOLEAN : Arrives(h, m, w)
      <3>1. \A g \in Turn : turn[g].msg \in Turn \cup {0}
        BY DEF TurnsTypeOK
      <3> QED BY <1>16, <3>1 DEF Post, Push, MessageEvent, SlashText, Update, Redeliver
    <2> QED BY <1>1, <2>1
  <1> QED BY <1>11, <1>13, <1>14, <1>15, <1>16 DEF TurnsNext

-----------------------------------------------------------------------------
(* The conversation. *)

(* A step of h that appends nothing. *)
Quiet(h) ==
  /\ Moves(h) /\ UNCHANGED <<thread, rows, known, lost, doomed>>
  /\ \/ turn'[h].stage \in Gone
     \/ /\ turn[h].stage \in Unasked /\ turn'[h].stage \in Unasked
        /\ turn'[h].stage \in Placed =>
             turn'[h].thread \in Thread /\ thread[turn'[h].thread] # "absent"
     \/ turn'[h].stage = "queued" /\ trouble' > 0
     \/ /\ \/ turn[h].stage = "thinking" /\ turn'[h].stage = "answering"
           \/ turn[h].stage = "sending" /\ turn'[h].stage = "replied"
           \/ /\ turn[h].stage \in {"closing", "closed"} /\ turn'[h].stage = "sending"
              /\ trouble' > 0 \/ ~Live(turn[h].thread)
        /\ turn'[h].thread = turn[h].thread
  /\ turn[h].stage = "queued" /\ turn'[h].stage = "triage" =>
       ChooseThread(h) \/ ContinueThread(h)

(* One that appends its request or its reply. *)
Says(h) ==
  /\ Moves(h) /\ UNCHANGED <<thread, known, lost, doomed>>
  /\ Live(turn[h].thread) /\ turn'[h].thread = turn[h].thread
  /\ \/ /\ turn[h].stage \in {"opening", "closing"} /\ turn'[h].stage \in {"thinking", "closed"}
        /\ rows' = Append(rows, RowOf(h, "user"))
     \/ /\ turn[h].stage \in {"answering", "closed"} /\ turn'[h].stage = "sending"
        /\ rows' = Append(rows, RowOf(h, "assistant"))

(* One that makes a thread, as /reset does. *)
Makes ==
  /\ UNCHANGED <<rows, known, lost, doomed>>
  /\ NewThread \in Thread /\ thread[NewThread] = "absent"
  /\ thread' = [thread EXCEPT ![NewThread] = "live"]
  /\ \/ UNCHANGED turn
     \/ \E h \in Turn : /\ Moves(h) /\ turn[h].stage = "creating"
                        /\ turn'[h].stage = "triage" /\ turn'[h].thread = NewThread

Idles == UNCHANGED <<turn, thread, rows, known, lost, doomed>>

TalkStep ==
  \/ \E h \in Turn : Quiet(h) \/ Says(h)
  \/ Makes \/ Idles \/ Collect \/ CollectDone

(* A step within one class of stages. *)
Onward(h, s) ==
  \/ s \in Gone
  \/ /\ turn[h].stage \in Unasked \ {"idle", "queued", "creating"} /\ s \in Unasked
  \/ turn[h].stage = "thinking" /\ s = "answering"
  \/ turn[h].stage = "sending" /\ s = "replied"

LEMMA OnwardIsQuiet ==
  ASSUME TurnsTypeOK, ThreadsKept, NEW h \in Turn, NEW s \in Stage, Onward(h, s),
         Moves(h), turn'[h].stage = s, turn'[h].thread = turn[h].thread,
         UNCHANGED <<thread, rows, known, lost, doomed>>
  PROVE  Quiet(h)
  BY DEF Onward, Quiet, ThreadsKept, Placed, Unasked, Gone

LEMMA StepsTalk ==
  ASSUME TurnsTypeOK, ThreadsKept, [TurnsNext]_turnVars
  PROVE  TalkStep
  <1> USE DEF At, MessageStore
  <1>0. ThreadsFinite
    BY DEF ThreadsKept, ThreadsFinite
  <1>1. ASSUME NEW h \in Turn, NEW s \in Stage, Onward(h, s), To(h, s),
               UNCHANGED <<thread, rows, known, lost, doomed>>
        PROVE  Quiet(h)
    BY <1>1, GoesTo, OnwardIsQuiet DEF Goes
  <1>2. ASSUME NEW h \in Turn, NEW s \in Final, End(h, s), Onward(h, s),
               UNCHANGED <<thread, rows, known, lost, doomed>>
        PROVE  Quiet(h)
    BY <1>2, GoesToEnd, OnwardIsQuiet DEF Stage
  <1>3. ASSUME NEW h \in Turn, NEW m \in Turn, NEW w \in BOOLEAN, Arrives(h, m, w) PROVE Quiet(h)
    BY <1>3, ArrivesMoves DEF Quiet, Unasked, Placed
  <1>4. ASSUME NEW h \in Turn, ChooseThread(h) \/ ContinueThread(h) PROVE Quiet(h)
    BY <1>0, <1>4, ChooseMoves DEF Quiet, Unasked, Placed, ThreadsFinite
  <1>5. ASSUME NEW h \in Turn, DraftPlan(h) \/ Redraft(h) PROVE Quiet(h)
    <2>1. PICK next \in {"vetting", "routing"} :
            /\ CallPlanner(h, next) /\ UNCHANGED <<thread, rows, known, lost, doomed>>
            /\ turn[h].stage \in {"planning", "redrafting"}
      BY <1>5 DEF DraftPlan, Redraft
    <2>2. next \in Stage /\ "failed" \in Stage
      BY DEF Stage
    <2>3. Onward(h, next) /\ Onward(h, "failed")
      BY <2>1 DEF Onward, Unasked, Gone
    <2>4. PICK s \in {next, "failed"} :
            Moves(h) /\ turn'[h].stage = s /\ turn'[h].thread = turn[h].thread
      BY <2>1, <2>2, Redrafts DEF Goes
    <2> QED BY <2>1, <2>2, <2>3, <2>4, OnwardIsQuiet
  <1>6. ASSUME NEW h \in Turn, Vet(h) PROVE Quiet(h)
    <2>1. PICK s \in Stage, r \in {0, 1} :
            /\ turn' = [turn EXCEPT ![h].stage = s, ![h].rejected = r]
            /\ s \in {"routing", "redrafting"}
      <3>1. PICK approved \in BOOLEAN :
       turn' = [turn EXCEPT ![h].stage = IF approved THEN "routing" ELSE "redrafting",
                            ![h].rejected = IF approved THEN 0 ELSE 1]
        BY <1>6 DEF Vet
      <3>2. CASE approved
        BY <3>1, <3>2 DEF Stage
      <3>3. CASE ~approved
        BY <3>1, <3>3 DEF Stage
      <3> QED BY <3>2, <3>3
    <2>2. Moves(h) /\ turn'[h].stage = s /\ turn'[h].thread = turn[h].thread
      BY <2>1, IsVetted
    <2>3. UNCHANGED <<thread, rows, known, lost, doomed>> /\ turn[h].stage = "vetting"
      BY <1>6 DEF Vet
    <2>4. Onward(h, s)
      BY <2>1, <2>3 DEF Onward, Unasked
    <2> QED BY <2>2, <2>3, <2>4, OnwardIsQuiet
  <1>7. ASSUME NEW h \in Turn, RunPlan(h) PROVE Quiet(h)
    <2>1. turn[h].stage = "running" /\ UNCHANGED <<thread, rows, known, lost, doomed>>
      BY <1>7 DEF RunPlan
    <2>2. CASE To(h, "failed")
      BY <1>1, <2>1, <2>2 DEF Stage, Onward, Gone
    <2>3. CASE ~To(h, "failed")
      <3>1. PICK s \in Stage, n \in 0..2 : s = "closing" /\ n = turn[h].draft.no
        BY DEF Stage, TurnsTypeOK, Draft
      <3>2. turn' = [turn EXCEPT ![h].stage = s, ![h].ran = n]
        BY <1>7, <2>3, <3>1 DEF RunPlan
      <3>3. Moves(h) /\ turn'[h].stage = s /\ turn'[h].thread = turn[h].thread
        BY <3>2, HasRun
      <3>4. Onward(h, s)
        BY <2>1, <3>1 DEF Onward, Unasked
      <3> QED BY <2>1, <3>3, <3>4, OnwardIsQuiet
    <2> QED BY <2>2, <2>3
  <1>8. ASSUME NEW h \in Turn, CreateThread(h) PROVE Makes
    <2>0. NewThread \in Thread /\ thread[NewThread] = "absent"
      BY <1>8, NewThreadIsAbsent DEF CreateThread
    <2>1. PICK s \in Stage, t \in Thread \cup {NoThread} : s = "triage" /\ t = NewThread
      BY <2>0 DEF Stage
    <2>2. Chose(h, s, t)
      BY <1>8, <2>1 DEF CreateThread, Chose
    <2>3. Moves(h) /\ turn'[h].stage = s /\ turn'[h].thread = t
      BY <2>2, Chooses
    <2> QED BY <1>8, <2>0, <2>1, <2>3 DEF Makes, CreateThread
  <1>9. ASSUME NEW h \in Turn, Stop(h) PROVE Quiet(h)
    BY <1>9, StopMoves DEF Quiet, Gone
  <1>10. ASSUME NEW h \in Turn, QuickOpen(h) PROVE Quiet(h) \/ Says(h)
    <2>1. CASE Live(turn[h].thread)
      <3>1. Goes(h, "thinking")
        BY <1>10, <2>1, GoesTo DEF QuickOpen, Stage
      <3> QED BY <1>10, <2>1, <3>1 DEF QuickOpen, Says, Goes, Append1, RowOf
    <2>2. CASE ~Live(turn[h].thread)
      BY <1>1, <1>10, <2>2 DEF QuickOpen, Onward, Gone, Stage
    <2> QED BY <2>1, <2>2
  <1>11. ASSUME NEW h \in Turn, QuickClose(h) PROVE Quiet(h) \/ Says(h)
    <2>1. CASE Live(turn[h].thread)
      <3>1. Goes(h, "sending")
        BY <1>11, <2>1, GoesTo DEF QuickClose, Stage
      <3> QED BY <1>11, <2>1, <3>1 DEF QuickClose, Says, Goes, Append1, RowOf
    <2>2. CASE ~Live(turn[h].thread)
      BY <1>1, <1>11, <2>2 DEF QuickClose, Onward, Gone, Stage
    <2> QED BY <2>1, <2>2
  <1>12. ASSUME NEW h \in Turn, PlanClose(h) PROVE Quiet(h) \/ Says(h)
    <2>0. turn[h].stage \in {"closing", "closed"} /\ UNCHANGED <<thread, known, lost, doomed>>
      BY <1>12 DEF PlanClose
    <2>1. CASE /\ Live(turn[h].thread)
               /\ Append1(h, IF At(h, "closing") THEN "user" ELSE "assistant")
               /\ turn' = [turn EXCEPT ![h].stage = IF @ = "closing" THEN "closed" ELSE "sending"]
      <3>1. CASE turn[h].stage = "closing"
        <4>1. To(h, "closed") /\ Append1(h, "user")
          BY <2>1, <3>1 DEF To
        <4>2. Goes(h, "closed")
          BY <4>1, GoesTo DEF Stage
        <4> QED BY <2>0, <2>1, <3>1, <4>1, <4>2 DEF Says, Goes, Append1, RowOf
      <3>2. CASE turn[h].stage = "closed"
        <4>1. To(h, "sending") /\ Append1(h, "assistant")
          BY <2>1, <3>2 DEF To
        <4>2. Goes(h, "sending")
          BY <4>1, GoesTo DEF Stage
        <4> QED BY <2>0, <2>1, <3>2, <4>1, <4>2 DEF Says, Goes, Append1, RowOf
      <3> QED BY <2>0, <3>1, <3>2
    <2>2. CASE /\ IF Live(turn[h].thread) THEN Trouble ELSE UNCHANGED trouble
               /\ To(h, "sending") /\ UNCHANGED rows
      <3>1. Goes(h, "sending")
        BY <2>2, GoesTo DEF Stage
      <3>2. trouble' > 0 \/ ~Live(turn[h].thread)
        BY <2>2 DEF Trouble, TurnsTypeOK
      <3> QED BY <2>0, <2>2, <3>1, <3>2 DEF Quiet, Goes
    <2> QED BY <1>12, <2>1, <2>2 DEF PlanClose
  <1>13. ASSUME NEW h \in Turn, Handle(h) PROVE TalkStep
    <2>1. CASE Triage(h)
      BY <1>1, <2>1 DEF Triage, Stage, Final, Onward, Gone, Unasked, TalkStep
    <2>2. CASE QuickLoop(h)
      BY <1>1, <2>2 DEF QuickLoop, Stage, Final, Onward, Gone, TalkStep
    <2>3. CASE RoutePlan(h)
      BY <1>1, <2>3 DEF RoutePlan, Stage, Onward, Unasked, TalkStep
    <2>4. CASE Send(h)
      BY <1>1, <1>2, <2>4 DEF Send, Onward, Gone, Final, Stage, TalkStep
    <2>5. CASE ErrorEvent(h) \/ Apologise(h)
      BY <1>2, <2>5 DEF ErrorEvent, Apologise, Final, Onward, Gone, TalkStep
    <2> QED
      BY <1>4, <1>5, <1>6, <1>7, <1>8, <1>10, <1>11, <1>12, <1>13, <2>1, <2>2, <2>3, <2>4, <2>5
         DEF Handle, TalkStep
  <1>14. ASSUME NEW h \in Turn, Leave(h) PROVE Quiet(h)
    BY <1>2, <1>14 DEF Leave, Final, Onward, Gone
  <1>15. ASSUME Reset PROVE Makes
    BY <1>15, NewThreadIsAbsent DEF Reset, Makes
  <1>16. ASSUME Age \/ UNCHANGED turnVars PROVE Idles
    BY <1>16 DEF Age, turnVars, Idles
  <1>17. ASSUME NEW h \in Turn, Post(h) \/ Push(h) \/ (\E g \in Turn : Redeliver(h, g))
         PROVE  Quiet(h)
    <2>1. PICK m \in Turn, w \in BOOLEAN : Arrives(h, m, w)
      <3>1. \A g \in Turn : turn[g].msg \in Turn \cup {0}
        BY DEF TurnsTypeOK
      <3> QED BY <1>17, <3>1 DEF Post, Push, MessageEvent, SlashText, Update, Redeliver
    <2> QED BY <1>3, <2>1
  <1> QED BY <1>9, <1>13, <1>14, <1>15, <1>16, <1>17 DEF TurnsNext, TalkStep

-----------------------------------------------------------------------------
(* Types. *)

MessageRow == [role : {"user", "assistant"}, turn : Turn, thread : Thread]

LEMMA RestOfTypes ==
  ASSUME TurnsTypeOK, [TurnsNext]_turnVars
  PROVE  /\ workers' \in BOOLEAN /\ task' \in [Turn -> BOOLEAN] /\ old' \subseteq Thread
         /\ fresh' \in Thread \cup {NoThread} /\ trouble' \in 0..MaxTrouble
         /\ trouble' = 0 => trouble = 0
  <1> USE DEF MessageStore
  <1>1. workers \in BOOLEAN /\ task \in [Turn -> BOOLEAN] /\ old \subseteq Thread
        /\ fresh \in Thread \cup {NoThread} /\ trouble \in 0..MaxTrouble /\ MaxTrouble \in Nat
    BY TurnsAssumption DEF TurnsTypeOK
  <1>2. ASSUME Trouble \/ UNCHANGED trouble
        PROVE  trouble' \in 0..MaxTrouble /\ (trouble' = 0 => trouble = 0)
    BY <1>1, <1>2 DEF Trouble
  <1>3. ASSUME NEW h \in Turn, Post(h) \/ Push(h) \/ (\E g \in Turn : Redeliver(h, g)) \/ Leave(h)
                               \/ Stop(h)
        PROVE  UNCHANGED <<workers, task, old, fresh>> /\ (Trouble \/ UNCHANGED trouble)
    BY <1>3 DEF Post, Push, MessageEvent, SlashText, Update, Redeliver, Arrives, Leave, Stop
  <1>4. ASSUME NEW h \in Turn, Handle(h)
        PROVE  UNCHANGED <<workers, old, fresh>> /\ (Trouble \/ UNCHANGED trouble)
               /\ task' \in [Turn -> BOOLEAN]
    <2>1. CASE RoutePlan(h)
      BY <1>1, <2>1 DEF RoutePlan
    <2>2. CASE ~RoutePlan(h)
      <3>1. UNCHANGED <<workers, old, fresh, task>>
        BY <1>4, <2>2 DEF Handle, ChooseThread, ContinueThread, CreateThread, Triage, QuickOpen,
           QuickLoop, QuickClose, DraftPlan, Vet, Redraft, RunPlan, PlanClose, Send, ErrorEvent,
           Apologise
      <3>2. Trouble \/ UNCHANGED trouble
        BY <1>4, <2>2 DEF Handle, ChooseThread, ContinueThread, CreateThread, Triage, QuickOpen,
           QuickLoop, QuickClose, DraftPlan, Vet, Redraft, RunPlan, PlanClose, Send, ErrorEvent,
           Apologise, CallPlanner
      <3> QED BY <1>1, <3>1, <3>2
    <2> QED BY <2>1, <2>2
  <1>5. CASE Reset
    <2>1. NewThread \in Thread
      BY <1>5, NewThreadIsAbsent DEF Reset
    <2> QED BY <1>1, <1>2, <1>5, <2>1 DEF Reset
  <1>6. CASE Age \/ Collect \/ CollectDone \/ UNCHANGED turnVars
    BY <1>1, <1>2, <1>6 DEF Age, Collect, CollectDone, turnVars
  <1> QED BY <1>1, <1>2, <1>3, <1>4, <1>5, <1>6 DEF TurnsNext

LEMMA RowIsTyped ==
  ASSUME TurnsTypeOK, NEW h \in Turn, Live(turn[h].thread), NEW role \in {"user", "assistant"}
  PROVE  RowOf(h, role) \in MessageRow
  BY DEF RowOf, MessageRow, Live

(* What a step does to the rows. *)
LEMMA RowsGrow ==
  ASSUME TurnsTypeOK, NEW h \in Turn, NEW role \in {"user", "assistant"}, Live(turn[h].thread),
         rows' = Append(rows, RowOf(h, role))
  PROVE  /\ rows' \in Seq(MessageRow) /\ Len(rows) \in Nat /\ Len(rows') = Len(rows) + 1
         /\ DOMAIN rows' = DOMAIN rows \cup {Len(rows) + 1} /\ DOMAIN rows = 1..Len(rows)
         /\ \A i \in DOMAIN rows : rows'[i] = rows[i]
         /\ rows'[Len(rows) + 1] = RowOf(h, role)
  <1>1. rows \in Seq(MessageRow) /\ RowOf(h, role) \in MessageRow
    BY RowIsTyped DEF TurnsTypeOK, MessageRow
  <1> HIDE DEF RowOf, MessageRow
  <1>2. Len(rows) \in Nat /\ DOMAIN rows = 1..Len(rows)
    BY <1>1, LenProperties
  <1>3. /\ rows' \in Seq(MessageRow) /\ Len(rows') = Len(rows) + 1
        /\ \A i \in 1..Len(rows) : rows'[i] = rows[i]
        /\ rows'[Len(rows) + 1] = RowOf(h, role)
    BY <1>1, AppendProperties
  <1>4. DOMAIN rows' = 1..(Len(rows) + 1)
    BY <1>3, LenProperties
  <1>5. 1..(Len(rows) + 1) = (1..Len(rows)) \cup {Len(rows) + 1}
    BY <1>2
  <1> QED BY <1>2, <1>3, <1>4, <1>5

LEMMA MessagesTyped ==
  ASSUME TurnsTypeOK
  PROVE  /\ rows \in Seq(MessageRow) /\ Len(rows) \in Nat /\ DOMAIN rows = 1..Len(rows)
         /\ \A i \in DOMAIN rows : rows[i] \in MessageRow
         /\ known \in 0..Len(rows)
  <1>1. rows \in Seq(MessageRow)
    BY DEF TurnsTypeOK, MessageRow
  <1> HIDE DEF MessageRow
  <1> QED BY <1>1, LenProperties, ElementOfSeq DEF TurnsTypeOK

LEMMA TypesStep ==
  ASSUME TurnsTypeOK, ThreadsKept, [TurnsNext]_turnVars
  PROVE  TurnsTypeOK'
  <1>1. TalkStep
    BY StepsTalk
  <1>2. turn \in [Turn -> Handling] /\ thread \in [Thread -> {"absent", "live", "deleted"}]
        /\ rows \in Seq(MessageRow) /\ Len(rows) \in Nat
        /\ known \in 0..Len(rows) /\ lost \in BOOLEAN /\ doomed \subseteq Thread /\ old \subseteq Thread
    BY MessagesTyped DEF TurnsTypeOK, Handling
  <1>3. ASSUME turn' \in [Turn -> Handling], thread' \in [Thread -> {"absent", "live", "deleted"}],
               rows' \in Seq(MessageRow), known' \in 0..Len(rows'), lost' \in BOOLEAN,
               doomed' \subseteq Thread
        PROVE  TurnsTypeOK'
    BY <1>3, RestOfTypes DEF TurnsTypeOK, Handling, MessageRow
  <1> HIDE DEF Handling, MessageRow
  <1>4. ASSUME NEW h \in Turn, Quiet(h) PROVE TurnsTypeOK'
    BY <1>2, <1>3, <1>4 DEF Quiet, Moves
  <1>5. ASSUME NEW h \in Turn, Says(h) PROVE TurnsTypeOK'
    <2>1. PICK role \in {"user", "assistant"} : rows' = Append(rows, RowOf(h, role))
      BY <1>5 DEF Says
    <2>2. rows' \in Seq(MessageRow) /\ Len(rows') = Len(rows) + 1
      BY <1>5, <2>1, RowsGrow DEF Says
    <2>3. known' \in 0..Len(rows')
      BY <1>2, <1>5, <2>2 DEF Says
    <2> QED BY <1>2, <1>3, <1>5, <2>2, <2>3 DEF Says, Moves
  <1>6. CASE Makes
    <2>1. turn' \in [Turn -> Handling]
      BY <1>2, <1>6 DEF Makes, Moves
    <2>2. thread' \in [Thread -> {"absent", "live", "deleted"}]
      BY <1>2, <1>6 DEF Makes
    <2> QED BY <1>2, <1>3, <1>6, <2>1, <2>2 DEF Makes
  <1>7. CASE Idles
    BY <1>2, <1>3, <1>7 DEF Idles
  <1>8. CASE Collect
    <2>1. doomed' \subseteq Thread
      BY <1>2, <1>8 DEF Collect, EmptyThreads
    <2> QED BY <1>2, <1>3, <1>8, <2>1 DEF Collect
  <1>9. CASE CollectDone
    <2>1. thread' \in [Thread -> {"absent", "live", "deleted"}]
      BY <1>2, <1>9 DEF CollectDone
    <2>2. lost' \in BOOLEAN
      BY <1>2, <1>9 DEF CollectDone
    <2>3. known' \in 0..Len(rows') /\ doomed' \subseteq Thread
      BY <1>2, <1>9 DEF CollectDone
    <2> QED BY <1>2, <1>3, <1>9, <2>1, <2>2, <2>3 DEF CollectDone
  <1> QED BY <1>1, <1>4, <1>5, <1>6, <1>7, <1>8, <1>9 DEF TalkStep

-----------------------------------------------------------------------------
(* Threads. *)
LEMMA ThreadsStep ==
  ASSUME TurnsTypeOK, ThreadsKept, CollectionKept, [TurnsNext]_turnVars
  PROVE  ThreadsKept'
  <1>1. TalkStep
    BY StepsTalk
  <1>2. thread \in [Thread -> {"absent", "live", "deleted"}]
    BY DEF TurnsTypeOK
  <1> DEFINE Made == {t \in Thread : thread[t] # "absent"}
  <1>3. IsFiniteSet(Made)
    BY DEF ThreadsKept, ThreadsFinite
  <1>4. ASSUME \A t \in Thread : thread'[t] = "absent" <=> thread[t] = "absent" PROVE ThreadsFinite'
    <2>1. {t \in Thread : thread'[t] # "absent"} = Made
      BY <1>4
    <2> QED BY <1>3, <2>1 DEF ThreadsFinite
  <1>5. ASSUME NEW h \in Turn, Quiet(h) PROVE ThreadsKept'
    <2>1. turn'[h].stage \in Placed => turn'[h].thread \in Thread /\ thread[turn'[h].thread] # "absent"
      BY <1>5 DEF Quiet, ThreadsKept, Placed, Gone
    <2>2. \A g \in Turn \ {h} : turn'[g] = turn[g]
      BY <1>5 DEF Quiet, Moves
    <2>3. thread' = thread
      BY <1>5 DEF Quiet
    <2> QED BY <1>4, <2>1, <2>2, <2>3 DEF ThreadsKept
  <1>6. ASSUME NEW h \in Turn, Says(h) PROVE ThreadsKept'
    <2>1. turn'[h].thread \in Thread /\ thread[turn'[h].thread] # "absent"
      BY <1>6 DEF Says, Live
    <2>2. \A g \in Turn \ {h} : turn'[g] = turn[g]
      BY <1>6 DEF Says, Moves
    <2>3. thread' = thread
      BY <1>6 DEF Says
    <2> QED BY <1>4, <2>1, <2>2, <2>3 DEF ThreadsKept
  <1>7. CASE Makes
    <2>1. {t \in Thread : thread'[t] # "absent"} = Made \cup {NewThread}
      BY <1>2, <1>7 DEF Makes
    <2>2. ThreadsFinite'
      BY <1>3, <2>1, FS_AddElement DEF ThreadsFinite
    <2>3. \A t \in Thread : thread[t] # "absent" => thread'[t] # "absent"
      BY <1>2, <1>7 DEF Makes
    <2>4. thread'[NewThread] # "absent" /\ NewThread \in Thread
      BY <1>2, <1>7 DEF Makes
    <2>5. CASE UNCHANGED turn
      BY <2>2, <2>3, <2>5 DEF ThreadsKept
    <2>6. ASSUME NEW h \in Turn, Moves(h), turn'[h].stage = "triage", turn'[h].thread = NewThread
          PROVE  ThreadsKept'
      BY <2>2, <2>3, <2>4, <2>6 DEF ThreadsKept, Moves
    <2> QED BY <1>7, <2>5, <2>6 DEF Makes
  <1>8. CASE Idles \/ Collect
    BY <1>4, <1>8 DEF Idles, Collect, ThreadsKept
  <1>9. CASE CollectDone
    <2>1. \A t \in Thread : thread'[t] = "absent" <=> thread[t] = "absent"
      BY <1>9 DEF CollectDone, CollectionKept
    <2>2. turn' = turn
      BY <1>9 DEF CollectDone
    <2> QED BY <1>4, <2>1, <2>2 DEF ThreadsKept
  <1> QED BY <1>1, <1>5, <1>6, <1>7, <1>8, <1>9 DEF TalkStep

-----------------------------------------------------------------------------
(* Requests. *)

LEMMA ReplyAnswers ==
  ASSUME NEW h \in Turn
  PROVE  /\ RequestOf(RowOf(h, "assistant")) = RowOf(h, "user")
         /\ RowOf(h, "assistant").role = "assistant" /\ RowOf(h, "user").role = "user"
         /\ RowOf(h, "assistant").turn = h /\ RowOf(h, "user").turn = h
         /\ RowOf(h, "assistant").thread = turn[h].thread
         /\ RowOf(h, "user").thread = turn[h].thread
  BY DEF RequestOf, RowOf

(* A handling that keeps its thread writes the same rows. *)
LEMMA SameRows ==
  ASSUME NEW h \in Turn, turn'[h].thread = turn[h].thread
  PROVE  \A role \in {"user", "assistant"} : RowOf(h, role)' = RowOf(h, role)
  BY DEF RowOf

LEMMA RequestStep ==
  ASSUME TurnsTypeOK, ThreadsKept, RequestKept, [TurnsNext]_turnVars
  PROVE  RequestKept'
  <1>1. TalkStep
    BY StepsTalk
  <1> DEFINE Asks(h) == turn[h].stage \in Asked =>
                          \E i \in DOMAIN rows : rows[i] = RowOf(h, "user")
             Answered == \A i \in DOMAIN rows : rows[i].role = "assistant" =>
                           \E j \in DOMAIN rows : j < i /\ rows[j] = RequestOf(rows[i])
  <1>2. Answered /\ \A h \in Turn : Asks(h)
    BY DEF RequestKept
  <1>3. SUFFICES Answered' /\ \A h \in Turn : Asks(h)'
    BY DEF RequestKept
  <1>4. ASSUME NEW h \in Turn, turn'[h] = turn[h],
               \A i \in DOMAIN rows : i \in DOMAIN rows' /\ rows'[i] = rows[i]
        PROVE  Asks(h)'
    BY <1>2, <1>4, SameRows
  <1>5. ASSUME UNCHANGED rows, NEW h \in Turn, Moves(h), Asks(h)' PROVE Answered' /\ \A g \in Turn : Asks(g)'
    <2>1. Answered'
      BY <1>2, <1>5 DEF RequestOf
    <2>2. \A g \in Turn \ {h} : Asks(g)'
      BY <1>4, <1>5 DEF Moves
    <2> QED BY <2>1, <2>2, <1>5
  <1>6. ASSUME NEW h \in Turn, Quiet(h) PROVE Answered' /\ \A g \in Turn : Asks(g)'
    <2>1. CASE turn[h].stage = "thinking" /\ turn'[h].stage = "answering" /\ turn'[h].thread = turn[h].thread
      <3>1. PICK i \in DOMAIN rows : rows[i] = RowOf(h, "user")
        BY <1>2, <2>1 DEF Asked
      <3>2. Asks(h)'
        BY <1>6, <2>1, <3>1, SameRows DEF Quiet
      <3> QED BY <1>5, <1>6, <3>2 DEF Quiet
    <2>2. CASE turn'[h].stage \notin Asked
      BY <1>5, <1>6, <2>2 DEF Quiet
    <2> QED BY <1>6, <2>1, <2>2 DEF Quiet, Asked, Gone, Unasked
  <1>7. ASSUME NEW h \in Turn, Says(h) PROVE Answered' /\ \A g \in Turn : Asks(g)'
    <2>1. PICK role \in {"user", "assistant"} :
            /\ rows' = Append(rows, RowOf(h, role))
            /\ \/ role = "user" /\ turn'[h].stage \in {"thinking", "closed"}
               \/ role = "assistant" /\ turn[h].stage \in {"answering", "closed"}
                  /\ turn'[h].stage = "sending"
      BY <1>7 DEF Says
    <2> DEFINE n == Len(rows) + 1
    <2>2. /\ DOMAIN rows' = DOMAIN rows \cup {n} /\ DOMAIN rows = 1..Len(rows) /\ Len(rows) \in Nat
          /\ \A i \in DOMAIN rows : rows'[i] = rows[i]
          /\ rows'[n] = RowOf(h, role)
      BY <1>7, <2>1, RowsGrow DEF Says
    <2>3. Moves(h) /\ turn'[h].thread = turn[h].thread
      BY <1>7 DEF Says
    <2>4. \A g \in Turn \ {h} : Asks(g)'
      BY <1>4, <2>2, <2>3 DEF Moves
    <2>5. Asks(h)'
      <3>1. CASE role = "user"
        <4>1. RowOf(h, "user")' = RowOf(h, "user")
          BY <2>3, SameRows
        <4>2. rows'[n] = RowOf(h, "user") /\ n \in DOMAIN rows'
          BY <2>2, <3>1
        <4> QED BY <4>1, <4>2
      <3>2. CASE role = "assistant"
        BY <2>1, <3>2 DEF Asked
      <3> QED BY <3>1, <3>2
    <2>6. Answered'
      <3> SUFFICES ASSUME NEW i \in DOMAIN rows', rows'[i].role = "assistant"
                   PROVE  \E j \in DOMAIN rows' : j < i /\ rows'[j] = RequestOf(rows'[i])
        BY DEF RequestOf
      <3>1. CASE i \in DOMAIN rows
        <4>1. PICK j \in DOMAIN rows : j < i /\ rows[j] = RequestOf(rows[i])
          BY <1>2, <2>2, <3>1
        <4> QED BY <2>2, <3>1, <4>1
      <3>2. CASE i = n
        <4>1. role = "assistant"
          BY <2>2, <3>2, ReplyAnswers
        <4>2. turn[h].stage \in Asked
          BY <2>1, <4>1 DEF Asked
        <4>3. PICK j \in DOMAIN rows : rows[j] = RowOf(h, "user")
          BY <1>2, <4>2
        <4>4. rows'[i] = RowOf(h, "assistant")
          BY <2>2, <3>2, <4>1
        <4>5. rows'[j] = RequestOf(rows'[i]) /\ j \in DOMAIN rows'
          BY <2>2, <4>3, <4>4, ReplyAnswers
        <4>6. j < i
          BY <2>2, <3>2
        <4> QED BY <4>5, <4>6
      <3> QED BY <2>2, <3>1, <3>2
    <2> QED BY <2>4, <2>5, <2>6
  <1>8. CASE Makes
    <2>1. UNCHANGED rows
      BY <1>8 DEF Makes
    <2>2. CASE UNCHANGED turn
      BY <1>2, <2>1, <2>2 DEF RowOf, RequestOf
    <2>3. ASSUME NEW h \in Turn, Moves(h), turn'[h].stage = "triage"
          PROVE  Answered' /\ \A g \in Turn : Asks(g)'
      BY <1>5, <2>1, <2>3 DEF Asked
    <2> QED BY <1>8, <2>2, <2>3 DEF Makes
  <1>9. CASE Idles \/ Collect \/ CollectDone
    <2>1. UNCHANGED <<turn, rows>>
      BY <1>9 DEF Idles, Collect, CollectDone
    <2> QED BY <1>2, <2>1 DEF RowOf, RequestOf
  <1> QED BY <1>1, <1>6, <1>7, <1>8, <1>9 DEF TalkStep

-----------------------------------------------------------------------------
(* Each row once. *)
LEMMA OnceStep ==
  ASSUME TurnsTypeOK, ThreadsKept, CollectionKept, RequestKept, OnceKept, [TurnsNext]_turnVars
  PROVE  OnceKept'
  <1>1. TalkStep
    BY StepsTalk
  <1> SUFFICES ASSUME trouble' = 0 PROVE RowsOnce' /\ \A h \in Turn : RowsOfTurn(h)'
    BY DEF OnceKept
  <1>2. RowsOnce /\ \A h \in Turn : RowsOfTurn(h)
    BY RestOfTypes DEF OnceKept
  <1>3. thread \in [Thread -> {"absent", "live", "deleted"}]
    BY DEF TurnsTypeOK
  <1>4. ASSUME UNCHANGED rows, NEW h \in Turn, turn'[h] = turn[h],
               turn[h].stage \in Placed => (thread[turn[h].thread] = "deleted"
                                             => thread'[turn[h].thread] = "deleted")
        PROVE  RowsOfTurn(h)'
    <2>1. \A role \in {"user", "assistant"} : RowOf(h, role)' = RowOf(h, role)
      BY <1>4, SameRows
    <2> QED BY <1>2, <1>4, <2>1 DEF RowsOfTurn, Placed
  <1>5. ASSUME UNCHANGED rows PROVE RowsOnce'
    BY <1>2, <1>5 DEF RowsOnce
  <1>6. ASSUME NEW h \in Turn, Quiet(h) PROVE RowsOnce' /\ \A g \in Turn : RowsOfTurn(g)'
    <2>1. \A g \in Turn \ {h} : RowsOfTurn(g)'
      BY <1>4, <1>6 DEF Quiet, Moves
    <2>2. \A role \in {"user", "assistant"} : turn'[h].thread = turn[h].thread => RowOf(h, role)' = RowOf(h, role)
      BY SameRows
    <2>3. ~(trouble' > 0)
      OBVIOUS
    <2>4. RowsOfTurn(h)'
      <3>1. CASE turn'[h].stage \in Gone
        BY <3>1 DEF RowsOfTurn, Gone, Unasked, Asked
      <3>2. CASE turn[h].stage \in Unasked /\ turn'[h].stage \in Unasked
        BY <1>2, <1>6, <3>2 DEF Quiet, RowsOfTurn, Unasked, Asked
      <3>3. CASE turn[h].stage = "thinking" /\ turn'[h].stage = "answering"
        BY <1>2, <1>6, <3>3 DEF Quiet, RowsOfTurn, Unasked, Asked
      <3>4. CASE turn[h].stage = "sending" /\ turn'[h].stage = "replied"
                 /\ turn'[h].thread = turn[h].thread
        BY <1>2, <1>6, <2>2, <3>4 DEF Quiet, RowsOfTurn, Unasked, Asked
      <3>5. CASE /\ turn[h].stage \in {"closing", "closed"} /\ turn'[h].stage = "sending"
                 /\ ~Live(turn[h].thread) /\ turn'[h].thread = turn[h].thread
        <4>1. thread'[turn'[h].thread] = "deleted"
          BY <1>3, <1>6, <3>5 DEF ThreadsKept, Placed, Live, Quiet
        <4> QED BY <3>5, <4>1 DEF RowsOfTurn, Unasked, Asked
      <3> QED BY <1>6, <2>3, <3>1, <3>2, <3>3, <3>4, <3>5 DEF Quiet
    <2> QED BY <1>5, <1>6, <2>1, <2>4 DEF Quiet
  <1>7. ASSUME NEW h \in Turn, Says(h) PROVE RowsOnce' /\ \A g \in Turn : RowsOfTurn(g)'
    <2>1. PICK role \in {"user", "assistant"} :
            /\ rows' = Append(rows, RowOf(h, role))
            /\ \/ role = "user" /\ turn[h].stage \in Unasked /\ turn'[h].stage \in Asked
               \/ role = "assistant" /\ turn[h].stage \in Asked
                  /\ turn'[h].stage = "sending"
      BY <1>7 DEF Says, Asked, Unasked
    <2> DEFINE n == Len(rows) + 1
    <2>2. /\ DOMAIN rows' = DOMAIN rows \cup {n} /\ DOMAIN rows = 1..Len(rows) /\ Len(rows) \in Nat
          /\ \A i \in DOMAIN rows : rows'[i] = rows[i]
          /\ rows'[n] = RowOf(h, role)
      BY <1>7, <2>1, RowsGrow DEF Says
    <2>3. Moves(h) /\ turn'[h].thread = turn[h].thread /\ thread' = thread
      BY <1>7 DEF Says
    <2>4. rows'[n].turn = h /\ rows'[n].role = role
      BY <2>2, ReplyAnswers
    <2>5. \A i \in DOMAIN rows : rows[i].turn = h => rows[i].role # role
      BY <1>2, <2>1 DEF RowsOfTurn, Asked, Unasked
    <2>6. RowsOnce'
      BY <1>2, <2>2, <2>4, <2>5 DEF RowsOnce
    <2>7. ASSUME NEW g \in Turn \ {h} PROVE RowsOfTurn(g)'
      <3>1. turn'[g] = turn[g]
        BY <2>3 DEF Moves
      <3>2. \A r \in {"user", "assistant"} : RowOf(g, r)' = RowOf(g, r)
        BY <3>1, SameRows
      <3> QED BY <1>2, <2>2, <2>3, <2>4, <3>1, <3>2 DEF RowsOfTurn
    <2>8. \A r \in {"user", "assistant"} : RowOf(h, r)' = RowOf(h, r)
      BY <2>3, SameRows
    <2>9. RowsOfTurn(h)'
      <3>1. CASE role = "user"
        <4>1. \A i \in DOMAIN rows' : rows'[i].turn = h => rows'[i].role = "user"
          BY <1>2, <2>1, <2>2, <2>4, <3>1 DEF RowsOfTurn
        <4> QED BY <2>1, <3>1, <4>1 DEF RowsOfTurn, Asked, Unasked
      <3>2. CASE role = "assistant"
        <4>1. turn[h].stage \in Asked /\ turn'[h].stage = "sending"
          BY <2>1, <3>2
        <4>2. PICK i \in DOMAIN rows : rows[i] = RowOf(h, "user")
          BY <4>1 DEF RequestKept
        <4>3. rows'[i] = RowOf(h, "user")' /\ i \in DOMAIN rows'
          BY <2>2, <2>8, <4>2
        <4>4. rows'[n] = RowOf(h, "assistant")' /\ n \in DOMAIN rows'
          BY <2>2, <2>8, <3>2
        <4> QED BY <4>1, <4>3, <4>4 DEF RowsOfTurn, Asked, Unasked
      <3> QED BY <3>1, <3>2
    <2> QED BY <2>6, <2>7, <2>9
  <1>8. CASE Makes
    <2>1. UNCHANGED rows
      BY <1>8 DEF Makes
    <2>2. \A t \in Thread : thread[t] = "deleted" => thread'[t] = "deleted"
      BY <1>3, <1>8 DEF Makes
    <2>3. ASSUME NEW g \in Turn, turn'[g] = turn[g] PROVE RowsOfTurn(g)'
      BY <1>4, <2>1, <2>2, <2>3 DEF ThreadsKept
    <2>4. CASE UNCHANGED turn
      BY <1>5, <2>1, <2>3, <2>4
    <2>5. ASSUME NEW h \in Turn, Moves(h), turn[h].stage = "creating", turn'[h].stage = "triage"
          PROVE  \A g \in Turn : RowsOfTurn(g)'
      <3>1. RowsOfTurn(h)'
        BY <1>2, <2>1, <2>5 DEF RowsOfTurn, Unasked, Asked
      <3> QED BY <2>3, <2>5, <3>1 DEF Moves
    <2> QED BY <1>5, <1>8, <2>1, <2>4, <2>5 DEF Makes
  <1>9. CASE Idles \/ Collect
    BY <1>4, <1>5, <1>9 DEF Idles, Collect
  <1>10. CASE CollectDone
    <2>1. UNCHANGED <<turn, rows>>
      BY <1>10 DEF CollectDone
    <2>2. \A t \in Thread : thread[t] = "deleted" => thread'[t] = "deleted"
      BY <1>10 DEF CollectDone
    <2> QED BY <1>4, <1>5, <2>1, <2>2 DEF ThreadsKept
  <1> QED BY <1>1, <1>6, <1>7, <1>8, <1>9, <1>10 DEF TalkStep

-----------------------------------------------------------------------------
(* Collections. *)
LEMMA CollectionStep ==
  ASSUME TurnsTypeOK, ThreadsKept, CollectionKept, [TurnsNext]_turnVars
  PROVE  CollectionKept'
  <1>1. TalkStep
    BY StepsTalk
  <1>2. /\ Len(rows) \in Nat /\ DOMAIN rows = 1..Len(rows) /\ known \in 0..Len(rows)
        /\ \A i \in DOMAIN rows : rows[i] \in MessageRow
    BY MessagesTyped
  <1>3. ASSUME NEW h \in Turn, Quiet(h) PROVE CollectionKept'
    BY <1>3 DEF Quiet, CollectionKept
  <1>4. ASSUME NEW h \in Turn, Says(h) PROVE CollectionKept'
    <2>1. PICK role \in {"user", "assistant"} : rows' = Append(rows, RowOf(h, role))
      BY <1>4 DEF Says
    <2>2. \A i \in DOMAIN rows : rows'[i] = rows[i]
      BY <1>4, <2>1, RowsGrow DEF Says
    <2>3. UNCHANGED <<thread, known, lost, doomed>>
      BY <1>4 DEF Says
    <2>4. \A i \in 1..known : rows'[i] = rows[i]
      BY <1>2, <2>2
    <2> QED BY <2>3, <2>4 DEF CollectionKept
  <1>5. CASE Makes
    <2>1. \A t \in doomed : t \in Thread
      BY DEF TurnsTypeOK
    <2>2. \A t \in Thread : thread[t] # "absent" => thread'[t] # "absent"
      BY <1>5 DEF Makes, TurnsTypeOK
    <2> QED BY <1>5, <2>1, <2>2 DEF Makes, CollectionKept
  <1>6. CASE Idles
    BY <1>6 DEF Idles, CollectionKept
  <1>7. CASE Collect
    <2>1. \A t \in doomed' : t \in Thread /\ thread[t] = "live"
                             /\ \A i \in Messages : rows[i].thread # t
      BY <1>7 DEF Collect, EmptyThreads, Live
    <2>2. ASSUME NEW i \in DOMAIN rows, rows[i].thread \in doomed' PROVE FALSE
      <3>1. i \in Messages
        BY <2>1, <2>2 DEF Messages, Live
      <3> QED BY <2>1, <2>2, <3>1
    <2> QED BY <1>2, <1>7, <2>1, <2>2 DEF Collect, CollectionKept
  <1>8. CASE CollectDone
    BY <1>8 DEF CollectDone, CollectionKept
  <1> QED BY <1>1, <1>3, <1>4, <1>5, <1>6, <1>7, <1>8 DEF TalkStep

-----------------------------------------------------------------------------
(* The theorems. *)

LEMMA TurnsInvInit == TurnsInit => TurnsInv
  <1> SUFFICES ASSUME TurnsInit PROVE TurnsInv
    OBVIOUS
  <1>1. \A h \in Turn : turn[h] = [stage |-> "idle", msg |-> 0, web |-> FALSE,
                                   thread |-> NoThread, draft |-> NoDraft, rejected |-> 0,
                                   ran |-> 0]
    BY DEF TurnsInit
  <1>2. TurnsTypeOK
    <2>1. NoDraft \in Draft
      BY DEF NoDraft, Draft
    <2>2. rows = << >> /\ known = 0 /\ Len(rows) = 0
      BY DEF TurnsInit
    <2>3. rows \in Seq([role : {"user", "assistant"}, turn : Turn, thread : Thread])
          /\ known \in 0..Len(rows)
      BY <2>2
    <2>4. turn \in [Turn -> [stage : Stage, msg : Turn \cup {0}, web : BOOLEAN,
                             thread : Thread \cup {NoThread}, draft : Draft,
                             rejected : {0, 1}, ran : 0..2]]
      BY <2>1 DEF TurnsInit, Stage, NoThread
    <2>5. thread \in [Thread -> {"absent", "live", "deleted"}] /\ task \in [Turn -> BOOLEAN]
      BY DEF TurnsInit
    <2>6. workers \in BOOLEAN /\ lost \in BOOLEAN /\ old \subseteq Thread /\ doomed \subseteq Thread
      BY DEF TurnsInit
    <2>7. fresh \in Thread \cup {NoThread} /\ trouble \in 0..MaxTrouble
      BY TurnsAssumption DEF TurnsInit
    <2> QED BY <2>3, <2>4, <2>5, <2>6, <2>7 DEF TurnsTypeOK
  <1>3. ThreadsKept
    <2>1. {t \in Thread : thread[t] # "absent"} = {}
      BY DEF TurnsInit
    <2> QED BY <1>1, <2>1, FS_EmptySet DEF ThreadsKept, ThreadsFinite, Placed
  <1>4. DOMAIN rows = {}
    BY DEF TurnsInit
  <1>5. RequestKept /\ OnceKept
    BY <1>1, <1>4 DEF RequestKept, OnceKept, RowsOnce, RowsOfTurn, Unasked, Asked
  <1>6. CollectionKept
    BY DEF TurnsInit, CollectionKept
  <1>7. PlansKept
    BY <1>1 DEF TurnsInit, PlansKept, DraftKept, TaskKept, NoDraft, InFlight, Undrafted, Unrouted,
       Final
  <1> QED BY <1>2, <1>3, <1>5, <1>6, <1>7 DEF TurnsInv, TalkInv

LEMMA TurnsInvStep == TurnsInv /\ [TurnsNext]_turnVars => TurnsInv'
  BY TypesStep, ThreadsStep, RequestStep, OnceStep, CollectionStep, PlansStep
     DEF TurnsInv, TalkInv, ThreadsKept

(* Over any run of the turns the inductive invariant holds.                 *)
THEOREM TurnsInvariant == TurnsSpec => []TurnsInv
  BY TurnsInvInit, TurnsInvStep, PTL DEF TurnsSpec

LEMMA ConversationIsSound == TurnsInv => ConversationOK
  <1> SUFFICES ASSUME TurnsInv PROVE ConversationOK
    OBVIOUS
  <1>1. TurnsTypeOK /\ ThreadsKept /\ RequestKept /\ OnceKept /\ CollectionKept
    BY DEF TurnsInv, TalkInv
  <1>2. \A i \in DOMAIN rows : rows[i] \in MessageRow
    BY <1>1, MessagesTyped
  <1>3. ReplyFollowsRequest
    <2> SUFFICES ASSUME NEW i \in Messages, rows[i].role = "assistant"
                 PROVE  \E j \in Messages : j < i /\ rows[j] = [rows[i] EXCEPT !.role = "user"]
      BY DEF ReplyFollowsRequest
    <2>1. i \in DOMAIN rows /\ Live(rows[i].thread)
      BY DEF Messages
    <2>2. PICK j \in DOMAIN rows : j < i /\ rows[j] = RequestOf(rows[i])
      BY <1>1, <2>1 DEF RequestKept
    <2>3. rows[j].thread = rows[i].thread
      BY <1>2, <2>1, <2>2 DEF RequestOf, MessageRow
    <2>4. j \in Messages
      BY <2>1, <2>2, <2>3 DEF Messages
    <2> QED BY <2>2, <2>4 DEF RequestOf
  <1>4. ReplyRemembered
    <2> SUFFICES ASSUME NEW h \in Turn, At(h, "replied"), trouble = 0,
                        thread[turn[h].thread] # "deleted", NEW role \in {"user", "assistant"}
                 PROVE  Cardinality({i \in Messages : rows[i].turn = h /\ rows[i].role = role}) = 1
      BY DEF ReplyRemembered
    <2>1. Live(turn[h].thread)
      BY <1>1 DEF At, ThreadsKept, Placed, TurnsTypeOK, Live
    <2>2. RowsOnce /\ RowsOfTurn(h)
      BY <1>1 DEF OnceKept
    <2>3. PICK i \in DOMAIN rows : rows[i] = RowOf(h, role)
      BY <2>2 DEF RowsOfTurn, At
    <2>4. i \in Messages /\ rows[i].turn = h /\ rows[i].role = role
      BY <2>1, <2>3 DEF Messages, RowOf
    <2>5. \A j \in Messages : rows[j].turn = h /\ rows[j].role = role => j = i
      BY <2>2, <2>4 DEF RowsOnce, Messages
    <2>6. {j \in Messages : rows[j].turn = h /\ rows[j].role = role} = {i}
      BY <2>4, <2>5
    <2> QED BY <2>6, FS_Singleton
  <1>5. MemorySurvivesCollection
    BY <1>1 DEF CollectionKept, MemorySurvivesCollection
  <1> QED BY <1>1, <1>3, <1>4, <1>5 DEF ConversationOK

(* Every reply in the conversation follows its own request, a reply that    *)
(* was sent without trouble is there once with its request, and no          *)
(* collection deletes a message it could have seen.                         *)
THEOREM ConversationIsOK == TurnsSpec => []ConversationOK
  BY TurnsInvariant, ConversationIsSound, PTL

LEMMA PlanIsVetted == TurnsInv => PlanAsVetted
  BY DEF TurnsInv, PlansKept, DraftKept, TaskKept, PlanAsVetted

(* A rejected draft is never the one that ran, and no plan known to ask the *)
(* user left the stream its question must be asked on.                      *)
THEOREM PlanIsAsVetted == TurnsSpec => []PlanAsVetted
  BY TurnsInvariant, PlanIsVetted, PTL

LEMMA AfterReset ==
  ASSUME TurnsInv, [TurnsNext]_turnVars, NEW h \in Turn, At(h, "queued"), At(h, "triage")',
         ~turn[h].web, Live(fresh)
  PROVE  turn'[h].thread >= fresh
  <1>1. TurnsTypeOK /\ ThreadsKept /\ TalkStep
    BY StepsTalk DEF TurnsInv, TalkInv
  <1>2. turn[h].stage = "queued" /\ turn'[h].stage = "triage"
    BY DEF At
  <1>3. ChooseThread(h) \/ ContinueThread(h)
    <2>1. \A g \in Turn : Moves(g) => g = h
      BY <1>2 DEF Moves
    <2>2. ASSUME NEW g \in Turn, Quiet(g) PROVE ChooseThread(h) \/ ContinueThread(h)
      BY <1>2, <2>1, <2>2 DEF Quiet
    <2>3. ~\E g \in Turn : Says(g)
      BY <1>2, <2>1 DEF Says
    <2>4. ~Makes /\ ~Idles /\ ~Collect /\ ~CollectDone
      BY <1>2, <2>1 DEF Makes, Idles, Collect, CollectDone
    <2> QED BY <1>1, <2>2, <2>3, <2>4 DEF TalkStep
  <1>4. ChooseThread(h)
    BY <1>3 DEF ContinueThread
  <1>5. LatestThread \in Thread \cup {NoThread} /\ fresh <= LatestThread
    BY <1>1, LatestIsNewest DEF ThreadsKept, ThreadsFinite, Live
  <1>6. PICK s \in Stage : s = IF LatestThread = NoThread THEN "creating" ELSE "triage"
    BY DEF Stage
  <1>7. Chose(h, s, LatestThread)
    BY <1>4, <1>6 DEF ChooseThread, Chose
  <1>8. turn'[h].thread = LatestThread
    BY <1>1, <1>5, <1>7, Chooses
  <1>9. fresh \in Nat /\ LatestThread \in Nat
    BY <1>5, TurnsAssumption DEF Live, NoThread
  <1> QED BY <1>5, <1>8, <1>9

(* A push message handled after /reset extends no thread older than the one *)
(* /reset made.                                                             *)
THEOREM ResetStartsAnew == TurnsSpec => ResetStartsAfresh
  <1> DEFINE Afresh == \A h \in Turn : At(h, "queued") /\ At(h, "triage")' /\ ~turn[h].web
                                         /\ Live(fresh) => turn'[h].thread >= fresh
  <1>1. TurnsInv /\ [TurnsNext]_turnVars => [Afresh]_turnVars
    BY AfterReset
  <1> QED BY <1>1, TurnsInvariant, PTL DEF TurnsSpec, ResetStartsAfresh
==============================================================================
