------------------------ MODULE TaskLifecycle_proofs ------------------------
EXTENDS TaskLifecycle, FiniteSetTheorems, TLAPS

(* The guarded UPDATE keeps the column `status` in its type. *)
LEMMA MoveTyped ==
  ASSUME StoreTypeOK, NEW t, NEW s \in Status, MoveIfLive(t, s)
  PROVE  status' \in [Task -> Status \cup {"absent"}]
  BY DEF StoreTypeOK, MoveIfLive

(* A new event row keeps the timeline in its type. *)
LEMMA AppendTyped ==
  ASSUME StoreTypeOK, NEW t, NEW e \in EventType, AppendEvent(t, e)
  PROVE  events' \in [Task -> [EventType -> Nat]]
  <1>1. CASE t \in Task
    <2>1. events[t] \in [EventType -> Nat]
      BY <1>1 DEF StoreTypeOK
    <2>2. [events[t] EXCEPT ![e] = @ + 1] \in [EventType -> Nat]
      BY <2>1
    <2>3. QED BY <1>1, <2>2 DEF StoreTypeOK, AppendEvent
  <1>2. CASE t \notin Task
    BY <1>2 DEF StoreTypeOK, AppendEvent
  <1>3. QED BY <1>1, <1>2

(* Every step keeps every variable of TaskLifecycle in its type. *)
LEMMA TypeStep == ASSUME TypeOK, [Next]_vars PROVE TypeOK'
  <1> USE DEF TypeOK, StoreTypeOK, QuestionsTypeOK, Status, EventType,
        Terminal, Kind, Stage, AskStage, CancelStage, ReplyStage,
        QuestionStatus, vars, runVars, cancelVars, askVars, replyVars,
        storeVars, rowVars, others, Goto, AskGoto, Fault
  <1>1. ASSUME NEW t \in Task, CreateRow(t)
       PROVE  TypeOK'
    <2>1. status' \in [Task -> Status \cup {"absent"}]
      BY <1>1 DEF CreateRow, InsertTask
    <2>2. run' \in [Task -> Stage]
      BY <1>1 DEF CreateRow
    <2>3. UNCHANGED <<events, spent, question, clock>>
      BY <1>1 DEF CreateRow
    <2>4. StoreTypeOK' /\ QuestionsTypeOK'
      BY <2>1, <2>3
    <2>5. UNCHANGED <<kind, want, attempts, accrued, delivered, cancel, cancelSum,
                      asker, owner, reply, target, faults>>
      BY <1>1 DEF CreateRow
    <2> HIDE DEF StoreTypeOK, QuestionsTypeOK
    <2>6. QED BY <2>2, <2>4, <2>5
  <1>2. ASSUME NEW t \in Task, RunStep(t)
       PROVE  TypeOK'
    <2>1. CASE CreateEvent(t)
      <3>1. events' \in [Task -> [EventType -> Nat]]
        BY <2>1, AppendTyped DEF CreateEvent
      <3>2. run' \in [Task -> Stage]
        <4>1. CASE kind[t] = "inline"
          BY <2>1, <4>1 DEF CreateEvent
        <4>2. CASE kind[t] # "inline"
          BY <2>1, <4>2, SMTT(30) DEF CreateEvent
        <4>3. QED BY <4>1, <4>2
      <3>3. attempts' \in [Task -> Nat]
        BY <2>1 DEF CreateEvent
      <3> QED BY <2>1, <3>1, <3>2, <3>3 DEF CreateEvent
    <2>2. CASE Enqueue(t)
      BY <2>2 DEF Enqueue
    <2>3. CASE TakeJob(t)
      BY <2>3 DEF TakeJob
    <2>4. CASE BeginRow(t)
      BY <2>4, MoveTyped DEF BeginRow, MarkStarted, AfterBegin
    <2>5. CASE BeginEvent(t)
      BY <2>5, AppendTyped DEF BeginEvent, AfterBegin
    <2>6. CASE Plan(t)
      <3>1. CASE Goto(t, "execute") /\ UNCHANGED want
        BY <2>6, <3>1 DEF Plan
      <3>2. CASE Goto(t, "finish") /\ want' = [want EXCEPT ![t] = "failed"]
        BY <2>6, <3>2 DEF Plan
      <3>3. QED BY <2>6, <3>1, <3>2 DEF Plan
    <2>7. ASSUME NEW outcome \in {"completed", "failed"},
                ExecuteEnds(t, outcome)
         PROVE  TypeOK'
      BY <2>7 DEF ExecuteEnds, Asking
    <2>8. CASE FinishRow(t)
      <3>1. status' \in [Task -> Status \cup {"absent"}]
        BY <2>8, MoveTyped DEF FinishRow, MarkCompleted, MarkFailed
      <3>2. QED BY <2>8, <3>1 DEF FinishRow
    <2>9. CASE FinishEvent(t)
      BY <2>9, AppendTyped DEF FinishEvent
    <2>10. CASE Rollup(t)
      BY <2>10 DEF Rollup, WriteSpent
    <2>11. CASE Deliver(t)
      <3>1. delivered' \in [Task -> Nat]
        BY <2>11 DEF Deliver
      <3>2. QED BY <2>11, <3>1 DEF Deliver
    <2>12. CASE Return(t)
      BY <2>12 DEF Return
    <2> QED BY <1>2, <2>1, <2>2, <2>3, <2>4, <2>5, <2>6, <2>7, <2>8, <2>9,
             <2>10, <2>11, <2>12 DEF RunStep
  <1>3. ASSUME NEW t \in Task, RunFault(t)
       PROVE  TypeOK'
    <2>1. CASE CreateFails(t)
      BY <2>1 DEF CreateFails
    <2>2. CASE TransitionLost(t)
      BY <2>2 DEF TransitionLost, AfterBegin
    <2>3. CASE RollupLost(t)
      BY <2>3 DEF RollupLost
    <2>4. CASE Crash(t)
      <3>1. run' \in [Task -> Stage] /\ faults' \in Nat
        BY <2>4 DEF Crash
      <3>2. asker' \in [Question -> AskStage]
        BY <2>4 DEF Crash
      <3>3. QED BY <2>4, <3>1, <3>2 DEF Crash
    <2> QED BY <1>3, <2>1, <2>2, <2>3, <2>4 DEF RunFault
  <1>4. ASSUME NEW t \in Task, CancelStep(t)
       PROVE  TypeOK'
    <2>1. CASE CancelRow(t)
      BY <2>1, MoveTyped DEF CancelRow, MarkCancelled
    <2>2. CASE CancelEvent(t)
      BY <2>2, AppendTyped DEF CancelEvent
    <2>3. CASE CancelReadsUsage(t)
      BY <2>3 DEF CancelReadsUsage
    <2>4. CASE CancelWritesSpent(t)
      BY <2>4 DEF CancelWritesSpent, WriteSpent
    <2>5. CASE CancelLost(t)
      BY <2>5 DEF CancelLost
    <2> QED BY <1>4, <2>1, <2>2, <2>3, <2>4, <2>5 DEF CancelStep
  <1>5. ASSUME NEW q \in Question, AskStep(q)
       PROVE  TypeOK'
    <2>1. CASE AskParks(q)
      BY <2>1, MoveTyped DEF AskParks, MarkAwaitingUser
    <2>2. CASE AskDelivers(q)
      BY <2>2, AppendTyped DEF AskDelivers
    <2>3. CASE WaitSeesAnswer(q)
      BY <2>3 DEF WaitSeesAnswer
    <2>4. CASE WaitTimesOut(q)
      BY <2>4 DEF WaitTimesOut
    <2>5. CASE TimeoutRow(q)
      BY <2>5 DEF TimeoutRow, MarkTimeout, Resolve
    <2>6. CASE TimeoutBlocks(q)
      BY <2>6, MoveTyped DEF TimeoutBlocks, MarkBlocked
    <2>7. CASE TimeoutEvent(q)
      BY <2>7, AppendTyped DEF TimeoutEvent
    <2>8. CASE ResumeRow(q)
      BY <2>8, MoveTyped DEF ResumeRow, MarkStarted
    <2>9. CASE ResumeEvent(q)
      BY <2>9, AppendTyped DEF ResumeEvent
    <2> QED BY <1>5, <2>1, <2>2, <2>3, <2>4, <2>5, <2>6, <2>7, <2>8, <2>9
             DEF AskStep
  <1>6. ASSUME NEW q \in Question, AskFault(q)
       PROVE  TypeOK'
    <2>1. CASE AskFails(q)
      BY <2>1 DEF AskFails
    <2>2. CASE TimeoutLost(q)
      BY <2>2 DEF TimeoutLost
    <2>3. CASE ResumeLost(q)
      BY <2>3 DEF ResumeLost
    <2> QED BY <1>6, <2>1, <2>2, <2>3 DEF AskFault
  <1>7. ASSUME NEW q \in Question, Time(q)
       PROVE  TypeOK'
    <2>1. CASE Expire(q)
      BY <2>1 DEF Expire
    <2>2. CASE Deadline(q)
      BY <2>2 DEF Deadline
    <2> QED BY <1>7, <2>1, <2>2 DEF Time
  <1>8. ASSUME NEW m \in Message, UserStep(m)
       PROVE  TypeOK'
    <2>1. CASE Receive(m)
      BY <2>1 DEF Receive, OpenForUser
    <2>2. CASE Answer(m)
      BY <2>2 DEF Answer, MarkAnswered, Told, Resolve
    <2>3. ASSUME NEW q \in Question, WebAnswer(m, q)
         PROVE  TypeOK'
      BY <2>3 DEF WebAnswer, MarkAnswered, Told, Resolve
    <2> QED BY <1>8, <2>1, <2>2, <2>3 DEF UserStep
  <1>9. ASSUME NEW q \in Question, NEW t \in Task, AskCreate(q, t)
       PROVE  TypeOK'
    BY <1>9 DEF AskCreate, InsertQuestion
  <1>10. CASE UNCHANGED vars
    BY <1>10
  <1> QED BY <1>1, <1>2, <1>3, <1>4, <1>5, <1>6, <1>7, <1>8, <1>9, <1>10
           DEF Next

(* The program starts with every variable in its type. *)
LEMMA InitTyped == Init => TypeOK
  BY NullsAssumption DEF Init, StoreInit, QuestionsInit, TypeOK, StoreTypeOK,
     QuestionsTypeOK, Status, EventType, Terminal, Kind, Stage, AskStage,
     CancelStage, ReplyStage, QuestionStatus

(* Every variable of TaskLifecycle keeps its type for ever. *)
THEOREM TypeInvariant == Spec => []TypeOK
  BY InitTyped, TypeStep, PTL DEF Spec

-----------------------------------------------------------------------------
(* The inductive invariant behind the safety theorems, one named part per   *)
(* idea; each part is kept by every step given the parts before it.         *)

(* A task has a row exactly from the moment its run exists. *)
RowFollowsRun == \A t \in Task : run[t] = "idle" <=> status[t] = "absent"

(* The rows that tell of an ending exist only after the ending, and whoever *)
(* is about to write one, the run or the cancel, is alone in that position. *)
EndedOnce ==
  \A t \in Task :
    LET untold == \A e \in Terminal : events[t][e] = 0 IN
    /\ status[t] \notin Terminal => cancel[t] = "idle" /\ run[t] # "finished" /\ untold
    /\ cancel[t] # "idle" => status[t] = "cancelled"
    /\ cancel[t] = "cancelled" => run[t] # "finished" /\ untold
    /\ run[t] = "finished" => status[t] = want[t] /\ untold

(* From the terminal transition on the row has ended, if no write was lost. *)
Settled ==
  faults = 0 =>
    \A t \in Task :
      run[t] \in {"finished", "rollup", "deliver", "ack", "done"} \/ delivered[t] > 0
        => status[t] \in Terminal

(* Every attempt after the first finds the pending event of the first. *)
PendingKept ==
  \A t \in Task : run[t] \notin {"idle", "inserted", "dead"} => events[t]["pending"] > 0

(* Who asks, and what an ask that has begun knows about its row. *)
AskersKnown ==
  \A q \in Question :
    /\ asker[q] = "idle" <=> question[q] = "absent"
    /\ asker[q] # "idle" => owner[q] \in Task /\ run[owner[q]] # "idle"
    /\ asker[q] \in {"answered", "resumed", "returned"} => question[q] = "answered"

(* OneReplyIsTaken without cardinalities, and where a matched reply points. *)
RepliesMatch ==
  /\ \A m \in Message : reply[m] = "matched" => target[m] \in Question /\ question[target[m]] # "absent"
  /\ \A q \in Question :
       /\ question[q] = "answered" => \E m \in Message : AckedBy(q) = {m}
       /\ question[q] # "answered" => AckedBy(q) = {}

(* A row exists from its INSERT on, and only then. *)
LEMMA RowFollowsRunStep ==
  ASSUME TypeOK, RowFollowsRun, [Next]_vars
  PROVE  RowFollowsRun'
  <1> USE DEF TypeOK, StoreTypeOK, RowFollowsRun, Goto, AskGoto, vars,
        runVars, cancelVars, askVars, replyVars, storeVars, rowVars, others
  <1>1. ASSUME NEW t \in Task, CreateRow(t)
       PROVE  RowFollowsRun'
    BY <1>1 DEF CreateRow, InsertTask
  <1>2. ASSUME NEW t \in Task, RunStep(t)
       PROVE  RowFollowsRun'
    <2>1. CASE CreateEvent(t)
      BY <2>1 DEF CreateEvent, AppendEvent
    <2>2. CASE Enqueue(t)
      BY <2>2 DEF Enqueue
    <2>3. CASE TakeJob(t)
      BY <2>3 DEF TakeJob
    <2>4. CASE BeginRow(t)
      BY <2>4 DEF BeginRow, MarkStarted, Live, AfterBegin, MoveIfLive,
         Terminal
    <2>5. CASE BeginEvent(t)
      BY <2>5 DEF BeginEvent, AppendEvent, AfterBegin
    <2>6. CASE Plan(t)
      BY <2>6 DEF Plan
    <2>7. ASSUME NEW outcome \in {"completed", "failed"},
                ExecuteEnds(t, outcome)
         PROVE  RowFollowsRun'
      BY <2>7 DEF ExecuteEnds, Asking, AskStage
    <2>8. CASE FinishRow(t)
      BY <2>8 DEF FinishRow, MarkCompleted, MarkFailed, Live, MoveIfLive,
         Terminal
    <2>9. CASE FinishEvent(t)
      BY <2>9 DEF FinishEvent, AppendEvent
    <2>10. CASE Rollup(t)
      BY <2>10 DEF Rollup, WriteSpent
    <2>11. CASE Deliver(t)
      BY <2>11 DEF Deliver
    <2>12. CASE Return(t)
      BY <2>12 DEF Return
    <2> QED BY <1>2, <2>1, <2>2, <2>3, <2>4, <2>5, <2>6, <2>7, <2>8, <2>9,
             <2>10, <2>11, <2>12 DEF RunStep
  <1>3. ASSUME NEW t \in Task, RunFault(t)
       PROVE  RowFollowsRun'
    <2>1. CASE CreateFails(t)
      BY <2>1 DEF CreateFails, Fault
    <2>2. CASE TransitionLost(t)
      BY <2>2 DEF TransitionLost, Fault, AfterBegin
    <2>3. CASE RollupLost(t)
      BY <2>3 DEF RollupLost, Fault
    <2>4. CASE Crash(t)
      BY <2>4 DEF Crash, Running, Asking, AskStage
    <2> QED BY <1>3, <2>1, <2>2, <2>3, <2>4 DEF RunFault
  <1>4. ASSUME NEW t \in Task, CancelStep(t)
       PROVE  RowFollowsRun'
    <2>1. CASE CancelRow(t)
      BY <2>1 DEF CancelRow, Live, MarkCancelled, Terminal, MoveIfLive
    <2>2. CASE CancelEvent(t)
      BY <2>2 DEF CancelEvent, AppendEvent
    <2>3. CASE CancelReadsUsage(t)
      BY <2>3 DEF CancelReadsUsage
    <2>4. CASE CancelWritesSpent(t)
      BY <2>4 DEF CancelWritesSpent, WriteSpent
    <2>5. CASE CancelLost(t)
      BY <2>5 DEF CancelLost, Fault
    <2> QED BY <1>4, <2>1, <2>2, <2>3, <2>4, <2>5 DEF CancelStep
  <1>5. ASSUME NEW q \in Question, AskStep(q)
       PROVE  RowFollowsRun'
    <2>1. CASE AskParks(q)
      BY <2>1 DEF AskParks, MarkAwaitingUser, MoveIfLive, Live, Terminal
    <2>2. CASE AskDelivers(q)
      BY <2>2 DEF AskDelivers, AppendEvent
    <2>3. CASE WaitSeesAnswer(q)
      BY <2>3 DEF WaitSeesAnswer
    <2>4. CASE WaitTimesOut(q)
      BY <2>4 DEF WaitTimesOut
    <2>5. CASE TimeoutRow(q)
      BY <2>5 DEF TimeoutRow, MarkTimeout, Resolve
    <2>6. CASE TimeoutBlocks(q)
      BY <2>6 DEF TimeoutBlocks, MarkBlocked, MoveIfLive, Live, Terminal
    <2>7. CASE TimeoutEvent(q)
      BY <2>7 DEF TimeoutEvent, AppendEvent
    <2>8. CASE ResumeRow(q)
      BY <2>8 DEF ResumeRow, MarkStarted, MoveIfLive, Live, Terminal
    <2>9. CASE ResumeEvent(q)
      BY <2>9 DEF ResumeEvent, AppendEvent
    <2> QED BY <1>5, <2>1, <2>2, <2>3, <2>4, <2>5, <2>6, <2>7, <2>8, <2>9
             DEF AskStep
  <1>6. ASSUME NEW q \in Question, AskFault(q)
       PROVE  RowFollowsRun'
    BY <1>6 DEF AskFault, AskFails, Fault, TimeoutLost, ResumeLost
  <1>7. ASSUME NEW q \in Question, Time(q)
       PROVE  RowFollowsRun'
    BY <1>7 DEF Time, Expire, Deadline
  <1>8. ASSUME NEW m \in Message, UserStep(m)
       PROVE  RowFollowsRun'
    BY <1>8 DEF UserStep, Receive, OpenForUser, Answer, MarkAnswered, Told,
       Resolve, WebAnswer
  <1>9. ASSUME NEW q \in Question, NEW t \in Task, AskCreate(q, t)
       PROVE  RowFollowsRun'
    BY <1>9 DEF AskCreate, InsertQuestion
  <1>10. CASE UNCHANGED vars
    BY <1>10
  <1> QED BY <1>1, <1>2, <1>3, <1>4, <1>5, <1>6, <1>7, <1>8, <1>9, <1>10
           DEF Next

(* Nobody is about to tell of an ending that did not happen or was told of. *)
LEMMA EndedOnceStep ==
  ASSUME TypeOK, RowFollowsRun, EndedOnce, [Next]_vars
  PROVE  EndedOnce'
  <1> USE DEF TypeOK, StoreTypeOK, RowFollowsRun, EndedOnce, Terminal,
        EventType, Status, Goto, AskGoto, vars, runVars, cancelVars, askVars,
        replyVars, storeVars, rowVars, others
  <1>1. ASSUME NEW t \in Task, CreateRow(t)
       PROVE  EndedOnce'
    BY <1>1 DEF CreateRow, InsertTask
  <1>2. ASSUME NEW t \in Task, RunStep(t)
       PROVE  EndedOnce'
    <2>1. CASE CreateEvent(t)
      BY <2>1 DEF CreateEvent, AppendEvent
    <2>2. CASE Enqueue(t)
      BY <2>2 DEF Enqueue
    <2>3. CASE TakeJob(t)
      BY <2>3 DEF TakeJob
    <2>4. CASE BeginRow(t)
      BY <2>4 DEF BeginRow, MarkStarted, Live, AfterBegin, MoveIfLive
    <2>5. CASE BeginEvent(t)
      BY <2>5 DEF BeginEvent, AppendEvent, AfterBegin
    <2>6. CASE Plan(t)
      BY <2>6 DEF Plan
    <2>7. ASSUME NEW outcome \in {"completed", "failed"},
                ExecuteEnds(t, outcome)
         PROVE  EndedOnce'
      BY <2>7 DEF ExecuteEnds, Asking, AskStage
    <2>8. CASE FinishRow(t)
      BY <2>8 DEF FinishRow, MarkCompleted, MarkFailed, Live, MoveIfLive
    <2>9. CASE FinishEvent(t)
      BY <2>9 DEF FinishEvent, AppendEvent
    <2>10. CASE Rollup(t)
      BY <2>10 DEF Rollup, WriteSpent
    <2>11. CASE Deliver(t)
      BY <2>11 DEF Deliver
    <2>12. CASE Return(t)
      BY <2>12 DEF Return
    <2> QED BY <1>2, <2>1, <2>2, <2>3, <2>4, <2>5, <2>6, <2>7, <2>8, <2>9,
             <2>10, <2>11, <2>12 DEF RunStep
  <1>3. ASSUME NEW t \in Task, RunFault(t)
       PROVE  EndedOnce'
    <2>1. CASE CreateFails(t)
      BY <2>1 DEF CreateFails, Fault
    <2>2. CASE TransitionLost(t)
      BY <2>2 DEF TransitionLost, Fault, AfterBegin
    <2>3. CASE RollupLost(t)
      BY <2>3 DEF RollupLost, Fault
    <2>4. CASE Crash(t)
      BY <2>4 DEF Crash, Running, Asking, AskStage
    <2> QED BY <1>3, <2>1, <2>2, <2>3, <2>4 DEF RunFault
  <1>4. ASSUME NEW t \in Task, CancelStep(t)
       PROVE  EndedOnce'
    <2>1. CASE CancelRow(t)
      BY <2>1 DEF CancelRow, Live, MarkCancelled, MoveIfLive
    <2>2. CASE CancelEvent(t)
      BY <2>2 DEF CancelEvent, AppendEvent
    <2>3. CASE CancelReadsUsage(t)
      BY <2>3 DEF CancelReadsUsage
    <2>4. CASE CancelWritesSpent(t)
      BY <2>4 DEF CancelWritesSpent, WriteSpent
    <2>5. CASE CancelLost(t)
      BY <2>5 DEF CancelLost, Fault
    <2> QED BY <1>4, <2>1, <2>2, <2>3, <2>4, <2>5 DEF CancelStep
  <1>5. ASSUME NEW q \in Question, AskStep(q)
       PROVE  EndedOnce'
    <2>1. CASE AskParks(q)
      BY <2>1 DEF AskParks, MarkAwaitingUser, MoveIfLive, Live
    <2>2. CASE AskDelivers(q)
      BY <2>2 DEF AskDelivers, AppendEvent
    <2>3. CASE WaitSeesAnswer(q)
      BY <2>3 DEF WaitSeesAnswer
    <2>4. CASE WaitTimesOut(q)
      BY <2>4 DEF WaitTimesOut
    <2>5. CASE TimeoutRow(q)
      BY <2>5 DEF TimeoutRow, MarkTimeout, Resolve
    <2>6. CASE TimeoutBlocks(q)
      BY <2>6 DEF TimeoutBlocks, MarkBlocked, MoveIfLive, Live
    <2>7. CASE TimeoutEvent(q)
      BY <2>7 DEF TimeoutEvent, AppendEvent
    <2>8. CASE ResumeRow(q)
      BY <2>8 DEF ResumeRow, MarkStarted, MoveIfLive, Live
    <2>9. CASE ResumeEvent(q)
      BY <2>9 DEF ResumeEvent, AppendEvent
    <2> QED BY <1>5, <2>1, <2>2, <2>3, <2>4, <2>5, <2>6, <2>7, <2>8, <2>9
             DEF AskStep
  <1>6. ASSUME NEW q \in Question, AskFault(q)
       PROVE  EndedOnce'
    BY <1>6 DEF AskFault, AskFails, Fault, TimeoutLost, ResumeLost
  <1>7. ASSUME NEW q \in Question, Time(q)
       PROVE  EndedOnce'
    BY <1>7 DEF Time, Expire, Deadline
  <1>8. ASSUME NEW m \in Message, UserStep(m)
       PROVE  EndedOnce'
    BY <1>8 DEF UserStep, Receive, OpenForUser, Answer, MarkAnswered, Told,
       Resolve, WebAnswer
  <1>9. ASSUME NEW q \in Question, NEW t \in Task, AskCreate(q, t)
       PROVE  EndedOnce'
    BY <1>9 DEF AskCreate, InsertQuestion
  <1>10. CASE UNCHANGED vars
    BY <1>10
  <1> QED BY <1>1, <1>2, <1>3, <1>4, <1>5, <1>6, <1>7, <1>8, <1>9, <1>10
           DEF Next

(* After the terminal transition the row has ended for good. *)
LEMMA SettledStep ==
  ASSUME TypeOK, RowFollowsRun, Settled, [Next]_vars
  PROVE  Settled'
  <1> USE DEF TypeOK, StoreTypeOK, RowFollowsRun, Settled, Terminal, Goto,
        AskGoto, Fault, vars, runVars, cancelVars, askVars, replyVars,
        storeVars, rowVars, others
  <1>1. ASSUME NEW t \in Task, CreateRow(t)
       PROVE  Settled'
    BY <1>1 DEF CreateRow, InsertTask
  <1>2. ASSUME NEW t \in Task, RunStep(t)
       PROVE  Settled'
    <2>1. CASE CreateEvent(t)
      BY <2>1 DEF CreateEvent, AppendEvent
    <2>2. CASE Enqueue(t)
      BY <2>2 DEF Enqueue
    <2>3. CASE TakeJob(t)
      BY <2>3 DEF TakeJob
    <2>4. CASE BeginRow(t)
      BY <2>4 DEF BeginRow, MarkStarted, Live, AfterBegin, MoveIfLive
    <2>5. CASE BeginEvent(t)
      BY <2>5 DEF BeginEvent, AppendEvent, AfterBegin
    <2>6. CASE Plan(t)
      BY <2>6 DEF Plan
    <2>7. ASSUME NEW outcome \in {"completed", "failed"},
                ExecuteEnds(t, outcome)
         PROVE  Settled'
      BY <2>7 DEF ExecuteEnds, Asking, AskStage
    <2>8. CASE FinishRow(t)
      BY <2>8 DEF FinishRow, MarkCompleted, MarkFailed, Live, MoveIfLive
    <2>9. CASE FinishEvent(t)
      BY <2>9 DEF FinishEvent, AppendEvent
    <2>10. CASE Rollup(t)
      BY <2>10 DEF Rollup, WriteSpent
    <2>11. CASE Deliver(t)
      BY <2>11 DEF Deliver
    <2>12. CASE Return(t)
      BY <2>12 DEF Return
    <2> QED BY <1>2, <2>1, <2>2, <2>3, <2>4, <2>5, <2>6, <2>7, <2>8, <2>9,
             <2>10, <2>11, <2>12 DEF RunStep
  <1>3. ASSUME NEW t \in Task, RunFault(t)
       PROVE  Settled'
    <2>1. CASE CreateFails(t)
      BY <2>1 DEF CreateFails
    <2>2. CASE TransitionLost(t)
      BY <2>2 DEF TransitionLost, AfterBegin
    <2>3. CASE RollupLost(t)
      BY <2>3 DEF RollupLost
    <2>4. CASE Crash(t)
      BY <2>4 DEF Crash, Running, Asking, AskStage
    <2> QED BY <1>3, <2>1, <2>2, <2>3, <2>4 DEF RunFault
  <1>4. ASSUME NEW t \in Task, CancelStep(t)
       PROVE  Settled'
    <2>1. CASE CancelRow(t)
      BY <2>1 DEF CancelRow, Live, MarkCancelled, MoveIfLive
    <2>2. CASE CancelEvent(t)
      BY <2>2 DEF CancelEvent, AppendEvent
    <2>3. CASE CancelReadsUsage(t)
      BY <2>3 DEF CancelReadsUsage
    <2>4. CASE CancelWritesSpent(t)
      BY <2>4 DEF CancelWritesSpent, WriteSpent
    <2>5. CASE CancelLost(t)
      BY <2>5 DEF CancelLost
    <2> QED BY <1>4, <2>1, <2>2, <2>3, <2>4, <2>5 DEF CancelStep
  <1>5. ASSUME NEW q \in Question, AskStep(q)
       PROVE  Settled'
    <2>1. CASE AskParks(q)
      BY <2>1 DEF AskParks, MarkAwaitingUser, MoveIfLive, Live
    <2>2. CASE AskDelivers(q)
      BY <2>2 DEF AskDelivers, AppendEvent
    <2>3. CASE WaitSeesAnswer(q)
      BY <2>3 DEF WaitSeesAnswer
    <2>4. CASE WaitTimesOut(q)
      BY <2>4 DEF WaitTimesOut
    <2>5. CASE TimeoutRow(q)
      BY <2>5 DEF TimeoutRow, MarkTimeout, Resolve
    <2>6. CASE TimeoutBlocks(q)
      BY <2>6 DEF TimeoutBlocks, MarkBlocked, MoveIfLive, Live
    <2>7. CASE TimeoutEvent(q)
      BY <2>7 DEF TimeoutEvent, AppendEvent
    <2>8. CASE ResumeRow(q)
      BY <2>8 DEF ResumeRow, MarkStarted, MoveIfLive, Live
    <2>9. CASE ResumeEvent(q)
      BY <2>9 DEF ResumeEvent, AppendEvent
    <2> QED BY <1>5, <2>1, <2>2, <2>3, <2>4, <2>5, <2>6, <2>7, <2>8, <2>9
             DEF AskStep
  <1>6. ASSUME NEW q \in Question, AskFault(q)
       PROVE  Settled'
    BY <1>6 DEF AskFault, AskFails, TimeoutLost, ResumeLost
  <1>7. ASSUME NEW q \in Question, Time(q)
       PROVE  Settled'
    BY <1>7 DEF Time, Expire, Deadline
  <1>8. ASSUME NEW m \in Message, UserStep(m)
       PROVE  Settled'
    BY <1>8 DEF UserStep, Receive, OpenForUser, Answer, MarkAnswered, Told,
       Resolve, WebAnswer
  <1>9. ASSUME NEW q \in Question, NEW t \in Task, AskCreate(q, t)
       PROVE  Settled'
    BY <1>9 DEF AskCreate, InsertQuestion
  <1>10. CASE UNCHANGED vars
    BY <1>10
  <1> QED BY <1>1, <1>2, <1>3, <1>4, <1>5, <1>6, <1>7, <1>8, <1>9, <1>10
           DEF Next

(* The event the inputs are read from is never lost. *)
LEMMA PendingKeptStep ==
  ASSUME TypeOK, PendingKept, [Next]_vars
  PROVE  PendingKept'
  <1> USE DEF TypeOK, StoreTypeOK, EventType, PendingKept, Goto, AskGoto,
        Running, vars, runVars, cancelVars, askVars, replyVars, storeVars,
        rowVars, others
  <1>1. ASSUME NEW t \in Task, CreateRow(t)
       PROVE  PendingKept'
    BY <1>1 DEF CreateRow, InsertTask
  <1>2. ASSUME NEW t \in Task, RunStep(t)
       PROVE  PendingKept'
    <2>1. CASE CreateEvent(t)
      BY <2>1 DEF CreateEvent, AppendEvent
    <2>2. CASE Enqueue(t)
      BY <2>2 DEF Enqueue
    <2>3. CASE TakeJob(t)
      BY <2>3 DEF TakeJob
    <2>4. CASE BeginRow(t)
      BY <2>4 DEF BeginRow, MarkStarted, Live, AfterBegin, MoveIfLive,
         Terminal
    <2>5. CASE BeginEvent(t)
      BY <2>5 DEF BeginEvent, AppendEvent, AfterBegin
    <2>6. CASE Plan(t)
      BY <2>6 DEF Plan
    <2>7. ASSUME NEW outcome \in {"completed", "failed"},
                ExecuteEnds(t, outcome)
         PROVE  PendingKept'
      BY <2>7 DEF ExecuteEnds, Asking, AskStage
    <2>8. CASE FinishRow(t)
      BY <2>8 DEF FinishRow, MarkCompleted, MarkFailed, Live, MoveIfLive,
         Terminal
    <2>9. CASE FinishEvent(t)
      BY <2>9 DEF FinishEvent, AppendEvent
    <2>10. CASE Rollup(t)
      BY <2>10 DEF Rollup, WriteSpent
    <2>11. CASE Deliver(t)
      BY <2>11 DEF Deliver
    <2>12. CASE Return(t)
      BY <2>12 DEF Return
    <2> QED BY <1>2, <2>1, <2>2, <2>3, <2>4, <2>5, <2>6, <2>7, <2>8, <2>9,
             <2>10, <2>11, <2>12 DEF RunStep
  <1>3. ASSUME NEW t \in Task, RunFault(t)
       PROVE  PendingKept'
    <2>1. CASE CreateFails(t)
      BY <2>1 DEF CreateFails, Fault
    <2>2. CASE TransitionLost(t)
      BY <2>2 DEF TransitionLost, Fault, AfterBegin
    <2>3. CASE RollupLost(t)
      BY <2>3 DEF RollupLost, Fault
    <2>4. CASE Crash(t)
      BY <2>4 DEF Crash, Asking, AskStage
    <2> QED BY <1>3, <2>1, <2>2, <2>3, <2>4 DEF RunFault
  <1>4. ASSUME NEW t \in Task, CancelStep(t)
       PROVE  PendingKept'
    <2>1. CASE CancelRow(t)
      BY <2>1 DEF CancelRow, Live, MarkCancelled, Terminal, MoveIfLive
    <2>2. CASE CancelEvent(t)
      BY <2>2 DEF CancelEvent, AppendEvent
    <2>3. CASE CancelReadsUsage(t)
      BY <2>3 DEF CancelReadsUsage
    <2>4. CASE CancelWritesSpent(t)
      BY <2>4 DEF CancelWritesSpent, WriteSpent
    <2>5. CASE CancelLost(t)
      BY <2>5 DEF CancelLost, Fault
    <2> QED BY <1>4, <2>1, <2>2, <2>3, <2>4, <2>5 DEF CancelStep
  <1>5. ASSUME NEW q \in Question, AskStep(q)
       PROVE  PendingKept'
    <2>1. CASE AskParks(q)
      BY <2>1 DEF AskParks, MarkAwaitingUser, MoveIfLive, Live, Terminal
    <2>2. CASE AskDelivers(q)
      BY <2>2 DEF AskDelivers, AppendEvent
    <2>3. CASE WaitSeesAnswer(q)
      BY <2>3 DEF WaitSeesAnswer
    <2>4. CASE WaitTimesOut(q)
      BY <2>4 DEF WaitTimesOut
    <2>5. CASE TimeoutRow(q)
      BY <2>5 DEF TimeoutRow, MarkTimeout, Resolve
    <2>6. CASE TimeoutBlocks(q)
      BY <2>6 DEF TimeoutBlocks, MarkBlocked, MoveIfLive, Live, Terminal
    <2>7. CASE TimeoutEvent(q)
      BY <2>7 DEF TimeoutEvent, AppendEvent
    <2>8. CASE ResumeRow(q)
      BY <2>8 DEF ResumeRow, MarkStarted, MoveIfLive, Live, Terminal
    <2>9. CASE ResumeEvent(q)
      BY <2>9 DEF ResumeEvent, AppendEvent
    <2> QED BY <1>5, <2>1, <2>2, <2>3, <2>4, <2>5, <2>6, <2>7, <2>8, <2>9
             DEF AskStep
  <1>6. ASSUME NEW q \in Question, AskFault(q)
       PROVE  PendingKept'
    BY <1>6 DEF AskFault, AskFails, Fault, TimeoutLost, ResumeLost
  <1>7. ASSUME NEW q \in Question, Time(q)
       PROVE  PendingKept'
    BY <1>7 DEF Time, Expire, Deadline
  <1>8. ASSUME NEW m \in Message, UserStep(m)
       PROVE  PendingKept'
    BY <1>8 DEF UserStep, Receive, OpenForUser, Answer, MarkAnswered, Told,
       Resolve, WebAnswer
  <1>9. ASSUME NEW q \in Question, NEW t \in Task, AskCreate(q, t)
       PROVE  PendingKept'
    BY <1>9 DEF AskCreate, InsertQuestion
  <1>10. CASE UNCHANGED vars
    BY <1>10
  <1> QED BY <1>1, <1>2, <1>3, <1>4, <1>5, <1>6, <1>7, <1>8, <1>9, <1>10
           DEF Next

(* An ask keeps its owner, and goes on only with an answered row. *)
LEMMA AskersKnownStep ==
  ASSUME TypeOK, AskersKnown, [Next]_vars
  PROVE  AskersKnown'
  <1> USE DEF TypeOK, QuestionsTypeOK, AskersKnown, Asking, AskStage, Goto,
        AskGoto, vars, runVars, cancelVars, askVars, replyVars, storeVars,
        rowVars, others
  <1>1. ASSUME NEW t \in Task, CreateRow(t)
       PROVE  AskersKnown'
    BY <1>1 DEF CreateRow, InsertTask
  <1>2. ASSUME NEW t \in Task, RunStep(t)
       PROVE  AskersKnown'
    BY <1>2 DEF RunStep, CreateEvent, AppendEvent, Enqueue, TakeJob, BeginRow,
       MarkStarted, Live, AfterBegin, MoveIfLive, Terminal, BeginEvent, Plan,
       ExecuteEnds, FinishRow, MarkCompleted, MarkFailed, FinishEvent, Rollup,
       WriteSpent, Deliver, Return
  <1>3. ASSUME NEW t \in Task, RunFault(t)
       PROVE  AskersKnown'
    <2>1. CASE CreateFails(t)
      BY <2>1 DEF CreateFails, Fault
    <2>2. CASE TransitionLost(t)
      BY <2>2 DEF TransitionLost, Fault, AfterBegin
    <2>3. CASE RollupLost(t)
      BY <2>3 DEF RollupLost, Fault
    <2>4. CASE Crash(t)
      BY <2>4 DEF Crash, Running
    <2> QED BY <1>3, <2>1, <2>2, <2>3, <2>4 DEF RunFault
  <1>4. ASSUME NEW t \in Task, CancelStep(t)
       PROVE  AskersKnown'
    <2>1. CASE CancelRow(t)
      BY <2>1 DEF CancelRow, Live, MarkCancelled, Terminal, MoveIfLive
    <2>2. CASE CancelEvent(t)
      BY <2>2 DEF CancelEvent, AppendEvent
    <2>3. CASE CancelReadsUsage(t)
      BY <2>3 DEF CancelReadsUsage
    <2>4. CASE CancelWritesSpent(t)
      BY <2>4 DEF CancelWritesSpent, WriteSpent
    <2>5. CASE CancelLost(t)
      BY <2>5 DEF CancelLost, Fault
    <2> QED BY <1>4, <2>1, <2>2, <2>3, <2>4, <2>5 DEF CancelStep
  <1>5. ASSUME NEW q \in Question, AskStep(q)
       PROVE  AskersKnown'
    <2>1. CASE AskParks(q)
      BY <2>1 DEF AskParks, MarkAwaitingUser, MoveIfLive, Live, Terminal
    <2>2. CASE AskDelivers(q)
      BY <2>2 DEF AskDelivers, AppendEvent
    <2>3. CASE WaitSeesAnswer(q)
      BY <2>3 DEF WaitSeesAnswer
    <2>4. CASE WaitTimesOut(q)
      BY <2>4 DEF WaitTimesOut
    <2>5. CASE TimeoutRow(q)
      BY <2>5 DEF TimeoutRow, MarkTimeout, Resolve
    <2>6. CASE TimeoutBlocks(q)
      BY <2>6 DEF TimeoutBlocks, MarkBlocked, MoveIfLive, Live, Terminal
    <2>7. CASE TimeoutEvent(q)
      BY <2>7 DEF TimeoutEvent, AppendEvent
    <2>8. CASE ResumeRow(q)
      BY <2>8 DEF ResumeRow, MarkStarted, MoveIfLive, Live, Terminal
    <2>9. CASE ResumeEvent(q)
      BY <2>9 DEF ResumeEvent, AppendEvent
    <2> QED BY <1>5, <2>1, <2>2, <2>3, <2>4, <2>5, <2>6, <2>7, <2>8, <2>9
             DEF AskStep
  <1>6. ASSUME NEW q \in Question, AskFault(q)
       PROVE  AskersKnown'
    <2>1. CASE AskFails(q)
      BY <2>1 DEF AskFails, Fault
    <2>2. CASE TimeoutLost(q)
      BY <2>2 DEF TimeoutLost, Fault
    <2>3. CASE ResumeLost(q)
      BY <2>3 DEF ResumeLost, Fault
    <2> QED BY <1>6, <2>1, <2>2, <2>3 DEF AskFault
  <1>7. ASSUME NEW q \in Question, Time(q)
       PROVE  AskersKnown'
    <2>1. CASE Expire(q)
      BY <2>1 DEF Expire
    <2>2. CASE Deadline(q)
      BY <2>2 DEF Deadline
    <2> QED BY <1>7, <2>1, <2>2 DEF Time
  <1>8. ASSUME NEW m \in Message, UserStep(m)
       PROVE  AskersKnown'
    <2>1. CASE Receive(m)
      BY <2>1 DEF Receive, OpenForUser
    <2>2. CASE Answer(m)
      BY <2>2 DEF Answer, MarkAnswered, Told, Resolve
    <2>3. ASSUME NEW q \in Question, WebAnswer(m, q)
         PROVE  AskersKnown'
      BY <2>3 DEF WebAnswer, MarkAnswered, Told, Resolve
    <2> QED BY <1>8, <2>1, <2>2, <2>3 DEF UserStep
  <1>9. ASSUME NEW q \in Question, NEW t \in Task, AskCreate(q, t)
       PROVE  AskersKnown'
    BY <1>9 DEF AskCreate, InsertQuestion
  <1>10. CASE UNCHANGED vars
    BY <1>10
  <1> QED BY <1>1, <1>2, <1>3, <1>4, <1>5, <1>6, <1>7, <1>8, <1>9, <1>10
           DEF Next

(* A reply is told it was taken exactly by the step that answers the row. *)
LEMMA RepliesMatchStep ==
  ASSUME TypeOK, AskersKnown, RepliesMatch, [Next]_vars
  PROVE  RepliesMatch'
  <1> USE DEF TypeOK, QuestionsTypeOK, AskersKnown, RepliesMatch, AckedBy,
        Goto, AskGoto, vars, runVars, cancelVars, askVars, replyVars,
        storeVars, rowVars, others
  <1>1. ASSUME NEW t \in Task, CreateRow(t)
       PROVE  RepliesMatch'
    BY <1>1 DEF CreateRow, InsertTask
  <1>2. ASSUME NEW t \in Task, RunStep(t)
       PROVE  RepliesMatch'
    BY <1>2 DEF RunStep, CreateEvent, AppendEvent, Enqueue, TakeJob, BeginRow,
       MarkStarted, Live, AfterBegin, MoveIfLive, Terminal, BeginEvent, Plan,
       ExecuteEnds, Asking, AskStage, FinishRow, MarkCompleted, MarkFailed,
       FinishEvent, Rollup, WriteSpent, Deliver, Return
  <1>3. ASSUME NEW t \in Task, RunFault(t)
       PROVE  RepliesMatch'
    BY <1>3 DEF RunFault, CreateFails, Fault, TransitionLost, AfterBegin,
       RollupLost, Crash, Running, Asking, AskStage
  <1>4. ASSUME NEW t \in Task, CancelStep(t)
       PROVE  RepliesMatch'
    BY <1>4 DEF CancelStep, CancelRow, Live, MarkCancelled, Terminal,
       MoveIfLive, CancelEvent, AppendEvent, CancelReadsUsage,
       CancelWritesSpent, WriteSpent, CancelLost, Fault
  <1>5. ASSUME NEW q \in Question, AskStep(q)
       PROVE  RepliesMatch'
    <2>1. CASE AskParks(q)
      BY <2>1 DEF AskParks, MarkAwaitingUser, MoveIfLive, Live, Terminal
    <2>2. CASE AskDelivers(q)
      BY <2>2 DEF AskDelivers, AppendEvent
    <2>3. CASE WaitSeesAnswer(q)
      BY <2>3 DEF WaitSeesAnswer
    <2>4. CASE WaitTimesOut(q)
      BY <2>4 DEF WaitTimesOut
    <2>5. CASE TimeoutRow(q)
      BY <2>5 DEF TimeoutRow, MarkTimeout, Resolve
    <2>6. CASE TimeoutBlocks(q)
      BY <2>6 DEF TimeoutBlocks, MarkBlocked, MoveIfLive, Live, Terminal
    <2>7. CASE TimeoutEvent(q)
      BY <2>7 DEF TimeoutEvent, AppendEvent
    <2>8. CASE ResumeRow(q)
      BY <2>8 DEF ResumeRow, MarkStarted, MoveIfLive, Live, Terminal
    <2>9. CASE ResumeEvent(q)
      BY <2>9 DEF ResumeEvent, AppendEvent
    <2> QED BY <1>5, <2>1, <2>2, <2>3, <2>4, <2>5, <2>6, <2>7, <2>8, <2>9
             DEF AskStep
  <1>6. ASSUME NEW q \in Question, AskFault(q)
       PROVE  RepliesMatch'
    BY <1>6 DEF AskFault, AskFails, Fault, TimeoutLost, ResumeLost
  <1>7. ASSUME NEW q \in Question, Time(q)
       PROVE  RepliesMatch'
    BY <1>7 DEF Time, Expire, Deadline
  <1>8. ASSUME NEW m \in Message, UserStep(m)
       PROVE  RepliesMatch'
    <2>1. CASE Receive(m)
      BY <2>1 DEF Receive, OpenForUser
    <2>2. CASE Answer(m)
      BY <2>2 DEF Answer, MarkAnswered, Told, Resolve
    <2>3. ASSUME NEW q \in Question, WebAnswer(m, q)
         PROVE  RepliesMatch'
      BY <2>3 DEF WebAnswer, MarkAnswered, Told, Resolve
    <2> QED BY <1>8, <2>1, <2>2, <2>3 DEF UserStep
  <1>9. ASSUME NEW q \in Question, NEW t \in Task, AskCreate(q, t)
       PROVE  RepliesMatch'
    BY <1>9 DEF AskCreate, InsertQuestion
  <1>10. CASE UNCHANGED vars
    BY <1>10
  <1> QED BY <1>1, <1>2, <1>3, <1>4, <1>5, <1>6, <1>7, <1>8, <1>9, <1>10
           DEF Next

IInv ==
  /\ TypeOK /\ RowFollowsRun /\ EndedOnce /\ Settled
  /\ PendingKept /\ AskersKnown /\ RepliesMatch

(* Every reachable state satisfies the inductive invariant. *)
THEOREM Invariance == Spec => []IInv
  <1>1. Init => IInv
    <2> SUFFICES ASSUME Init PROVE IInv
      OBVIOUS
    <2>1. TypeOK
      BY InitTyped
    <2> USE DEF Init, StoreInit, QuestionsInit
    <2>2. RowFollowsRun
      BY DEF RowFollowsRun
    <2>3. EndedOnce
      BY DEF EndedOnce, Terminal, EventType
    <2>4. Settled /\ PendingKept
      BY DEF Settled, PendingKept
    <2>5. AskersKnown
      BY DEF AskersKnown
    <2>6. RepliesMatch
      BY DEF RepliesMatch, AckedBy
    <2>7. QED BY <2>1, <2>2, <2>3, <2>4, <2>5, <2>6 DEF IInv
  <1>2. IInv /\ [Next]_vars => IInv'
    BY TypeStep, RowFollowsRunStep, EndedOnceStep, SettledStep, PendingKeptStep,
       AskersKnownStep, RepliesMatchStep DEF IInv
  <1>3. QED BY <1>1, <1>2, PTL DEF Spec

-----------------------------------------------------------------------------
(* A worker that takes a job finds the event its inputs are in: the run of  *)
(* a queued task, first or redelivered, never raises for want of it.        *)
THEOREM QueuedCanRunAlways == Spec => []QueuedCanRun
  <1>1. IInv => QueuedCanRun
    BY DEF IInv, PendingKept, QueuedCanRun
  <1>2. QED BY <1>1, Invariance, PTL

(* Without a lost write, what a run reports or returns is never about a     *)
(* task whose row still says it is alive.                                   *)
THEOREM SettledWhenReturnedAlways == Spec => []SettledWhenReturned
  <1>1. IInv => SettledWhenReturned
    BY DEF IInv, Settled, SettledWhenReturned
  <1>2. QED BY <1>1, Invariance, PTL

(* Of any number of replies and of the timeout that race for a question,    *)
(* exactly one is told that it decided it, and it is the one that did.      *)
THEOREM OneReplyIsTakenAlways == Spec => []OneReplyIsTaken
  <1>1. IInv => OneReplyIsTaken
    <2> SUFFICES ASSUME IInv, NEW q \in Question
                 PROVE  /\ Cardinality(AckedBy(q)) = IF question[q] = "answered" THEN 1 ELSE 0
                        /\ asker[q] \in {"answered", "resumed", "returned"}
                             => question[q] = "answered"
      BY DEF OneReplyIsTaken
    <2>1. CASE question[q] = "answered"
      <3>1. PICK m \in Message : AckedBy(q) = {m}
        BY <2>1 DEF IInv, RepliesMatch
      <3>2. Cardinality({m}) = 1
        BY FS_Singleton
      <3>3. QED BY <2>1, <3>1, <3>2
    <2>2. CASE question[q] # "answered"
      <3>1. AckedBy(q) = {} /\ asker[q] \notin {"answered", "resumed", "returned"}
        BY <2>2 DEF IInv, RepliesMatch, AskersKnown
      <3>2. Cardinality({}) = 0
        BY FS_EmptySet
      <3>3. QED BY <2>2, <3>1, <3>2
    <2>3. QED BY <2>1, <2>2
  <1>2. QED BY <1>1, Invariance, PTL

(* Nothing is spent after the roll-up, nor is it overwritten unless cancelled. *)
LEMMA UncancelledCostIsFinalStep ==
  ASSUME TypeOK, RowFollowsRun, EndedOnce, UncancelledCostIsFinal, [Next]_vars
  PROVE  UncancelledCostIsFinal'
  <1> USE DEF TypeOK, StoreTypeOK, RowFollowsRun, EndedOnce,
        UncancelledCostIsFinal, Terminal, Goto, AskGoto, Fault, vars, runVars,
        cancelVars, askVars, replyVars, storeVars, rowVars, others
  <1>1. ASSUME NEW t \in Task, CreateRow(t)
       PROVE  UncancelledCostIsFinal'
    BY <1>1 DEF CreateRow, InsertTask
  <1>2. ASSUME NEW t \in Task, RunStep(t)
       PROVE  UncancelledCostIsFinal'
    <2>1. CASE CreateEvent(t)
      BY <2>1 DEF CreateEvent, AppendEvent
    <2>2. CASE Enqueue(t)
      BY <2>2 DEF Enqueue
    <2>3. CASE TakeJob(t)
      BY <2>3 DEF TakeJob
    <2>4. CASE BeginRow(t)
      BY <2>4 DEF BeginRow, MarkStarted, Live, AfterBegin, MoveIfLive
    <2>5. CASE BeginEvent(t)
      BY <2>5 DEF BeginEvent, AppendEvent, AfterBegin
    <2>6. CASE Plan(t)
      BY <2>6 DEF Plan
    <2>7. ASSUME NEW outcome \in {"completed", "failed"},
                ExecuteEnds(t, outcome)
         PROVE  UncancelledCostIsFinal'
      BY <2>7 DEF ExecuteEnds, Asking, AskStage
    <2>8. CASE FinishRow(t)
      BY <2>8 DEF FinishRow, MarkCompleted, MarkFailed, Live, MoveIfLive
    <2>9. CASE FinishEvent(t)
      BY <2>9 DEF FinishEvent, AppendEvent
    <2>10. CASE Rollup(t)
      BY <2>10 DEF Rollup, WriteSpent
    <2>11. CASE Deliver(t)
      BY <2>11 DEF Deliver
    <2>12. CASE Return(t)
      BY <2>12 DEF Return
    <2> QED BY <1>2, <2>1, <2>2, <2>3, <2>4, <2>5, <2>6, <2>7, <2>8, <2>9,
             <2>10, <2>11, <2>12 DEF RunStep
  <1>3. ASSUME NEW t \in Task, RunFault(t)
       PROVE  UncancelledCostIsFinal'
    <2>1. CASE CreateFails(t)
      BY <2>1 DEF CreateFails
    <2>2. CASE TransitionLost(t)
      BY <2>2 DEF TransitionLost, AfterBegin
    <2>3. CASE RollupLost(t)
      BY <2>3 DEF RollupLost
    <2>4. CASE Crash(t)
      BY <2>4 DEF Crash, Running, Asking, AskStage
    <2> QED BY <1>3, <2>1, <2>2, <2>3, <2>4 DEF RunFault
  <1>4. ASSUME NEW t \in Task, CancelStep(t)
       PROVE  UncancelledCostIsFinal'
    <2>1. CASE CancelRow(t)
      BY <2>1 DEF CancelRow, Live, MarkCancelled, MoveIfLive
    <2>2. CASE CancelEvent(t)
      BY <2>2 DEF CancelEvent, AppendEvent
    <2>3. CASE CancelReadsUsage(t)
      BY <2>3 DEF CancelReadsUsage
    <2>4. CASE CancelWritesSpent(t)
      BY <2>4 DEF CancelWritesSpent, WriteSpent
    <2>5. CASE CancelLost(t)
      BY <2>5 DEF CancelLost
    <2> QED BY <1>4, <2>1, <2>2, <2>3, <2>4, <2>5 DEF CancelStep
  <1>5. ASSUME NEW q \in Question, AskStep(q)
       PROVE  UncancelledCostIsFinal'
    <2>1. CASE AskParks(q)
      BY <2>1 DEF AskParks, MarkAwaitingUser, MoveIfLive, Live
    <2>2. CASE AskDelivers(q)
      BY <2>2 DEF AskDelivers, AppendEvent
    <2>3. CASE WaitSeesAnswer(q)
      BY <2>3 DEF WaitSeesAnswer
    <2>4. CASE WaitTimesOut(q)
      BY <2>4 DEF WaitTimesOut
    <2>5. CASE TimeoutRow(q)
      BY <2>5 DEF TimeoutRow, MarkTimeout, Resolve
    <2>6. CASE TimeoutBlocks(q)
      BY <2>6 DEF TimeoutBlocks, MarkBlocked, MoveIfLive, Live
    <2>7. CASE TimeoutEvent(q)
      BY <2>7 DEF TimeoutEvent, AppendEvent
    <2>8. CASE ResumeRow(q)
      BY <2>8 DEF ResumeRow, MarkStarted, MoveIfLive, Live
    <2>9. CASE ResumeEvent(q)
      BY <2>9 DEF ResumeEvent, AppendEvent
    <2> QED BY <1>5, <2>1, <2>2, <2>3, <2>4, <2>5, <2>6, <2>7, <2>8, <2>9
             DEF AskStep
  <1>6. ASSUME NEW q \in Question, AskFault(q)
       PROVE  UncancelledCostIsFinal'
    BY <1>6 DEF AskFault, AskFails, TimeoutLost, ResumeLost
  <1>7. ASSUME NEW q \in Question, Time(q)
       PROVE  UncancelledCostIsFinal'
    BY <1>7 DEF Time, Expire, Deadline
  <1>8. ASSUME NEW m \in Message, UserStep(m)
       PROVE  UncancelledCostIsFinal'
    BY <1>8 DEF UserStep, Receive, OpenForUser, Answer, MarkAnswered, Told,
       Resolve, WebAnswer
  <1>9. ASSUME NEW q \in Question, NEW t \in Task, AskCreate(q, t)
       PROVE  UncancelledCostIsFinal'
    BY <1>9 DEF AskCreate, InsertQuestion
  <1>10. CASE UNCHANGED vars
    BY <1>10
  <1> QED BY <1>1, <1>2, <1>3, <1>4, <1>5, <1>6, <1>7, <1>8, <1>9, <1>10
           DEF Next

(* Whoever leaves a parked task moves its status on. *)
LEMMA AwaitingHasAskerStep ==
  ASSUME TypeOK, AskersKnown, AwaitingHasAsker, [Next]_vars
  PROVE  AwaitingHasAsker'
  <1> USE DEF TypeOK, StoreTypeOK, AskersKnown, AwaitingHasAsker, Parked,
        Terminal, Goto, AskGoto, Fault, vars, runVars, cancelVars, askVars,
        replyVars, storeVars, rowVars, others
  <1>1. ASSUME NEW t \in Task, CreateRow(t)
       PROVE  AwaitingHasAsker'
    <2>1. owner' = owner /\ asker' = asker /\ faults' = faults
      BY <1>1 DEF CreateRow
    <2>2. \A u \in Task : status'[u] = "awaiting_user" => status[u] = "awaiting_user"
      BY <1>1 DEF CreateRow, InsertTask
    <2>3. \A u \in Task : run[u] \in {"queued", "begin", "dead"} => run'[u] = run[u]
      BY <1>1 DEF CreateRow
    <2>4. \A u \in Task : Parked(u)' = Parked(u)
      BY <2>1
    <2> HIDE DEF Parked, TypeOK, StoreTypeOK, AskersKnown
    <2>5. QED BY <2>1, <2>2, <2>3, <2>4
  <1>2. ASSUME NEW t \in Task, RunStep(t)
       PROVE  AwaitingHasAsker'
    <2>1. CASE CreateEvent(t)
      <3>1. status' = status /\ owner' = owner /\ asker' = asker /\ faults' = faults
        BY <2>1 DEF CreateEvent
      <3>2. \A u \in Task : run[u] \in {"queued", "begin", "dead"} => run'[u] = run[u]
        BY <2>1 DEF CreateEvent
      <3>3. QED BY <3>1, <3>2
    <2>2. CASE Enqueue(t)
      BY <2>2 DEF Enqueue
    <2>3. CASE TakeJob(t)
      BY <2>3 DEF TakeJob
    <2>4. CASE BeginRow(t)
      BY <2>4 DEF BeginRow, MarkStarted, Live, AfterBegin, MoveIfLive
    <2>5. CASE BeginEvent(t)
      BY <2>5 DEF BeginEvent, AppendEvent, AfterBegin
    <2>6. CASE Plan(t)
      <3>1. status' = status /\ owner' = owner /\ asker' = asker /\ faults' = faults
        BY <2>6 DEF Plan
      <3>2. \A u \in Task : run[u] \in {"queued", "begin", "dead"} => run'[u] = run[u]
        BY <2>6 DEF Plan
      <3>3. QED BY <3>1, <3>2
    <2>7. ASSUME NEW outcome \in {"completed", "failed"},
                ExecuteEnds(t, outcome)
         PROVE  AwaitingHasAsker'
      BY <2>7 DEF ExecuteEnds, Asking, AskStage
    <2>8. CASE FinishRow(t)
      BY <2>8 DEF FinishRow, MarkCompleted, MarkFailed, Live, MoveIfLive
    <2>9. CASE FinishEvent(t)
      BY <2>9 DEF FinishEvent, AppendEvent
    <2>10. CASE Rollup(t)
      BY <2>10 DEF Rollup, WriteSpent
    <2>11. CASE Deliver(t)
      BY <2>11 DEF Deliver
    <2>12. CASE Return(t)
      BY <2>12 DEF Return
    <2> QED BY <1>2, <2>1, <2>2, <2>3, <2>4, <2>5, <2>6, <2>7, <2>8, <2>9,
             <2>10, <2>11, <2>12 DEF RunStep
  <1>3. ASSUME NEW t \in Task, RunFault(t)
       PROVE  AwaitingHasAsker'
    <2>1. CASE CreateFails(t)
      BY <2>1 DEF CreateFails
    <2>2. CASE TransitionLost(t)
      BY <2>2 DEF TransitionLost, AfterBegin
    <2>3. CASE RollupLost(t)
      BY <2>3 DEF RollupLost
    <2>4. CASE Crash(t)
      <3>1. run'[t] \in {"dead", "queued"} /\ \A u \in Task \ {t} : run'[u] = run[u]
        BY <2>4 DEF Crash
      <3>2. \A u \in Task \ {t} : Parked(u) \subseteq Parked(u)'
        BY <2>4 DEF Crash
      <3>3. status' = status /\ faults' = faults
        BY <2>4 DEF Crash
      <3> HIDE DEF Parked
      <3>4. QED BY <3>1, <3>2, <3>3
    <2> QED BY <1>3, <2>1, <2>2, <2>3, <2>4 DEF RunFault
  <1>4. ASSUME NEW t \in Task, CancelStep(t)
       PROVE  AwaitingHasAsker'
    <2>1. CASE CancelRow(t)
      BY <2>1 DEF CancelRow, Live, MarkCancelled, MoveIfLive
    <2>2. CASE CancelEvent(t)
      BY <2>2 DEF CancelEvent, AppendEvent
    <2>3. CASE CancelReadsUsage(t)
      BY <2>3 DEF CancelReadsUsage
    <2>4. CASE CancelWritesSpent(t)
      BY <2>4 DEF CancelWritesSpent, WriteSpent
    <2>5. CASE CancelLost(t)
      BY <2>5 DEF CancelLost
    <2> QED BY <1>4, <2>1, <2>2, <2>3, <2>4, <2>5 DEF CancelStep
  <1>5. ASSUME NEW q \in Question, AskStep(q)
       PROVE  AwaitingHasAsker'
    <2>1. CASE AskParks(q)
      BY <2>1 DEF AskParks, MarkAwaitingUser, MoveIfLive, Live
    <2>2. CASE AskDelivers(q)
      BY <2>2 DEF AskDelivers, AppendEvent
    <2>3. CASE WaitSeesAnswer(q)
      BY <2>3 DEF WaitSeesAnswer
    <2>4. CASE WaitTimesOut(q)
      BY <2>4 DEF WaitTimesOut
    <2>5. CASE TimeoutRow(q)
      BY <2>5 DEF TimeoutRow, MarkTimeout, Resolve
    <2>6. CASE TimeoutBlocks(q)
      BY <2>6 DEF TimeoutBlocks, MarkBlocked, MoveIfLive, Live
    <2>7. CASE TimeoutEvent(q)
      BY <2>7 DEF TimeoutEvent, AppendEvent
    <2>8. CASE ResumeRow(q)
      BY <2>8 DEF ResumeRow, MarkStarted, MoveIfLive, Live
    <2>9. CASE ResumeEvent(q)
      BY <2>9 DEF ResumeEvent, AppendEvent
    <2> QED BY <1>5, <2>1, <2>2, <2>3, <2>4, <2>5, <2>6, <2>7, <2>8, <2>9
             DEF AskStep
  <1>6. ASSUME NEW q \in Question, AskFault(q)
       PROVE  AwaitingHasAsker'
    <2>1. CASE AskFails(q)
      BY <2>1 DEF AskFails
    <2>2. CASE TimeoutLost(q)
      BY <2>2 DEF TimeoutLost
    <2>3. CASE ResumeLost(q)
      BY <2>3 DEF ResumeLost
    <2> QED BY <1>6, <2>1, <2>2, <2>3 DEF AskFault
  <1>7. ASSUME NEW q \in Question, Time(q)
       PROVE  AwaitingHasAsker'
    BY <1>7 DEF Time, Expire, Deadline
  <1>8. ASSUME NEW m \in Message, UserStep(m)
       PROVE  AwaitingHasAsker'
    BY <1>8 DEF UserStep, Receive, OpenForUser, Answer, MarkAnswered, Told,
       Resolve, WebAnswer
  <1>9. ASSUME NEW q \in Question, NEW t \in Task, AskCreate(q, t)
       PROVE  AwaitingHasAsker'
    BY <1>9 DEF AskCreate, InsertQuestion
  <1>10. CASE UNCHANGED vars
    BY <1>10
  <1> QED BY <1>1, <1>2, <1>3, <1>4, <1>5, <1>6, <1>7, <1>8, <1>9, <1>10
           DEF Next

(* The cost shown for a task that nobody cancelled is all it spent, over    *)
(* every attempt of the queue, once its run is over.                        *)
THEOREM UncancelledCostIsFinalAlways == Spec => []UncancelledCostIsFinal
  <1>1. Init => UncancelledCostIsFinal
    BY DEF Init, UncancelledCostIsFinal
  <1>2. IInv /\ UncancelledCostIsFinal /\ [Next]_vars => UncancelledCostIsFinal'
    BY UncancelledCostIsFinalStep DEF IInv
  <1>3. QED BY <1>1, <1>2, Invariance, PTL DEF Spec

(* A task that waits for the user has an ask that will move it on, however  *)
(* many asks of a parallel group are open and in whatever order they end.   *)
THEOREM AwaitingHasAskerAlways == Spec => []AwaitingHasAsker
  <1>1. Init => AwaitingHasAsker
    BY DEF Init, StoreInit, AwaitingHasAsker
  <1>2. IInv /\ AwaitingHasAsker /\ [Next]_vars => AwaitingHasAsker'
    BY AwaitingHasAskerStep DEF IInv
  <1>3. QED BY <1>1, <1>2, Invariance, PTL DEF Spec

-----------------------------------------------------------------------------
(* TaskLifecycle implements TaskMachine. *)

machineVars == <<status, [t \in Task |-> [e \in Terminal |-> events[t][e]]]>>

(* A guarded UPDATE that keeps the timeline is a move of the abstract task, *)
(* or nothing.                                                              *)
LEMMA MoveRefines ==
  ASSUME TypeOK, NEW t \in Task, NEW s \in Status \ {"pending"},
         MoveIfLive(t, s), UNCHANGED events
  PROVE  [Machine!Next]_machineVars
  <1>1. CASE Live(t)
    <2>1. Machine!Move(t, s)
      BY <1>1 DEF MoveIfLive, Live, TypeOK, StoreTypeOK, Status, Terminal,
         Machine!Move, Machine!Alive
    <2>2. s \in (Machine!Alive \ {"pending"}) \cup Machine!Ending
      BY DEF Status, Terminal, Machine!Alive, Machine!Ending
    <2>3. QED BY <2>1, <2>2 DEF Machine!Next
  <1>2. CASE ~Live(t)
    BY <1>2 DEF MoveIfLive, machineVars
  <1>3. QED BY <1>1, <1>2

(* An event that tells no ending is invisible to the abstract task. *)
LEMMA OtherEventStutters ==
  ASSUME TypeOK, NEW t \in Task, NEW e \in EventType \ Terminal,
         AppendEvent(t, e), UNCHANGED status
  PROVE  UNCHANGED machineVars
  <1>1. \A u \in Task, x \in Terminal : events'[u][x] = events[u][x]
    BY DEF AppendEvent, TypeOK, StoreTypeOK, EventType, Terminal
  <1>2. QED BY <1>1 DEF machineVars

(* An event that tells the ending the row has, untold until now, is the     *)
(* abstract Tell.                                                           *)
LEMMA EndingEventTells ==
  ASSUME TypeOK, NEW t \in Task, status[t] \in Terminal,
         \A e \in Terminal : events[t][e] = 0,
         AppendEvent(t, status[t]), UNCHANGED status
  PROVE  Machine!Next
  <1> DEFINE told == [u \in Task |-> [e \in Terminal |-> events[u][e]]]
  <1>1. \A u \in Task, e \in Terminal :
          events'[u][e] = IF u = t /\ e = status[t] THEN 1 ELSE events[u][e]
    BY DEF AppendEvent, TypeOK, StoreTypeOK, EventType, Terminal
  <1>2. told' = [told EXCEPT ![t][status[t]] = 1]
    <2>1. told' = [u \in Task |-> [e \in Terminal |->
                     IF u = t /\ e = status[t] THEN 1 ELSE events[u][e]]]
      BY <1>1
    <2> DEFINE row == [told[t] EXCEPT ![status[t]] = 1]
    <2>2. row = [e \in Terminal |-> IF e = status[t] THEN 1 ELSE events[t][e]]
      OBVIOUS
    <2>3. \A u \in Task \ {t} :
            told[u] = [e \in Terminal |-> IF u = t /\ e = status[t] THEN 1
                                                              ELSE events[u][e]]
      OBVIOUS
    <2> HIDE DEF row
    <2>4. [told EXCEPT ![t] = row] = told'
      <3>1. \A u \in Task \ {t} : [told EXCEPT ![t] = row][u] = told'[u]
        BY <2>1, <2>3
      <3>2. [told EXCEPT ![t] = row][t] = told'[t]
        BY <2>1, <2>2
      <3>3. QED BY <2>1, <3>1, <3>2
    <2>5. QED BY <2>4 DEF row
  <1>3. Machine!Tell(t)
    BY <1>2 DEF Machine!Tell, Machine!Ending, Terminal
  <1>4. QED BY <1>3 DEF Machine!Next

(* Every step of a task's run, asks, replies and cancel is one of TaskMachine. *)
LEMMA StepRefines ==
  ASSUME IInv, [Next]_vars
  PROVE  [Machine!Next]_machineVars
  <1> USE DEF vars, runVars, cancelVars, askVars, replyVars, storeVars,
        rowVars, others
  <1>1. ASSUME NEW t \in Task, CreateRow(t)
       PROVE  [Machine!Next]_machineVars
    <2>1. Machine!Create(t)
      BY <1>1 DEF IInv, RowFollowsRun, CreateRow, InsertTask, Machine!Create
    <2>2. QED BY <2>1 DEF Machine!Next
  <1>2. ASSUME NEW t \in Task, RunStep(t)
       PROVE  [Machine!Next]_machineVars
    <2>1. CASE CreateEvent(t)
      BY <2>1, OtherEventStutters DEF IInv, EventType, Terminal, CreateEvent
    <2>2. CASE Enqueue(t)
      BY <2>2 DEF Enqueue, machineVars
    <2>3. CASE TakeJob(t)
      BY <2>3 DEF TakeJob, machineVars
    <2>4. CASE BeginRow(t)
      BY <2>4, MoveRefines DEF IInv, Status, Terminal, BeginRow, MarkStarted,
         AfterBegin
    <2>5. CASE BeginEvent(t)
      BY <2>5, OtherEventStutters DEF IInv, EventType, Terminal, BeginEvent,
         AfterBegin
    <2>6. CASE Plan(t)
      BY <2>6 DEF Plan, machineVars
    <2>7. ASSUME NEW outcome \in {"completed", "failed"},
                ExecuteEnds(t, outcome)
         PROVE  [Machine!Next]_machineVars
      BY <2>7 DEF ExecuteEnds, machineVars
    <2>8. CASE FinishRow(t)
      <3>1. CASE want[t] = "completed"
        BY <2>8, <3>1, MoveRefines DEF IInv, Status, Terminal, FinishRow, MarkCompleted
      <3>2. CASE want[t] # "completed"
        BY <2>8, <3>2, MoveRefines DEF IInv, Status, Terminal, FinishRow, MarkFailed
      <3>3. QED BY <3>1, <3>2
    <2>9. CASE FinishEvent(t)
      BY <2>9, EndingEventTells DEF IInv, EndedOnce, TypeOK, Terminal,
         FinishEvent
    <2>10. CASE Rollup(t)
      BY <2>10 DEF Rollup, WriteSpent, machineVars
    <2>11. CASE Deliver(t)
      BY <2>11 DEF Deliver, machineVars
    <2>12. CASE Return(t)
      BY <2>12 DEF Return, machineVars
    <2> QED BY <1>2, <2>1, <2>2, <2>3, <2>4, <2>5, <2>6, <2>7, <2>8, <2>9,
             <2>10, <2>11, <2>12 DEF RunStep
  <1>3. ASSUME NEW t \in Task, RunFault(t)
       PROVE  [Machine!Next]_machineVars
    BY <1>3 DEF RunFault, CreateFails, Fault, Goto, machineVars,
       TransitionLost, AfterBegin, RollupLost, Crash, Running, Asking,
       AskStage
  <1>4. ASSUME NEW t \in Task, CancelStep(t)
       PROVE  [Machine!Next]_machineVars
    <2>1. CASE CancelRow(t)
      BY <2>1, MoveRefines DEF IInv, Status, Terminal, CancelRow, MarkCancelled
    <2>2. CASE CancelEvent(t)
      BY <2>2, EndingEventTells DEF IInv, EndedOnce, Terminal, CancelEvent
    <2>3. CASE CancelReadsUsage(t)
      BY <2>3 DEF CancelReadsUsage, machineVars
    <2>4. CASE CancelWritesSpent(t)
      BY <2>4 DEF CancelWritesSpent, WriteSpent, machineVars
    <2>5. CASE CancelLost(t)
      BY <2>5 DEF CancelLost, Fault, machineVars
    <2> QED BY <1>4, <2>1, <2>2, <2>3, <2>4, <2>5 DEF CancelStep
  <1>5. ASSUME NEW q \in Question, AskStep(q)
       PROVE  [Machine!Next]_machineVars
    <2>1. CASE AskParks(q)
      <3>1. owner[q] \in Task
        BY <2>1 DEF IInv, AskersKnown, AskParks
      <3>2. QED BY <2>1, <3>1, MoveRefines DEF IInv, Status, AskParks, MarkAwaitingUser
    <2>2. CASE AskDelivers(q)
      <3>1. owner[q] \in Task
        BY <2>2 DEF IInv, AskersKnown, AskDelivers
      <3>2. QED BY <2>2, <3>1, OtherEventStutters DEF IInv, EventType, Terminal, AskDelivers
    <2>3. CASE WaitSeesAnswer(q)
      BY <2>3 DEF WaitSeesAnswer, machineVars
    <2>4. CASE WaitTimesOut(q)
      BY <2>4 DEF WaitTimesOut, machineVars
    <2>5. CASE TimeoutRow(q)
      BY <2>5 DEF TimeoutRow, MarkTimeout, Resolve, machineVars
    <2>6. CASE TimeoutBlocks(q)
      <3>1. owner[q] \in Task
        BY <2>6 DEF IInv, AskersKnown, TimeoutBlocks
      <3>2. QED BY <2>6, <3>1, MoveRefines DEF IInv, Status, TimeoutBlocks, MarkBlocked
    <2>7. CASE TimeoutEvent(q)
      <3>1. owner[q] \in Task
        BY <2>7 DEF IInv, AskersKnown, TimeoutEvent
      <3>2. QED BY <2>7, <3>1, OtherEventStutters DEF IInv, EventType, Terminal, TimeoutEvent
    <2>8. CASE ResumeRow(q)
      <3>1. owner[q] \in Task
        BY <2>8 DEF IInv, AskersKnown, ResumeRow
      <3>2. QED BY <2>8, <3>1, MoveRefines DEF IInv, Status, ResumeRow, MarkStarted
    <2>9. CASE ResumeEvent(q)
      <3>1. owner[q] \in Task
        BY <2>9 DEF IInv, AskersKnown, ResumeEvent
      <3>2. QED BY <2>9, <3>1, OtherEventStutters DEF IInv, EventType, Terminal, ResumeEvent
    <2> QED BY <1>5, <2>1, <2>2, <2>3, <2>4, <2>5, <2>6, <2>7, <2>8, <2>9
             DEF AskStep
  <1>6. ASSUME NEW q \in Question, AskFault(q)
       PROVE  [Machine!Next]_machineVars
    BY <1>6 DEF AskFault, AskFails, Fault, AskGoto, machineVars,
       TimeoutLost, ResumeLost
  <1>7. ASSUME NEW q \in Question, Time(q)
       PROVE  [Machine!Next]_machineVars
    BY <1>7 DEF Time, Expire, machineVars, Deadline
  <1>8. ASSUME NEW m \in Message, UserStep(m)
       PROVE  [Machine!Next]_machineVars
    BY <1>8 DEF UserStep, Receive, OpenForUser, machineVars, Answer,
       MarkAnswered, Told, Resolve, WebAnswer
  <1>9. ASSUME NEW q \in Question, NEW t \in Task, AskCreate(q, t)
       PROVE  [Machine!Next]_machineVars
    BY <1>9 DEF AskCreate, machineVars
  <1>10. CASE UNCHANGED vars
    BY <1>10 DEF machineVars
  <1> QED BY <1>1, <1>2, <1>3, <1>4, <1>5, <1>6, <1>7, <1>8, <1>9, <1>10
           DEF Next

(* The detailed lifecycle implements the abstract one: each task is created *)
(* once, ends once and for good, and its timeline tells that ending at most *)
(* once, whoever races for it.                                              *)
THEOREM Refinement == Spec => TaskMachineSpec
  <1>1. Init => Machine!Init
    BY DEF Init, StoreInit, EventType, Terminal, Machine!Init, Machine!Ending
  <1>2. IInv /\ [Next]_vars => [Machine!Next]_machineVars
    BY StepRefines
  <1>3. QED BY <1>1, <1>2, Invariance, PTL DEF Spec, TaskMachineSpec, Machine!Spec, machineVars
=============================================================================
