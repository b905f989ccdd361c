----------------------- MODULE ScheduleDispatch_proofs -----------------------
(***************************************************************************)
(* Every firing of a schedule is accounted for, no slot fires twice and a  *)
(* cancellation is final, for any number of dispatchers that overlap, are  *)
(* late or die.                                                            *)
(***************************************************************************)
EXTENDS ScheduleDispatch, FiniteSetTheorems, SequenceTheorems, TLAPS

Committed(d) == pc[d] \in {"spawning", "enqueue"}
Open(s, i) == tasks[s][i].stage \in {"created", "queued"}

(* A claim under way has locked its rows, which stay as it read them until  *)
(* its commit; nobody else holds a lock.                                    *)
ClaimHeld(d) ==
  /\ pc[d] \in {"idle", "woken"} => claimed[d] = {}
  /\ pc[d] # "idle" => at[d] \in 1..MaxTime
  /\ pc[d] = "locked" => \A c \in claimed[d] : lock[c.of] = d /\ row[c.of] = c.row
  /\ \A c, e \in claimed[d] : c.of = e.of => c = e
  /\ \A c \in claimed[d] :
       c.row.status = "active" /\ c.row.next # 0 /\ c.row.next <= at[d]
LockHeld(s) ==
  lock[s] # NoDispatcher =>
    pc[lock[s]] = "locked" /\ \E c \in claimed[lock[s]] : c.of = s
ClaimsLocked == (\A d \in Dispatcher : ClaimHeld(d)) /\ \A s \in Schedule : LockHeld(s)

(* What a row says of itself: WithinTerms, and that one more firing of an   *)
(* active row is within them.                                               *)
RowKept(r) ==
  /\ r.status = "absent" => r = NoRow
  /\ r.status = "active" <=> r.next # 0
  /\ r.kind = "once" => r.count <= 1
  /\ r.kind = "once" /\ r.status = "active" => r.count = 0
  /\ r.cap # 0 => r.count <= r.cap
  /\ r.cap # 0 /\ r.status = "active" => r.count < r.cap
  /\ r.until # 0 /\ r.count > 0 => r.next <= r.until
RowsKept == \A s \in Schedule : RowKept(row[s])

(* A dispatcher that has a task to enqueue has one that it created, which   *)
(* no other has.                                                            *)
HandsKept ==
  /\ \A d \in Dispatcher :
       pc[d] = "enqueue" =>
         /\ hand[d] \in Schedule \X Nat
         /\ hand[d][2] \in DOMAIN tasks[hand[d][1]]
         /\ tasks[hand[d][1]][hand[d][2]].stage = "created"
  /\ \A d, e \in Dispatcher :
       pc[d] = "enqueue" /\ pc[e] = "enqueue" /\ hand[d] = hand[e] => d = e

BaseInv == TypeOK /\ ClaimsLocked /\ RowsKept /\ HandsKept

(* FiringsAccounted, of a set of claims that is finite. *)
Accounted ==
  \A s \in Schedule :
    /\ IsFiniteSet(Owed(s))
    /\ Len(tasks[s]) + Cardinality(Owed(s)) <= row[s].count
    /\ faults = 0 => Len(tasks[s]) + Cardinality(Owed(s)) = row[s].count

(* Firings, with or without a task yet, come one after the other, and all   *)
(* of them before the slot the row waits for.                               *)
FiringsApart ==
  \A s \in Schedule :
    /\ \A i \in DOMAIN tasks[s] :
         /\ tasks[s][i].slot <= tasks[s][i].fired
         /\ row[s].next # 0 => tasks[s][i].fired < row[s].next
    /\ \A i, j \in DOMAIN tasks[s] :
         i # j => \/ tasks[s][i].fired < tasks[s][j].slot
                  \/ tasks[s][j].fired < tasks[s][i].slot
    /\ \A d \in Dispatcher : \A c \in claimed[d] :
         Committed(d) /\ c.of = s =>
           /\ row[s].next # 0 => at[d] < row[s].next
           /\ \A i \in DOMAIN tasks[s] :
                \/ tasks[s][i].fired < c.row.next
                \/ at[d] < tasks[s][i].slot
           /\ \A e \in Dispatcher \ {d} : \A b \in claimed[e] :
                Committed(e) /\ b.of = s => \/ at[d] < b.row.next
                                            \/ at[e] < c.row.next

FiringInv == BaseInv /\ Accounted /\ FiringsApart

(* Where no runs overlapped, the last firing is alone under way, and what   *)
(* the earlier ones saved is in the blob, in its claim and in its prompt.   *)
NotesKept ==
  \A s \in Schedule \ overlap :
    /\ \A i \in DOMAIN tasks[s] : tasks[s][i].noted => tasks[s][i].slot \in row[s].notes
    /\ \A i, j \in DOMAIN tasks[s] :
         i # j /\ Open(s, j) => ~Open(s, i) /\ tasks[s][i].slot < tasks[s][j].slot
    /\ \A i, j \in DOMAIN tasks[s] :
         tasks[s][i].noted /\ tasks[s][i].slot < tasks[s][j].slot
           => tasks[s][i].slot \in tasks[s][j].seen
    /\ \A d \in Dispatcher : \A c \in claimed[d] :
         Committed(d) /\ c.of = s =>
           /\ \A i \in DOMAIN tasks[s] :
                /\ ~Open(s, i) /\ tasks[s][i].slot < c.row.next
                /\ tasks[s][i].noted => tasks[s][i].slot \in c.row.notes
           /\ \A e \in Dispatcher \ {d} : \A b \in claimed[e] :
                ~(Committed(e) /\ b.of = s)

-----------------------------------------------------------------------------
(* Instants. *)

(* The next slot of a schedule that has one lies after the instant it is    *)
(* counted from, and within a period of it.                                 *)
LEMMA NextIsAfter ==
  ASSUME NEW kind \in Kind, NEW t \in 0..MaxTime
  PROVE  /\ NextRunAt(kind, t) \in Instant
         /\ kind = "once" => NextRunAt(kind, t) = 0
         /\ kind # "once" => NextRunAt(kind, t) > t
  <1>1. t \in Nat /\ Period \in Nat \ {0} /\ MaxTime \in Nat
    BY DispatchAssumption
  <1>2. CASE kind = "once"
    BY <1>1, <1>2 DEF NextRunAt, Instant
  <1>3. CASE kind = "interval"
    BY <1>1, <1>3 DEF NextRunAt, Instant
  <1>4. CASE kind = "cron"
    <2> DEFINE q == t \div Period
    <2>1. /\ q \in Nat
          /\ q * Period <= t /\ t < (q + 1) * Period /\ (q + 1) * Period = q * Period + Period
      BY <1>1
    <2>2. NextRunAt(kind, t) = (q + 1) * Period
      BY <1>4 DEF NextRunAt
    <2> HIDE DEF q
    <2>3. q * Period \in Nat /\ (q + 1) * Period \in Nat
      BY <1>1, <2>1
    <2>4. QED BY <1>1, <1>4, <2>1, <2>2, <2>3 DEF Instant
  <1>5. QED BY <1>2, <1>3, <1>4 DEF Kind

(* What a firing leaves a row to wait for: nothing, or a later slot that is *)
(* within its terms.                                                        *)
LEMMA NextAfterFiring ==
  ASSUME NEW r \in Row, NEW t \in 1..MaxTime
  PROVE  LET next == NextAfterFire(r, t) IN
         /\ next \in Instant
         /\ next # 0 => /\ r.kind # "once" /\ next > t
                        /\ r.cap # 0 => r.count + 1 < r.cap
                        /\ r.until # 0 => next <= r.until
  <1>1. /\ r.kind \in Kind /\ r.count \in Nat /\ r.cap \in Nat /\ r.until \in Nat
        /\ t \in 0..MaxTime
    BY DispatchAssumption DEF Row
  <1> DEFINE n == NextRunAt(r.kind, t)
  <1>2. /\ n \in Instant
        /\ r.kind = "once" => n = 0
        /\ r.kind # "once" => n > t
    BY <1>1, NextIsAfter
  <1>3. NextAfterFire(r, t) = IF \/ r.cap # 0 /\ r.count + 1 >= r.cap
                                 \/ r.until # 0 /\ n > r.until
                                THEN 0 ELSE n
    BY DEF NextAfterFire
  <1>4. 0 \in Instant /\ \A x \in Instant : x \in Nat
    BY DispatchAssumption DEF Instant
  <1> HIDE DEF n
  <1>5. CASE NextAfterFire(r, t) = 0
    BY <1>4, <1>5
  <1>6. CASE NextAfterFire(r, t) # 0
    <2>1. /\ NextAfterFire(r, t) = n
          /\ ~(r.cap # 0 /\ r.count + 1 >= r.cap)
          /\ ~(r.until # 0 /\ n > r.until)
      BY <1>3, <1>6
    <2>2. n \in Nat /\ r.kind # "once" /\ n > t
      BY <1>2, <1>4, <1>6, <2>1
    <2>3. QED BY <1>1, <1>2, <2>1, <2>2
  <1>7. QED BY <1>5, <1>6

-----------------------------------------------------------------------------
(* What the operators of the model do. *)

(* A row that fired at instant t. *)
Fired(r, t) ==
  [r EXCEPT !.next = NextAfterFire(r, t), !.last = t, !.count = @ + 1,
            !.status = IF NextAfterFire(r, t) = 0 THEN "done" ELSE "active"]

(* A firing within its terms leaves a row that is. *)
LEMMA FiredKept ==
  ASSUME NEW r \in Row, NEW t \in 1..MaxTime, RowKept(r), r.status = "active"
  PROVE  /\ Fired(r, t) \in Row /\ RowKept(Fired(r, t))
         /\ Fired(r, t).count = r.count + 1 /\ Fired(r, t).notes = r.notes
         /\ Fired(r, t).status # "absent" /\ Fired(r, t).status # "cancelled"
         /\ Fired(r, t).next # 0 => Fired(r, t).next > t
  <1> DEFINE n == NextAfterFire(r, t)
             f == Fired(r, t)
  <1>1. /\ n \in Instant
        /\ n # 0 => /\ r.kind # "once" /\ n > t
                    /\ r.cap # 0 => r.count + 1 < r.cap
                    /\ r.until # 0 => n <= r.until
    BY NextAfterFiring
  <1>2. /\ r.count \in Nat /\ r.cap \in Nat /\ r.until \in Nat /\ r.next \in Instant
        /\ r.kind \in Kind /\ r.notes \subseteq Instant
    BY DEF Row
  <1>3. t \in Instant /\ 0 \in Instant /\ \A x \in Instant : x \in Nat
    BY DispatchAssumption DEF Instant
  <1>4. f = [r EXCEPT !.next = n, !.last = t, !.count = @ + 1,
                      !.status = IF n = 0 THEN "done" ELSE "active"]
    BY DEF Fired
  <1> HIDE DEF n, f
  <1>5. /\ f.status = (IF n = 0 THEN "done" ELSE "active") /\ f.kind = r.kind
        /\ f.next = n /\ f.count = r.count + 1 /\ f.cap = r.cap
        /\ f.until = r.until /\ f.notes = r.notes
    BY <1>4 DEF Row
  <1>6. f \in Row
    <2> DEFINE m == r.count + 1
               v == IF n = 0 THEN "done" ELSE "active"
    <2>1. m \in Nat /\ v \in {"absent", "active", "done", "cancelled"}
      BY <1>2
    <2>2. f = [r EXCEPT !.next = n, !.last = t, !.count = m, !.status = v]
      BY <1>4
    <2> HIDE DEF m, v
    <2>3. QED BY <1>1, <1>3, <2>1, <2>2 DEF Row
  <1>7. /\ r.kind = "once" => r.count = 0
        /\ r.cap # 0 => r.count < r.cap
    BY DEF RowKept
  <1>8. RowKept(f)
    BY <1>1, <1>2, <1>3, <1>5, <1>7 DEF RowKept
  <1>9. QED BY <1>1, <1>5, <1>6, <1>8 DEF f, n

(* The two UPDATEs of a row outside a claim. *)
LEMMA RowEdited ==
  ASSUME NEW r \in Row, NEW blob \in SUBSET Instant
  PROVE  /\ [r EXCEPT !.notes = blob] \in Row
         /\ [r EXCEPT !.status = "cancelled", !.next = 0] \in Row
  <1>1. 0 \in Instant
    BY DispatchAssumption DEF Instant
  <1>2. QED BY <1>1 DEF Row

(* A commit fires each row of the claim, and no other. *)
LEMMA AdvancedRow ==
  ASSUME BaseInv, NEW d \in Dispatcher, pc[d] = "locked", NEW s \in Schedule
  PROVE  /\ (\E c \in claimed[d] : c.of = s)
              => Advanced(claimed[d], at[d])[s] = Fired(row[s], at[d])
         /\ ~(\E c \in claimed[d] : c.of = s)
              => Advanced(claimed[d], at[d])[s] = row[s]
  <1>1. CASE \E c \in claimed[d] : c.of = s
    <2> DEFINE c == CHOOSE c \in claimed[d] : c.of = s
    <2>1. c \in claimed[d] /\ c.of = s
      BY <1>1
    <2>2. c.row = row[s]
      BY <2>1 DEF BaseInv, ClaimsLocked, ClaimHeld
    <2>3. Advanced(claimed[d], at[d])[s] =
            [row[s] EXCEPT !.next = NextAfterFire(c.row, at[d]), !.last = at[d],
               !.count = @ + 1,
               !.status = IF NextAfterFire(c.row, at[d]) = 0 THEN "done" ELSE "active"]
      BY <1>1 DEF Advanced
    <2>4. QED BY <1>1, <2>2, <2>3 DEF Fired
  <1>2. CASE ~(\E c \in claimed[d] : c.of = s)
    BY <1>2 DEF Advanced
  <1>3. QED BY <1>1, <1>2

(* A task is at another stage, and all else of the tasks is as it was. *)
LEMMA StageSet ==
  ASSUME TypeOK, NEW s \in Schedule, NEW i \in DOMAIN tasks[s],
         NEW stage \in {"created", "orphan", "queued", "ended"}, SetStage(s, i, stage)
  PROVE  /\ tasks' \in [Schedule -> Seq(Run)]
         /\ \A r \in Schedule :
              /\ Len(tasks'[r]) = Len(tasks[r]) /\ DOMAIN tasks'[r] = DOMAIN tasks[r]
              /\ \A j \in DOMAIN tasks[r] :
                   /\ tasks'[r][j].slot = tasks[r][j].slot
                   /\ tasks'[r][j].fired = tasks[r][j].fired
                   /\ tasks'[r][j].seen = tasks[r][j].seen
                   /\ tasks'[r][j].noted = tasks[r][j].noted
                   /\ tasks'[r][j].stage =
                        IF r = s /\ j = i THEN stage ELSE tasks[r][j].stage
  <1>1. tasks \in [Schedule -> Seq(Run)] /\ tasks[s] \in Seq(Run)
    BY DEF TypeOK
  <1>2. tasks[s][i] \in Run
    BY <1>1, ElementOfSeq, LenProperties
  <1> DEFINE new == [tasks[s][i] EXCEPT !.stage = stage]
             seq == [tasks[s] EXCEPT ![i] = new]
  <1>3. /\ new \in Run /\ new.slot = tasks[s][i].slot /\ new.fired = tasks[s][i].fired
        /\ new.seen = tasks[s][i].seen /\ new.noted = tasks[s][i].noted
        /\ new.stage = stage
    BY <1>2 DEF Run
  <1>4. tasks' = [tasks EXCEPT ![s] = seq]
    BY DEF SetStage
  <1> HIDE DEF new
  <1>5. /\ seq \in Seq(Run) /\ Len(seq) = Len(tasks[s])
        /\ DOMAIN seq = DOMAIN tasks[s]
        /\ \A j \in DOMAIN tasks[s] : seq[j] = IF j = i THEN new ELSE tasks[s][j]
    BY <1>1, <1>3, ExceptSeq
  <1> HIDE DEF seq
  <1>6. tasks' \in [Schedule -> Seq(Run)]
    BY <1>1, <1>4, <1>5
  <1>7. /\ tasks'[s] = seq
        /\ \A r \in Schedule \ {s} : tasks'[r] = tasks[r]
    BY <1>1, <1>4
  <1>8. QED BY <1>3, <1>5, <1>6, <1>7

(* A task has saved notes, and all else of the tasks is as it was.          *)
LEMMA NotedSet ==
  ASSUME TypeOK, NEW s \in Schedule, NEW i \in DOMAIN tasks[s],
         tasks' = [tasks EXCEPT ![s][i].noted = TRUE]
  PROVE  /\ tasks' \in [Schedule -> Seq(Run)]
         /\ \A r \in Schedule :
              /\ Len(tasks'[r]) = Len(tasks[r]) /\ DOMAIN tasks'[r] = DOMAIN tasks[r]
              /\ \A j \in DOMAIN tasks[r] :
                   /\ tasks'[r][j].slot = tasks[r][j].slot
                   /\ tasks'[r][j].fired = tasks[r][j].fired
                   /\ tasks'[r][j].seen = tasks[r][j].seen
                   /\ tasks'[r][j].stage = tasks[r][j].stage
                   /\ (tasks'[r][j].noted <=> tasks[r][j].noted \/ (r = s /\ j = i))
  <1>1. tasks \in [Schedule -> Seq(Run)] /\ tasks[s] \in Seq(Run)
    BY DEF TypeOK
  <1>2. tasks[s][i] \in Run
    BY <1>1, ElementOfSeq, LenProperties
  <1> DEFINE new == [tasks[s][i] EXCEPT !.noted = TRUE]
             seq == [tasks[s] EXCEPT ![i] = new]
  <1>3. /\ new \in Run /\ new.slot = tasks[s][i].slot /\ new.fired = tasks[s][i].fired
        /\ new.seen = tasks[s][i].seen /\ new.stage = tasks[s][i].stage
        /\ new.noted = TRUE
    BY <1>2 DEF Run
  <1>4. tasks' = [tasks EXCEPT ![s] = seq]
    OBVIOUS
  <1> HIDE DEF new
  <1>5. /\ seq \in Seq(Run) /\ Len(seq) = Len(tasks[s])
        /\ DOMAIN seq = DOMAIN tasks[s]
        /\ \A j \in DOMAIN tasks[s] : seq[j] = IF j = i THEN new ELSE tasks[s][j]
    BY <1>1, <1>3, ExceptSeq
  <1> HIDE DEF seq
  <1>6. tasks' \in [Schedule -> Seq(Run)]
    BY <1>1, <1>4, <1>5
  <1>7. /\ tasks'[s] = seq
        /\ \A r \in Schedule \ {s} : tasks'[r] = tasks[r]
    BY <1>1, <1>4
  <1>8. ASSUME NEW r \in Schedule, NEW j \in DOMAIN tasks[r]
        PROVE  /\ tasks'[r][j].slot = tasks[r][j].slot
               /\ tasks'[r][j].fired = tasks[r][j].fired
               /\ tasks'[r][j].seen = tasks[r][j].seen
               /\ tasks'[r][j].stage = tasks[r][j].stage
               /\ (tasks'[r][j].noted <=> tasks[r][j].noted \/ (r = s /\ j = i))
    <2>1. CASE r = s /\ j = i
      BY <1>3, <1>5, <1>7, <2>1
    <2>2. CASE ~(r = s /\ j = i)
      <3>1. tasks'[r][j] = tasks[r][j]
        BY <1>5, <1>7, <2>2
      <3>2. QED BY <2>2, <3>1
    <2>3. QED BY <2>1, <2>2
  <1>9. \A r \in Schedule :
          Len(tasks'[r]) = Len(tasks[r]) /\ DOMAIN tasks'[r] = DOMAIN tasks[r]
    BY <1>5, <1>7
  <1>10. QED BY <1>6, <1>8, <1>9

(* A task more at the end, and the others as they were.                     *)
LEMMA TaskAdded ==
  ASSUME TypeOK, NEW s \in Schedule, NEW new \in Run,
         tasks' = [tasks EXCEPT ![s] = Append(@, new)]
  PROVE  /\ tasks' \in [Schedule -> Seq(Run)]
         /\ tasks'[s][Len(tasks[s]) + 1] = new
         /\ Len(tasks'[s]) = Len(tasks[s]) + 1 /\ Len(tasks[s]) \in Nat
         /\ Len(tasks[s]) + 1 \notin DOMAIN tasks[s]
         /\ DOMAIN tasks'[s] = DOMAIN tasks[s] \cup {Len(tasks[s]) + 1}
         /\ \A i \in DOMAIN tasks[s] : tasks'[s][i] = tasks[s][i]
         /\ \A r \in Schedule \ {s} : tasks'[r] = tasks[r]
  <1>1. tasks \in [Schedule -> Seq(Run)] /\ tasks[s] \in Seq(Run)
    BY DEF TypeOK
  <1> DEFINE seq == Append(tasks[s], new)
  <1>2. /\ seq \in Seq(Run) /\ Len(seq) = Len(tasks[s]) + 1
        /\ DOMAIN seq = 1 .. Len(tasks[s]) + 1
        /\ seq[Len(tasks[s]) + 1] = new
        /\ \A i \in 1 .. Len(tasks[s]) : seq[i] = tasks[s][i]
    BY <1>1, AppendProperties
  <1>3. DOMAIN tasks[s] = 1 .. Len(tasks[s]) /\ Len(tasks[s]) \in Nat
    BY <1>1, LenProperties
  <1>4. tasks' = [tasks EXCEPT ![s] = seq]
    OBVIOUS
  <1> HIDE DEF seq
  <1>5. tasks'[s] = seq /\ \A r \in Schedule \ {s} : tasks'[r] = tasks[r]
    BY <1>1, <1>4
  <1>6. tasks' \in [Schedule -> Seq(Run)]
    BY <1>1, <1>2, <1>4
  <1>7. 1 .. Len(tasks[s]) + 1 = (1 .. Len(tasks[s])) \cup {Len(tasks[s]) + 1}
    BY <1>3
  <1>8. Len(tasks[s]) + 1 \notin DOMAIN tasks[s]
    BY <1>3
  <1>9. QED BY <1>2, <1>3, <1>5, <1>6, <1>7, <1>8

-----------------------------------------------------------------------------
(* Types. *)

LEMMA ClaimTyped ==
  ASSUME TypeOK, NEW d \in Dispatcher, NEW c \in claimed[d]
  PROVE  /\ c.of \in Schedule /\ c.row \in Row /\ c.row.next \in Instant
         /\ c.row.notes \subseteq Instant
  <1>1. c \in [of : Schedule, row : Row]
    BY DEF TypeOK
  <1>2. QED BY <1>1 DEF Row

(* The task a dispatcher has in hand goes to another stage. *)
LEMMA HandStage ==
  ASSUME BaseInv, NEW d \in Dispatcher, pc[d] = "enqueue",
         NEW stage \in {"orphan", "queued"}, SetStage(hand[d][1], hand[d][2], stage)
  PROVE  /\ hand[d][1] \in Schedule /\ hand[d][2] \in DOMAIN tasks[hand[d][1]]
         /\ hand[d] = <<hand[d][1], hand[d][2]>>
         /\ tasks[hand[d][1]][hand[d][2]].stage = "created"
         /\ tasks' \in [Schedule -> Seq(Run)]
         /\ \A r \in Schedule :
              /\ Len(tasks'[r]) = Len(tasks[r]) /\ DOMAIN tasks'[r] = DOMAIN tasks[r]
              /\ \A j \in DOMAIN tasks[r] :
                   /\ tasks'[r][j].slot = tasks[r][j].slot
                   /\ tasks'[r][j].fired = tasks[r][j].fired
                   /\ tasks'[r][j].seen = tasks[r][j].seen
                   /\ tasks'[r][j].noted = tasks[r][j].noted
                   /\ tasks'[r][j].stage =
                        IF r = hand[d][1] /\ j = hand[d][2] THEN stage
                                                             ELSE tasks[r][j].stage
  <1>1. /\ hand[d] \in Schedule \X Nat /\ hand[d][2] \in DOMAIN tasks[hand[d][1]]
        /\ tasks[hand[d][1]][hand[d][2]].stage = "created"
    BY DEF BaseInv, HandsKept
  <1>2. hand[d][1] \in Schedule /\ hand[d] = <<hand[d][1], hand[d][2]>>
    BY <1>1
  <1>3. TypeOK
    BY DEF BaseInv
  <1>4. QED BY <1>1, <1>2, <1>3, StageSet

(* Where a dispatcher goes on to with what is left of its batch. *)
LEMMA GoneOn ==
  ASSUME TypeOK, NEW d \in Dispatcher, NEW C \in SUBSET claimed[d], GoOn(d, C)
  PROVE  /\ claimed' \in [Dispatcher -> SUBSET [of : Schedule, row : Row]]
         /\ pc' \in [Dispatcher -> {"idle", "woken", "locked", "spawning", "enqueue"}]
         /\ at' \in [Dispatcher -> Instant]
         /\ claimed'[d] = C
         /\ IF C = {} THEN pc'[d] = "idle" ELSE pc'[d] = "spawning" /\ at'[d] = at[d]
         /\ \A e \in Dispatcher \ {d} :
              claimed'[e] = claimed[e] /\ pc'[e] = pc[e] /\ at'[e] = at[e]
  <1>1. 0 \in Instant
    BY DispatchAssumption DEF Instant
  <1>2. claimed'[d] = C /\ \A e \in Dispatcher \ {d} : claimed'[e] = claimed[e]
    BY DEF TypeOK, GoOn
  <1>3. /\ pc'[d] = (IF C = {} THEN "idle" ELSE "spawning")
        /\ \A e \in Dispatcher \ {d} : pc'[e] = pc[e]
    BY DEF TypeOK, GoOn
  <1>4. /\ at'[d] = (IF C = {} THEN 0 ELSE at[d])
        /\ \A e \in Dispatcher \ {d} : at'[e] = at[e]
    BY DEF TypeOK, GoOn
  <1>5. claimed' \in [Dispatcher -> SUBSET [of : Schedule, row : Row]]
    BY DEF TypeOK, GoOn
  <1>6. pc' \in [Dispatcher -> {"idle", "woken", "locked", "spawning", "enqueue"}]
    BY DEF TypeOK, GoOn
  <1>7. at' \in [Dispatcher -> Instant]
    BY <1>1 DEF TypeOK, GoOn
  <1>8. IF C = {} THEN pc'[d] = "idle" ELSE pc'[d] = "spawning" /\ at'[d] = at[d]
    BY <1>3, <1>4
  <1>9. \A e \in Dispatcher \ {d} :
          claimed'[e] = claimed[e] /\ pc'[e] = pc[e] /\ at'[e] = at[e]
    BY <1>2, <1>3, <1>4
  <1>10. QED BY <1>2, <1>5, <1>6, <1>7, <1>8, <1>9

(* Every step keeps every variable in its type. *)
LEMMA TypeStep == ASSUME BaseInv, [Next]_vars PROVE TypeOK'
  <1>1. TypeOK
    BY DEF BaseInv
  <1>2. now \in Instant /\ now \in 1..MaxTime /\ 0 \in Instant
    BY <1>1, DispatchAssumption DEF TypeOK, Instant
  <1>3. CASE Tick
    BY <1>1, <1>3, DispatchAssumption DEF TypeOK, Tick, dispatchVars
  <1>4. ASSUME NEW s \in Schedule, NEW kind \in Kind, NEW first \in 1..MaxTime,
               NEW cap \in Caps[s], NEW until \in Ends[s],
               CreateSchedule(s, kind, first, cap, until)
        PROVE  TypeOK'
    <2>1. cap \in Nat /\ until \in Nat /\ first \in Instant
      BY DispatchAssumption DEF Instant
    <2>2. [NoRow EXCEPT !.status = "active", !.kind = kind, !.next = first,
                        !.cap = cap, !.until = until] \in Row
      BY <1>2, <2>1 DEF NoRow, Row, Kind
    <2>3. row' \in [Schedule -> Row]
      BY <1>1, <1>4, <2>2 DEF TypeOK, CreateSchedule
    <2>4. QED BY <1>1, <1>4, <2>3 DEF TypeOK, CreateSchedule, dispatchVars
  <1>5. ASSUME NEW s \in Schedule, CancelSchedule(s)
        PROVE  TypeOK'
    <2>1. row' = [row EXCEPT ![s] = [row[s] EXCEPT !.status = "cancelled", !.next = 0]]
      BY <1>1, <1>5 DEF TypeOK, CancelSchedule, CancelRow
    <2>2. [row[s] EXCEPT !.status = "cancelled", !.next = 0] \in Row
      <3>1. row[s] \in Row
        BY <1>1 DEF TypeOK
      <3>2. QED BY <3>1, RowEdited
    <2>3. row' \in [Schedule -> Row]
      BY <1>1, <2>1, <2>2 DEF TypeOK
    <2>4. QED BY <1>1, <1>5, <2>3 DEF TypeOK, CancelSchedule, dispatchVars
  <1>6. ASSUME NEW d \in Dispatcher, Wake(d)
        PROVE  TypeOK'
    BY <1>1, <1>2, <1>6 DEF TypeOK, Wake
  <1>7. ASSUME NEW d \in Dispatcher, NEW S \in SUBSET Schedule, LockDue(d, S)
        PROVE  TypeOK'
    <2> DEFINE C == {[of |-> s, row |-> row[s]] : s \in S}
    <2>1. C \subseteq [of : Schedule, row : Row]
      BY <1>1 DEF TypeOK
    <2>2. claimed' = [claimed EXCEPT ![d] = C]
      BY <1>7 DEF LockDue
    <2> HIDE DEF C
    <2>3. claimed' \in [Dispatcher -> SUBSET [of : Schedule, row : Row]]
      BY <1>1, <2>1, <2>2 DEF TypeOK
    <2>4. lock' \in [Schedule -> Dispatcher \cup {NoDispatcher}]
      BY <1>1, <1>7 DEF TypeOK, LockDue
    <2>5. pc' \in [Dispatcher -> {"idle", "woken", "locked", "spawning", "enqueue"}]
      BY <1>1, <1>7 DEF TypeOK, LockDue
    <2>6. at' \in [Dispatcher -> Instant]
      BY <1>1, <1>2, <1>7 DEF TypeOK, LockDue
    <2>7. UNCHANGED <<now, row, hand, tasks, overlap, faults>>
      BY <1>7 DEF LockDue
    <2>8. QED BY <1>1, <2>3, <2>4, <2>5, <2>6, <2>7 DEF TypeOK
  <1>8. ASSUME NEW d \in Dispatcher, Advance(d)
        PROVE  TypeOK'
    <2>1. \A s \in Schedule : Advanced(claimed[d], at[d])[s] \in Row
      <3> SUFFICES ASSUME NEW s \in Schedule
                   PROVE  Advanced(claimed[d], at[d])[s] \in Row
        OBVIOUS
      <3>1. row[s] \in Row /\ RowKept(row[s]) /\ pc[d] = "locked" /\ at[d] \in 1..MaxTime
        BY <1>1, <1>8 DEF TypeOK, BaseInv, RowsKept, Advance, ClaimsLocked, ClaimHeld
      <3>2. CASE \E c \in claimed[d] : c.of = s
        <4>1. row[s].status = "active"
          BY <3>1, <3>2 DEF BaseInv, ClaimsLocked, ClaimHeld
        <4>2. Fired(row[s], at[d]) \in Row
          BY <3>1, <4>1, FiredKept
        <4>3. QED BY <3>1, <3>2, <4>2, AdvancedRow
      <3>3. CASE ~(\E c \in claimed[d] : c.of = s)
        BY <3>1, <3>3, AdvancedRow
      <3>4. QED BY <3>2, <3>3
    <2>2. row' \in [Schedule -> Row]
      <3>1. row' = Advanced(claimed[d], at[d]) /\ DOMAIN row' = Schedule
            /\ row' = [s \in Schedule |-> row'[s]]
        BY <1>8 DEF Advance, Advanced
      <3>2. QED BY <2>1, <3>1
    <2>3. lock' \in [Schedule -> Dispatcher \cup {NoDispatcher}]
      BY <1>1, <1>8 DEF TypeOK, Advance
    <2>4. pc' \in [Dispatcher -> {"idle", "woken", "locked", "spawning", "enqueue"}]
      BY <1>1, <1>8 DEF TypeOK, Advance
    <2>5. overlap' \subseteq Schedule
      <3>1. \A c \in claimed[d] : c.of \in Schedule
        BY <1>1, ClaimTyped
      <3>2. QED BY <1>1, <1>8, <3>1 DEF TypeOK, Advance
    <2>6. UNCHANGED <<now, at, claimed, hand, tasks, faults>>
      BY <1>8 DEF Advance
    <2>7. QED BY <1>1, <2>2, <2>3, <2>4, <2>5, <2>6 DEF TypeOK
  <1>9. ASSUME NEW d \in Dispatcher, NEW c \in claimed[d], CreateTask(d, c)
        PROVE  TypeOK'
    <2> DEFINE new == [slot |-> c.row.next, fired |-> at[d], seen |-> c.row.notes,
                       noted |-> FALSE, stage |-> "created"]
    <2>1. c.of \in Schedule /\ new \in Run
      BY <1>1, ClaimTyped DEF TypeOK, Run
    <2>2. tasks' = [tasks EXCEPT ![c.of] = Append(@, new)]
      BY <1>9 DEF CreateTask
    <2> HIDE DEF new
    <2>3. tasks' \in [Schedule -> Seq(Run)] /\ Len(tasks[c.of]) + 1 \in Nat
      <3>1. tasks' \in [Schedule -> Seq(Run)] /\ Len(tasks[c.of]) \in Nat
        BY <1>1, <2>1, <2>2, TaskAdded
      <3>2. QED BY <3>1
    <2>4. hand' \in [Dispatcher -> {<< >>} \cup (Schedule \X Nat)]
      <3>1. <<c.of, Len(tasks[c.of]) + 1>> \in Schedule \X Nat
        BY <2>1, <2>3
      <3>2. QED BY <1>1, <1>9, <3>1 DEF TypeOK, CreateTask
    <2>5. claimed' \in [Dispatcher -> SUBSET [of : Schedule, row : Row]]
      BY <1>1, <1>9 DEF TypeOK, CreateTask
    <2>6. pc' \in [Dispatcher -> {"idle", "woken", "locked", "spawning", "enqueue"}]
      BY <1>1, <1>9 DEF TypeOK, CreateTask
    <2>7. UNCHANGED <<now, row, lock, at, overlap, faults>>
      BY <1>9 DEF CreateTask
    <2>8. QED BY <1>1, <2>3, <2>4, <2>5, <2>6, <2>7 DEF TypeOK
  <1>10. ASSUME NEW d \in Dispatcher, EnqueueTask(d)
         PROVE  TypeOK'
    <2>1. tasks' \in [Schedule -> Seq(Run)]
      BY <1>10, HandStage DEF EnqueueTask
    <2>2. /\ claimed' \in [Dispatcher -> SUBSET [of : Schedule, row : Row]]
          /\ pc' \in [Dispatcher -> {"idle", "woken", "locked", "spawning", "enqueue"}]
          /\ at' \in [Dispatcher -> Instant]
      BY <1>1, <1>10, GoneOn DEF EnqueueTask
    <2>3. hand' \in [Dispatcher -> {<< >>} \cup (Schedule \X Nat)]
      BY <1>1, <1>10 DEF TypeOK, EnqueueTask
    <2>4. UNCHANGED <<now, row, lock, overlap, faults>>
      BY <1>10 DEF EnqueueTask
    <2>5. QED BY <1>1, <2>1, <2>2, <2>3, <2>4 DEF TypeOK
  <1>11. ASSUME NEW d \in Dispatcher, SpawnFails(d)
         PROVE  TypeOK'
    <2>1. faults' \in 0..MaxFaults /\ UNCHANGED <<now, row, lock, overlap>>
      BY <1>1, <1>11, DispatchAssumption DEF TypeOK, SpawnFails, Fault
    <2>2. ASSUME NEW c \in claimed[d], GoOn(d, claimed[d] \ {c}), UNCHANGED <<hand, tasks>>
          PROVE  TypeOK'
      <3>1. /\ claimed' \in [Dispatcher -> SUBSET [of : Schedule, row : Row]]
            /\ pc' \in [Dispatcher -> {"idle", "woken", "locked", "spawning", "enqueue"}]
            /\ at' \in [Dispatcher -> Instant]
        BY <1>1, <2>2, GoneOn
      <3>2. QED BY <1>1, <2>1, <2>2, <3>1 DEF TypeOK
    <2>3. ASSUME pc[d] = "enqueue", SetStage(hand[d][1], hand[d][2], "orphan"),
                 hand' = [hand EXCEPT ![d] = << >>], GoOn(d, claimed[d])
          PROVE  TypeOK'
      <3>1. tasks' \in [Schedule -> Seq(Run)]
        BY <2>3, HandStage
      <3>2. /\ claimed' \in [Dispatcher -> SUBSET [of : Schedule, row : Row]]
            /\ pc' \in [Dispatcher -> {"idle", "woken", "locked", "spawning", "enqueue"}]
            /\ at' \in [Dispatcher -> Instant]
        BY <1>1, <2>3, GoneOn
      <3>3. hand' \in [Dispatcher -> {<< >>} \cup (Schedule \X Nat)]
        BY <1>1, <2>3 DEF TypeOK
      <3>4. QED BY <1>1, <2>1, <3>1, <3>2, <3>3 DEF TypeOK
    <2>4. QED BY <1>11, <2>2, <2>3 DEF SpawnFails
  <1>12. ASSUME NEW d \in Dispatcher, DispatcherDies(d)
         PROVE  TypeOK'
    <2>1. faults' \in 0..MaxFaults /\ UNCHANGED <<now, row, overlap>>
      BY <1>1, <1>12, DispatchAssumption DEF TypeOK, DispatcherDies, Fault
    <2>2. /\ claimed' \in [Dispatcher -> SUBSET [of : Schedule, row : Row]]
          /\ pc' \in [Dispatcher -> {"idle", "woken", "locked", "spawning", "enqueue"}]
          /\ at' \in [Dispatcher -> Instant]
      <3>1. {} \in SUBSET claimed[d] /\ GoOn(d, {})
        BY <1>12 DEF DispatcherDies
      <3>2. QED BY <1>1, <3>1, GoneOn
    <2>3. tasks' \in [Schedule -> Seq(Run)]
      <3>1. CASE pc[d] = "enqueue"
        BY <1>12, <3>1, HandStage DEF DispatcherDies
      <3>2. CASE pc[d] # "enqueue"
        BY <1>1, <1>12, <3>2 DEF TypeOK, DispatcherDies
      <3>3. QED BY <3>1, <3>2
    <2>4. hand' \in [Dispatcher -> {<< >>} \cup (Schedule \X Nat)]
      BY <1>1, <1>12 DEF TypeOK, DispatcherDies
    <2>5. lock' \in [Schedule -> Dispatcher \cup {NoDispatcher}]
      BY <1>1, <1>12 DEF TypeOK, DispatcherDies
    <2>6. QED BY <1>1, <2>1, <2>2, <2>3, <2>4, <2>5 DEF TypeOK
  <1>13. ASSUME NEW s \in Schedule, NEW i \in DOMAIN tasks[s], SaveNotes(s, i)
         PROVE  TypeOK'
    <2>1. tasks' \in [Schedule -> Seq(Run)]
      BY <1>1, <1>13, NotedSet DEF SaveNotes
    <2>2. tasks[s][i] \in Run
      <3>1. tasks[s] \in Seq(Run)
        BY <1>1 DEF TypeOK
      <3>2. QED BY <3>1, ElementOfSeq, LenProperties
    <2> DEFINE blob == tasks[s][i].seen \cup {tasks[s][i].slot}
    <2>3. blob \subseteq Instant
      BY <2>2 DEF Run
    <2>4. row' = [row EXCEPT ![s] = [row[s] EXCEPT !.notes = blob]]
      BY <1>1, <1>13 DEF TypeOK, SaveNotes, UpdateState
    <2> HIDE DEF blob
    <2>5. [row[s] EXCEPT !.notes = blob] \in Row
      <3>1. row[s] \in Row
        BY <1>1 DEF TypeOK
      <3>2. QED BY <2>3, <3>1, RowEdited
    <2>6. row' \in [Schedule -> Row]
      BY <1>1, <2>4, <2>5 DEF TypeOK
    <2>7. UNCHANGED <<now, lock, dispatchVars, overlap, faults>>
      BY <1>13 DEF SaveNotes
    <2>8. QED BY <1>1, <2>1, <2>6, <2>7 DEF TypeOK, dispatchVars
  <1>14. ASSUME NEW s \in Schedule, NEW i \in DOMAIN tasks[s], EndRun(s, i)
         PROVE  TypeOK'
    <2>1. tasks' \in [Schedule -> Seq(Run)]
      BY <1>1, <1>14, StageSet DEF EndRun
    <2>2. QED BY <1>1, <1>14, <2>1 DEF TypeOK, EndRun, dispatchVars
  <1>15. CASE UNCHANGED vars
    BY <1>1, <1>15 DEF TypeOK, vars, dispatchVars
  <1>16. QED
    BY <1>3, <1>4, <1>5, <1>6, <1>7, <1>8, <1>9, <1>10, <1>11, <1>12, <1>13, <1>14, <1>15
    DEF Next, DispatchStep

-----------------------------------------------------------------------------
(* Claims and locks. *)

(* A statement of somebody else does not touch a row that is locked. *)
LEMMA ClaimsFrame ==
  ASSUME BaseInv, UNCHANGED <<lock, dispatchVars>>,
         \A s \in Schedule : lock[s] # NoDispatcher => row'[s] = row[s]
  PROVE  ClaimsLocked'
  <1>1. ASSUME NEW d \in Dispatcher PROVE ClaimHeld(d)'
    <2>1. ClaimHeld(d) /\ d # NoDispatcher /\ TypeOK
      BY DispatchAssumption DEF BaseInv, ClaimsLocked
    <2>2. pc[d] = "locked" => \A c \in claimed[d] : row'[c.of] = c.row
      BY <2>1, ClaimTyped DEF ClaimHeld
    <2>3. QED BY <2>1, <2>2 DEF ClaimHeld, dispatchVars
  <1>2. ASSUME NEW s \in Schedule PROVE LockHeld(s)'
    BY DEF BaseInv, ClaimsLocked, LockHeld, dispatchVars
  <1>3. QED BY <1>1, <1>2 DEF ClaimsLocked

(* A dispatcher that is past its commit drops claims, or is done with them. *)
LEMMA ClaimsDropped ==
  ASSUME BaseInv, NEW d \in Dispatcher, NEW C \in SUBSET claimed[d], GoOn(d, C),
         row' = row, Committed(d) \/ C = {},
         \/ lock' = lock /\ pc[d] # "locked"
         \/ lock' = [s \in Schedule |-> IF lock[s] = d THEN NoDispatcher ELSE lock[s]]
  PROVE  ClaimsLocked'
  <1>1. TypeOK /\ d # NoDispatcher
    BY DispatchAssumption DEF BaseInv
  <1>2. /\ claimed'[d] = C
        /\ IF C = {} THEN pc'[d] = "idle" ELSE pc'[d] = "spawning" /\ at'[d] = at[d]
        /\ \A e \in Dispatcher \ {d} :
             claimed'[e] = claimed[e] /\ pc'[e] = pc[e] /\ at'[e] = at[e]
    BY <1>1, GoneOn
  <1>3. \A s \in Schedule : lock[s] # d => lock'[s] = lock[s]
    BY <1>1 DEF TypeOK
  <1>4. ASSUME NEW e \in Dispatcher PROVE ClaimHeld(e)'
    <2>1. ClaimHeld(e)
      BY DEF BaseInv, ClaimsLocked
    <2>2. CASE e = d
      <3>1. CASE C = {}
        BY <1>2, <2>2, <3>1 DEF ClaimHeld
      <3>2. CASE C # {}
        BY <1>2, <2>1, <2>2, <3>2 DEF ClaimHeld, Committed
      <3>3. QED BY <3>1, <3>2
    <2>3. CASE e # d
      <3>1. pc[e] = "locked" => \A c \in claimed[e] : lock'[c.of] = e
        BY <1>1, <1>3, <2>1, <2>3, ClaimTyped DEF ClaimHeld
      <3>2. QED BY <1>2, <2>1, <2>3, <3>1 DEF ClaimHeld
    <2>4. QED BY <2>2, <2>3
  <1>5. ASSUME NEW s \in Schedule PROVE LockHeld(s)'
    <2>1. LockHeld(s) /\ lock[s] \in Dispatcher \cup {NoDispatcher}
      BY <1>1 DEF BaseInv, ClaimsLocked, TypeOK
    <2>2. lock'[s] # NoDispatcher => lock[s] # d /\ lock'[s] = lock[s]
      BY <1>1, <1>3, <2>1 DEF LockHeld
    <2>3. QED BY <1>2, <2>1, <2>2 DEF LockHeld
  <1>6. QED BY <1>4, <1>5 DEF ClaimsLocked

LEMMA ClaimsStep == ASSUME BaseInv, [Next]_vars PROVE ClaimsLocked'
  <1>1. TypeOK /\ ClaimsLocked /\ NoDispatcher \notin Dispatcher
    BY DispatchAssumption DEF BaseInv
  <1>2. CASE Tick
    BY <1>2, ClaimsFrame DEF Tick
  <1>3. ASSUME NEW s \in Schedule, NEW kind \in Kind, NEW first \in 1..MaxTime,
               NEW cap \in Caps[s], NEW until \in Ends[s],
               CreateSchedule(s, kind, first, cap, until)
        PROVE  ClaimsLocked'
    <2>1. lock[s] = NoDispatcher
      <3>1. ASSUME lock[s] # NoDispatcher PROVE FALSE
        <4>1. lock[s] \in Dispatcher
          BY <1>1, <3>1 DEF TypeOK
        <4>2. PICK c \in claimed[lock[s]] : c.of = s
          BY <1>1, <3>1 DEF ClaimsLocked, LockHeld
        <4>3. row[s] = c.row /\ c.row.status = "active"
          BY <1>1, <3>1, <4>1, <4>2 DEF ClaimsLocked, LockHeld, ClaimHeld
        <4>4. QED BY <1>3, <4>3 DEF CreateSchedule
      <3>2. QED BY <3>1
    <2>2. \A r \in Schedule \ {s} : row'[r] = row[r]
      BY <1>1, <1>3 DEF CreateSchedule, TypeOK
    <2>3. QED BY <1>3, <2>1, <2>2, ClaimsFrame DEF CreateSchedule
  <1>4. ASSUME NEW s \in Schedule, CancelSchedule(s)
        PROVE  ClaimsLocked'
    <2>1. \A r \in Schedule \ {s} : row'[r] = row[r]
      BY <1>1, <1>4 DEF CancelSchedule, CancelRow, TypeOK
    <2>2. lock[s] = NoDispatcher /\ UNCHANGED <<lock, dispatchVars>>
      BY <1>4 DEF CancelSchedule, CancelRow, Unlocked
    <2>3. QED BY <2>1, <2>2, ClaimsFrame
  <1>5. ASSUME NEW d \in Dispatcher, Wake(d)
        PROVE  ClaimsLocked'
    <2>1. /\ pc'[d] = "woken" /\ at'[d] = now /\ pc[d] = "idle"
          /\ \A e \in Dispatcher \ {d} : pc'[e] = pc[e] /\ at'[e] = at[e]
      BY <1>1, <1>5 DEF Wake, TypeOK
    <2>2. UNCHANGED <<row, lock, claimed>> /\ now \in 1..MaxTime
      BY <1>1, <1>5 DEF Wake, TypeOK
    <2>3. ASSUME NEW e \in Dispatcher PROVE ClaimHeld(e)'
      <3>1. ClaimHeld(e)
        BY <1>1 DEF ClaimsLocked
      <3>2. QED BY <2>1, <2>2, <3>1 DEF ClaimHeld
    <2>4. ASSUME NEW s \in Schedule PROVE LockHeld(s)'
      BY <1>1, <2>1, <2>2 DEF ClaimsLocked, LockHeld, TypeOK
    <2>5. QED BY <2>3, <2>4 DEF ClaimsLocked
  <1>6. ASSUME NEW d \in Dispatcher, NEW S \in SUBSET Schedule, LockDue(d, S)
        PROVE  ClaimsLocked'
    <2> DEFINE C == {[of |-> s, row |-> row[s]] : s \in S}
    <2>1. /\ \A s \in S : /\ lock[s] = NoDispatcher /\ row[s].status = "active"
                          /\ row[s].next # 0 /\ row[s].next <= at[d]
          /\ pc[d] = "woken"
      BY <1>6 DEF LockDue, Claimable, DueAt, Unlocked
    <2>2. /\ claimed'[d] = C
          /\ \A e \in Dispatcher \ {d} : claimed'[e] = claimed[e]
      BY <1>1, <1>6 DEF LockDue, TypeOK
    <2>3. /\ pc'[d] = (IF S = {} THEN "idle" ELSE "locked")
          /\ S # {} => at'[d] = at[d]
          /\ \A e \in Dispatcher \ {d} : pc'[e] = pc[e] /\ at'[e] = at[e]
      BY <1>1, <1>6 DEF LockDue, TypeOK
    <2>4. row' = row /\ \A s \in Schedule : lock'[s] = IF s \in S THEN d ELSE lock[s]
      BY <1>6 DEF LockDue
    <2>5. /\ \A c \in C : c.of \in S /\ c.row = row[c.of]
          /\ \A c, e \in C : c.of = e.of => c = e
          /\ \A s \in S : \E c \in C : c.of = s
          /\ S = {} => C = {}
      <3>1. \A c \in C : c.of \in S /\ c.row = row[c.of]
        OBVIOUS
      <3>2. \A c, e \in C : c.of = e.of => c = e
        OBVIOUS
      <3>3. ASSUME NEW s \in S PROVE \E c \in C : c.of = s
        <4>1. [of |-> s, row |-> row[s]] \in C
          OBVIOUS
        <4>2. [of |-> s, row |-> row[s]].of = s
          OBVIOUS
        <4>3. QED BY <4>1, <4>2
      <3>4. S = {} => C = {}
        OBVIOUS
      <3>5. QED BY <3>1, <3>2, <3>3, <3>4
    <2> HIDE DEF C
    <2>6. ASSUME NEW e \in Dispatcher PROVE ClaimHeld(e)'
      <3>1. ClaimHeld(e)
        BY <1>1 DEF ClaimsLocked
      <3>2. CASE e = d
        <4>1. CASE S = {}
          BY <2>2, <2>3, <2>5, <3>2, <4>1 DEF ClaimHeld
        <4>2. CASE S # {}
          BY <2>1, <2>2, <2>3, <2>4, <2>5, <3>1, <3>2, <4>2 DEF ClaimHeld
        <4>3. QED BY <4>1, <4>2
      <3>3. CASE e # d
        <4>1. pc[e] = "locked" => \A c \in claimed[e] : c.of \in Schedule \ S
          BY <1>1, <2>1, <3>1, ClaimTyped DEF ClaimHeld
        <4>2. QED BY <2>2, <2>3, <2>4, <3>1, <3>3, <4>1 DEF ClaimHeld
      <3>4. QED BY <3>2, <3>3
    <2>7. ASSUME NEW s \in Schedule PROVE LockHeld(s)'
      <3>1. CASE s \in S
        BY <2>2, <2>3, <2>4, <2>5, <3>1 DEF LockHeld
      <3>2. CASE s \notin S
        BY <1>1, <2>1, <2>2, <2>3, <2>4, <3>2 DEF LockHeld, ClaimsLocked, TypeOK
      <3>3. QED BY <3>1, <3>2
    <2>8. QED BY <2>6, <2>7 DEF ClaimsLocked
  <1>7. ASSUME NEW d \in Dispatcher, Advance(d)
        PROVE  ClaimsLocked'
    <2>1. /\ pc[d] = "locked" /\ pc'[d] = "spawning"
          /\ \A e \in Dispatcher \ {d} : pc'[e] = pc[e]
          /\ UNCHANGED <<at, claimed>>
      BY <1>1, <1>7 DEF Advance, TypeOK
    <2>2. \A s \in Schedule : lock'[s] = IF lock[s] = d THEN NoDispatcher ELSE lock[s]
      BY <1>7 DEF Advance
    <2>3. \A s \in Schedule : lock[s] # d => row'[s] = row[s]
      <3> SUFFICES ASSUME NEW s \in Schedule, lock[s] # d PROVE row'[s] = row[s]
        OBVIOUS
      <3>1. ~(\E c \in claimed[d] : c.of = s)
        BY <1>1, <2>1 DEF ClaimsLocked, ClaimHeld
      <3>2. QED BY <1>7, <2>1, <3>1, AdvancedRow DEF Advance
    <2>4. ASSUME NEW e \in Dispatcher PROVE ClaimHeld(e)'
      <3>1. ClaimHeld(e)
        BY <1>1 DEF ClaimsLocked
      <3>2. CASE e = d
        BY <2>1, <3>1, <3>2 DEF ClaimHeld
      <3>3. CASE e # d
        <4>1. pc[e] = "locked" =>
                \A c \in claimed[e] : lock'[c.of] = e /\ row'[c.of] = row[c.of]
          BY <1>1, <2>2, <2>3, <3>1, <3>3, ClaimTyped DEF ClaimHeld
        <4>2. QED BY <2>1, <3>1, <3>3, <4>1 DEF ClaimHeld
      <3>4. QED BY <3>2, <3>3
    <2>5. ASSUME NEW s \in Schedule PROVE LockHeld(s)'
      BY <1>1, <2>1, <2>2 DEF LockHeld, ClaimsLocked, TypeOK
    <2>6. QED BY <2>4, <2>5 DEF ClaimsLocked
  <1>8. ASSUME NEW d \in Dispatcher, NEW c \in claimed[d], CreateTask(d, c)
        PROVE  ClaimsLocked'
    <2>1. /\ pc[d] = "spawning" /\ pc'[d] = "enqueue"
          /\ \A e \in Dispatcher \ {d} : pc'[e] = pc[e]
          /\ claimed'[d] = claimed[d] \ {c}
          /\ \A e \in Dispatcher \ {d} : claimed'[e] = claimed[e]
          /\ UNCHANGED <<at, lock, row>>
      BY <1>1, <1>8 DEF CreateTask, TypeOK
    <2>2. ASSUME NEW e \in Dispatcher PROVE ClaimHeld(e)'
      <3>1. ClaimHeld(e)
        BY <1>1 DEF ClaimsLocked
      <3>2. CASE e = d
        BY <2>1, <3>1, <3>2 DEF ClaimHeld
      <3>3. CASE e # d
        BY <2>1, <3>1, <3>3 DEF ClaimHeld
      <3>4. QED BY <3>2, <3>3
    <2>3. ASSUME NEW s \in Schedule PROVE LockHeld(s)'
      <3>1. LockHeld(s) /\ lock[s] \in Dispatcher \cup {NoDispatcher} /\ lock'[s] = lock[s]
        BY <1>1, <2>1 DEF ClaimsLocked, TypeOK
      <3>2. CASE lock[s] = NoDispatcher
        BY <3>1, <3>2 DEF LockHeld
      <3>3. CASE lock[s] # NoDispatcher
        <4>1. lock[s] \in Dispatcher \ {d} /\ pc[lock[s]] = "locked"
          BY <2>1, <3>1, <3>3 DEF LockHeld
        <4>2. claimed'[lock[s]] = claimed[lock[s]] /\ pc'[lock[s]] = "locked"
          BY <2>1, <4>1
        <4>3. QED BY <3>1, <3>3, <4>2 DEF LockHeld
      <3>4. QED BY <3>2, <3>3
    <2>4. QED BY <2>2, <2>3 DEF ClaimsLocked
  <1>9. ASSUME NEW d \in Dispatcher, EnqueueTask(d)
        PROVE  ClaimsLocked'
    BY <1>9, ClaimsDropped DEF EnqueueTask, Committed
  <1>10. ASSUME NEW d \in Dispatcher, SpawnFails(d)
         PROVE  ClaimsLocked'
    <2>1. CASE pc[d] = "spawning" /\ \E c \in claimed[d] : GoOn(d, claimed[d] \ {c})
      <3>1. PICK c \in claimed[d] : GoOn(d, claimed[d] \ {c})
        BY <2>1
      <3>2. row' = row /\ lock' = lock /\ pc[d] # "locked" /\ Committed(d)
        BY <1>10, <2>1 DEF SpawnFails, Committed
      <3>3. claimed[d] \ {c} \in SUBSET claimed[d]
        OBVIOUS
      <3>4. QED BY <3>1, <3>2, <3>3, ClaimsDropped
    <2>2. CASE pc[d] = "enqueue" /\ GoOn(d, claimed[d])
      BY <1>10, <2>2, ClaimsDropped DEF SpawnFails, Committed
    <2>3. QED BY <1>10, <2>1, <2>2 DEF SpawnFails
  <1>11. ASSUME NEW d \in Dispatcher, DispatcherDies(d)
         PROVE  ClaimsLocked'
    <2>1. {} \in SUBSET claimed[d]
      OBVIOUS
    <2>2. QED BY <1>11, <2>1, ClaimsDropped DEF DispatcherDies
  <1>12. ASSUME NEW s \in Schedule, NEW i \in DOMAIN tasks[s], SaveNotes(s, i)
         PROVE  ClaimsLocked'
    <2>1. \A r \in Schedule \ {s} : row'[r] = row[r]
      BY <1>1, <1>12 DEF SaveNotes, UpdateState, TypeOK
    <2>2. lock[s] = NoDispatcher /\ UNCHANGED <<lock, dispatchVars>>
      BY <1>12 DEF SaveNotes, UpdateState, Unlocked
    <2>3. QED BY <2>1, <2>2, ClaimsFrame
  <1>13. ASSUME NEW s \in Schedule, NEW i \in DOMAIN tasks[s], EndRun(s, i)
         PROVE  ClaimsLocked'
    BY <1>13, ClaimsFrame DEF EndRun
  <1>14. CASE UNCHANGED vars
    BY <1>14, ClaimsFrame DEF vars
  <1>15. QED
    BY <1>2, <1>3, <1>4, <1>5, <1>6, <1>7, <1>8, <1>9, <1>10, <1>11, <1>12, <1>13, <1>14
    DEF Next, DispatchStep

-----------------------------------------------------------------------------
(* Rows, and the tasks in hand. *)

(* No task and no claim of a schedule is left where none was counted. *)
LEMMA NothingFired ==
  ASSUME TypeOK, Accounted, NEW s \in Schedule, row[s].count = 0
  PROVE  DOMAIN tasks[s] = {} /\ Owed(s) = {}
  <1>1. tasks[s] \in Seq(Run)
    BY DEF TypeOK
  <1>2. DOMAIN tasks[s] = 1 .. Len(tasks[s]) /\ Len(tasks[s]) \in Nat
    BY <1>1, LenProperties
  <1>3. IsFiniteSet(Owed(s)) /\ Len(tasks[s]) + Cardinality(Owed(s)) <= 0
    BY DEF Accounted
  <1>4. Cardinality(Owed(s)) \in Nat
    BY <1>3, FS_CardinalityType
  <1>5. Len(tasks[s]) = 0 /\ Cardinality(Owed(s)) = 0
    BY <1>2, <1>3, <1>4
  <1>6. Owed(s) = {}
    BY <1>3, <1>5, FS_EmptySet
  <1>7. QED BY <1>2, <1>5, <1>6

LEMMA RowsStep == ASSUME BaseInv, Accounted, [Next]_vars PROVE RowsKept'
  <1>1. TypeOK /\ RowsKept /\ ClaimsLocked
    BY DEF BaseInv
  <1>2. CASE row' = row
    BY <1>1, <1>2 DEF RowsKept
  <1>3. ASSUME NEW s \in Schedule, NEW kind \in Kind, NEW first \in 1..MaxTime,
               NEW cap \in Caps[s], NEW until \in Ends[s],
               CreateSchedule(s, kind, first, cap, until)
        PROVE  RowsKept'
    <2> DEFINE new == [NoRow EXCEPT !.status = "active", !.kind = kind, !.next = first,
                                    !.cap = cap, !.until = until]
    <2>1. /\ row'[s] = new
          /\ \A r \in Schedule \ {s} : row'[r] = row[r]
      BY <1>1, <1>3 DEF CreateSchedule, TypeOK
    <2>2. /\ new.status = "active" /\ new.next = first /\ new.count = 0
          /\ new.cap = cap /\ new.until = until
      BY DEF NoRow
    <2>3. first # 0 /\ cap \in Nat /\ until \in Nat
      BY DispatchAssumption
    <2> HIDE DEF new
    <2>4. RowKept(new)
      BY <2>2, <2>3 DEF RowKept
    <2>5. QED BY <1>1, <2>1, <2>4 DEF RowsKept
  <1>4. ASSUME NEW s \in Schedule, CancelSchedule(s)
        PROVE  RowsKept'
    <2>1. \A r \in Schedule \ {s} : row'[r] = row[r]
      BY <1>1, <1>4 DEF CancelSchedule, CancelRow, TypeOK
    <2>2. /\ row'[s].status = "cancelled" /\ row'[s].next = 0
          /\ row'[s].kind = row[s].kind /\ row'[s].count = row[s].count
          /\ row'[s].cap = row[s].cap /\ row'[s].until = row[s].until
      BY <1>1, <1>4 DEF CancelSchedule, CancelRow, TypeOK, Row
    <2>3. row[s].until \in Nat /\ RowKept(row[s])
      BY <1>1 DEF TypeOK, Row, RowsKept
    <2>4. RowKept(row'[s])
      BY <2>2, <2>3 DEF RowKept
    <2>5. QED BY <1>1, <2>1, <2>4 DEF RowsKept
  <1>5. ASSUME NEW d \in Dispatcher, Advance(d)
        PROVE  RowsKept'
    <2> SUFFICES ASSUME NEW s \in Schedule PROVE RowKept(row'[s])
      BY DEF RowsKept
    <2>1. /\ row[s] \in Row /\ RowKept(row[s]) /\ pc[d] = "locked" /\ at[d] \in 1..MaxTime
          /\ row' = Advanced(claimed[d], at[d])
      BY <1>1, <1>5 DEF TypeOK, RowsKept, Advance, ClaimsLocked, ClaimHeld
    <2>2. CASE \E c \in claimed[d] : c.of = s
      <3>1. row[s].status = "active"
        BY <1>1, <2>1, <2>2 DEF ClaimsLocked, ClaimHeld
      <3>2. RowKept(Fired(row[s], at[d]))
        BY <2>1, <3>1, FiredKept
      <3>3. QED BY <2>1, <2>2, <3>2, AdvancedRow
    <2>3. CASE ~(\E c \in claimed[d] : c.of = s)
      BY <2>1, <2>3, AdvancedRow
    <2>4. QED BY <2>2, <2>3
  <1>6. ASSUME NEW s \in Schedule, NEW i \in DOMAIN tasks[s], SaveNotes(s, i)
        PROVE  RowsKept'
    <2>1. \A r \in Schedule \ {s} : row'[r] = row[r]
      BY <1>1, <1>6 DEF SaveNotes, UpdateState, TypeOK
    <2>2. /\ row'[s].status = row[s].status /\ row'[s].next = row[s].next
          /\ row'[s].kind = row[s].kind /\ row'[s].count = row[s].count
          /\ row'[s].cap = row[s].cap /\ row'[s].until = row[s].until
      BY <1>1, <1>6 DEF SaveNotes, UpdateState, TypeOK, Row
    <2>3. row[s].status # "absent"
      <3>1. row[s].count # 0
        BY <1>1, NothingFired
      <3>2. NoRow.count = 0
        BY DEF NoRow
      <3>3. QED BY <1>1, <3>1, <3>2 DEF RowsKept, RowKept
    <2>4. RowKept(row[s])
      BY <1>1 DEF RowsKept
    <2>5. RowKept(row'[s])
      BY <2>2, <2>3, <2>4 DEF RowKept
    <2>6. QED BY <1>1, <2>1, <2>5 DEF RowsKept
  <1>7. QED
    BY <1>2, <1>3, <1>4, <1>5, <1>6
    DEF Next, DispatchStep, Tick, Wake, LockDue, CreateTask, EnqueueTask, SpawnFails,
        DispatcherDies, EndRun, vars

LEMMA HandsStep == ASSUME BaseInv, [Next]_vars PROVE HandsKept'
  <1>1. TypeOK /\ HandsKept
    BY DEF BaseInv
  <1>2. \A d \in Dispatcher :
          pc[d] = "enqueue" =>
            /\ hand[d][1] \in Schedule /\ hand[d] = <<hand[d][1], hand[d][2]>>
            /\ hand[d][2] \in DOMAIN tasks[hand[d][1]]
    BY <1>1 DEF HandsKept
  (* Whoever has a task in hand had it before, and it stays as created. *)
  <1>3. ASSUME \A d \in Dispatcher :
                 pc'[d] = "enqueue" =>
                   /\ pc[d] = "enqueue" /\ hand'[d] = hand[d]
                   /\ DOMAIN tasks'[hand[d][1]] = DOMAIN tasks[hand[d][1]]
                   /\ tasks'[hand[d][1]][hand[d][2]].stage = "created"
        PROVE  HandsKept'
    BY <1>1, <1>3 DEF HandsKept
  <1>4. CASE UNCHANGED <<pc, hand, tasks>>
    BY <1>1, <1>4 DEF HandsKept
  <1>5. ASSUME NEW d \in Dispatcher, pc'[d] # "enqueue",
               \A e \in Dispatcher \ {d} : pc'[e] = pc[e], UNCHANGED <<hand, tasks>>
        PROVE  HandsKept'
    BY <1>1, <1>5 DEF HandsKept
  <1>6. ASSUME NEW d \in Dispatcher, NEW c \in claimed[d], CreateTask(d, c)
        PROVE  HandsKept'
    <2> DEFINE new == [slot |-> c.row.next, fired |-> at[d], seen |-> c.row.notes,
                       noted |-> FALSE, stage |-> "created"]
               n == Len(tasks[c.of]) + 1
    <2>1. c.of \in Schedule /\ new \in Run
      BY <1>1, ClaimTyped DEF TypeOK, Run
    <2>2. tasks' = [tasks EXCEPT ![c.of] = Append(@, new)] /\ new.stage = "created"
      BY <1>6 DEF CreateTask
    <2> HIDE DEF new
    <2>3. /\ tasks'[c.of][n] = new /\ Len(tasks[c.of]) \in Nat /\ n \notin DOMAIN tasks[c.of]
          /\ DOMAIN tasks'[c.of] = DOMAIN tasks[c.of] \cup {n}
          /\ \A i \in DOMAIN tasks[c.of] : tasks'[c.of][i] = tasks[c.of][i]
          /\ \A r \in Schedule \ {c.of} : tasks'[r] = tasks[r]
      BY <1>1, <2>1, <2>2, TaskAdded
    <2>4. /\ hand'[d] = <<c.of, n>> /\ pc'[d] = "enqueue"
          /\ \A e \in Dispatcher \ {d} : hand'[e] = hand[e] /\ pc'[e] = pc[e]
      BY <1>1, <1>6 DEF CreateTask, TypeOK
    <2>5. n \in Nat
      BY <2>3
    <2> HIDE DEF n
    <2>6. ASSUME NEW e \in Dispatcher \ {d}, pc'[e] = "enqueue"
          PROVE  /\ hand'[e] \in Schedule \X Nat
                 /\ hand'[e][2] \in DOMAIN tasks'[hand'[e][1]]
                 /\ tasks'[hand'[e][1]][hand'[e][2]].stage = "created"
                 /\ hand'[e] # <<c.of, n>>
      <3>1. /\ pc[e] = "enqueue" /\ hand'[e] = hand[e] /\ hand[e][1] \in Schedule
            /\ hand[e][2] \in DOMAIN tasks[hand[e][1]] /\ hand[e] \in Schedule \X Nat
            /\ tasks[hand[e][1]][hand[e][2]].stage = "created"
        BY <1>1, <1>2, <2>4, <2>6 DEF HandsKept
      <3>2. CASE hand[e][1] = c.of
        BY <2>3, <3>1, <3>2
      <3>3. CASE hand[e][1] # c.of
        BY <2>3, <3>1, <3>3
      <3>4. QED BY <3>2, <3>3
    <2>7. /\ hand'[d] \in Schedule \X Nat
          /\ hand'[d][2] \in DOMAIN tasks'[hand'[d][1]]
          /\ tasks'[hand'[d][1]][hand'[d][2]].stage = "created"
      BY <2>1, <2>2, <2>3, <2>4, <2>5
    <2>8. ASSUME NEW e \in Dispatcher, NEW f \in Dispatcher,
                 pc'[e] = "enqueue", pc'[f] = "enqueue", hand'[e] = hand'[f]
          PROVE  e = f
      BY <1>1, <2>4, <2>6, <2>8 DEF HandsKept
    <2>9. QED BY <2>6, <2>7, <2>8 DEF HandsKept
  <1>7. ASSUME NEW d \in Dispatcher, NEW C \in SUBSET claimed[d], GoOn(d, C),
               hand' = [hand EXCEPT ![d] = << >>],
               \/ UNCHANGED tasks
               \/ /\ pc[d] = "enqueue"
                  /\ \/ SetStage(hand[d][1], hand[d][2], "queued")
                     \/ SetStage(hand[d][1], hand[d][2], "orphan")
        PROVE  HandsKept'
    <2>1. /\ pc'[d] # "enqueue"
          /\ \A e \in Dispatcher \ {d} : hand'[e] = hand[e] /\ pc'[e] = pc[e]
      BY <1>1, <1>7, GoneOn DEF TypeOK
    <2>2. CASE UNCHANGED tasks
      BY <1>1, <2>1, <2>2 DEF HandsKept
    <2>3. CASE pc[d] = "enqueue" /\ ~UNCHANGED tasks
      <3>1. /\ \A r \in Schedule : DOMAIN tasks'[r] = DOMAIN tasks[r]
            /\ \A r \in Schedule : \A j \in DOMAIN tasks[r] :
                 r # hand[d][1] \/ j # hand[d][2] => tasks'[r][j].stage = tasks[r][j].stage
        BY <1>7, <2>3, HandStage
      <3>2. SUFFICES ASSUME NEW e \in Dispatcher, pc'[e] = "enqueue"
                     PROVE  /\ pc[e] = "enqueue" /\ hand'[e] = hand[e]
                            /\ DOMAIN tasks'[hand[e][1]] = DOMAIN tasks[hand[e][1]]
                            /\ tasks'[hand[e][1]][hand[e][2]].stage = "created"
        BY <1>3
      <3>3. e # d /\ pc[e] = "enqueue" /\ hand'[e] = hand[e] /\ hand[e] # hand[d]
        BY <1>1, <2>1, <2>3, <3>2 DEF HandsKept
      <3>4. /\ hand[e][1] # hand[d][1] \/ hand[e][2] # hand[d][2]
            /\ tasks[hand[e][1]][hand[e][2]].stage = "created"
        BY <1>1, <1>2, <2>3, <3>3 DEF HandsKept
      <3>5. QED BY <1>2, <3>1, <3>3, <3>4
    <2>4. QED BY <1>7, <2>2, <2>3
  <1>8. ASSUME NEW s \in Schedule, NEW i \in DOMAIN tasks[s],
               SaveNotes(s, i) \/ EndRun(s, i)
        PROVE  HandsKept'
    <2>1. UNCHANGED <<pc, hand>> /\ tasks[s][i].stage = "queued"
      BY <1>8 DEF SaveNotes, EndRun, dispatchVars
    <2>2. \A r \in Schedule :
            /\ DOMAIN tasks'[r] = DOMAIN tasks[r]
            /\ \A j \in DOMAIN tasks[r] :
                 tasks[r][j].stage = "created" => tasks'[r][j].stage = "created"
      <3>1. CASE SaveNotes(s, i)
        BY <1>1, <3>1, NotedSet DEF SaveNotes
      <3>2. CASE EndRun(s, i)
        BY <1>1, <2>1, <3>2, StageSet DEF EndRun
      <3>3. QED BY <1>8, <3>1, <3>2
    <2>3. QED BY <1>1, <1>2, <1>3, <2>1, <2>2 DEF HandsKept
  <1>9. ASSUME NEW d \in Dispatcher, Wake(d) \/ Advance(d) \/ (\E S \in SUBSET Schedule : LockDue(d, S))
        PROVE  HandsKept'
    BY <1>1, <1>5, <1>9 DEF Wake, Advance, LockDue, TypeOK
  <1>10. ASSUME NEW d \in Dispatcher, EnqueueTask(d)
         PROVE  HandsKept'
    BY <1>7, <1>10 DEF EnqueueTask
  <1>11. ASSUME NEW d \in Dispatcher, SpawnFails(d)
         PROVE  HandsKept'
    <2>1. ASSUME NEW c \in claimed[d], pc[d] = "spawning", GoOn(d, claimed[d] \ {c}),
                 UNCHANGED <<hand, tasks>>
          PROVE  HandsKept'
      <3>1. claimed[d] \ {c} \in SUBSET claimed[d]
        OBVIOUS
      <3>2. QED BY <1>1, <1>5, <2>1, <3>1, GoneOn
    <2>2. ASSUME pc[d] = "enqueue", SetStage(hand[d][1], hand[d][2], "orphan"),
                 hand' = [hand EXCEPT ![d] = << >>], GoOn(d, claimed[d])
          PROVE  HandsKept'
      BY <1>7, <2>2
    <2>3. QED BY <1>11, <2>1, <2>2 DEF SpawnFails
  <1>12. ASSUME NEW d \in Dispatcher, DispatcherDies(d)
         PROVE  HandsKept'
    <2>1. {} \in SUBSET claimed[d]
      OBVIOUS
    <2>2. QED BY <1>7, <1>12, <2>1 DEF DispatcherDies
  <1>13. QED
    BY <1>4, <1>6, <1>8, <1>9, <1>10, <1>11, <1>12
    DEF Next, DispatchStep, Tick, CreateSchedule, CancelSchedule, dispatchVars, vars

(* BaseInv holds at the start, and each step that Accounted allows keeps it. *)
LEMMA BaseInit == Init => BaseInv
  <1> SUFFICES ASSUME Init PROVE BaseInv
    OBVIOUS
  <1>1. 0 \in Instant /\ 1 \in 1..MaxTime /\ 0 \in 0..MaxFaults
    BY DispatchAssumption DEF Instant
  <1>2. NoRow \in Row
    BY <1>1 DEF NoRow, Row, Kind
  <1>3. TypeOK
    BY <1>1, <1>2 DEF Init, TypeOK
  <1>4. ClaimsLocked
    BY DEF Init, ClaimsLocked, ClaimHeld, LockHeld
  <1>5. RowKept(NoRow)
    BY DEF RowKept, NoRow
  <1>6. RowsKept
    BY <1>5 DEF Init, RowsKept
  <1>7. HandsKept
    BY DEF Init, HandsKept
  <1>8. QED BY <1>3, <1>4, <1>6, <1>7 DEF BaseInv

LEMMA BaseStep == ASSUME BaseInv, Accounted, [Next]_vars PROVE BaseInv'
  BY TypeStep, ClaimsStep, RowsStep, HandsStep DEF BaseInv

-----------------------------------------------------------------------------
(* Steps that fire nothing. *)

(* No claim is committed and no task is added; claims may be dropped, rows  *)
(* may be cancelled and runs may end.                                       *)
NothingFires ==
  /\ \A s \in Schedule :
       /\ Len(tasks'[s]) = Len(tasks[s]) /\ DOMAIN tasks'[s] = DOMAIN tasks[s]
       /\ \A i \in DOMAIN tasks[s] :
            /\ tasks'[s][i].slot = tasks[s][i].slot
            /\ tasks'[s][i].fired = tasks[s][i].fired
            /\ tasks'[s][i].seen = tasks[s][i].seen
            /\ tasks'[s][i].noted <=> tasks[s][i].noted
            /\ Open(s, i)' => Open(s, i)
  /\ \A s \in Schedule :
       /\ row'[s].count = row[s].count /\ row'[s].notes = row[s].notes
       /\ row'[s].next = row[s].next \/ row'[s].next = 0
  /\ \A d \in Dispatcher : \A c \in claimed'[d] :
       Committed(d)' => Committed(d) /\ c \in claimed[d] /\ at'[d] = at[d]
  /\ overlap' = overlap
  /\ \/ faults' # 0
     \/ faults' = faults /\ \A s \in Schedule : Owed(s)' = Owed(s)

LEMMA DropsOwed ==
  ASSUME NEW s \in Schedule,
         \A d \in Dispatcher : \A c \in claimed'[d] :
           Committed(d)' => Committed(d) /\ c \in claimed[d]
  PROVE  Owed(s)' \subseteq Owed(s)
  BY DEF Owed, Committed

LEMMA QuietAccounted == ASSUME TypeOK, Accounted, NothingFires PROVE Accounted'
  <1> SUFFICES ASSUME NEW s \in Schedule
               PROVE  /\ IsFiniteSet(Owed(s)')
                      /\ Len(tasks'[s]) + Cardinality(Owed(s)') <= row'[s].count
                      /\ faults' = 0 =>
                           Len(tasks'[s]) + Cardinality(Owed(s)') = row'[s].count
    BY DEF Accounted
  <1>1. /\ Len(tasks'[s]) = Len(tasks[s]) /\ Len(tasks[s]) \in Nat
        /\ row'[s].count = row[s].count /\ row[s].count \in Nat
    <2>1. tasks[s] \in Seq(Run) /\ row[s] \in Row
      BY DEF TypeOK
    <2>2. QED BY <2>1, LenProperties DEF NothingFires, Row
  <1>2. /\ IsFiniteSet(Owed(s)) /\ Cardinality(Owed(s)) \in Nat
        /\ Len(tasks[s]) + Cardinality(Owed(s)) <= row[s].count
        /\ faults = 0 => Len(tasks[s]) + Cardinality(Owed(s)) = row[s].count
    BY FS_CardinalityType DEF Accounted
  <1>3. Owed(s)' \subseteq Owed(s)
    BY DropsOwed DEF NothingFires
  <1>4. IsFiniteSet(Owed(s)') /\ Cardinality(Owed(s)') \in Nat
        /\ Cardinality(Owed(s)') <= Cardinality(Owed(s))
    <2> DEFINE A == Owed(s)
               B == Owed(s)'
    <2>1. IsFiniteSet(A) /\ B \subseteq A
      BY <1>2, <1>3
    <2> HIDE DEF A, B
    <2>2. IsFiniteSet(B) /\ Cardinality(B) <= Cardinality(A) /\ Cardinality(B) \in Nat
      BY <2>1, FS_Subset, FS_CardinalityType
    <2>3. QED BY <2>2 DEF A, B
  <1>5. faults' = 0 => faults = 0 /\ Owed(s)' = Owed(s)
    BY DEF NothingFires
  <1> DEFINE m == Cardinality(Owed(s))
             n == Cardinality(Owed(s)')
  <1>6. faults' = 0 => n = m
    BY <1>5
  <1> HIDE DEF m, n
  <1>7. QED BY <1>1, <1>2, <1>4, <1>5, <1>6 DEF m, n

LEMMA QuietApart == ASSUME FiringsApart, NothingFires PROVE FiringsApart'
  <1> SUFFICES ASSUME NEW s \in Schedule
               PROVE  /\ \A i \in DOMAIN tasks'[s] :
                           /\ tasks'[s][i].slot <= tasks'[s][i].fired
                           /\ row'[s].next # 0 => tasks'[s][i].fired < row'[s].next
                      /\ \A i, j \in DOMAIN tasks'[s] :
                           i # j => \/ tasks'[s][i].fired < tasks'[s][j].slot
                                    \/ tasks'[s][j].fired < tasks'[s][i].slot
                      /\ \A d \in Dispatcher : \A c \in claimed'[d] :
                           Committed(d)' /\ c.of = s =>
                             /\ row'[s].next # 0 => at'[d] < row'[s].next
                             /\ \A i \in DOMAIN tasks'[s] :
                                  \/ tasks'[s][i].fired < c.row.next
                                  \/ at'[d] < tasks'[s][i].slot
                             /\ \A e \in Dispatcher \ {d} : \A b \in claimed'[e] :
                                  Committed(e)' /\ b.of = s => \/ at'[d] < b.row.next
                                                              \/ at'[e] < c.row.next
    BY DEF FiringsApart
  <1>1. /\ DOMAIN tasks'[s] = DOMAIN tasks[s]
        /\ \A i \in DOMAIN tasks[s] : /\ tasks'[s][i].slot = tasks[s][i].slot
                                      /\ tasks'[s][i].fired = tasks[s][i].fired
    BY DEF NothingFires
  <1>2. row'[s].next # 0 => row'[s].next = row[s].next
    BY DEF NothingFires
  <1>3. \A d \in Dispatcher : \A c \in claimed'[d] :
          Committed(d)' => Committed(d) /\ c \in claimed[d] /\ at'[d] = at[d]
    BY DEF NothingFires
  <1>4. \A i \in DOMAIN tasks'[s] :
          /\ tasks'[s][i].slot <= tasks'[s][i].fired
          /\ row'[s].next # 0 => tasks'[s][i].fired < row'[s].next
    BY <1>1, <1>2 DEF FiringsApart
  <1>5. \A i, j \in DOMAIN tasks'[s] :
          i # j => \/ tasks'[s][i].fired < tasks'[s][j].slot
                   \/ tasks'[s][j].fired < tasks'[s][i].slot
    BY <1>1 DEF FiringsApart
  <1>6. ASSUME NEW d \in Dispatcher, NEW c \in claimed'[d], Committed(d)', c.of = s
        PROVE  /\ row'[s].next # 0 => at'[d] < row'[s].next
               /\ \A i \in DOMAIN tasks'[s] :
                    \/ tasks'[s][i].fired < c.row.next
                    \/ at'[d] < tasks'[s][i].slot
               /\ \A e \in Dispatcher \ {d} : \A b \in claimed'[e] :
                    Committed(e)' /\ b.of = s => \/ at'[d] < b.row.next
                                                \/ at'[e] < c.row.next
    <2>1. Committed(d) /\ c \in claimed[d] /\ at'[d] = at[d]
      BY <1>3, <1>6
    <2>2. row'[s].next # 0 => at'[d] < row'[s].next
      BY <1>2, <1>6, <2>1 DEF FiringsApart
    <2>3. \A i \in DOMAIN tasks'[s] : \/ tasks'[s][i].fired < c.row.next
                                      \/ at'[d] < tasks'[s][i].slot
      BY <1>1, <1>6, <2>1 DEF FiringsApart
    <2>4. \A e \in Dispatcher \ {d} : \A b \in claimed'[e] :
            Committed(e)' /\ b.of = s => at'[d] < b.row.next \/ at'[e] < c.row.next
      BY <1>3, <1>6, <2>1 DEF FiringsApart
    <2>5. QED BY <2>2, <2>3, <2>4
  <1>7. QED BY <1>4, <1>5, <1>6

LEMMA QuietNotes == ASSUME NotesKept, NothingFires PROVE NotesKept'
  <1> SUFFICES ASSUME NEW s \in Schedule \ overlap
               PROVE  /\ \A i \in DOMAIN tasks'[s] :
                           tasks'[s][i].noted => tasks'[s][i].slot \in row'[s].notes
                      /\ \A i, j \in DOMAIN tasks'[s] :
                           i # j /\ Open(s, j)' =>
                             ~Open(s, i)' /\ tasks'[s][i].slot < tasks'[s][j].slot
                      /\ \A i, j \in DOMAIN tasks'[s] :
                           tasks'[s][i].noted /\ tasks'[s][i].slot < tasks'[s][j].slot
                             => tasks'[s][i].slot \in tasks'[s][j].seen
                      /\ \A d \in Dispatcher : \A c \in claimed'[d] :
                           Committed(d)' /\ c.of = s =>
                             /\ \A i \in DOMAIN tasks'[s] :
                                  /\ ~Open(s, i)' /\ tasks'[s][i].slot < c.row.next
                                  /\ tasks'[s][i].noted => tasks'[s][i].slot \in c.row.notes
                             /\ \A e \in Dispatcher \ {d} : \A b \in claimed'[e] :
                                  ~(Committed(e)' /\ b.of = s)
    BY DEF NotesKept, NothingFires
  <1>1. /\ DOMAIN tasks'[s] = DOMAIN tasks[s]
        /\ \A i \in DOMAIN tasks[s] : /\ tasks'[s][i].slot = tasks[s][i].slot
                                      /\ tasks'[s][i].seen = tasks[s][i].seen
                                      /\ tasks'[s][i].noted <=> tasks[s][i].noted
                                      /\ Open(s, i)' => Open(s, i)
        /\ row'[s].notes = row[s].notes
    BY DEF NothingFires
  <1>2. \A d \in Dispatcher : \A c \in claimed'[d] :
          Committed(d)' => Committed(d) /\ c \in claimed[d]
    BY DEF NothingFires
  <1>3. \A i \in DOMAIN tasks'[s] : tasks'[s][i].noted => tasks'[s][i].slot \in row'[s].notes
    BY <1>1 DEF NotesKept
  <1>4. \A i, j \in DOMAIN tasks'[s] :
          i # j /\ Open(s, j)' => ~Open(s, i)' /\ tasks'[s][i].slot < tasks'[s][j].slot
    BY <1>1 DEF NotesKept
  <1>5. \A i, j \in DOMAIN tasks'[s] :
          tasks'[s][i].noted /\ tasks'[s][i].slot < tasks'[s][j].slot
            => tasks'[s][i].slot \in tasks'[s][j].seen
    BY <1>1 DEF NotesKept
  <1>6. ASSUME NEW d \in Dispatcher, NEW c \in claimed'[d], Committed(d)', c.of = s
        PROVE  /\ \A i \in DOMAIN tasks'[s] :
                    /\ ~Open(s, i)' /\ tasks'[s][i].slot < c.row.next
                    /\ tasks'[s][i].noted => tasks'[s][i].slot \in c.row.notes
               /\ \A e \in Dispatcher \ {d} : \A b \in claimed'[e] :
                    ~(Committed(e)' /\ b.of = s)
    <2>1. Committed(d) /\ c \in claimed[d]
      BY <1>2, <1>6
    <2>2. \A i \in DOMAIN tasks'[s] :
            /\ ~Open(s, i)' /\ tasks'[s][i].slot < c.row.next
            /\ tasks'[s][i].noted => tasks'[s][i].slot \in c.row.notes
      BY <1>1, <1>6, <2>1 DEF NotesKept
    <2>3. \A e \in Dispatcher \ {d} : \A b \in claimed'[e] : ~(Committed(e)' /\ b.of = s)
      BY <1>2, <1>6, <2>1 DEF NotesKept
    <2>4. QED BY <2>2, <2>3
  <1>7. QED BY <1>3, <1>4, <1>5, <1>6

(* All steps but four are such. *)
LEMMA QuietSteps ==
  ASSUME BaseInv, [Next]_vars
  PROVE  \/ NothingFires
         \/ \E s \in Schedule, kind \in Kind, first \in 1..MaxTime :
              \E cap \in Caps[s], until \in Ends[s] : CreateSchedule(s, kind, first, cap, until)
         \/ \E d \in Dispatcher : Advance(d)
         \/ \E d \in Dispatcher : \E c \in claimed[d] : CreateTask(d, c)
         \/ \E s \in Schedule : \E i \in DOMAIN tasks[s] : SaveNotes(s, i)
  <1>1. TypeOK /\ ClaimsLocked
    BY DEF BaseInv
  (* Where a dispatcher drops what it claimed. *)
  <1> DEFINE SameTasks ==
        \A s \in Schedule :
          /\ Len(tasks'[s]) = Len(tasks[s]) /\ DOMAIN tasks'[s] = DOMAIN tasks[s]
          /\ \A i \in DOMAIN tasks[s] :
               /\ tasks'[s][i].slot = tasks[s][i].slot
               /\ tasks'[s][i].fired = tasks[s][i].fired
               /\ tasks'[s][i].seen = tasks[s][i].seen
               /\ tasks'[s][i].noted <=> tasks[s][i].noted
               /\ Open(s, i)' => Open(s, i)
  <1>2. ASSUME tasks' = tasks PROVE SameTasks
    BY <1>2 DEF Open
  <1>3. ASSUME NEW d \in Dispatcher, pc[d] = "enqueue",
               NEW stage \in {"orphan", "queued"}, SetStage(hand[d][1], hand[d][2], stage)
        PROVE  SameTasks
    BY <1>3, HandStage DEF Open
  <1>4. ASSUME NEW d \in Dispatcher, NEW C \in SUBSET claimed[d], GoOn(d, C),
               Committed(d) \/ C = {}, SameTasks, UNCHANGED <<row, overlap>>,
               \/ faults' = faults + 1
               \/ faults' = faults /\ C = claimed[d] /\ Committed(d)
        PROVE  NothingFires
    <2>1. /\ claimed'[d] = C
          /\ IF C = {} THEN pc'[d] = "idle" ELSE pc'[d] = "spawning" /\ at'[d] = at[d]
          /\ \A e \in Dispatcher \ {d} :
               claimed'[e] = claimed[e] /\ pc'[e] = pc[e] /\ at'[e] = at[e]
      BY <1>1, <1>4, GoneOn
    <2>2. \A e \in Dispatcher : \A c \in claimed'[e] :
            Committed(e)' => Committed(e) /\ c \in claimed[e] /\ at'[e] = at[e]
      <3> SUFFICES ASSUME NEW e \in Dispatcher, NEW c \in claimed'[e], Committed(e)'
                   PROVE  Committed(e) /\ c \in claimed[e] /\ at'[e] = at[e]
        OBVIOUS
      <3>1. CASE e = d
        BY <1>4, <2>1, <3>1
      <3>2. CASE e # d
        BY <2>1, <3>2 DEF Committed
      <3>3. QED BY <3>1, <3>2
    <2>3. \/ faults' # 0
          \/ faults' = faults /\ \A s \in Schedule : Owed(s)' = Owed(s)
      <3>1. CASE faults' = faults + 1
        BY <1>1, <3>1, DispatchAssumption DEF TypeOK
      <3>2. CASE faults' = faults /\ C = claimed[d] /\ Committed(d)
        <4>1. ASSUME NEW s \in Schedule PROVE Owed(s)' = Owed(s)
          <5>1. ASSUME NEW e \in Dispatcher PROVE e \in Owed(s)' <=> e \in Owed(s)
            <6>1. CASE e = d
              BY <2>1, <3>2, <6>1 DEF Owed, Committed
            <6>2. CASE e # d
              BY <2>1, <6>2 DEF Owed
            <6>3. QED BY <6>1, <6>2
          <5>2. QED BY <5>1 DEF Owed
        <4>2. QED BY <3>2, <4>1
      <3>3. QED BY <1>4, <3>1, <3>2
    <2> HIDE DEF SameTasks
    <2>4. SameTasks /\ row' = row /\ overlap' = overlap
      BY <1>4
    <2>5. QED BY <2>2, <2>3, <2>4 DEF NothingFires, SameTasks
  (* Where no dispatcher is past its commit that was not before. *)
  <1>5. ASSUME SameTasks, UNCHANGED <<overlap, faults>>,
               \A s \in Schedule :
                 /\ row'[s].count = row[s].count /\ row'[s].notes = row[s].notes
                 /\ row'[s].next = row[s].next \/ row'[s].next = 0,
               \A d \in Dispatcher :
                 /\ Committed(d)' <=> Committed(d)
                 /\ Committed(d) => claimed'[d] = claimed[d] /\ at'[d] = at[d]
        PROVE  NothingFires
    <2>1. ASSUME NEW s \in Schedule PROVE Owed(s)' = Owed(s)
      BY <1>5 DEF Owed, Committed
    <2> HIDE DEF SameTasks
    <2>2. QED BY <1>5, <2>1 DEF NothingFires, SameTasks
  <1> HIDE DEF SameTasks
  <1>6. CASE Tick
    BY <1>2, <1>5, <1>6 DEF Tick, dispatchVars, Committed
  <1>7. ASSUME NEW s \in Schedule, CancelSchedule(s)
        PROVE  NothingFires
    <2>1. UNCHANGED <<dispatchVars, tasks, overlap, faults>>
      BY <1>7 DEF CancelSchedule
    <2>2. \A r \in Schedule : /\ row'[r].count = row[r].count /\ row'[r].notes = row[r].notes
                              /\ row'[r].next = row[r].next \/ row'[r].next = 0
      BY <1>1, <1>7 DEF CancelSchedule, CancelRow, TypeOK, Row
    <2>3. QED BY <1>2, <1>5, <2>1, <2>2 DEF dispatchVars, Committed
  <1>8. ASSUME NEW d \in Dispatcher,
               Wake(d) \/ (\E S \in SUBSET Schedule : LockDue(d, S))
        PROVE  NothingFires
    <2>1. UNCHANGED <<row, tasks, overlap, faults>>
      BY <1>8 DEF Wake, LockDue
    <2>2. /\ pc[d] \in {"idle", "woken"} /\ pc'[d] \in {"idle", "woken", "locked"}
          /\ \A e \in Dispatcher \ {d} :
               claimed'[e] = claimed[e] /\ pc'[e] = pc[e] /\ at'[e] = at[e]
      BY <1>1, <1>8 DEF Wake, LockDue, TypeOK
    <2>3. QED BY <1>2, <1>5, <2>1, <2>2 DEF Committed
  <1>9. ASSUME NEW d \in Dispatcher, EnqueueTask(d)
        PROVE  NothingFires
    BY <1>3, <1>4, <1>9 DEF EnqueueTask, Committed
  <1>10. ASSUME NEW d \in Dispatcher, SpawnFails(d)
         PROVE  NothingFires
    <2>1. faults' = faults + 1 /\ UNCHANGED <<row, overlap>>
      BY <1>10 DEF SpawnFails, Fault
    <2>2. ASSUME NEW c \in claimed[d], pc[d] = "spawning", GoOn(d, claimed[d] \ {c}),
                 UNCHANGED tasks
          PROVE  NothingFires
      <3>1. claimed[d] \ {c} \in SUBSET claimed[d]
        OBVIOUS
      <3>2. QED BY <1>2, <1>4, <2>1, <2>2, <3>1 DEF Committed
    <2>3. ASSUME pc[d] = "enqueue", SetStage(hand[d][1], hand[d][2], "orphan"),
                 GoOn(d, claimed[d])
          PROVE  NothingFires
      BY <1>3, <1>4, <2>1, <2>3 DEF Committed
    <2>4. QED BY <1>10, <2>2, <2>3 DEF SpawnFails
  <1>11. ASSUME NEW d \in Dispatcher, DispatcherDies(d)
         PROVE  NothingFires
    <2>1. {} \in SUBSET claimed[d]
      OBVIOUS
    <2>2. SameTasks
      BY <1>2, <1>3, <1>11 DEF DispatcherDies
    <2>3. QED BY <1>4, <1>11, <2>1, <2>2 DEF DispatcherDies, Fault
  <1>12. ASSUME NEW s \in Schedule, NEW i \in DOMAIN tasks[s], EndRun(s, i)
         PROVE  NothingFires
    <2>1. SameTasks
      BY <1>1, <1>12, StageSet DEF EndRun, SameTasks, Open
    <2>2. QED BY <1>5, <1>12, <2>1 DEF EndRun, dispatchVars, Committed
  <1>13. CASE UNCHANGED vars
    BY <1>2, <1>5, <1>13 DEF vars, dispatchVars, Committed
  <1>14. QED
    BY <1>6, <1>7, <1>8, <1>9, <1>10, <1>11, <1>12, <1>13 DEF Next, DispatchStep

-----------------------------------------------------------------------------
(* Firings are accounted for. *)

LEMMA AccountedStep ==
  ASSUME BaseInv, Accounted, [Next]_vars
  PROVE  Accounted'
  <1>1. TypeOK /\ ClaimsLocked
    BY DEF BaseInv
  <1>2. \A s \in Schedule :
          /\ Len(tasks[s]) \in Nat /\ row[s].count \in Nat
          /\ IsFiniteSet(Owed(s)) /\ Cardinality(Owed(s)) \in Nat
          /\ Len(tasks[s]) + Cardinality(Owed(s)) <= row[s].count
          /\ faults = 0 => Len(tasks[s]) + Cardinality(Owed(s)) = row[s].count
    <2> SUFFICES ASSUME NEW s \in Schedule
                 PROVE  /\ Len(tasks[s]) \in Nat /\ row[s].count \in Nat
                        /\ IsFiniteSet(Owed(s)) /\ Cardinality(Owed(s)) \in Nat
                        /\ Len(tasks[s]) + Cardinality(Owed(s)) <= row[s].count
                        /\ faults = 0 =>
                             Len(tasks[s]) + Cardinality(Owed(s)) = row[s].count
      OBVIOUS
    <2>1. tasks[s] \in Seq(Run) /\ row[s] \in Row
      BY <1>1 DEF TypeOK
    <2>2. QED BY <2>1, LenProperties, FS_CardinalityType DEF Accounted, Row
  <1>3. CASE NothingFires
    BY <1>1, <1>3, QuietAccounted
  (* Where what is spawned or owed of a schedule grows by what is counted. *)
  <1>4. ASSUME faults' = faults,
               \A s \in Schedule :
                 \E k \in {0, 1} :
                   /\ IsFiniteSet(Owed(s)') /\ Cardinality(Owed(s)') \in Nat
                   /\ Len(tasks'[s]) + Cardinality(Owed(s)')
                        = Len(tasks[s]) + Cardinality(Owed(s)) + k
                   /\ row'[s].count = row[s].count + k
        PROVE  Accounted'
    <2> SUFFICES ASSUME NEW s \in Schedule
                 PROVE  /\ IsFiniteSet(Owed(s)')
                        /\ Len(tasks'[s]) + Cardinality(Owed(s)') <= row'[s].count
                        /\ faults' = 0 =>
                             Len(tasks'[s]) + Cardinality(Owed(s)') = row'[s].count
      BY DEF Accounted
    <2>1. PICK k \in {0, 1} :
                   /\ IsFiniteSet(Owed(s)') /\ Cardinality(Owed(s)') \in Nat
                   /\ Len(tasks'[s]) + Cardinality(Owed(s)')
                        = Len(tasks[s]) + Cardinality(Owed(s)) + k
                   /\ row'[s].count = row[s].count + k
      BY <1>4
    <2> DEFINE a == Len(tasks[s]) + Cardinality(Owed(s))
               b == Len(tasks'[s]) + Cardinality(Owed(s)')
    <2>2. a \in Nat /\ b = a + k /\ a <= row[s].count /\ (faults = 0 => a = row[s].count)
      BY <1>2, <2>1
    <2> HIDE DEF a, b
    <2>3. b <= row'[s].count /\ (faults' = 0 => b = row'[s].count)
      BY <1>2, <1>4, <2>1, <2>2
    <2>4. QED BY <2>1, <2>3 DEF b
  <1>5. ASSUME NEW s \in Schedule, NEW kind \in Kind, NEW first \in 1..MaxTime,
               NEW cap \in Caps[s], NEW until \in Ends[s],
               CreateSchedule(s, kind, first, cap, until)
        PROVE  Accounted'
    <2>1. \A r \in Schedule : row'[r].count = row[r].count
      <3>1. \A r \in Schedule \ {s} : row'[r] = row[r]
        BY <1>1, <1>5 DEF CreateSchedule, TypeOK
      <3>2. row[s] = NoRow
        BY <1>5 DEF CreateSchedule, BaseInv, RowsKept, RowKept
      <3>3. row'[s].count = NoRow.count
        BY <1>1, <1>5 DEF CreateSchedule, TypeOK, NoRow
      <3>4. QED BY <3>1, <3>2, <3>3
    <2>2. \A r \in Schedule : Owed(r)' = Owed(r) /\ tasks' = tasks /\ faults' = faults
      BY <1>5 DEF CreateSchedule, dispatchVars, Owed
    <2>3. QED BY <2>1, <2>2 DEF Accounted
  <1>6. ASSUME NEW d \in Dispatcher, Advance(d)
        PROVE  Accounted'
    <2>1. /\ pc[d] = "locked" /\ pc'[d] = "spawning"
          /\ \A e \in Dispatcher \ {d} : pc'[e] = pc[e]
          /\ UNCHANGED <<at, claimed, tasks, faults>>
          /\ row' = Advanced(claimed[d], at[d]) /\ at[d] \in 1..MaxTime
      BY <1>1, <1>6 DEF Advance, TypeOK, ClaimsLocked, ClaimHeld
    <2> SUFFICES ASSUME NEW s \in Schedule
                 PROVE  \E k \in {0, 1} :
                          /\ IsFiniteSet(Owed(s)') /\ Cardinality(Owed(s)') \in Nat
                          /\ Len(tasks'[s]) + Cardinality(Owed(s)')
                               = Len(tasks[s]) + Cardinality(Owed(s)) + k
                          /\ row'[s].count = row[s].count + k
      BY <1>4, <2>1
    <2>2. d \notin Owed(s)
      BY <2>1 DEF Owed
    <2>3. CASE \E c \in claimed[d] : c.of = s
      <3>1. Owed(s)' = Owed(s) \cup {d}
        <4>1. ASSUME NEW e \in Dispatcher
              PROVE  e \in Owed(s)' <=> e \in Owed(s) \/ e = d
          <5>1. CASE e = d
            BY <2>1, <2>3, <5>1 DEF Owed
          <5>2. CASE e # d
            BY <2>1, <5>2 DEF Owed
          <5>3. QED BY <5>1, <5>2
        <4>2. QED BY <4>1 DEF Owed
      <3>2. /\ IsFiniteSet(Owed(s) \cup {d})
            /\ Cardinality(Owed(s) \cup {d}) = Cardinality(Owed(s)) + 1
        BY <1>2, <2>2, FS_AddElement
      <3>3. row'[s].count = row[s].count + 1
        <4>1. row[s] \in Row /\ RowKept(row[s]) /\ row[s].status = "active"
          BY <1>1, <2>1, <2>3 DEF TypeOK, BaseInv, RowsKept, ClaimsLocked, ClaimHeld
        <4>2. Fired(row[s], at[d]).count = row[s].count + 1
          BY <2>1, <4>1, FiredKept
        <4>3. QED BY <2>1, <2>3, <4>2, AdvancedRow
      <3>4. /\ IsFiniteSet(Owed(s)')
            /\ Cardinality(Owed(s)') = Cardinality(Owed(s)) + 1
            /\ tasks'[s] = tasks[s]
        BY <2>1, <3>1, <3>2
      <3>5. QED BY <1>2, <3>3, <3>4
    <2>4. CASE ~(\E c \in claimed[d] : c.of = s)
      <3>1. Owed(s)' = Owed(s)
        <4>1. ASSUME NEW e \in Dispatcher PROVE e \in Owed(s)' <=> e \in Owed(s)
          <5>1. CASE e = d
            BY <2>1, <2>4, <5>1 DEF Owed
          <5>2. CASE e # d
            BY <2>1, <5>2 DEF Owed
          <5>3. QED BY <5>1, <5>2
        <4>2. QED BY <4>1 DEF Owed
      <3>2. row'[s] = row[s] /\ tasks'[s] = tasks[s]
        BY <2>1, <2>4, AdvancedRow
      <3>3. QED BY <1>2, <3>1, <3>2
    <2>5. QED BY <2>3, <2>4
  <1>7. ASSUME NEW d \in Dispatcher, NEW c \in claimed[d], CreateTask(d, c)
        PROVE  Accounted'
    <2>1. /\ pc[d] = "spawning" /\ pc'[d] = "enqueue"
          /\ \A e \in Dispatcher \ {d} : pc'[e] = pc[e] /\ claimed'[e] = claimed[e]
          /\ claimed'[d] = claimed[d] \ {c}
          /\ UNCHANGED <<row, faults>>
      BY <1>1, <1>7 DEF CreateTask, TypeOK
    <2>2. /\ Len(tasks'[c.of]) = Len(tasks[c.of]) + 1
          /\ \A r \in Schedule \ {c.of} : tasks'[r] = tasks[r]
          /\ c.of \in Schedule
      <3> DEFINE new == [slot |-> c.row.next, fired |-> at[d], seen |-> c.row.notes,
                         noted |-> FALSE, stage |-> "created"]
      <3>1. c.of \in Schedule /\ new \in Run
        BY <1>1, ClaimTyped DEF TypeOK, Run
      <3>2. tasks' = [tasks EXCEPT ![c.of] = Append(@, new)]
        BY <1>7 DEF CreateTask
      <3> HIDE DEF new
      <3>3. QED BY <1>1, <3>1, <3>2, TaskAdded
    <2>3. \A b \in claimed[d] : b.of = c.of => b = c
      BY <1>1 DEF ClaimsLocked, ClaimHeld
    <2> SUFFICES ASSUME NEW s \in Schedule
                 PROVE  /\ IsFiniteSet(Owed(s)') /\ Cardinality(Owed(s)') \in Nat
                        /\ Len(tasks'[s]) + Cardinality(Owed(s)')
                             = Len(tasks[s]) + Cardinality(Owed(s)) + 0
                        /\ row'[s].count = row[s].count + 0
      BY <1>4, <2>1
    <2>4. CASE s = c.of
      <3>1. d \in Owed(s)
        BY <2>1, <2>4 DEF Owed
      <3>2. Owed(s)' = Owed(s) \ {d}
        <4>1. ASSUME NEW e \in Dispatcher
              PROVE  e \in Owed(s)' <=> e \in Owed(s) /\ e # d
          <5>1. CASE e = d
            BY <2>1, <2>3, <2>4, <5>1 DEF Owed
          <5>2. CASE e # d
            BY <2>1, <5>2 DEF Owed
          <5>3. QED BY <5>1, <5>2
        <4>2. QED BY <4>1 DEF Owed
      <3>3. /\ IsFiniteSet(Owed(s) \ {d})
            /\ Cardinality(Owed(s) \ {d}) = Cardinality(Owed(s)) - 1
        BY <1>2, <3>1, FS_RemoveElement
      <3>4. Cardinality(Owed(s) \ {d}) \in Nat
        BY <3>3, FS_CardinalityType
      <3>5. /\ IsFiniteSet(Owed(s)') /\ Cardinality(Owed(s)') \in Nat
            /\ Cardinality(Owed(s)') = Cardinality(Owed(s)) - 1
        BY <3>2, <3>3, <3>4
      <3>6. Len(tasks'[s]) = Len(tasks[s]) + 1 /\ row'[s].count = row[s].count
        BY <2>1, <2>2, <2>4
      <3>7. /\ Len(tasks[s]) \in Nat /\ row[s].count \in Nat
            /\ Cardinality(Owed(s)) \in Nat
        BY <1>2
      <3>8. QED BY ONLY <3>5, <3>6, <3>7
    <2>5. CASE s # c.of
      <3>1. Owed(s)' = Owed(s)
        <4>1. ASSUME NEW e \in Dispatcher PROVE e \in Owed(s)' <=> e \in Owed(s)
          <5>1. CASE e = d
            BY <2>1, <2>5, <5>1 DEF Owed
          <5>2. CASE e # d
            BY <2>1, <5>2 DEF Owed
          <5>3. QED BY <5>1, <5>2
        <4>2. QED BY <4>1 DEF Owed
      <3>2. tasks'[s] = tasks[s]
        BY <2>2, <2>5
      <3>3. QED BY <1>2, <2>1, <3>1, <3>2
    <2>6. QED BY <2>4, <2>5
  <1>8. ASSUME NEW s \in Schedule, NEW i \in DOMAIN tasks[s], SaveNotes(s, i)
        PROVE  Accounted'
    <2>1. \A r \in Schedule : row'[r].count = row[r].count
      BY <1>1, <1>8 DEF SaveNotes, UpdateState, TypeOK, Row
    <2>2. \A r \in Schedule : Len(tasks'[r]) = Len(tasks[r])
      BY <1>1, <1>8, NotedSet DEF SaveNotes
    <2>3. \A r \in Schedule : Owed(r)' = Owed(r) /\ faults' = faults
      BY <1>8 DEF SaveNotes, dispatchVars, Owed
    <2>4. QED BY <2>1, <2>2, <2>3 DEF Accounted
  <1>9. QED BY <1>3, <1>5, <1>6, <1>7, <1>8, QuietSteps

-----------------------------------------------------------------------------
(* Firings come one after the other. *)

LEMMA ApartStep ==
  ASSUME BaseInv, Accounted, FiringsApart, [Next]_vars
  PROVE  FiringsApart'
  <1>1. TypeOK /\ ClaimsLocked
    BY DEF BaseInv
  <1>2. CASE NothingFires
    BY <1>2, QuietApart
  <1>3. \A d \in Dispatcher : \A c \in claimed[d] :
          /\ c.of \in Schedule /\ c.row.next \in Nat /\ at[d] \in Nat
          /\ c.row.next # 0 /\ c.row.next <= at[d] /\ at[d] \in 1..MaxTime
    <2> SUFFICES ASSUME NEW d \in Dispatcher, NEW c \in claimed[d]
                 PROVE  /\ c.of \in Schedule /\ c.row.next \in Nat /\ at[d] \in Nat
                        /\ c.row.next # 0 /\ c.row.next <= at[d] /\ at[d] \in 1..MaxTime
      OBVIOUS
    <2>1. c.of \in Schedule /\ c.row.next \in Instant
      BY <1>1, ClaimTyped
    <2>2. pc[d] # "idle" /\ at[d] \in 1..MaxTime /\ c.row.next # 0 /\ c.row.next <= at[d]
      BY <1>1 DEF ClaimsLocked, ClaimHeld, TypeOK
    <2>3. QED BY <2>1, <2>2, DispatchAssumption DEF Instant
  <1>4. \A s \in Schedule :
          /\ row[s].next \in Nat
          /\ \A i \in DOMAIN tasks[s] : tasks[s][i].slot \in Nat /\ tasks[s][i].fired \in Nat
    <2> SUFFICES ASSUME NEW s \in Schedule
                 PROVE  /\ row[s].next \in Nat
                        /\ \A i \in DOMAIN tasks[s] :
                             tasks[s][i].slot \in Nat /\ tasks[s][i].fired \in Nat
      OBVIOUS
    <2>1. row[s] \in Row /\ tasks[s] \in Seq(Run) /\ \A x \in Instant : x \in Nat
      BY <1>1, DispatchAssumption DEF TypeOK, Instant
    <2>2. \A i \in DOMAIN tasks[s] : tasks[s][i] \in Run
      BY <2>1, ElementOfSeq, LenProperties
    <2>3. QED BY <2>1, <2>2 DEF Row, Run
  <1>5. ASSUME NEW s \in Schedule, NEW kind \in Kind, NEW first \in 1..MaxTime,
               NEW cap \in Caps[s], NEW until \in Ends[s],
               CreateSchedule(s, kind, first, cap, until)
        PROVE  FiringsApart'
    <2>1. \A r \in Schedule \ {s} : row'[r] = row[r]
      BY <1>1, <1>5 DEF CreateSchedule, TypeOK
    <2>2. UNCHANGED <<dispatchVars, tasks>>
      BY <1>5 DEF CreateSchedule
    <2>3. DOMAIN tasks[s] = {} /\ Owed(s) = {}
      <3>1. row[s] = NoRow
        BY <1>5 DEF CreateSchedule, BaseInv, RowsKept, RowKept
      <3>2. row[s].count = 0
        BY <3>1 DEF NoRow
      <3>3. QED BY <1>1, <3>2, NothingFired
    <2>4. \A d \in Dispatcher : \A c \in claimed[d] : ~(Committed(d) /\ c.of = s)
      BY <2>3 DEF Owed, Committed
    <2>5. QED BY <2>1, <2>2, <2>3, <2>4 DEF FiringsApart, dispatchVars, Committed
  <1>6. ASSUME NEW d \in Dispatcher, Advance(d)
        PROVE  FiringsApart'
    <2>1. /\ pc[d] = "locked" /\ pc'[d] = "spawning"
          /\ \A e \in Dispatcher \ {d} : pc'[e] = pc[e]
          /\ at' = at /\ claimed' = claimed /\ tasks' = tasks
          /\ row' = Advanced(claimed[d], at[d])
      BY <1>1, <1>6 DEF Advance, TypeOK
    <2>2. \A e \in Dispatcher \ {d} : Committed(e)' <=> Committed(e)
      BY <2>1 DEF Committed
    <2>3. ~Committed(d)
      BY <2>1 DEF Committed
    <2> SUFFICES ASSUME NEW s \in Schedule
                 PROVE  /\ \A i \in DOMAIN tasks[s] :
                             /\ tasks[s][i].slot <= tasks[s][i].fired
                             /\ row'[s].next # 0 => tasks[s][i].fired < row'[s].next
                        /\ \A i, j \in DOMAIN tasks[s] :
                             i # j => \/ tasks[s][i].fired < tasks[s][j].slot
                                      \/ tasks[s][j].fired < tasks[s][i].slot
                        /\ \A e \in Dispatcher : \A c \in claimed[e] :
                             Committed(e)' /\ c.of = s =>
                               /\ row'[s].next # 0 => at[e] < row'[s].next
                               /\ \A i \in DOMAIN tasks[s] :
                                    \/ tasks[s][i].fired < c.row.next
                                    \/ at[e] < tasks[s][i].slot
                               /\ \A f \in Dispatcher \ {e} : \A b \in claimed[f] :
                                    Committed(f)' /\ b.of = s => \/ at[e] < b.row.next
                                                                \/ at[f] < c.row.next
      BY <2>1 DEF FiringsApart
    <2>4. CASE \E c \in claimed[d] : c.of = s
      <3>1. /\ row[s].next # 0 /\ row[s].next <= at[d] /\ at[d] \in 1..MaxTime
            /\ row[s] \in Row /\ RowKept(row[s]) /\ row[s].status = "active"
            /\ \A c \in claimed[d] : c.of = s => c.row = row[s]
        BY <1>1, <1>3, <2>1, <2>4 DEF BaseInv, TypeOK, RowsKept, ClaimsLocked, ClaimHeld
      <3>2. row'[s].next # 0 => row'[s].next > at[d]
        <4>1. Fired(row[s], at[d]).next # 0 => Fired(row[s], at[d]).next > at[d]
          BY <3>1, FiredKept
        <4>2. QED BY <2>1, <2>4, <4>1, AdvancedRow
      <3>3. row'[s].next \in Nat
        <4>1. Fired(row[s], at[d]) \in Row
          BY <3>1, FiredKept
        <4>2. row'[s].next \in Instant
          BY <2>1, <2>4, <4>1, AdvancedRow DEF Row
        <4>3. QED BY <4>2, DispatchAssumption DEF Instant
      <3>4. \A i \in DOMAIN tasks[s] : /\ tasks[s][i].slot <= tasks[s][i].fired
                                       /\ tasks[s][i].fired < row[s].next
        BY <3>1 DEF FiringsApart
      <3>5. \A i \in DOMAIN tasks[s] :
              row'[s].next # 0 => tasks[s][i].fired < row'[s].next
        BY <1>4, <3>1, <3>2, <3>3, <3>4
      <3>6. \A e \in Dispatcher \ {d} : \A c \in claimed[e] :
              Committed(e) /\ c.of = s => at[e] < row[s].next
        BY <3>1 DEF FiringsApart
      <3>7. ASSUME NEW e \in Dispatcher, NEW c \in claimed[e], Committed(e)', c.of = s
            PROVE  /\ row'[s].next # 0 => at[e] < row'[s].next
                   /\ \A i \in DOMAIN tasks[s] : \/ tasks[s][i].fired < c.row.next
                                                 \/ at[e] < tasks[s][i].slot
                   /\ \A f \in Dispatcher \ {e} : \A b \in claimed[f] :
                        Committed(f)' /\ b.of = s => \/ at[e] < b.row.next
                                                    \/ at[f] < c.row.next
        <4>1. CASE e = d
          <5>1. c.row = row[s]
            BY <3>1, <3>7, <4>1
          <5>2. \A f \in Dispatcher \ {e} : \A b \in claimed[f] :
                  Committed(f)' /\ b.of = s => at[f] < c.row.next
            BY <2>2, <3>6, <4>1, <5>1
          <5>3. \A i \in DOMAIN tasks[s] : tasks[s][i].fired < c.row.next
            BY <3>4, <5>1
          <5>4. row'[s].next # 0 => at[e] < row'[s].next
            BY <1>3, <3>1, <3>2, <3>3, <4>1
          <5>5. QED BY <5>2, <5>3, <5>4
        <4>2. CASE e # d
          <5>1. Committed(e)
            BY <2>2, <3>7, <4>2
          <5>2. at[e] < row[s].next /\ at[e] \in Nat
            BY <1>3, <3>6, <3>7, <4>2, <5>1
          <5>3. row'[s].next # 0 => at[e] < row'[s].next
            BY <1>4, <3>1, <3>2, <3>3, <5>2
          <5>4. \A i \in DOMAIN tasks[s] : \/ tasks[s][i].fired < c.row.next
                                          \/ at[e] < tasks[s][i].slot
            BY <3>7, <5>1 DEF FiringsApart
          <5>5. ASSUME NEW f \in Dispatcher \ {e}, NEW b \in claimed[f],
                       Committed(f)', b.of = s
                PROVE  at[e] < b.row.next \/ at[f] < c.row.next
            <6>1. CASE f = d
              BY <3>1, <5>2, <5>5, <6>1
            <6>2. CASE f # d
              BY <2>2, <3>7, <5>1, <5>5, <6>2 DEF FiringsApart
            <6>3. QED BY <6>1, <6>2
          <5>6. QED BY <5>3, <5>4, <5>5
        <4>3. QED BY <4>1, <4>2
      <3>8. \A i, j \in DOMAIN tasks[s] :
              i # j => \/ tasks[s][i].fired < tasks[s][j].slot
                       \/ tasks[s][j].fired < tasks[s][i].slot
        BY DEF FiringsApart
      <3>9. QED BY <3>4, <3>5, <3>7, <3>8
    <2>5. CASE ~(\E c \in claimed[d] : c.of = s)
      <3>1. row'[s] = row[s]
        BY <2>1, <2>5, AdvancedRow
      <3>2. \A e \in Dispatcher : \A c \in claimed[e] :
              Committed(e)' /\ c.of = s => e # d /\ Committed(e)
        BY <2>2, <2>5
      <3>3. QED BY <3>1, <3>2 DEF FiringsApart
    <2>6. QED BY <2>4, <2>5
  <1>7. ASSUME NEW d \in Dispatcher, NEW c \in claimed[d], CreateTask(d, c)
        PROVE  FiringsApart'
    <2>1. /\ pc[d] = "spawning" /\ pc'[d] = "enqueue"
          /\ \A e \in Dispatcher \ {d} : pc'[e] = pc[e] /\ claimed'[e] = claimed[e]
          /\ claimed'[d] = claimed[d] \ {c}
          /\ row' = row /\ at' = at
      BY <1>1, <1>7 DEF CreateTask, TypeOK
    <2>2. \A e \in Dispatcher : /\ Committed(e)' <=> Committed(e)
                                /\ claimed'[e] \subseteq claimed[e]
      BY <2>1 DEF Committed
    <2> DEFINE new == [slot |-> c.row.next, fired |-> at[d], seen |-> c.row.notes,
                       noted |-> FALSE, stage |-> "created"]
               n == Len(tasks[c.of]) + 1
    <2>3. c.of \in Schedule /\ new \in Run
      BY <1>1, ClaimTyped DEF TypeOK, Run
    <2>4. /\ tasks' = [tasks EXCEPT ![c.of] = Append(@, new)]
          /\ new.slot = c.row.next /\ new.fired = at[d]
      BY <1>7 DEF CreateTask
    <2> HIDE DEF new
    <2>5. /\ tasks'[c.of][n] = new /\ n \notin DOMAIN tasks[c.of]
          /\ DOMAIN tasks'[c.of] = DOMAIN tasks[c.of] \cup {n}
          /\ \A i \in DOMAIN tasks[c.of] : tasks'[c.of][i] = tasks[c.of][i]
          /\ \A r \in Schedule \ {c.of} : tasks'[r] = tasks[r]
      BY <1>1, <2>3, <2>4, TaskAdded
    <2> HIDE DEF n
    <2>6. ASSUME NEW s \in Schedule, s # c.of
          PROVE  /\ tasks'[s] = tasks[s]
      BY <2>5, <2>6
    <2> DEFINE s == c.of
    <2>7. /\ Committed(d) /\ \A e \in Dispatcher \ {d} : \A b \in claimed[e] :
                                Committed(e) /\ b.of = s => \/ at[d] < b.row.next
                                                           \/ at[e] < c.row.next
          /\ row[s].next # 0 => at[d] < row[s].next
          /\ \A i \in DOMAIN tasks[s] : \/ tasks[s][i].fired < c.row.next
                                         \/ at[d] < tasks[s][i].slot
      BY <2>1, <2>3 DEF FiringsApart, Committed
    <2>8. \A b \in claimed'[d] : b.of # s
      BY <1>1, <2>1 DEF ClaimsLocked, ClaimHeld
    <2>9. ASSUME NEW r \in Schedule
          PROVE  \A i \in DOMAIN tasks'[r] :
                   /\ tasks'[r][i].slot <= tasks'[r][i].fired
                   /\ row'[r].next # 0 => tasks'[r][i].fired < row'[r].next
      <3>1. CASE r = s
        <4>1. \A i \in DOMAIN tasks[s] :
                 /\ tasks'[s][i].slot <= tasks'[s][i].fired
                 /\ row'[s].next # 0 => tasks'[s][i].fired < row'[s].next
          BY <2>1, <2>3, <2>5 DEF FiringsApart
        <4>2. /\ tasks'[s][n].slot <= tasks'[s][n].fired
              /\ row'[s].next # 0 => tasks'[s][n].fired < row'[s].next
          BY <1>3, <2>1, <2>4, <2>5, <2>7
        <4>3. QED BY <2>5, <3>1, <4>1, <4>2
      <3>2. CASE r # s
        BY <2>1, <2>5, <3>2 DEF FiringsApart
      <3>3. QED BY <3>1, <3>2
    <2>10. ASSUME NEW r \in Schedule, NEW i \in DOMAIN tasks'[r],
                  NEW j \in DOMAIN tasks'[r], i # j
           PROVE  \/ tasks'[r][i].fired < tasks'[r][j].slot
                  \/ tasks'[r][j].fired < tasks'[r][i].slot
      <3>1. CASE r = s
        <4>1. CASE i # n /\ j # n
          <5>1. i \in DOMAIN tasks[s] /\ j \in DOMAIN tasks[s]
            BY <2>5, <2>10, <3>1, <4>1
          <5>2. QED BY <2>3, <2>5, <2>10, <3>1, <5>1 DEF FiringsApart
        <4>2. CASE i = n
          <5>1. j \in DOMAIN tasks[s]
            BY <2>5, <2>10, <3>1, <4>2
          <5>2. QED BY <2>4, <2>5, <2>7, <3>1, <4>2, <5>1
        <4>3. CASE j = n
          <5>1. i \in DOMAIN tasks[s]
            BY <2>5, <2>10, <3>1, <4>3
          <5>2. QED BY <2>4, <2>5, <2>7, <3>1, <4>3, <5>1
        <4>4. QED BY <4>1, <4>2, <4>3
      <3>2. CASE r # s
        BY <2>5, <2>10, <3>2 DEF FiringsApart
      <3>3. QED BY <3>1, <3>2
    <2>11. ASSUME NEW r \in Schedule, NEW e \in Dispatcher, NEW b \in claimed'[e],
                  Committed(e)', b.of = r
           PROVE  /\ row'[r].next # 0 => at'[e] < row'[r].next
                  /\ \A i \in DOMAIN tasks'[r] :
                       \/ tasks'[r][i].fired < b.row.next
                       \/ at'[e] < tasks'[r][i].slot
                  /\ \A f \in Dispatcher \ {e} : \A a \in claimed'[f] :
                       Committed(f)' /\ a.of = r => \/ at'[e] < a.row.next
                                                   \/ at'[f] < b.row.next
      <3>1. Committed(e) /\ b \in claimed[e]
        BY <2>2, <2>11
      <3>2. row'[r].next # 0 => at'[e] < row'[r].next
        BY <2>1, <2>11, <3>1 DEF FiringsApart
      <3>3. \A f \in Dispatcher \ {e} : \A a \in claimed'[f] :
              Committed(f)' /\ a.of = r => at'[e] < a.row.next \/ at'[f] < b.row.next
        BY <2>1, <2>2, <2>11, <3>1 DEF FiringsApart
      <3>4. \A i \in DOMAIN tasks[r] :
              tasks[r][i].fired < b.row.next \/ at[e] < tasks[r][i].slot
        BY <2>11, <3>1 DEF FiringsApart
      <3>5. CASE r = s
        <4>1. e # d
          BY <2>8, <2>11, <3>5
        <4>2. at[d] < b.row.next \/ at[e] < c.row.next
          BY <2>7, <2>11, <3>1, <3>5, <4>1
        <4>3. \A i \in DOMAIN tasks'[r] :
                tasks'[r][i].fired < b.row.next \/ at'[e] < tasks'[r][i].slot
          BY <2>1, <2>4, <2>5, <3>4, <3>5, <4>2
        <4>4. QED BY <3>2, <3>3, <4>3
      <3>6. CASE r # s
        BY <2>1, <2>5, <3>2, <3>3, <3>4, <3>6
      <3>7. QED BY <3>5, <3>6
    <2> HIDE DEF s
    <2>12. QED BY <2>9, <2>10, <2>11 DEF FiringsApart
  <1>8. ASSUME NEW s \in Schedule, NEW i \in DOMAIN tasks[s], SaveNotes(s, i)
        PROVE  FiringsApart'
    <2>1. \A r \in Schedule : row'[r].next = row[r].next
      BY <1>1, <1>8 DEF SaveNotes, UpdateState, TypeOK, Row
    <2>2. \A r \in Schedule :
            /\ DOMAIN tasks'[r] = DOMAIN tasks[r]
            /\ \A j \in DOMAIN tasks[r] : /\ tasks'[r][j].slot = tasks[r][j].slot
                                          /\ tasks'[r][j].fired = tasks[r][j].fired
      BY <1>1, <1>8, NotedSet DEF SaveNotes
    <2>3. UNCHANGED dispatchVars
      BY <1>8 DEF SaveNotes
    <2>4. QED BY <2>1, <2>2, <2>3 DEF FiringsApart, dispatchVars, Committed
  <1>9. QED BY <1>2, <1>5, <1>6, <1>7, <1>8, QuietSteps

-----------------------------------------------------------------------------
(* Notes reach the next run. *)

LEMMA NotesStep ==
  ASSUME FiringInv, NotesKept, [Next]_vars
  PROVE  NotesKept'
  <1>1. TypeOK /\ ClaimsLocked /\ BaseInv /\ Accounted /\ FiringsApart
    BY DEF FiringInv, BaseInv
  <1>2. CASE NothingFires
    BY <1>2, QuietNotes
  <1>3. ASSUME NEW s \in Schedule, NEW kind \in Kind, NEW first \in 1..MaxTime,
               NEW cap \in Caps[s], NEW until \in Ends[s],
               CreateSchedule(s, kind, first, cap, until)
        PROVE  NotesKept'
    <2>1. \A r \in Schedule : row'[r].notes = row[r].notes
      <3>1. \A r \in Schedule \ {s} : row'[r] = row[r]
        BY <1>1, <1>3 DEF CreateSchedule, TypeOK
      <3>2. row[s] = NoRow
        BY <1>1, <1>3 DEF CreateSchedule, BaseInv, RowsKept, RowKept
      <3>3. row'[s].notes = NoRow.notes
        BY <1>1, <1>3 DEF CreateSchedule, TypeOK, NoRow
      <3>4. QED BY <3>1, <3>2, <3>3
    <2>2. UNCHANGED <<dispatchVars, tasks, overlap>>
      BY <1>3 DEF CreateSchedule
    <2>3. QED BY <2>1, <2>2 DEF NotesKept, dispatchVars, Committed, Open
  <1>4. ASSUME NEW d \in Dispatcher, Advance(d)
        PROVE  NotesKept'
    <2>1. /\ pc[d] = "locked" /\ pc'[d] = "spawning"
          /\ \A e \in Dispatcher \ {d} : pc'[e] = pc[e]
          /\ claimed' = claimed /\ tasks' = tasks
          /\ row' = Advanced(claimed[d], at[d]) /\ at[d] \in 1..MaxTime
          /\ overlap' = overlap \cup {s \in {c.of : c \in claimed[d]} : Unfinished(s)}
      BY <1>1, <1>4 DEF Advance, TypeOK, ClaimsLocked, ClaimHeld
    <2>2. \A e \in Dispatcher \ {d} : Committed(e)' <=> Committed(e)
      BY <2>1 DEF Committed
    <2>3. \A s \in Schedule : \A i \in DOMAIN tasks[s] : Open(s, i)' <=> Open(s, i)
      BY <2>1 DEF Open
    <2> SUFFICES ASSUME NEW s \in Schedule, s \notin overlap'
                 PROVE  /\ \A i \in DOMAIN tasks[s] :
                             tasks[s][i].noted => tasks[s][i].slot \in row'[s].notes
                        /\ \A e \in Dispatcher : \A c \in claimed[e] :
                             Committed(e)' /\ c.of = s =>
                               /\ \A i \in DOMAIN tasks[s] :
                                    /\ ~Open(s, i) /\ tasks[s][i].slot < c.row.next
                                    /\ tasks[s][i].noted => tasks[s][i].slot \in c.row.notes
                               /\ \A f \in Dispatcher \ {e} : \A b \in claimed[f] :
                                    ~(Committed(f)' /\ b.of = s)
      <3>1. \A s \in Schedule \ overlap' : s \notin overlap
        BY <2>1
      <3>2. \A s \in Schedule \ overlap' :
              /\ \A i, j \in DOMAIN tasks[s] :
                   i # j /\ Open(s, j) => ~Open(s, i) /\ tasks[s][i].slot < tasks[s][j].slot
              /\ \A i, j \in DOMAIN tasks[s] :
                   tasks[s][i].noted /\ tasks[s][i].slot < tasks[s][j].slot
                     => tasks[s][i].slot \in tasks[s][j].seen
        BY <3>1 DEF NotesKept
      <3>3. QED BY <2>1, <2>3, <3>2 DEF NotesKept
    <2>4. s \notin overlap
      BY <2>1
    <2>5. CASE \E c \in claimed[d] : c.of = s
      <3>1. /\ row[s] \in Row /\ RowKept(row[s]) /\ row[s].status = "active" /\ row[s].next # 0
            /\ \A c \in claimed[d] : c.of = s => c.row = row[s]
        BY <1>1, <2>1, <2>5 DEF BaseInv, TypeOK, RowsKept, ClaimsLocked, ClaimHeld
      <3>2. ~Unfinished(s)
        BY <2>1, <2>5
      <3>3. row'[s].notes = row[s].notes
        <4>1. Fired(row[s], at[d]).notes = row[s].notes
          BY <2>1, <3>1, FiredKept
        <4>2. QED BY <1>1, <2>1, <2>5, <4>1, AdvancedRow
      <3>4. /\ \A i \in DOMAIN tasks[s] : ~Open(s, i)
            /\ \A e \in Dispatcher : \A c \in claimed[e] : ~(Committed(e) /\ c.of = s)
        BY <3>2 DEF Unfinished, Open, Committed
      <3>5. \A i \in DOMAIN tasks[s] :
              /\ tasks[s][i].slot < row[s].next
              /\ tasks[s][i].noted => tasks[s][i].slot \in row[s].notes
        <4> SUFFICES ASSUME NEW i \in DOMAIN tasks[s]
                     PROVE  /\ tasks[s][i].slot < row[s].next
                            /\ tasks[s][i].noted => tasks[s][i].slot \in row[s].notes
          OBVIOUS
        <4>1. tasks[s] \in Seq(Run) /\ \A x \in Instant : x \in Nat
          BY <1>1, DispatchAssumption DEF TypeOK, Instant
        <4>2. tasks[s][i] \in Run
          BY <4>1, ElementOfSeq, LenProperties
        <4>3. /\ tasks[s][i].slot \in Nat /\ tasks[s][i].fired \in Nat /\ row[s].next \in Nat
          BY <3>1, <4>1, <4>2 DEF Run, Row
        <4>4. tasks[s][i].slot <= tasks[s][i].fired /\ tasks[s][i].fired < row[s].next
          BY <1>1, <3>1 DEF FiringsApart
        <4>5. tasks[s][i].noted => tasks[s][i].slot \in row[s].notes
          BY <2>4 DEF NotesKept
        <4>6. tasks[s][i].slot < row[s].next
          BY <4>3, <4>4
        <4>7. QED BY <4>5, <4>6
      <3>6. \A e \in Dispatcher : \A c \in claimed[e] :
              Committed(e)' /\ c.of = s => e = d /\ c.row = row[s]
        BY <2>2, <3>1, <3>4
      <3>7. QED BY <3>3, <3>4, <3>5, <3>6
    <2>6. CASE ~(\E c \in claimed[d] : c.of = s)
      <3>1. row'[s] = row[s]
        BY <2>1, <2>6, AdvancedRow, <1>1
      <3>2. \A e \in Dispatcher : \A c \in claimed[e] :
              Committed(e)' /\ c.of = s => Committed(e)
        BY <2>2, <2>6
      <3>3. QED BY <2>4, <3>1, <3>2 DEF NotesKept
    <2>7. QED BY <2>5, <2>6
  <1>5. ASSUME NEW d \in Dispatcher, NEW c \in claimed[d], CreateTask(d, c)
        PROVE  NotesKept'
    <2>1. /\ pc[d] = "spawning" /\ pc'[d] = "enqueue"
          /\ \A e \in Dispatcher \ {d} : pc'[e] = pc[e] /\ claimed'[e] = claimed[e]
          /\ claimed'[d] = claimed[d] \ {c}
          /\ row' = row /\ overlap' = overlap
      BY <1>1, <1>5 DEF CreateTask, TypeOK
    <2>2. \A e \in Dispatcher : /\ Committed(e)' <=> Committed(e)
                                /\ claimed'[e] \subseteq claimed[e]
      BY <2>1 DEF Committed
    <2> DEFINE new == [slot |-> c.row.next, fired |-> at[d], seen |-> c.row.notes,
                       noted |-> FALSE, stage |-> "created"]
               n == Len(tasks[c.of]) + 1
    <2>3. c.of \in Schedule /\ new \in Run
      BY <1>1, ClaimTyped DEF TypeOK, Run
    <2>4. /\ tasks' = [tasks EXCEPT ![c.of] = Append(@, new)]
          /\ new.slot = c.row.next /\ new.seen = c.row.notes
          /\ ~new.noted
      BY <1>5 DEF CreateTask
    <2> HIDE DEF new
    <2>5. /\ tasks'[c.of][n] = new /\ n \notin DOMAIN tasks[c.of]
          /\ DOMAIN tasks'[c.of] = DOMAIN tasks[c.of] \cup {n}
          /\ \A i \in DOMAIN tasks[c.of] : tasks'[c.of][i] = tasks[c.of][i]
          /\ \A r \in Schedule \ {c.of} : tasks'[r] = tasks[r]
      BY <1>1, <2>3, <2>4, TaskAdded
    <2> HIDE DEF n
    <2> SUFFICES ASSUME NEW s \in Schedule, s \notin overlap
                 PROVE  /\ \A i \in DOMAIN tasks'[s] :
                             tasks'[s][i].noted => tasks'[s][i].slot \in row[s].notes
                        /\ \A i, j \in DOMAIN tasks'[s] :
                             i # j /\ Open(s, j)' =>
                               ~Open(s, i)' /\ tasks'[s][i].slot < tasks'[s][j].slot
                        /\ \A i, j \in DOMAIN tasks'[s] :
                             tasks'[s][i].noted /\ tasks'[s][i].slot < tasks'[s][j].slot
                               => tasks'[s][i].slot \in tasks'[s][j].seen
                        /\ \A e \in Dispatcher : \A b \in claimed'[e] :
                             Committed(e)' /\ b.of = s =>
                               /\ \A i \in DOMAIN tasks'[s] :
                                    /\ ~Open(s, i)' /\ tasks'[s][i].slot < b.row.next
                                    /\ tasks'[s][i].noted => tasks'[s][i].slot \in b.row.notes
                               /\ \A f \in Dispatcher \ {e} : \A a \in claimed'[f] :
                                    ~(Committed(f)' /\ a.of = s)
      BY <2>1 DEF NotesKept
    <2>6. CASE s = c.of
      <3>1. /\ \A i \in DOMAIN tasks[s] :
                 /\ ~Open(s, i) /\ tasks[s][i].slot < c.row.next
                 /\ tasks[s][i].noted => tasks[s][i].slot \in c.row.notes
            /\ \A e \in Dispatcher \ {d} : \A b \in claimed[e] : ~(Committed(e) /\ b.of = s)
        BY <2>1, <2>6 DEF NotesKept, Committed
      <3>2. \A b \in claimed'[d] : b.of # s
        BY <1>1, <2>1, <2>6 DEF ClaimsLocked, ClaimHeld
      <3>3. \A e \in Dispatcher : \A b \in claimed'[e] : ~(Committed(e)' /\ b.of = s)
        BY <2>2, <3>1, <3>2
      <3>4. \A i \in DOMAIN tasks[s] :
              /\ tasks'[s][i] = tasks[s][i] /\ (Open(s, i)' <=> Open(s, i))
        BY <2>5, <2>6 DEF Open
      <3>5. /\ DOMAIN tasks'[s] = DOMAIN tasks[s] \cup {n} /\ n \notin DOMAIN tasks[s]
            /\ tasks'[s][n].slot = c.row.next /\ tasks'[s][n].seen = c.row.notes
            /\ ~tasks'[s][n].noted
        BY <2>4, <2>5, <2>6
      <3>6. \A i \in DOMAIN tasks'[s] :
              tasks'[s][i].noted => tasks'[s][i].slot \in row[s].notes
        BY <3>4, <3>5 DEF NotesKept
      <3>7. \A i, j \in DOMAIN tasks'[s] :
              i # j /\ Open(s, j)' =>
                ~Open(s, i)' /\ tasks'[s][i].slot < tasks'[s][j].slot
        <4> SUFFICES ASSUME NEW i \in DOMAIN tasks'[s], NEW j \in DOMAIN tasks'[s],
                            i # j, Open(s, j)'
                     PROVE  ~Open(s, i)' /\ tasks'[s][i].slot < tasks'[s][j].slot
          OBVIOUS
        <4>1. j = n
          BY <3>1, <3>4, <3>5
        <4>2. i \in DOMAIN tasks[s]
          BY <3>5, <4>1
        <4>3. QED BY <3>1, <3>4, <3>5, <4>1, <4>2
      <3>8. \A i, j \in DOMAIN tasks'[s] :
              tasks'[s][i].noted /\ tasks'[s][i].slot < tasks'[s][j].slot
                => tasks'[s][i].slot \in tasks'[s][j].seen
        <4> SUFFICES ASSUME NEW i \in DOMAIN tasks'[s], NEW j \in DOMAIN tasks'[s],
                            tasks'[s][i].noted, tasks'[s][i].slot < tasks'[s][j].slot
                     PROVE  tasks'[s][i].slot \in tasks'[s][j].seen
          OBVIOUS
        <4>1. i \in DOMAIN tasks[s]
          BY <3>5
        <4>2. CASE j = n
          BY <3>1, <3>4, <3>5, <4>1, <4>2
        <4>3. CASE j # n
          <5>1. j \in DOMAIN tasks[s]
            BY <3>5, <4>3
          <5>2. QED BY <3>4, <4>1, <5>1 DEF NotesKept
        <4>4. QED BY <4>2, <4>3
      <3>9. QED BY <3>3, <3>6, <3>7, <3>8
    <2>7. CASE s # c.of
      <3>1. tasks'[s] = tasks[s] /\ \A i : Open(s, i)' <=> Open(s, i)
        BY <2>5, <2>7 DEF Open
      <3>2. /\ \A i \in DOMAIN tasks[s] :
                 tasks[s][i].noted => tasks[s][i].slot \in row[s].notes
            /\ \A i, j \in DOMAIN tasks[s] :
                 i # j /\ Open(s, j) =>
                   ~Open(s, i) /\ tasks[s][i].slot < tasks[s][j].slot
            /\ \A i, j \in DOMAIN tasks[s] :
                 tasks[s][i].noted /\ tasks[s][i].slot < tasks[s][j].slot
                   => tasks[s][i].slot \in tasks[s][j].seen
        BY DEF NotesKept
      <3>3. ASSUME NEW e \in Dispatcher, NEW b \in claimed'[e], Committed(e)', b.of = s
            PROVE  /\ \A i \in DOMAIN tasks[s] :
                        /\ ~Open(s, i) /\ tasks[s][i].slot < b.row.next
                        /\ tasks[s][i].noted => tasks[s][i].slot \in b.row.notes
                   /\ \A f \in Dispatcher \ {e} : \A a \in claimed'[f] :
                        ~(Committed(f)' /\ a.of = s)
        BY <2>2, <3>3 DEF NotesKept
      <3>4. QED BY <3>1, <3>2, <3>3
    <2>8. QED BY <2>6, <2>7
  <1>6. ASSUME NEW s \in Schedule, NEW i \in DOMAIN tasks[s], SaveNotes(s, i)
        PROVE  NotesKept'
    <2>1. /\ row'[s].notes = tasks[s][i].seen \cup {tasks[s][i].slot}
          /\ \A r \in Schedule \ {s} : row'[r] = row[r]
      BY <1>1, <1>6 DEF SaveNotes, UpdateState, TypeOK, Row
    <2>2. \A r \in Schedule :
            /\ DOMAIN tasks'[r] = DOMAIN tasks[r]
            /\ \A j \in DOMAIN tasks[r] :
                 /\ tasks'[r][j].slot = tasks[r][j].slot
                 /\ tasks'[r][j].seen = tasks[r][j].seen
                 /\ tasks'[r][j].stage = tasks[r][j].stage
                 /\ (tasks'[r][j].noted <=> tasks[r][j].noted \/ (r = s /\ j = i))
      <3>1. tasks' = [tasks EXCEPT ![s][i].noted = TRUE]
        BY <1>6 DEF SaveNotes
      <3>2. \A r \in Schedule :
              /\ Len(tasks'[r]) = Len(tasks[r]) /\ DOMAIN tasks'[r] = DOMAIN tasks[r]
              /\ \A j \in DOMAIN tasks[r] :
                   /\ tasks'[r][j].slot = tasks[r][j].slot
                   /\ tasks'[r][j].fired = tasks[r][j].fired
                   /\ tasks'[r][j].seen = tasks[r][j].seen
                   /\ tasks'[r][j].stage = tasks[r][j].stage
                   /\ (tasks'[r][j].noted <=> tasks[r][j].noted \/ (r = s /\ j = i))
        BY ONLY <1>1, <3>1, NotedSet, Zenon
      <3>3. QED BY ONLY <3>2, Zenon
    <2>3. UNCHANGED <<dispatchVars, overlap>> /\ Open(s, i)
      BY <1>6 DEF SaveNotes, Open
    <2>4. \A r \in Schedule : \A j \in DOMAIN tasks[r] : Open(r, j)' <=> Open(r, j)
      BY <2>2 DEF Open
    <2>5. \A d \in Dispatcher : Committed(d)' <=> Committed(d)
      BY <2>3 DEF dispatchVars, Committed
    <2> SUFFICES ASSUME NEW r \in Schedule, r \notin overlap
                 PROVE  /\ \A j \in DOMAIN tasks[r] :
                             tasks'[r][j].noted => tasks[r][j].slot \in row'[r].notes
                        /\ \A j, k \in DOMAIN tasks[r] :
                             tasks'[r][j].noted /\ tasks[r][j].slot < tasks[r][k].slot
                               => tasks[r][j].slot \in tasks[r][k].seen
                        /\ \A d \in Dispatcher : \A c \in claimed[d] :
                             Committed(d) /\ c.of = r =>
                               /\ \A j \in DOMAIN tasks[r] :
                                    /\ ~Open(r, j) /\ tasks[r][j].slot < c.row.next
                                    /\ tasks'[r][j].noted => tasks[r][j].slot \in c.row.notes
                               /\ \A e \in Dispatcher \ {d} : \A b \in claimed[e] :
                                    ~(Committed(e) /\ b.of = r)
      <3>1. \A q \in Schedule \ overlap :
              \A j, k \in DOMAIN tasks[q] :
                j # k /\ Open(q, k) => ~Open(q, j) /\ tasks[q][j].slot < tasks[q][k].slot
        BY DEF NotesKept
      <3>2. overlap' = overlap /\ claimed' = claimed
        BY <2>3 DEF dispatchVars
      <3>3. QED BY <2>2, <2>4, <2>5, <3>1, <3>2 DEF NotesKept
    <2>6. CASE r = s
      <3>1. \A j \in DOMAIN tasks[s] : j # i => ~Open(s, j) /\ tasks[s][j].slot < tasks[s][i].slot
        BY <2>3, <2>6 DEF NotesKept
      <3>2. \A d \in Dispatcher : \A c \in claimed[d] : ~(Committed(d) /\ c.of = s)
        BY <2>3, <2>6 DEF NotesKept
      <3>3. \A j \in DOMAIN tasks[s] : tasks'[s][j].noted => tasks[s][j].slot \in row'[s].notes
        <4> SUFFICES ASSUME NEW j \in DOMAIN tasks[s], tasks'[s][j].noted
                     PROVE  tasks[s][j].slot \in row'[s].notes
          OBVIOUS
        <4>1. CASE j = i
          BY <2>1, <4>1
        <4>2. CASE j # i
          <5>1. tasks[s][j].noted /\ tasks[s][j].slot < tasks[s][i].slot
            BY <2>2, <3>1, <4>2
          <5>2. tasks[s][j].slot \in tasks[s][i].seen
            BY <2>6, <5>1 DEF NotesKept
          <5>3. QED BY <2>1, <5>2
        <4>3. QED BY <4>1, <4>2
      <3>4. ASSUME NEW j \in DOMAIN tasks[s], NEW k \in DOMAIN tasks[s],
                   tasks'[s][j].noted, tasks[s][j].slot < tasks[s][k].slot
            PROVE  tasks[s][j].slot \in tasks[s][k].seen
        <4>1. CASE j = i
          <5>1. tasks[s] \in Seq(Run) /\ \A x \in Instant : x \in Nat
            BY <1>1, DispatchAssumption DEF TypeOK, Instant
          <5>2. tasks[s][i] \in Run /\ tasks[s][k] \in Run
            BY <5>1, ElementOfSeq, LenProperties
          <5>3. tasks[s][i].slot \in Nat /\ tasks[s][k].slot \in Nat
            BY <5>1, <5>2 DEF Run
          <5>4. k = i \/ tasks[s][k].slot < tasks[s][i].slot
            BY <3>1
          <5>5. QED BY <3>4, <4>1, <5>3, <5>4
        <4>2. CASE j # i
          BY <2>2, <2>6, <3>4, <4>2 DEF NotesKept
        <4>3. QED BY <4>1, <4>2
      <3>5. QED BY <2>6, <3>2, <3>3, <3>4
    <2>7. CASE r # s
      <3>1. row'[r] = row[r] /\ \A j \in DOMAIN tasks[r] : tasks'[r][j].noted <=> tasks[r][j].noted
        BY <2>1, <2>2, <2>7
      <3>2. QED BY <3>1 DEF NotesKept
    <2>8. QED BY <2>6, <2>7
  <1>7. QED BY <1>1, <1>2, <1>3, <1>4, <1>5, <1>6, QuietSteps

-----------------------------------------------------------------------------
(* The theorems. *)

LEMMA FiringInit == Init => FiringInv /\ NotesKept
  <1> SUFFICES ASSUME Init PROVE FiringInv /\ NotesKept
    OBVIOUS
  <1>1. BaseInv
    BY BaseInit
  <1>2. \A s \in Schedule : /\ tasks[s] = << >> /\ Owed(s) = {} /\ row[s].count = 0
                            /\ DOMAIN tasks[s] = {} /\ Len(tasks[s]) = 0
    BY DEF Init, Owed, NoRow
  <1>3. \A d \in Dispatcher : claimed[d] = {}
    BY DEF Init
  <1>4. IsFiniteSet({}) /\ Cardinality({}) = 0
    BY FS_EmptySet
  <1>5. ASSUME NEW s \in Schedule
        PROVE  /\ IsFiniteSet(Owed(s))
               /\ Len(tasks[s]) + Cardinality(Owed(s)) = row[s].count
    <2>1. IsFiniteSet(Owed(s)) /\ Cardinality(Owed(s)) = 0
      BY <1>2, <1>4
    <2>2. QED BY <1>2, <2>1
  <1>6. Accounted
    <2>1. \A s \in Schedule : row[s].count = 0
      BY <1>2
    <2>2. QED BY <1>5, <2>1 DEF Accounted
  <1>7. FiringsApart
    BY <1>2, <1>3 DEF FiringsApart
  <1>8. NotesKept
    BY <1>2, <1>3 DEF NotesKept
  <1>9. QED BY <1>1, <1>6, <1>7, <1>8 DEF FiringInv

LEMMA FiringStep == FiringInv /\ [Next]_vars => FiringInv'
  BY BaseStep, AccountedStep, ApartStep DEF FiringInv

LEMMA FiringSuffices == FiringInv => FiringsOK
  <1> SUFFICES ASSUME FiringInv PROVE FiringsOK
    OBVIOUS
  <1>1. TypeOK /\ RowsKept
    BY DEF FiringInv, BaseInv
  <1>2. FiringsAccounted
    BY DEF FiringInv, Accounted, FiringsAccounted
  <1>3. NoReplay
    BY DEF FiringInv, FiringsApart, NoReplay
  <1>4. WithinTerms
    BY <1>1 DEF RowsKept, RowKept, WithinTerms
  <1>5. QED BY <1>1, <1>2, <1>3, <1>4 DEF FiringsOK

(* Whatever dispatchers overlap, are late or die, and however their claims  *)
(* interleave with cancellations: no committed claim spawns a second task,  *)
(* none is missing that did not fail, no slot fires twice, an outage is not *)
(* replayed, and a schedule fires within its terms.                         *)
THEOREM FiringsOKHolds == Spec => []FiringsOK
  <1>1. Spec => []FiringInv
    BY FiringInit, FiringStep, PTL DEF Spec
  <1>2. QED BY <1>1, FiringSuffices, PTL

(* Where no two runs of a schedule overlapped, the state blob that a run    *)
(* saved is in the prompt of every later one.                               *)
THEOREM NotesReachNextRunHolds == Spec => []NotesReachNextRun
  <1>1. FiringInv /\ NotesKept /\ [Next]_vars => (FiringInv /\ NotesKept)'
    BY FiringStep, NotesStep
  <1>2. Spec => [](FiringInv /\ NotesKept)
    BY FiringInit, <1>1, PTL DEF Spec
  <1>3. NotesKept => NotesReachNextRun
    BY DEF NotesKept, NotesReachNextRun
  <1>4. QED BY <1>2, <1>3, PTL

(* No claim that read a row before its cancellation brings it back: the row *)
(* stays cancelled, and its run_count as it was.                            *)
THEOREM CancelIsFinalHolds == Spec => CancelIsFinal
  <1>1. ASSUME FiringInv, [Next]_vars, NEW s \in Schedule, row[s].status = "cancelled"
        PROVE  row'[s].status = "cancelled" /\ row'[s].count = row[s].count
    <2>1. TypeOK /\ ClaimsLocked /\ BaseInv
      BY <1>1 DEF FiringInv, BaseInv
    <2>2. CASE row' = row
      BY <1>1, <2>2
    <2>3. ASSUME NEW r \in Schedule, NEW kind \in Kind, NEW first \in 1..MaxTime,
                 NEW cap \in Caps[r], NEW until \in Ends[r],
                 CreateSchedule(r, kind, first, cap, until)
          PROVE  row'[s] = row[s]
      BY <1>1, <2>1, <2>3 DEF CreateSchedule, TypeOK
    <2>4. ASSUME NEW r \in Schedule, CancelSchedule(r)
          PROVE  row'[s] = row[s]
      BY <1>1, <2>1, <2>4 DEF CancelSchedule, CancelRow, TypeOK
    <2>5. ASSUME NEW d \in Dispatcher, Advance(d)
          PROVE  row'[s] = row[s]
      <3>1. pc[d] = "locked" /\ row' = Advanced(claimed[d], at[d])
        BY <2>5 DEF Advance
      <3>2. ~(\E c \in claimed[d] : c.of = s)
        BY <1>1, <2>1, <3>1 DEF ClaimsLocked, ClaimHeld
      <3>3. QED BY <2>1, <3>1, <3>2, AdvancedRow
    <2>6. ASSUME NEW r \in Schedule, NEW i \in DOMAIN tasks[r], SaveNotes(r, i)
          PROVE  row'[s].status = row[s].status /\ row'[s].count = row[s].count
      BY <2>1, <2>6 DEF SaveNotes, UpdateState, TypeOK, Row
    <2>7. QED
      BY <1>1, <2>2, <2>3, <2>4, <2>5, <2>6
      DEF Next, DispatchStep, Tick, Wake, LockDue, CreateTask, EnqueueTask, SpawnFails,
          DispatcherDies, EndRun, vars
  <1>2. FiringInv /\ [Next]_vars =>
          [\A s \in Schedule : row[s].status = "cancelled" =>
             row'[s].status = "cancelled" /\ row'[s].count = row[s].count]_vars
    BY <1>1
  <1>3. Spec => []FiringInv
    BY FiringInit, FiringStep, PTL DEF Spec
  <1>4. QED BY <1>2, <1>3, PTL DEF Spec, CancelIsFinal
==============================================================================
