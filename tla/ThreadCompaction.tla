-------------------------- MODULE ThreadCompaction --------------------------
(***************************************************************************)
(* Tiered compaction of one thread (workers/jobs/compact_thread.py).  Each *)
(* append of a user or assistant message enqueues one drain pass           *)
(* (memory/conversational.py, append), and as many passes run at once as   *)
(* the worker pool takes.  A pass reads rows, awaits the summarizer, then  *)
(* writes, and holds no lock and no transaction meanwhile.                 *)
(***************************************************************************)
EXTENDS Naturals, Sequences, FiniteSetsExt

CONSTANTS
  Worker,                       \* the job slots of the worker pool
  Recent,                       \* recent_window_size
  Window,                       \* compaction_window_size
  Trigger,                      \* compaction_trigger_threshold
  L2Fold, L3Fold,               \* l2_fold_threshold, l3_fold_threshold
  MaxMessages,                  \* bound: messages ever appended
  MaxFaults                     \* bound: passes that fail or die

ASSUME KnobsAssumption ==
  /\ {Recent, Window, Trigger, L2Fold, L3Fold} \subseteq Nat \ {0}
  /\ Trigger >= Recent + Window

ASSUME BoundsAssumption == MaxMessages \in Nat /\ MaxFaults \in Nat

VARIABLES
  messages,                     \* how many; message m is the m-th by created_at
  due,                          \* how many there were when a pass was last enqueued
  jobs,                         \* enqueued passes that no worker has taken
  rows,                         \* thread_summaries, in the order of their INSERTs
  pc,                           \* where the pass of a worker stands
  batch,                        \* what it read to fold: messages, then row ids
  digest,                       \* the L3 row it read, 0 for none
  recalled,                     \* the text of that row, as it read it
  overlapped,                   \* two passes rewrote the digest at once
  faults

passVars == <<pc, batch, digest, recalled>>
vars == <<messages, due, jobs, rows, passVars, overlapped, faults>>

Stage == {"idle", "l1", "l1sum", "l2", "l2sum", "l2stamp", "l3", "digest",
          "l3sum", "l3stamp"}

(* A summary row: `text` is the set of messages that went into summary_md   *)
(* through however many folds, `end` the last message of an L1's range, and *)
(* `folded` the row it was folded into, 0 for none.                         *)
Row == [level : 1..3, text : SUBSET (1..MaxMessages), end : Nat, folded : Nat]

TypeOK ==
  /\ messages \in 0..MaxMessages /\ due \in 0..MaxMessages /\ jobs \in Nat
  /\ rows \in Seq(Row)
  /\ pc \in [Worker -> Stage]
  /\ batch \in [Worker -> SUBSET Nat]
  /\ digest \in [Worker -> 0..Len(rows)]
  /\ recalled \in [Worker -> SUBSET (1..MaxMessages)]
  /\ overlapped \in BOOLEAN
  /\ faults \in 0..MaxFaults

Init ==
  /\ messages = 0 /\ due = 0 /\ jobs = 0
  /\ rows = << >>
  /\ pc = [w \in Worker |-> "idle"]
  /\ batch = [w \in Worker |-> {}]
  /\ digest = [w \in Worker |-> 0]
  /\ recalled = [w \in Worker |-> {}]
  /\ overlapped = FALSE
  /\ faults = 0

-----------------------------------------------------------------------------
(* What the queries return. *)

Oldest(S, k) == {x \in S : Cardinality({y \in S : y < x}) < k}

Unfolded(level) == {i \in DOMAIN rows : rows[i].level = level /\ rows[i].folded = 0}

(* covered_end: where the newest L1 range ends. *)
Covered == Max({0} \cup {rows[i].end : i \in {j \in DOMAIN rows : rows[j].level = 1}})

(* _fetch_unsummarized_older, before its LIMIT, with `n` messages present. *)
Backlog(n) == {m \in 1..n : m > Covered /\ m + Recent <= n}

TextOf(ids) == UNION {rows[i].text : i \in ids}

AddRow(level, text, end) ==
  rows' = Append(rows, [level |-> level, text |-> text, end |-> end, folded |-> 0])

(* UPDATE ... SET folded_into_summary_id = parent WHERE id = ANY(ids). *)
Stamp(ids, parent) ==
  rows' = [i \in DOMAIN rows |->
             IF i \in ids THEN [rows[i] EXCEPT !.folded = parent] ELSE rows[i]]

Goto(w, s) == pc' = [pc EXCEPT ![w] = s]
Fetch(w, S) == batch' = [batch EXCEPT ![w] = S]

(* The pass goes on to s with nothing read. *)
Turn(w, s) ==
  /\ Goto(w, s)
  /\ Fetch(w, {})
  /\ digest' = [digest EXCEPT ![w] = 0]
  /\ recalled' = [recalled EXCEPT ![w] = {}]

-----------------------------------------------------------------------------
(* append, of a message that enqueues a pass, or of a tool or system row,   *)
(* or with an enqueue that failed and was swallowed.                        *)
AppendMessage(enqueued) ==
  /\ messages < MaxMessages
  /\ messages' = messages + 1
  /\ IF enqueued THEN jobs' = jobs + 1 /\ due' = messages + 1
                 ELSE UNCHANGED <<jobs, due>>
  /\ UNCHANGED <<rows, passVars, overlapped, faults>>

StartPass(w) ==
  /\ pc[w] = "idle" /\ jobs > 0
  /\ jobs' = jobs - 1
  /\ Goto(w, "l1")
  /\ UNCHANGED <<messages, due, rows, batch, digest, recalled, overlapped, faults>>

(* The count and the window of _drain_l1.  Messages only get more, so that  *)
(* the two queries can be read as one.                                      *)
ReadWindow(w) ==
  /\ pc[w] = "l1"
  /\ LET window == Oldest(Backlog(messages), Window) IN
       IF messages < Trigger \/ Cardinality(window) < Window
         THEN Goto(w, "l2") /\ UNCHANGED batch
         ELSE Goto(w, "l1sum") /\ Fetch(w, window)
  /\ UNCHANGED <<messages, due, jobs, rows, digest, recalled, overlapped, faults>>

(* Faulty variant of InsertL1: one window per pass. *)
InsertL1Once(w) ==
  /\ pc[w] = "l1sum"
  /\ AddRow(1, batch[w], Max(batch[w]))
  /\ Turn(w, "l2")
  /\ UNCHANGED <<messages, due, jobs, overlapped, faults>>

InsertL1(w) ==
  /\ pc[w] = "l1sum"
  /\ AddRow(1, batch[w], Max(batch[w]))
  /\ Turn(w, "l1")
  /\ UNCHANGED <<messages, due, jobs, overlapped, faults>>

ReadL1s(w) ==
  /\ pc[w] = "l2"
  /\ IF Cardinality(Unfolded(1)) < L2Fold
       THEN Goto(w, "l3") /\ UNCHANGED batch
       ELSE Goto(w, "l2sum") /\ Fetch(w, Oldest(Unfolded(1), L2Fold))
  /\ UNCHANGED <<messages, due, jobs, rows, digest, recalled, overlapped, faults>>

InsertL2(w) ==
  /\ pc[w] = "l2sum"
  /\ AddRow(2, TextOf(batch[w]), 0)
  /\ digest' = [digest EXCEPT ![w] = Len(rows) + 1]
  /\ Goto(w, "l2stamp")
  /\ UNCHANGED <<messages, due, jobs, batch, recalled, overlapped, faults>>

(* Faulty variant of StampL1s: every L1 not yet folded is stamped. *)
StampAllL1s(w) ==
  /\ pc[w] = "l2stamp"
  /\ Stamp(Unfolded(1), digest[w])
  /\ Turn(w, "l2")
  /\ UNCHANGED <<messages, due, jobs, overlapped, faults>>

StampL1s(w) ==
  /\ pc[w] = "l2stamp"
  /\ Stamp(batch[w], digest[w])
  /\ Turn(w, "l2")
  /\ UNCHANGED <<messages, due, jobs, overlapped, faults>>

ReadL2s(w) ==
  /\ pc[w] = "l3"
  /\ IF Cardinality(Unfolded(2)) < L3Fold
       THEN Goto(w, "idle") /\ UNCHANGED batch
       ELSE Goto(w, "digest") /\ Fetch(w, Oldest(Unfolded(2), L3Fold))
  /\ UNCHANGED <<messages, due, jobs, rows, digest, recalled, overlapped, faults>>

(* fetchrow of a level-3 row: with more than one, whichever comes first. *)
ReadDigest(w) ==
  /\ pc[w] = "digest"
  /\ \/ \E i \in Unfolded(3) :
          /\ digest' = [digest EXCEPT ![w] = i]
          /\ recalled' = [recalled EXCEPT ![w] = rows[i].text]
     \/ /\ Unfolded(3) = {}
        /\ digest' = [digest EXCEPT ![w] = 0]
        /\ recalled' = [recalled EXCEPT ![w] = {}]
  /\ Goto(w, "l3sum")
  /\ overlapped' = (overlapped \/ \E v \in Worker : pc[v] = "l3sum")
  /\ UNCHANGED <<messages, due, jobs, rows, batch, faults>>

(* Faulty variant of RewriteDigest: the old digest is not fed back in. *)
RewriteFromBatch(w) ==
  /\ pc[w] = "l3sum" /\ digest[w] # 0
  /\ rows' = [rows EXCEPT ![digest[w]].text = TextOf(batch[w])]
  /\ Goto(w, "l3stamp")
  /\ UNCHANGED <<messages, due, jobs, batch, digest, recalled, overlapped, faults>>

(* The digest is rewritten from what was read of it before the summarizer   *)
(* was awaited.                                                             *)
RewriteDigest(w) ==
  /\ pc[w] = "l3sum" /\ digest[w] # 0
  /\ rows' = [rows EXCEPT ![digest[w]].text = recalled[w] \cup TextOf(batch[w])]
  /\ Goto(w, "l3stamp")
  /\ UNCHANGED <<messages, due, jobs, batch, digest, recalled, overlapped, faults>>

InsertDigest(w) ==
  /\ pc[w] = "l3sum" /\ digest[w] = 0
  /\ AddRow(3, TextOf(batch[w]), 0)
  /\ digest' = [digest EXCEPT ![w] = Len(rows) + 1]
  /\ Goto(w, "l3stamp")
  /\ UNCHANGED <<messages, due, jobs, batch, recalled, overlapped, faults>>

StampL2s(w) ==
  /\ pc[w] = "l3stamp"
  /\ Stamp(batch[w], digest[w])
  /\ Turn(w, "l3")
  /\ UNCHANGED <<messages, due, jobs, overlapped, faults>>

(* The summarizer returns nothing: the level is given up, the next one is   *)
(* tried.                                                                   *)
EmptySummary(w) ==
  /\ faults < MaxFaults /\ faults' = faults + 1
  /\ \/ pc[w] = "l1sum" /\ Turn(w, "l2")
     \/ pc[w] = "l2sum" /\ Turn(w, "l3")
     \/ pc[w] = "l3sum" /\ Turn(w, "idle")
  /\ UNCHANGED <<messages, due, jobs, rows, overlapped>>

(* An exception ends the whole pass and is swallowed; a worker that dies    *)
(* leaves its job to be taken again.                                        *)
PassFails(w) ==
  /\ pc[w] # "idle"
  /\ faults < MaxFaults /\ faults' = faults + 1
  /\ Turn(w, "idle")
  /\ jobs' \in {jobs, jobs + 1}
  /\ UNCHANGED <<messages, due, rows, overlapped>>

PassStep(w) ==
  \/ ReadWindow(w) \/ InsertL1(w)
  \/ ReadL1s(w) \/ InsertL2(w) \/ StampL1s(w)
  \/ ReadL2s(w) \/ ReadDigest(w) \/ RewriteDigest(w) \/ InsertDigest(w)
  \/ StampL2s(w)

Next ==
  \/ \E enqueued \in BOOLEAN : AppendMessage(enqueued)
  \/ \E w \in Worker : StartPass(w) \/ PassStep(w) \/ EmptySummary(w) \/ PassFails(w)

Spec == Init /\ [][Next]_vars

-----------------------------------------------------------------------------
(* Properties. *)

Visible == {i \in DOMAIN rows : rows[i].folded = 0}
Digests == {i \in DOMAIN rows : rows[i].level = 3}

(* Each message that was summarized is still in some summary the prompt     *)
(* shows (fetch_summaries), through passes that race for the same window or *)
(* the same fold and passes that die between the insert and the stamp, as   *)
(* long as no two of them rewrite the digest at once.                       *)
NothingForgotten ==
  ~overlapped => UNION {rows[i].text : i \in {j \in DOMAIN rows : rows[j].level = 1}}
                   \subseteq TextOf(Visible)

(* A row leaves the prompt only for one that has absorbed it. *)
FoldedIntoParent ==
  \A i \in DOMAIN rows :
    rows[i].folded # 0 =>
      LET parent == rows[rows[i].folded] IN
      /\ parent.level = rows[i].level + 1
      /\ overlapped \/ rows[i].text \subseteq parent.text

(* Two digests need two passes between reading and writing it at once. *)
OneDigestUnlessOverlap == ~overlapped => Cardinality(Digests) <= 1

(* The summaries are sound. *)
SummariesOK == TypeOK /\ FoldedIntoParent /\ OneDigestUnlessOverlap

(* When every enqueued pass is over and none failed, what the last of them  *)
(* was asked to fold is folded, although a pass that finds the backlog being*)
(* drained by another may have nothing to do.                               *)
QuietMeansDrained ==
  faults = 0 /\ jobs = 0 /\ (\A w \in Worker : pc[w] = "idle") =>
    /\ due < Trigger \/ Cardinality(Backlog(due)) < Window
    /\ Cardinality(Unfolded(1)) < L2Fold
    /\ Cardinality(Unfolded(2)) < L3Fold
=============================================================================
