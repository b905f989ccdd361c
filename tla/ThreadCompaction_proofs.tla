----------------------- MODULE ThreadCompaction_proofs -----------------------
(***************************************************************************)
(* Nothing that was summarized is forgotten, and a quiet thread is drained,*)
(* for any number of passes at once, any knobs and any length of a thread. *)
(***************************************************************************)
EXTENDS ThreadCompaction, FiniteSetTheorems, SequenceTheorems,
        WellFoundedInduction, TLAPS

OfLevel(k) == {i \in DOMAIN rows : rows[i].level = k}

(* What a pass holds between its awaits is still so when it goes on: rows   *)
(* of the level it folds, and a parent whose text has theirs.               *)
PassKept(w) ==
  /\ pc[w] = "l1sum" => batch[w] # {} /\ batch[w] \subseteq 1..MaxMessages
  /\ pc[w] \in {"l2sum", "l2stamp"} => batch[w] \subseteq OfLevel(1)
  /\ pc[w] = "l2stamp" =>
       digest[w] \in OfLevel(2) /\ TextOf(batch[w]) \subseteq rows[digest[w]].text
  /\ pc[w] \in {"digest", "l3sum", "l3stamp"} => batch[w] \subseteq OfLevel(2)
  /\ pc[w] = "l3sum" /\ digest[w] # 0 =>
       /\ digest[w] \in OfLevel(3)
       /\ ~overlapped => recalled[w] = rows[digest[w]].text
  /\ pc[w] = "l3sum" /\ digest[w] = 0 /\ ~overlapped => OfLevel(3) = {}
  /\ pc[w] = "l3stamp" =>
       /\ digest[w] \in OfLevel(3)
       /\ ~overlapped => TextOf(batch[w]) \subseteq rows[digest[w]].text

(* A row is folded into a row of the next level that has its text, and a    *)
(* digest into none.                                                        *)
RowsKept ==
  /\ \A i \in DOMAIN rows :
       rows[i].folded # 0 =>
         /\ rows[i].folded \in DOMAIN rows
         /\ rows[rows[i].folded].level = rows[i].level + 1
         /\ ~overlapped => rows[i].text \subseteq rows[rows[i].folded].text
  /\ \A i \in OfLevel(3) : rows[i].folded = 0
  /\ ~overlapped => \A i, j \in OfLevel(3) : i = j

OneWriter ==
  ~overlapped => \A v, w \in Worker : pc[v] = "l3sum" /\ pc[w] = "l3sum" => v = w

FoldInv == TypeOK /\ (\A w \in Worker : PassKept(w)) /\ RowsKept /\ OneWriter

(* While nothing failed, whoever has left a level undrained comes back to it.*)
Undrained(n) == n >= Trigger /\ Cardinality(Backlog(n)) >= Window
DrainInv ==
  /\ due <= messages
  /\ faults = 0 =>
       /\ Undrained(due) => jobs > 0 \/ \E w \in Worker : pc[w] \in {"l1", "l1sum"}
       /\ Cardinality(Unfolded(1)) >= L2Fold =>
            \/ jobs > 0
            \/ \E w \in Worker : pc[w] \in {"l1", "l1sum", "l2", "l2sum", "l2stamp"}
       /\ Cardinality(Unfolded(2)) >= L3Fold => jobs > 0 \/ \E w \in Worker : pc[w] # "idle"

-----------------------------------------------------------------------------
(* Numbers and sequences. *)

(* Of natural numbers some one is least, and of a bounded set greatest. *)
LEMMA LeastExists ==
  ASSUME NEW T \in SUBSET Nat, T # {}
  PROVE  \E x \in T : \A y \in T : x <= y
  <1> DEFINE R == OpToRel(<, Nat)
  <1>1. R = {ss \in Nat \X Nat : ss[1] < ss[2]}
    BY DEF OpToRel
  <1>2. IsWellFoundedOn(R, Nat)
    BY NatLessThanWellFounded
  <1> HIDE DEF R
  <1>3. PICK x \in T : \A y \in T : <<y, x>> \notin R
    BY <1>2, WFMin
  <1>4. \A y \in T : ~(y < x)
    BY <1>1, <1>3
  <1>5. QED BY <1>3, <1>4

LEMMA MaxOf ==
  ASSUME NEW n \in Nat, NEW S \in SUBSET (0..n), S # {}
  PROVE  Max(S) \in S /\ \A y \in S : y <= Max(S)
  <1> DEFINE T == {n - x : x \in S}
  <1>1. T \in SUBSET Nat /\ T # {}
    OBVIOUS
  <1>2. PICK t \in T : \A u \in T : t <= u
    BY <1>1, LeastExists
  <1>3. PICK m \in S : t = n - m
    BY <1>2
  <1>4. \A y \in S : m >= y
    <2> SUFFICES ASSUME NEW y \in S PROVE m >= y
      OBVIOUS
    <2>1. t <= n - y /\ y \in 0..n /\ m \in 0..n
      BY <1>2
    <2>2. QED BY <1>3, <2>1
  <1>5. \E x \in S : \A y \in S : x >= y
    BY <1>4
  <1>6. Max(S) \in S /\ \A y \in S : Max(S) >= y
    BY <1>5 DEF Max
  <1>7. QED BY <1>6

(* A LIMIT that returns too little has returned all there is. *)
LEMMA OldestIsAll ==
  ASSUME NEW S \in SUBSET Nat, IsFiniteSet(S), NEW k \in Nat,
         Cardinality(Oldest(S, k)) < k
  PROVE  Oldest(S, k) = S
  <1> DEFINE O == Oldest(S, k)
             T == S \ O
  <1>1. O \subseteq S
    BY DEF Oldest
  <1>2. IsFiniteSet(O) /\ Cardinality(O) \in Nat
    BY <1>1, FS_Subset, FS_CardinalityType
  <1>3. ASSUME T # {} PROVE FALSE
    <2>1. PICK x \in T : \A y \in T : x <= y
      BY <1>3, LeastExists
    <2> DEFINE B == {y \in S : y < x}
    <2>2. B \subseteq O
      <3> SUFFICES ASSUME NEW y \in S, y < x, y \notin O PROVE FALSE
        OBVIOUS
      <3>1. y \in T /\ y \in Nat /\ x \in Nat
        BY <2>1
      <3>2. x <= y
        BY <2>1, <3>1
      <3>3. QED BY <3>1, <3>2
    <2>3. Cardinality(B) <= Cardinality(O) /\ Cardinality(B) \in Nat
      <3> HIDE DEF B, O
      <3>1. QED BY <1>2, <2>2, FS_Subset, FS_CardinalityType
    <2>4. Cardinality(B) < k
      BY <1>2, <2>3
    <2>5. x \in O
      BY <2>1, <2>4 DEF Oldest
    <2>6. QED BY <2>1, <2>5
  <1>4. QED BY <1>1, <1>3

(* The rows after an INSERT, and after an UPDATE. *)
LEMMA RowAdded ==
  ASSUME TypeOK, NEW level \in 1..3, NEW text \in SUBSET (1..MaxMessages),
         NEW end \in Nat, AddRow(level, text, end)
  PROVE  /\ rows' \in Seq(Row)
         /\ Len(rows) \in Nat /\ Len(rows') = Len(rows) + 1
         /\ DOMAIN rows = 1..Len(rows) /\ DOMAIN rows' = DOMAIN rows \cup {Len(rows) + 1}
         /\ rows'[Len(rows) + 1] = [level |-> level, text |-> text, end |-> end, folded |-> 0]
         /\ \A i \in DOMAIN rows : rows'[i] = rows[i]
  <1> DEFINE new == [level |-> level, text |-> text, end |-> end, folded |-> 0]
  <1>1. rows \in Seq(Row) /\ new \in Row
    BY DEF TypeOK, Row
  <1>2. rows' = Append(rows, new)
    BY DEF AddRow
  <1> HIDE DEF new
  <1>3. /\ Append(rows, new) \in Seq(Row) /\ Len(Append(rows, new)) = Len(rows) + 1
        /\ DOMAIN Append(rows, new) = 1 .. Len(rows) + 1
        /\ Append(rows, new)[Len(rows) + 1] = new
        /\ \A i \in 1 .. Len(rows) : Append(rows, new)[i] = rows[i]
    BY <1>1, AppendProperties
  <1>4. DOMAIN rows = 1..Len(rows) /\ Len(rows) \in Nat
    BY <1>1, LenProperties
  <1>5. 1 .. Len(rows) + 1 = (1..Len(rows)) \cup {Len(rows) + 1}
    BY <1>4
  <1>6. QED BY <1>2, <1>3, <1>4, <1>5 DEF new

LEMMA RowsStamped ==
  ASSUME TypeOK, NEW ids, NEW parent \in Nat, Stamp(ids, parent)
  PROVE  /\ rows' \in Seq(Row) /\ Len(rows') = Len(rows) /\ DOMAIN rows' = DOMAIN rows
         /\ \A i \in DOMAIN rows :
              /\ rows'[i].level = rows[i].level /\ rows'[i].text = rows[i].text
              /\ rows'[i].end = rows[i].end
              /\ rows'[i].folded = IF i \in ids THEN parent ELSE rows[i].folded
  <1>1. rows \in Seq(Row)
    BY DEF TypeOK
  <1>2. DOMAIN rows = 1..Len(rows) /\ Len(rows) \in Nat
    BY <1>1, LenProperties
  <1>3. ASSUME NEW i \in DOMAIN rows
        PROVE  /\ rows'[i] \in Row
               /\ rows'[i].level = rows[i].level /\ rows'[i].text = rows[i].text
               /\ rows'[i].end = rows[i].end
               /\ rows'[i].folded = IF i \in ids THEN parent ELSE rows[i].folded
    <2>1. rows[i] \in Row
      BY <1>1, <1>2, ElementOfSeq
    <2>2. rows'[i] = IF i \in ids THEN [rows[i] EXCEPT !.folded = parent] ELSE rows[i]
      BY DEF Stamp
    <2>3. CASE i \in ids
      <3>1. ASSUME NEW r \in Row, NEW new, new = [r EXCEPT !.folded = parent]
            PROVE  /\ new \in Row /\ new.level = r.level /\ new.text = r.text
                   /\ new.end = r.end /\ new.folded = parent
        BY <3>1 DEF Row
      <3>2. rows'[i] = [rows[i] EXCEPT !.folded = parent]
        BY <2>2, <2>3
      <3>3. QED BY <2>1, <2>3, <3>1, <3>2
    <2>4. CASE i \notin ids
      BY <2>1, <2>2, <2>4
    <2>5. QED BY <2>3, <2>4
  <1>4. DOMAIN rows' = DOMAIN rows /\ rows' = [i \in 1..Len(rows) |-> rows'[i]]
    BY <1>2 DEF Stamp
  <1>5. rows' \in [1..Len(rows) -> Row]
    BY <1>2, <1>3, <1>4
  <1>6. rows' \in Seq(Row) /\ Len(rows') = Len(rows)
    BY <1>2, <1>5, SeqDef, LenProperties
  <1>7. QED BY <1>3, <1>4, <1>6

LEMMA RowRewritten ==
  ASSUME TypeOK, NEW d \in DOMAIN rows, NEW text \in SUBSET (1..MaxMessages),
         rows' = [rows EXCEPT ![d].text = text]
  PROVE  /\ rows' \in Seq(Row) /\ Len(rows') = Len(rows) /\ DOMAIN rows' = DOMAIN rows
         /\ \A i \in DOMAIN rows :
              /\ rows'[i].level = rows[i].level /\ rows'[i].end = rows[i].end
              /\ rows'[i].folded = rows[i].folded
              /\ rows'[i].text = IF i = d THEN text ELSE rows[i].text
  <1>1. rows \in Seq(Row)
    BY DEF TypeOK
  <1>2. DOMAIN rows = 1..Len(rows) /\ rows[d] \in Row
    BY <1>1, LenProperties, ElementOfSeq
  <1> DEFINE new == [rows[d] EXCEPT !.text = text]
  <1>3. ASSUME NEW r \in Row, NEW n, n = [r EXCEPT !.text = text]
        PROVE  /\ n \in Row /\ n.level = r.level /\ n.end = r.end
               /\ n.folded = r.folded /\ n.text = text
    BY <1>3 DEF Row
  <1>4. /\ new \in Row /\ new.level = rows[d].level /\ new.end = rows[d].end
        /\ new.folded = rows[d].folded /\ new.text = text
    BY <1>2, <1>3
  <1>5. rows' = [rows EXCEPT ![d] = new]
    OBVIOUS
  <1> HIDE DEF new
  <1>6. /\ rows' \in Seq(Row) /\ Len(rows') = Len(rows) /\ DOMAIN rows' = DOMAIN rows
        /\ \A i \in DOMAIN rows : rows'[i] = IF i = d THEN new ELSE rows[i]
    BY <1>1, <1>2, <1>4, <1>5, ExceptSeq, LenProperties
  <1>7. QED BY <1>4, <1>6

-----------------------------------------------------------------------------
(* Types. *)

LEMMA TextTyped ==
  ASSUME TypeOK, NEW ids \in SUBSET DOMAIN rows
  PROVE  /\ TextOf(ids) \in SUBSET (1..MaxMessages)
         /\ \A i \in ids : rows[i].text \subseteq TextOf(ids)
  <1>1. \A i \in DOMAIN rows : rows[i] \in Row
    BY ElementOfSeq, LenProperties DEF TypeOK
  <1>2. \A i \in ids : rows[i].text \subseteq 1..MaxMessages
    BY <1>1 DEF Row
  <1>3. QED BY <1>2 DEF TextOf

(* The pass of w is at stage s with nothing read, the others where they were.*)
LEMMA Turned ==
  ASSUME TypeOK, NEW w \in Worker, NEW s \in Stage, Turn(w, s)
  PROVE  /\ pc' \in [Worker -> Stage] /\ batch' \in [Worker -> SUBSET Nat]
         /\ digest' \in [Worker -> 0..Len(rows)]
         /\ recalled' \in [Worker -> SUBSET (1..MaxMessages)]
         /\ pc'[w] = s
         /\ \A v \in Worker \ {w} : /\ pc'[v] = pc[v] /\ batch'[v] = batch[v]
                                    /\ digest'[v] = digest[v] /\ recalled'[v] = recalled[v]
  <1>1. 0 \in 0..Len(rows)
    BY LenProperties DEF TypeOK
  <1>2. pc' \in [Worker -> Stage] /\ pc'[w] = s /\ \A v \in Worker \ {w} : pc'[v] = pc[v]
    BY DEF Turn, Goto, TypeOK
  <1>3. batch' \in [Worker -> SUBSET Nat] /\ \A v \in Worker \ {w} : batch'[v] = batch[v]
    BY DEF Turn, Fetch, TypeOK
  <1>4. digest' \in [Worker -> 0..Len(rows)] /\ \A v \in Worker \ {w} : digest'[v] = digest[v]
    BY <1>1 DEF Turn, TypeOK
  <1>5. /\ recalled' \in [Worker -> SUBSET (1..MaxMessages)]
        /\ \A v \in Worker \ {w} : recalled'[v] = recalled[v]
    BY DEF Turn, TypeOK
  <1>6. QED BY <1>2, <1>3, <1>4, <1>5

(* What the queries return is of what there is. *)
LEMMA QueriesTyped ==
  ASSUME TypeOK
  PROVE  /\ \A k : Oldest(Backlog(messages), k) \subseteq Backlog(messages)
         /\ Backlog(messages) \subseteq 1..MaxMessages
         /\ \A k, n : Oldest(Unfolded(k), n) \subseteq OfLevel(k)
         /\ \A k : Unfolded(k) \subseteq OfLevel(k) /\ OfLevel(k) \subseteq DOMAIN rows
         /\ DOMAIN rows \subseteq Nat /\ DOMAIN rows = 1..Len(rows) /\ Len(rows) \in Nat
         /\ MaxMessages \in Nat
  <1>1. DOMAIN rows = 1..Len(rows) /\ Len(rows) \in Nat
    BY LenProperties DEF TypeOK
  <1>2. MaxMessages \in Nat /\ messages \in Nat /\ messages <= MaxMessages
    BY BoundsAssumption DEF TypeOK
  <1>3. Backlog(messages) \subseteq 1..MaxMessages
    BY <1>2 DEF Backlog
  <1>4. \A k : Oldest(Backlog(messages), k) \subseteq Backlog(messages)
    BY DEF Oldest
  <1>5. \A k : Unfolded(k) \subseteq OfLevel(k) /\ OfLevel(k) \subseteq DOMAIN rows
    BY DEF Unfolded, OfLevel
  <1>6. \A k, n : Oldest(Unfolded(k), n) \subseteq Unfolded(k)
    BY DEF Oldest
  <1>7. QED BY <1>1, <1>2, <1>3, <1>4, <1>5, <1>6

LEMMA TypeStep == ASSUME FoldInv, [Next]_vars PROVE TypeOK'
  <1>1. TypeOK /\ Len(rows) \in Nat /\ DOMAIN rows = 1..Len(rows) /\ MaxMessages \in Nat
    BY QueriesTyped DEF FoldInv
  <1> USE DEF Stage
  <1>2. ASSUME NEW enqueued \in BOOLEAN, AppendMessage(enqueued)
        PROVE  TypeOK'
    <2>1. messages' \in 0..MaxMessages /\ due' \in 0..MaxMessages /\ jobs' \in Nat
      BY <1>1, <1>2 DEF AppendMessage, TypeOK
    <2>2. QED BY <1>1, <1>2, <2>1 DEF AppendMessage, TypeOK, passVars
  <1>3. ASSUME NEW w \in Worker, StartPass(w)
        PROVE  TypeOK'
    BY <1>1, <1>3 DEF StartPass, Goto, TypeOK
  <1>4. ASSUME NEW w \in Worker, ReadWindow(w) \/ ReadL1s(w) \/ ReadL2s(w)
        PROVE  TypeOK'
    <2>1. pc' \in [Worker -> Stage]
      BY <1>1, <1>4 DEF ReadWindow, ReadL1s, ReadL2s, Goto, TypeOK
    <2>2. \A k, n : Oldest(Unfolded(k), n) \subseteq Nat /\ Oldest(Backlog(messages), n) \subseteq Nat
      BY <1>1, QueriesTyped
    <2>3. batch' \in [Worker -> SUBSET Nat]
      <3>1. CASE ReadWindow(w)
        <4>1. \/ batch' = batch
              \/ batch' = [batch EXCEPT ![w] = Oldest(Backlog(messages), Window)]
          BY <3>1 DEF ReadWindow, Fetch
        <4>2. Oldest(Backlog(messages), Window) \in SUBSET Nat
          BY <2>2
        <4>3. QED BY <1>1, <4>1, <4>2 DEF TypeOK
      <3>2. CASE ReadL1s(w)
        BY <1>1, <2>2, <3>2 DEF ReadL1s, Fetch, TypeOK
      <3>3. CASE ReadL2s(w)
        BY <1>1, <2>2, <3>3 DEF ReadL2s, Fetch, TypeOK
      <3>4. QED BY <1>4, <3>1, <3>2, <3>3
    <2>4. UNCHANGED <<messages, due, jobs, rows, digest, recalled, overlapped, faults>>
      BY <1>4 DEF ReadWindow, ReadL1s, ReadL2s
    <2>5. QED BY <1>1, <2>1, <2>3, <2>4 DEF TypeOK
  <1>5. ASSUME NEW w \in Worker, InsertL1(w)
        PROVE  TypeOK'
    <2>1. batch[w] # {} /\ batch[w] \in SUBSET (1..MaxMessages)
      BY <1>5 DEF InsertL1, FoldInv, PassKept
    <2>2. Max(batch[w]) \in Nat
      <3>1. batch[w] \in SUBSET (0..MaxMessages)
        BY <1>1, <2>1
      <3>2. MaxMessages \in Nat
        BY BoundsAssumption
      <3>3. Max(batch[w]) \in batch[w]
        BY ONLY <2>1, <3>1, <3>2, MaxOf
      <3>4. QED BY <3>1, <3>3
    <2>3. rows' \in Seq(Row) /\ Len(rows') = Len(rows) + 1
      <3>1. AddRow(1, batch[w], Max(batch[w])) /\ 1 \in 1..3
        BY <1>5 DEF InsertL1
      <3>2. QED BY <1>1, <2>1, <2>2, <3>1, RowAdded
    <2>4. /\ pc' \in [Worker -> Stage] /\ batch' \in [Worker -> SUBSET Nat]
          /\ digest' \in [Worker -> 0..Len(rows)]
          /\ recalled' \in [Worker -> SUBSET (1..MaxMessages)]
      BY <1>1, <1>5, Turned DEF InsertL1
    <2>5. digest' \in [Worker -> 0..Len(rows')]
      BY <1>1, <2>3, <2>4
    <2>6. QED BY <1>1, <1>5, <2>3, <2>4, <2>5 DEF InsertL1, TypeOK
  <1>6. ASSUME NEW w \in Worker, InsertL2(w) \/ InsertDigest(w)
        PROVE  TypeOK'
    <2>1. TextOf(batch[w]) \in SUBSET (1..MaxMessages)
      <3>1. batch[w] \subseteq DOMAIN rows
        BY <1>6 DEF InsertL2, InsertDigest, FoldInv, PassKept, OfLevel
      <3>2. QED BY <1>1, <3>1, TextTyped
    <2>2. rows' \in Seq(Row) /\ Len(rows') = Len(rows) + 1
      <3>1. PICK level \in 1..3 : AddRow(level, TextOf(batch[w]), 0)
        BY <1>6 DEF InsertL2, InsertDigest
      <3>2. QED BY <1>1, <2>1, <3>1, RowAdded
    <2>3. pc' \in [Worker -> Stage]
      BY <1>1, <1>6 DEF InsertL2, InsertDigest, Goto, TypeOK
    <2>4. digest' \in [Worker -> 0..Len(rows')]
      <3>1. digest' = [digest EXCEPT ![w] = Len(rows) + 1]
        BY <1>6 DEF InsertL2, InsertDigest
      <3>2. \A v \in Worker : digest[v] \in 0..Len(rows')
        BY <1>1, <2>2 DEF TypeOK
      <3>3. Len(rows) + 1 \in 0..Len(rows')
        BY <1>1, <2>2
      <3>4. digest' = [v \in Worker |-> IF v = w THEN Len(rows) + 1 ELSE digest[v]]
        BY <1>1, <3>1 DEF TypeOK
      <3>5. QED BY <3>2, <3>3, <3>4
    <2>5. UNCHANGED <<messages, due, jobs, batch, recalled, overlapped, faults>>
      BY <1>6 DEF InsertL2, InsertDigest
    <2>6. QED BY <1>1, <2>2, <2>3, <2>4, <2>5 DEF TypeOK
  <1>7. ASSUME NEW w \in Worker, StampL1s(w) \/ StampL2s(w)
        PROVE  TypeOK'
    <2>1. digest[w] \in Nat /\ Stamp(batch[w], digest[w])
      BY <1>1, <1>7 DEF StampL1s, StampL2s, TypeOK
    <2>2. rows' \in Seq(Row) /\ Len(rows') = Len(rows)
      BY <1>1, <2>1, RowsStamped
    <2>3. PICK s \in Stage : Turn(w, s)
      BY <1>7 DEF StampL1s, StampL2s
    <2>4. /\ pc' \in [Worker -> Stage] /\ batch' \in [Worker -> SUBSET Nat]
          /\ digest' \in [Worker -> 0..Len(rows)]
          /\ recalled' \in [Worker -> SUBSET (1..MaxMessages)]
      BY <1>1, <2>3, Turned
    <2>5. UNCHANGED <<messages, due, jobs, overlapped, faults>>
      BY <1>7 DEF StampL1s, StampL2s
    <2>6. QED BY <1>1, <2>2, <2>4, <2>5 DEF TypeOK
  <1>8. ASSUME NEW w \in Worker, ReadDigest(w)
        PROVE  TypeOK'
    <2>1. digest' \in [Worker -> 0..Len(rows)] /\ recalled' \in [Worker -> SUBSET (1..MaxMessages)]
      <3>1. ASSUME NEW i \in Unfolded(3), digest' = [digest EXCEPT ![w] = i],
                   recalled' = [recalled EXCEPT ![w] = rows[i].text]
            PROVE  /\ digest' \in [Worker -> 0..Len(rows)]
                   /\ recalled' \in [Worker -> SUBSET (1..MaxMessages)]
        <4>1. i \in DOMAIN rows
          BY DEF Unfolded
        <4>2. rows[i] \in Row
          BY <1>1, <4>1, ElementOfSeq DEF TypeOK
        <4>3. i \in 0..Len(rows) /\ rows[i].text \in SUBSET (1..MaxMessages)
          BY <1>1, <4>1, <4>2 DEF Row
        <4>4. QED BY <1>1, <3>1, <4>3 DEF TypeOK
      <3>2. CASE /\ digest' = [digest EXCEPT ![w] = 0]
                 /\ recalled' = [recalled EXCEPT ![w] = {}]
        <4>1. 0 \in 0..Len(rows)
          BY <1>1
        <4>2. QED BY <1>1, <3>2, <4>1 DEF TypeOK
      <3>3. QED BY <1>8, <3>1, <3>2 DEF ReadDigest
    <2>2. pc' \in [Worker -> Stage]
      BY <1>1, <1>8 DEF ReadDigest, Goto, TypeOK
    <2>3. overlapped' \in BOOLEAN
      BY <1>8, Zenon DEF ReadDigest
    <2>4. UNCHANGED <<messages, due, jobs, rows, batch, faults>>
      BY <1>8 DEF ReadDigest
    <2>5. QED BY <1>1, <2>1, <2>2, <2>3, <2>4 DEF TypeOK
  <1>9. ASSUME NEW w \in Worker, RewriteDigest(w)
        PROVE  TypeOK'
    <2>1. /\ digest[w] \in DOMAIN rows
          /\ recalled[w] \cup TextOf(batch[w]) \in SUBSET (1..MaxMessages)
      <3>1. batch[w] \subseteq DOMAIN rows /\ digest[w] \in DOMAIN rows
        BY <1>9 DEF RewriteDigest, FoldInv, PassKept, OfLevel
      <3>2. QED BY <1>1, <3>1, TextTyped DEF TypeOK
    <2>2. rows' \in Seq(Row) /\ Len(rows') = Len(rows)
      BY <1>1, <1>9, <2>1, RowRewritten DEF RewriteDigest
    <2>3. pc' \in [Worker -> Stage]
      BY <1>1, <1>9 DEF RewriteDigest, Goto, TypeOK
    <2>4. QED BY <1>1, <1>9, <2>2, <2>3 DEF RewriteDigest, TypeOK
  <1>10. ASSUME NEW w \in Worker, EmptySummary(w) \/ PassFails(w)
         PROVE  TypeOK'
    <2>1. PICK s \in Stage : Turn(w, s)
      BY <1>10 DEF EmptySummary, PassFails
    <2>2. /\ pc' \in [Worker -> Stage] /\ batch' \in [Worker -> SUBSET Nat]
          /\ digest' \in [Worker -> 0..Len(rows)]
          /\ recalled' \in [Worker -> SUBSET (1..MaxMessages)]
      BY <1>1, <2>1, Turned
    <2>3. faults' \in 0..MaxFaults /\ jobs' \in Nat
      BY <1>1, <1>10, BoundsAssumption DEF EmptySummary, PassFails, TypeOK
    <2>4. UNCHANGED <<messages, due, rows, overlapped>>
      BY <1>10 DEF EmptySummary, PassFails
    <2>5. QED BY <1>1, <2>2, <2>3, <2>4 DEF TypeOK
  <1>11. CASE UNCHANGED vars
    BY <1>1, <1>11 DEF vars, passVars, TypeOK
  <1>12. QED
    BY <1>2, <1>3, <1>4, <1>5, <1>6, <1>7, <1>8, <1>9, <1>10, <1>11 DEF Next, PassStep

-----------------------------------------------------------------------------
(* What is folded stays folded into what has its text. *)

(* Rows are only added, and their texts are lost only where two passes      *)
(* rewrite the digest at once.                                              *)
RowsGrow ==
  /\ DOMAIN rows \subseteq DOMAIN rows'
  /\ overlapped => overlapped'
  /\ \A i \in DOMAIN rows :
       /\ rows'[i].level = rows[i].level
       /\ rows[i].level # 3 => rows'[i].text = rows[i].text
       /\ ~overlapped' => rows[i].text \subseteq rows'[i].text

DigestsSame ==
  OfLevel(3)' = OfLevel(3) /\ \A i \in OfLevel(3) : rows'[i].text = rows[i].text

LEMMA FoldTextSame ==
  ASSUME RowsGrow, NEW ids, ids \subseteq OfLevel(1) \/ ids \subseteq OfLevel(2)
  PROVE  TextOf(ids)' = TextOf(ids)
  <1>1. \A i \in ids : rows'[i].text = rows[i].text
    BY DEF RowsGrow, OfLevel
  <1>2. TextOf(ids)' = UNION {rows'[i].text : i \in ids}
    BY DEF TextOf
  <1>3. {rows'[i].text : i \in ids} = {rows[i].text : i \in ids}
    BY <1>1
  <1>4. QED BY <1>2, <1>3 DEF TextOf

(* A pass that does not move keeps what it holds, while rows are added. *)
LEMMA HeldKept ==
  ASSUME NEW w \in Worker, PassKept(w), RowsGrow,
         pc'[w] = pc[w], batch'[w] = batch[w], digest'[w] = digest[w],
         recalled'[w] = recalled[w],
         pc[w] = "l3sum" /\ ~overlapped' => DigestsSame
  PROVE  PassKept(w)'
  <1>1. \A k : OfLevel(k) \subseteq OfLevel(k)'
    BY DEF RowsGrow, OfLevel
  <1>2. pc[w] = "l1sum" => batch[w] # {} /\ batch[w] \subseteq 1..MaxMessages
    BY DEF PassKept
  <1>3. pc[w] \in {"l2sum", "l2stamp"} => batch[w] \subseteq OfLevel(1)'
    BY <1>1 DEF PassKept
  <1>4. pc[w] = "l2stamp" =>
          digest[w] \in OfLevel(2)' /\ TextOf(batch[w])' \subseteq rows'[digest[w]].text
    <2> SUFFICES ASSUME pc[w] = "l2stamp"
                 PROVE  digest[w] \in OfLevel(2)' /\ TextOf(batch[w])' \subseteq rows'[digest[w]].text
      OBVIOUS
    <2>1. /\ batch[w] \subseteq OfLevel(1) /\ digest[w] \in OfLevel(2)
          /\ TextOf(batch[w]) \subseteq rows[digest[w]].text
      BY DEF PassKept
    <2>2. TextOf(batch[w]) = UNION {rows'[i].text : i \in batch[w]}
      BY <2>1, FoldTextSame DEF TextOf
    <2>3. TextOf(batch[w])' = UNION {rows'[i].text : i \in batch[w]}
      BY DEF TextOf
    <2>4. rows'[digest[w]].text = rows[digest[w]].text
      BY <2>1 DEF RowsGrow, OfLevel
    <2>5. QED BY <1>1, <2>1, <2>2, <2>3, <2>4
  <1>5. pc[w] \in {"digest", "l3sum", "l3stamp"} => batch[w] \subseteq OfLevel(2)'
    BY <1>1 DEF PassKept
  <1>6. pc[w] = "l3sum" /\ digest[w] # 0 =>
          /\ digest[w] \in OfLevel(3)'
          /\ ~overlapped' => recalled[w] = rows'[digest[w]].text
    BY <1>1 DEF PassKept, RowsGrow, DigestsSame
  <1>7. pc[w] = "l3sum" /\ digest[w] = 0 /\ ~overlapped' => OfLevel(3)' = {}
    BY DEF PassKept, RowsGrow, DigestsSame
  <1>8. pc[w] = "l3stamp" =>
          /\ digest[w] \in OfLevel(3)'
          /\ ~overlapped' => TextOf(batch[w])' \subseteq rows'[digest[w]].text
    <2> SUFFICES ASSUME pc[w] = "l3stamp"
                 PROVE  /\ digest[w] \in OfLevel(3)'
                        /\ ~overlapped' => TextOf(batch[w])' \subseteq rows'[digest[w]].text
      OBVIOUS
    <2>1. /\ batch[w] \subseteq OfLevel(2) /\ digest[w] \in OfLevel(3)
          /\ ~overlapped => TextOf(batch[w]) \subseteq rows[digest[w]].text
      BY DEF PassKept
    <2>2. TextOf(batch[w]) = UNION {rows'[i].text : i \in batch[w]}
      BY <2>1, FoldTextSame DEF TextOf
    <2>3. TextOf(batch[w])' = UNION {rows'[i].text : i \in batch[w]}
      BY DEF TextOf
    <2>4. ~overlapped' => ~overlapped /\ rows[digest[w]].text \subseteq rows'[digest[w]].text
      BY <2>1 DEF RowsGrow, OfLevel
    <2>5. QED BY <1>1, <2>1, <2>2, <2>3, <2>4
  <1> DEFINE b == batch[w]
             g == digest[w]
  <1>9. QED
    BY <1>2, <1>3, <1>4, <1>5, <1>6, <1>7, <1>8 DEF PassKept, TextOf

(* An added row, of the level of `digest' or of one that is folded later.   *)
LEMMA AddedGrows ==
  ASSUME FoldInv, NEW level \in 1..3, NEW text \in SUBSET (1..MaxMessages),
         NEW end \in Nat, AddRow(level, text, end), overlapped' = overlapped,
         level = 3 /\ ~overlapped => OfLevel(3) = {}
  PROVE  /\ RowsGrow /\ RowsKept' /\ (level # 3 => DigestsSame)
         /\ Len(rows) + 1 \in OfLevel(level)' /\ rows'[Len(rows) + 1].text = text
  <1>1. TypeOK /\ RowsKept
    BY DEF FoldInv
  <1> DEFINE n == Len(rows) + 1
  <1>2. /\ DOMAIN rows' = DOMAIN rows \cup {n} /\ n \notin DOMAIN rows
        /\ rows'[n].level = level /\ rows'[n].text = text /\ rows'[n].folded = 0
        /\ \A i \in DOMAIN rows : rows'[i] = rows[i]
    <2>1. /\ Len(rows) \in Nat /\ DOMAIN rows = 1..Len(rows)
          /\ DOMAIN rows' = DOMAIN rows \cup {Len(rows) + 1}
          /\ rows'[Len(rows) + 1] = [level |-> level, text |-> text, end |-> end, folded |-> 0]
          /\ \A i \in DOMAIN rows : rows'[i] = rows[i]
      BY <1>1, RowAdded
    <2>2. QED BY <2>1
  <1> HIDE DEF n
  <1>3. RowsGrow
    BY <1>2 DEF RowsGrow
  <1>4. \A k : OfLevel(k)' = IF k = level THEN OfLevel(k) \cup {n} ELSE OfLevel(k)
    BY <1>2 DEF OfLevel
  <1>5. level # 3 => DigestsSame
    BY <1>2, <1>4 DEF DigestsSame, OfLevel
  <1>6. RowsKept'
    <2>1. \A i \in DOMAIN rows' :
            rows'[i].folded # 0 =>
              /\ rows'[i].folded \in DOMAIN rows'
              /\ rows'[rows'[i].folded].level = rows'[i].level + 1
              /\ ~overlapped' => rows'[i].text \subseteq rows'[rows'[i].folded].text
      BY <1>1, <1>2 DEF RowsKept
    <2>2. \A i \in OfLevel(3)' : rows'[i].folded = 0
      <3>1. \A i \in OfLevel(3) : rows'[i].folded = 0
        BY <1>1, <1>2 DEF RowsKept, OfLevel
      <3>2. QED BY <1>2, <1>4, <3>1
    <2>3. ~overlapped' => \A i, j \in OfLevel(3)' : i = j
      BY <1>1, <1>4 DEF RowsKept
    <2>4. QED BY <2>1, <2>2, <2>3 DEF RowsKept
  <1>7. QED BY <1>2, <1>3, <1>4, <1>5, <1>6 DEF n

(* A stamp on rows of the level below the parent, whose text has theirs.    *)
LEMMA StampedGrows ==
  ASSUME FoldInv, NEW k \in {1, 2}, NEW ids \in SUBSET OfLevel(k),
         NEW parent \in OfLevel(k + 1), Stamp(ids, parent), overlapped' = overlapped,
         ~overlapped => TextOf(ids) \subseteq rows[parent].text
  PROVE  RowsGrow /\ RowsKept' /\ DigestsSame
  <1>1. TypeOK /\ RowsKept
    BY DEF FoldInv
  <1>2. parent \in DOMAIN rows /\ parent \in Nat /\ rows[parent].level = k + 1
    BY <1>1, QueriesTyped DEF OfLevel
  <1>3. /\ DOMAIN rows' = DOMAIN rows
        /\ \A i \in DOMAIN rows :
             /\ rows'[i].level = rows[i].level /\ rows'[i].text = rows[i].text
             /\ rows'[i].folded = IF i \in ids THEN parent ELSE rows[i].folded
    BY <1>1, <1>2, RowsStamped
  <1>4. RowsGrow
    BY <1>3 DEF RowsGrow
  <1>5. DigestsSame /\ OfLevel(3)' = OfLevel(3)
    BY <1>3 DEF DigestsSame, OfLevel
  <1>6. \A i \in ids : ~overlapped => rows[i].text \subseteq rows[parent].text
    BY DEF TextOf
  <1>7. \A i \in ids : i \in DOMAIN rows /\ rows[i].level = k
    BY DEF OfLevel
  <1>8. ASSUME NEW i \in DOMAIN rows', rows'[i].folded # 0
        PROVE  /\ rows'[i].folded \in DOMAIN rows'
               /\ rows'[rows'[i].folded].level = rows'[i].level + 1
               /\ ~overlapped' => rows'[i].text \subseteq rows'[rows'[i].folded].text
    <2>1. CASE i \in ids
      BY <1>2, <1>3, <1>6, <1>7, <2>1
    <2>2. CASE i \notin ids
      BY <1>1, <1>3, <1>8, <2>2 DEF RowsKept
    <2>3. QED BY <2>1, <2>2
  <1>9. \A i \in OfLevel(3)' : rows'[i].folded = 0
    BY <1>1, <1>3, <1>5, <1>7 DEF RowsKept, OfLevel
  <1>10. RowsKept'
    BY <1>1, <1>5, <1>8, <1>9 DEF RowsKept
  <1>11. QED BY <1>4, <1>5, <1>10

LEMMA FoldStep == FoldInv /\ [Next]_vars => FoldInv'
  <1> SUFFICES ASSUME FoldInv, [Next]_vars PROVE FoldInv'
    OBVIOUS
  <1>1. TypeOK /\ RowsKept /\ OneWriter /\ TypeOK'
    BY TypeStep DEF FoldInv
  <1>2. \A w \in Worker : PassKept(w)
    BY DEF FoldInv
  (* Where no row is written, and a pass w moves, or none.                   *)
  <1>3. ASSUME rows' = rows, overlapped' = overlapped,
               NEW w \in Worker, PassKept(w)', pc'[w] # "l3sum",
               \A v \in Worker \ {w} : /\ pc'[v] = pc[v] /\ batch'[v] = batch[v]
                                       /\ digest'[v] = digest[v] /\ recalled'[v] = recalled[v]
        PROVE  FoldInv'
    <2>1. RowsGrow /\ DigestsSame
      BY <1>3 DEF RowsGrow, DigestsSame, OfLevel
    <2>2. \A v \in Worker : PassKept(v)'
      BY <1>2, <1>3, <2>1, HeldKept
    <2>3. RowsKept' /\ OneWriter'
      BY <1>1, <1>3 DEF RowsKept, OneWriter, OfLevel
    <2>4. QED BY <1>1, <2>2, <2>3 DEF FoldInv
  (* Where rows are written by the pass of w.                                *)
  <1>4. ASSUME RowsGrow, RowsKept', overlapped' = overlapped,
               NEW w \in Worker, PassKept(w)', pc'[w] # "l3sum",
               DigestsSame \/ pc[w] = "l3sum",
               \A v \in Worker \ {w} : /\ pc'[v] = pc[v] /\ batch'[v] = batch[v]
                                       /\ digest'[v] = digest[v] /\ recalled'[v] = recalled[v]
        PROVE  FoldInv'
    <2>1. \A v \in Worker : PassKept(v)'
      BY <1>1, <1>2, <1>4, HeldKept DEF OneWriter
    <2>2. OneWriter'
      BY <1>1, <1>4 DEF OneWriter
    <2>3. QED BY <1>1, <1>4, <2>1, <2>2 DEF FoldInv
  <1>5. ASSUME UNCHANGED <<rows, passVars, overlapped>>
        PROVE  FoldInv'
    <2>1. \A v \in Worker : PassKept(v)'
      BY <1>2, <1>5 DEF passVars, PassKept, OfLevel, TextOf
    <2>2. RowsKept' /\ OneWriter'
      BY <1>1, <1>5 DEF RowsKept, OneWriter, OfLevel, passVars
    <2>3. QED BY <1>1, <2>1, <2>2 DEF FoldInv
  <1>6. ASSUME NEW w \in Worker, NEW s \in Stage \ {"l1sum", "l2sum", "l2stamp", "digest", "l3sum", "l3stamp"},
               Turn(w, s)
        PROVE  /\ PassKept(w)' /\ pc'[w] # "l3sum"
               /\ \A v \in Worker \ {w} : /\ pc'[v] = pc[v] /\ batch'[v] = batch[v]
                                          /\ digest'[v] = digest[v] /\ recalled'[v] = recalled[v]
    <2>1. pc'[w] = s
      BY <1>1, <1>6, Turned
    <2>2. PassKept(w)'
      BY <2>1 DEF PassKept, Stage
    <2>3. QED BY <1>1, <1>6, <2>1, <2>2, Turned
  <1>7. ASSUME NEW enqueued \in BOOLEAN, AppendMessage(enqueued)
        PROVE  FoldInv'
    BY <1>5, <1>7 DEF AppendMessage
  <1>8. ASSUME NEW w \in Worker, StartPass(w)
        PROVE  FoldInv'
    <2>1. pc'[w] = "l1" /\ \A v \in Worker \ {w} : pc'[v] = pc[v]
      BY <1>1, <1>8 DEF StartPass, Goto, TypeOK
    <2>2. PassKept(w)'
      BY <2>1 DEF PassKept
    <2>3. QED BY <1>3, <1>8, <2>1, <2>2 DEF StartPass
  <1>9. ASSUME NEW w \in Worker, ReadWindow(w)
        PROVE  FoldInv'
    <2> DEFINE window == Oldest(Backlog(messages), Window)
    <2>1. UNCHANGED <<rows, digest, recalled, overlapped>>
      BY <1>9 DEF ReadWindow
    <2>2. CASE Goto(w, "l2") /\ UNCHANGED batch
      <3>1. pc'[w] = "l2" /\ \A v \in Worker \ {w} : pc'[v] = pc[v]
        BY <1>1, <2>2 DEF Goto, TypeOK
      <3>2. PassKept(w)'
        BY <3>1 DEF PassKept
      <3>3. QED BY <1>3, <2>1, <2>2, <3>1, <3>2
    <2>3. CASE Goto(w, "l1sum") /\ Fetch(w, window) /\ ~(Cardinality(window) < Window)
      <3>1. /\ pc'[w] = "l1sum" /\ \A v \in Worker \ {w} : pc'[v] = pc[v]
            /\ batch'[w] = window /\ \A v \in Worker \ {w} : batch'[v] = batch[v]
        BY <1>1, <2>3 DEF Goto, Fetch, TypeOK
      <3>2. window \subseteq 1..MaxMessages
        BY <1>1, QueriesTyped
      <3>3. window # {}
        <4>1. Cardinality({}) = 0 /\ Window \in Nat \ {0}
          BY FS_EmptySet, KnobsAssumption
        <4>2. QED BY <2>3, <4>1
      <3> HIDE DEF window
      <3>4. PassKept(w)'
        BY <3>1, <3>2, <3>3 DEF PassKept
      <3>5. QED BY <1>3, <2>1, <3>1, <3>4
    <2>4. QED BY <1>9, <2>2, <2>3 DEF ReadWindow
  <1>10. ASSUME NEW w \in Worker, ReadL1s(w)
         PROVE  FoldInv'
    <2>1. UNCHANGED <<rows, digest, recalled, overlapped>>
      BY <1>10 DEF ReadL1s
    <2>2. CASE Goto(w, "l3") /\ UNCHANGED batch
      <3>1. pc'[w] = "l3" /\ \A v \in Worker \ {w} : pc'[v] = pc[v]
        BY <1>1, <2>2 DEF Goto, TypeOK
      <3>2. PassKept(w)'
        BY <3>1 DEF PassKept
      <3>3. QED BY <1>3, <2>1, <2>2, <3>1, <3>2
    <2>3. CASE Goto(w, "l2sum") /\ Fetch(w, Oldest(Unfolded(1), L2Fold))
      <3>1. /\ pc'[w] = "l2sum" /\ \A v \in Worker \ {w} : pc'[v] = pc[v]
            /\ batch'[w] = Oldest(Unfolded(1), L2Fold)
            /\ \A v \in Worker \ {w} : batch'[v] = batch[v]
        BY <1>1, <2>3 DEF Goto, Fetch, TypeOK
      <3>2. batch'[w] \subseteq OfLevel(1)
        BY <1>1, <3>1, QueriesTyped
      <3>3. batch'[w] \subseteq OfLevel(1)'
        BY <2>1, <3>2 DEF OfLevel
      <3>4. PassKept(w)'
        BY <3>1, <3>3 DEF PassKept
      <3>5. QED BY <1>3, <2>1, <3>1, <3>4
    <2>4. QED BY <1>10, <2>2, <2>3 DEF ReadL1s
  <1>11. ASSUME NEW w \in Worker, ReadL2s(w)
         PROVE  FoldInv'
    <2>1. UNCHANGED <<rows, digest, recalled, overlapped>>
      BY <1>11 DEF ReadL2s
    <2>2. CASE Goto(w, "idle") /\ UNCHANGED batch
      <3>1. pc'[w] = "idle" /\ \A v \in Worker \ {w} : pc'[v] = pc[v]
        BY <1>1, <2>2 DEF Goto, TypeOK
      <3>2. PassKept(w)'
        BY <3>1 DEF PassKept
      <3>3. QED BY <1>3, <2>1, <2>2, <3>1, <3>2
    <2>3. CASE Goto(w, "digest") /\ Fetch(w, Oldest(Unfolded(2), L3Fold))
      <3>1. /\ pc'[w] = "digest" /\ \A v \in Worker \ {w} : pc'[v] = pc[v]
            /\ batch'[w] = Oldest(Unfolded(2), L3Fold)
            /\ \A v \in Worker \ {w} : batch'[v] = batch[v]
        BY <1>1, <2>3 DEF Goto, Fetch, TypeOK
      <3>2. batch'[w] \subseteq OfLevel(2)
        BY <1>1, <3>1, QueriesTyped
      <3>3. batch'[w] \subseteq OfLevel(2)'
        BY <2>1, <3>2 DEF OfLevel
      <3>4. PassKept(w)'
        BY <3>1, <3>3 DEF PassKept
      <3>5. QED BY <1>3, <2>1, <3>1, <3>4
    <2>4. QED BY <1>11, <2>2, <2>3 DEF ReadL2s
  <1>12. ASSUME NEW w \in Worker, InsertL1(w)
         PROVE  FoldInv'
    <2>1. batch[w] # {} /\ batch[w] \in SUBSET (1..MaxMessages) /\ MaxMessages \in Nat
      BY <1>2, <1>12, BoundsAssumption DEF InsertL1, PassKept
    <2>2. Max(batch[w]) \in Nat
      <3>1. batch[w] \in SUBSET (0..MaxMessages)
        BY <2>1
      <3>2. QED BY <2>1, <3>1, MaxOf
    <2>3. RowsGrow /\ RowsKept' /\ DigestsSame
      <3>1. AddRow(1, batch[w], Max(batch[w])) /\ overlapped' = overlapped
        BY <1>12 DEF InsertL1
      <3>2. 1 \in 1..3 /\ 1 # 3
        OBVIOUS
      <3>3. QED BY <2>1, <2>2, <3>1, <3>2, AddedGrows
    <2>4. QED BY <1>4, <1>6, <1>12, <2>3 DEF InsertL1, Stage
  <1>13. ASSUME NEW w \in Worker, InsertL2(w)
         PROVE  FoldInv'
    <2> DEFINE n == Len(rows) + 1
    <2>1. batch[w] \subseteq OfLevel(1) /\ batch[w] \in SUBSET DOMAIN rows
      BY <1>2, <1>13 DEF InsertL2, PassKept, OfLevel
    <2>2. TextOf(batch[w]) \in SUBSET (1..MaxMessages)
      BY <1>1, <2>1, TextTyped
    <2>3. /\ RowsGrow /\ RowsKept' /\ DigestsSame
          /\ n \in OfLevel(2)' /\ rows'[n].text = TextOf(batch[w])
      <3>1. AddRow(2, TextOf(batch[w]), 0) /\ overlapped' = overlapped
        BY <1>13 DEF InsertL2
      <3>2. 2 \in 1..3 /\ 2 # 3 /\ 0 \in Nat
        OBVIOUS
      <3>3. QED BY <2>2, <3>1, <3>2, AddedGrows
    <2>4. /\ pc'[w] = "l2stamp" /\ \A v \in Worker \ {w} : pc'[v] = pc[v]
          /\ digest'[w] = n /\ \A v \in Worker \ {w} : digest'[v] = digest[v]
          /\ UNCHANGED <<batch, recalled, overlapped>>
      BY <1>1, <1>13 DEF InsertL2, Goto, TypeOK
    <2>5. UNION {rows'[i].text : i \in batch'[w]} = TextOf(batch[w])
      BY <2>1, <2>3, <2>4, FoldTextSame DEF TextOf
    <2>6. batch'[w] \subseteq OfLevel(1)'
      BY <2>1, <2>3, <2>4 DEF RowsGrow, OfLevel
    <2> HIDE DEF n
    <2>7. PassKept(w)'
      BY <2>3, <2>4, <2>5, <2>6 DEF PassKept, TextOf
    <2>8. QED BY <1>4, <2>3, <2>4, <2>7
  <1>14. ASSUME NEW w \in Worker, StampL1s(w)
         PROVE  FoldInv'
    <2>1. /\ batch[w] \in SUBSET OfLevel(1) /\ digest[w] \in OfLevel(2)
          /\ TextOf(batch[w]) \subseteq rows[digest[w]].text
      BY <1>2, <1>14 DEF StampL1s, PassKept
    <2>2. RowsGrow /\ RowsKept' /\ DigestsSame
      <3>1. Stamp(batch[w], digest[w]) /\ overlapped' = overlapped
        BY <1>14 DEF StampL1s
      <3>2. 1 \in {1, 2} /\ digest[w] \in OfLevel(1 + 1)
        BY <2>1
      <3>3. QED BY <2>1, <3>1, <3>2, StampedGrows
    <2>3. QED BY <1>4, <1>6, <1>14, <2>2 DEF StampL1s, Stage
  <1>15. ASSUME NEW w \in Worker, ReadDigest(w)
         PROVE  FoldInv'
    <2>1. /\ pc[w] = "digest" /\ pc'[w] = "l3sum" /\ \A v \in Worker \ {w} : pc'[v] = pc[v]
          /\ UNCHANGED <<rows, batch>>
          /\ overlapped' = (overlapped \/ \E v \in Worker : pc[v] = "l3sum")
      BY <1>1, <1>15 DEF ReadDigest, Goto, TypeOK
    <2>2. \A v \in Worker \ {w} : digest'[v] = digest[v] /\ recalled'[v] = recalled[v]
      BY <1>1, <1>15 DEF ReadDigest, TypeOK
    <2>3. ~overlapped' => ~overlapped /\ \A v \in Worker : pc[v] # "l3sum"
      BY <2>1
    <2>4. /\ digest'[w] # 0 => digest'[w] \in OfLevel(3) /\ recalled'[w] = rows[digest'[w]].text
          /\ digest'[w] = 0 => OfLevel(3) = {}
      <3>1. ASSUME NEW i \in Unfolded(3), digest' = [digest EXCEPT ![w] = i],
                   recalled' = [recalled EXCEPT ![w] = rows[i].text]
            PROVE  /\ digest'[w] \in OfLevel(3) /\ recalled'[w] = rows[digest'[w]].text
                   /\ digest'[w] # 0
        <4>1. i \in DOMAIN rows /\ i \in OfLevel(3)
          BY DEF Unfolded, OfLevel
        <4>2. i # 0
          BY <1>1, <4>1, QueriesTyped
        <4>3. QED BY <1>1, <3>1, <4>1, <4>2 DEF TypeOK
      <3>2. ASSUME Unfolded(3) = {}, digest' = [digest EXCEPT ![w] = 0]
            PROVE  OfLevel(3) = {} /\ digest'[w] = 0
        BY <1>1, <3>2 DEF RowsKept, Unfolded, OfLevel, TypeOK
      <3>3. QED BY <1>15, <3>1, <3>2 DEF ReadDigest
    <2>5. RowsGrow /\ DigestsSame
      <3>1. overlapped => overlapped'
        BY <2>1
      <3>2. QED BY <2>1, <3>1 DEF RowsGrow, DigestsSame, OfLevel
    <2>6. batch[w] \subseteq OfLevel(2)
      BY <1>2, <2>1 DEF PassKept
    <2>7. OfLevel(2)' = OfLevel(2) /\ OfLevel(3)' = OfLevel(3)
      BY <2>1 DEF OfLevel
    <2>8. PassKept(w)'
      BY <2>1, <2>4, <2>6, <2>7 DEF PassKept
    <2>9. \A v \in Worker : PassKept(v)'
      BY <1>2, <2>1, <2>2, <2>5, <2>8, HeldKept
    <2>10. OneWriter'
      BY <2>1, <2>3 DEF OneWriter
    <2>11. RowsKept'
      BY <1>1, <2>1, <2>3, <2>7 DEF RowsKept
    <2>12. QED BY <1>1, <2>9, <2>10, <2>11 DEF FoldInv
  <1>16. ASSUME NEW w \in Worker, RewriteDigest(w)
         PROVE  FoldInv'
    <2> DEFINE text == recalled[w] \cup TextOf(batch[w])
               d == digest[w]
    <2>1. /\ pc[w] = "l3sum" /\ d # 0 /\ d \in OfLevel(3)
          /\ ~overlapped => recalled[w] = rows[d].text
          /\ batch[w] \subseteq OfLevel(2)
      BY <1>2, <1>16 DEF RewriteDigest, PassKept
    <2>2. text \in SUBSET (1..MaxMessages) /\ d \in DOMAIN rows
      <3>1. batch[w] \in SUBSET DOMAIN rows /\ d \in DOMAIN rows
        BY <2>1 DEF OfLevel
      <3>2. QED BY <1>1, <3>1, TextTyped DEF TypeOK
    <2>3. rows' = [rows EXCEPT ![d].text = text]
      BY <1>16 DEF RewriteDigest
    <2>4. /\ pc'[w] = "l3stamp" /\ \A v \in Worker \ {w} : pc'[v] = pc[v]
          /\ UNCHANGED <<batch, digest, recalled, overlapped>>
      BY <1>1, <1>16 DEF RewriteDigest, Goto, TypeOK
    <2>5. TextOf(batch[w]) \subseteq text /\ recalled[w] \subseteq text
      OBVIOUS
    <2> HIDE DEF text
    <2>6. /\ DOMAIN rows' = DOMAIN rows
          /\ \A i \in DOMAIN rows :
               /\ rows'[i].level = rows[i].level /\ rows'[i].folded = rows[i].folded
               /\ rows'[i].text = IF i = d THEN text ELSE rows[i].text
      BY <1>1, <2>2, <2>3, RowRewritten
    <2>7. RowsGrow
      BY <2>1, <2>4, <2>5, <2>6 DEF RowsGrow, OfLevel
    <2>8. \A k : OfLevel(k)' = OfLevel(k)
      BY <2>6 DEF OfLevel
    <2>9. RowsKept'
      <3>1. ASSUME NEW i \in DOMAIN rows', rows'[i].folded # 0
            PROVE  /\ rows'[i].folded \in DOMAIN rows'
                   /\ rows'[rows'[i].folded].level = rows'[i].level + 1
                   /\ ~overlapped' => rows'[i].text \subseteq rows'[rows'[i].folded].text
        <4>1. /\ i \in DOMAIN rows /\ rows[i].folded # 0 /\ rows'[i].folded = rows[i].folded
          BY <2>6, <3>1
        <4>2. /\ rows[i].folded \in DOMAIN rows
              /\ rows[rows[i].folded].level = rows[i].level + 1
              /\ ~overlapped => rows[i].text \subseteq rows[rows[i].folded].text
          BY <1>1, <4>1 DEF RowsKept
        <4>3. i # d
          BY <1>1, <2>1, <4>1 DEF RowsKept
        <4>4. ~overlapped => rows[rows[i].folded].text \subseteq rows'[rows[i].folded].text
          BY <2>4, <2>7, <4>2 DEF RowsGrow
        <4>5. QED BY <2>4, <2>6, <4>1, <4>2, <4>3, <4>4
      <3>2. \A i \in OfLevel(3)' : rows'[i].folded = 0
        BY <1>1, <2>6, <2>8 DEF RowsKept, OfLevel
      <3>3. QED BY <1>1, <2>4, <2>8, <3>1, <3>2 DEF RowsKept
    <2>10. PassKept(w)'
      <3>1. UNION {rows'[i].text : i \in batch'[w]} = TextOf(batch[w])
        BY <2>1, <2>4, <2>7, FoldTextSame DEF TextOf
      <3>2. rows'[digest'[w]].text = text /\ digest'[w] \in OfLevel(3)'
        BY <2>1, <2>2, <2>4, <2>6, <2>8
      <3>3. QED BY <2>1, <2>4, <2>5, <2>8, <3>1, <3>2 DEF PassKept, TextOf
    <2>11. QED BY <1>4, <2>1, <2>4, <2>7, <2>9, <2>10
  <1>17. ASSUME NEW w \in Worker, InsertDigest(w)
         PROVE  FoldInv'
    <2> DEFINE n == Len(rows) + 1
    <2>1. /\ pc[w] = "l3sum" /\ batch[w] \subseteq OfLevel(2) /\ batch[w] \in SUBSET DOMAIN rows
          /\ ~overlapped => OfLevel(3) = {}
      BY <1>2, <1>17 DEF InsertDigest, PassKept, OfLevel
    <2>2. TextOf(batch[w]) \in SUBSET (1..MaxMessages)
      BY <1>1, <2>1, TextTyped
    <2>3. /\ RowsGrow /\ RowsKept'
          /\ n \in OfLevel(3)' /\ rows'[n].text = TextOf(batch[w])
      <3>1. AddRow(3, TextOf(batch[w]), 0) /\ overlapped' = overlapped
        BY <1>17 DEF InsertDigest
      <3>2. 3 \in 1..3 /\ 0 \in Nat
        OBVIOUS
      <3>3. QED BY <2>1, <2>2, <3>1, <3>2, AddedGrows
    <2>4. /\ pc'[w] = "l3stamp" /\ \A v \in Worker \ {w} : pc'[v] = pc[v]
          /\ digest'[w] = n /\ \A v \in Worker \ {w} : digest'[v] = digest[v]
          /\ UNCHANGED <<batch, recalled, overlapped>>
      BY <1>1, <1>17 DEF InsertDigest, Goto, TypeOK
    <2>5. UNION {rows'[i].text : i \in batch'[w]} = TextOf(batch[w])
      BY <2>1, <2>3, <2>4, FoldTextSame DEF TextOf
    <2>6. batch'[w] \subseteq OfLevel(2)'
      BY <2>1, <2>3, <2>4 DEF RowsGrow, OfLevel
    <2> HIDE DEF n
    <2>7. PassKept(w)'
      BY <2>3, <2>4, <2>5, <2>6 DEF PassKept, TextOf
    <2>8. QED BY <1>4, <2>1, <2>3, <2>4, <2>7
  <1>18. ASSUME NEW w \in Worker, StampL2s(w)
         PROVE  FoldInv'
    <2>1. /\ batch[w] \in SUBSET OfLevel(2) /\ digest[w] \in OfLevel(3)
          /\ ~overlapped => TextOf(batch[w]) \subseteq rows[digest[w]].text
      BY <1>2, <1>18 DEF StampL2s, PassKept
    <2>2. RowsGrow /\ RowsKept' /\ DigestsSame
      <3>1. Stamp(batch[w], digest[w]) /\ overlapped' = overlapped
        BY <1>18 DEF StampL2s
      <3>2. 2 \in {1, 2} /\ digest[w] \in OfLevel(2 + 1)
        BY <2>1
      <3>3. QED BY <2>1, <3>1, <3>2, StampedGrows
    <2>3. QED BY <1>4, <1>6, <1>18, <2>2 DEF StampL2s, Stage
  <1>19. ASSUME NEW w \in Worker, EmptySummary(w) \/ PassFails(w)
         PROVE  FoldInv'
    <2>1. PICK s \in {"idle", "l2", "l3"} : Turn(w, s)
      BY <1>19 DEF EmptySummary, PassFails
    <2>2. s \in Stage \ {"l1sum", "l2sum", "l2stamp", "digest", "l3sum", "l3stamp"}
      BY DEF Stage
    <2>3. UNCHANGED <<rows, overlapped>>
      BY <1>19 DEF EmptySummary, PassFails
    <2>4. QED BY <1>3, <1>6, <2>1, <2>2, <2>3
  <1>20. CASE UNCHANGED vars
    BY <1>5, <1>20 DEF vars
  <1>21. QED
    BY <1>7, <1>8, <1>9, <1>10, <1>11, <1>12, <1>13, <1>14, <1>15, <1>16, <1>17, <1>18,
       <1>19, <1>20 DEF Next, PassStep

-----------------------------------------------------------------------------
(* What is due is drained. *)

(* A window that is too small for its LIMIT leaves nothing due undrained.   *)
LEMMA SmallWindowDrained ==
  ASSUME TypeOK, due <= messages,
         messages < Trigger \/ Cardinality(Oldest(Backlog(messages), Window)) < Window
  PROVE  ~Undrained(due)
  <1>1. messages \in Nat /\ due \in Nat /\ Trigger \in Nat /\ Window \in Nat /\ Recent \in Nat
    BY BoundsAssumption, KnobsAssumption DEF TypeOK
  <1>2. CASE messages < Trigger
    BY <1>1, <1>2 DEF Undrained
  <1>3. CASE Cardinality(Oldest(Backlog(messages), Window)) < Window
    <2> DEFINE B == Backlog(messages)
               D == Backlog(due)
    <2>1. B \in SUBSET (1..messages)
      BY DEF Backlog
    <2>2. B \in SUBSET Nat /\ IsFiniteSet(1..messages)
      BY <1>1, <2>1, FS_Interval
    <2>3. D \subseteq B
      BY <1>1 DEF Backlog
    <2> HIDE DEF B, D
    <2>4. IsFiniteSet(B)
      BY <2>1, <2>2, FS_Subset
    <2>5. Oldest(B, Window) = B
      BY <1>1, <1>3, <2>2, <2>4, OldestIsAll DEF B
    <2>6. Cardinality(B) < Window
      BY <1>3, <2>5 DEF B
    <2>7. Cardinality(D) <= Cardinality(B) /\ Cardinality(D) \in Nat /\ Cardinality(B) \in Nat
      BY <2>3, <2>4, FS_Subset, FS_CardinalityType
    <2>8. ~(Cardinality(D) >= Window)
      BY <1>1, <2>6, <2>7
    <2>9. QED BY <2>8 DEF Undrained, D
  <1>4. QED BY <1>2, <1>3

(* No row but an L1 moves the end of what is covered. *)
LEMMA CoveredSame ==
  ASSUME UNCHANGED due, OfLevel(1)' = OfLevel(1),
         \A i \in OfLevel(1) : rows'[i].end = rows[i].end
  PROVE  Undrained(due)' <=> Undrained(due)
  <1>1. {rows'[i].end : i \in OfLevel(1)'} = {rows[i].end : i \in OfLevel(1)}
    OBVIOUS
  <1>2. Covered = Max({0} \cup {rows[i].end : i \in OfLevel(1)})
    BY DEF Covered, OfLevel
  <1>3. Covered' = Max({0} \cup {rows'[i].end : i \in OfLevel(1)'})
    BY DEF Covered, OfLevel
  <1>4. Covered' = Covered
    BY <1>1, <1>2, <1>3
  <1>5. Backlog(due)' = Backlog(due)
    BY <1>4 DEF Backlog
  <1>6. QED BY <1>5 DEF Undrained

LEMMA UnfoldedFinite ==
  ASSUME TypeOK, NEW k \in 1..3
  PROVE  IsFiniteSet(Unfolded(k)) /\ Cardinality(Unfolded(k)) \in Nat
  <1>1. Unfolded(k) \in SUBSET (1..Len(rows)) /\ Len(rows) \in Nat
    BY LenProperties DEF TypeOK, Unfolded
  <1>2. IsFiniteSet(1..Len(rows))
    BY <1>1, FS_Interval
  <1>3. IsFiniteSet(Unfolded(k))
    BY ONLY <1>1, <1>2, FS_Subset
  <1>4. QED BY <1>3, FS_CardinalityType

(* A new row of a higher level changes nothing of level 1. *)
LEMMA AddedSame ==
  ASSUME TypeOK, NEW level \in {2, 3}, NEW text \in SUBSET (1..MaxMessages),
         AddRow(level, text, 0)
  PROVE  /\ OfLevel(1)' = OfLevel(1) /\ (\A i \in OfLevel(1) : rows'[i].end = rows[i].end)
         /\ Unfolded(1)' = Unfolded(1)
  <1> DEFINE n == Len(rows) + 1
  <1>1. /\ DOMAIN rows' = DOMAIN rows \cup {n} /\ rows'[n].level = level
        /\ \A i \in DOMAIN rows : rows'[i] = rows[i]
    <2>1. /\ DOMAIN rows' = DOMAIN rows \cup {Len(rows) + 1}
          /\ rows'[Len(rows) + 1] = [level |-> level, text |-> text, end |-> 0, folded |-> 0]
          /\ \A i \in DOMAIN rows : rows'[i] = rows[i]
      <3>1. level \in 1..3 /\ 0 \in Nat
        OBVIOUS
      <3>2. QED BY <3>1, RowAdded
    <2>2. QED BY <2>1
  <1> HIDE DEF n
  <1>2. QED BY <1>1 DEF OfLevel, Unfolded

(* A level is left undrained by nobody but its own pass. *)
LEMMA DrainFrame ==
  ASSUME DrainInv, NEW w \in Worker, UNCHANGED <<messages, due, jobs>>,
         \A v \in Worker \ {w} : pc'[v] = pc[v],
         faults' = 0 => faults = 0,
         \/ pc'[w] \in {"l1", "l1sum"}
         \/ /\ Undrained(due)' => Undrained(due)
            /\ pc[w] \in {"l1", "l1sum"} => ~Undrained(due),
         \/ pc'[w] \in {"l1", "l1sum", "l2", "l2sum", "l2stamp"}
         \/ /\ Unfolded(1)' = Unfolded(1)
            /\ pc[w] \in {"l1", "l1sum", "l2", "l2sum", "l2stamp"} =>
                 ~(Cardinality(Unfolded(1)) >= L2Fold),
         \/ pc'[w] # "idle"
         \/ Unfolded(2)' = Unfolded(2) /\ ~(Cardinality(Unfolded(2)) >= L3Fold)
  PROVE  DrainInv'
  <1>1. due' <= messages'
    BY DEF DrainInv
  <1>2. ASSUME faults' = 0, Undrained(due)'
        PROVE  jobs' > 0 \/ \E v \in Worker : pc'[v] \in {"l1", "l1sum"}
    BY <1>2 DEF DrainInv
  <1>3. ASSUME faults' = 0, (Cardinality(Unfolded(1)) >= L2Fold)'
        PROVE  \/ jobs' > 0
               \/ \E v \in Worker : pc'[v] \in {"l1", "l1sum", "l2", "l2sum", "l2stamp"}
    <2>1. CASE pc'[w] \in {"l1", "l1sum", "l2", "l2sum", "l2stamp"}
      BY <2>1
    <2>2. CASE /\ Unfolded(1)' = Unfolded(1)
               /\ pc[w] \in {"l1", "l1sum", "l2", "l2sum", "l2stamp"} =>
                    ~(Cardinality(Unfolded(1)) >= L2Fold)
      <3>1. Cardinality(Unfolded(1)) >= L2Fold
        BY <1>3, <2>2
      <3>2. QED BY <1>3, <2>2, <3>1 DEF DrainInv
    <2>3. QED BY <2>1, <2>2
  <1>4. ASSUME faults' = 0, (Cardinality(Unfolded(2)) >= L3Fold)'
        PROVE  jobs' > 0 \/ \E v \in Worker : pc'[v] # "idle"
    <2>1. CASE pc'[w] # "idle"
      BY <2>1
    <2>2. CASE Unfolded(2)' = Unfolded(2) /\ ~(Cardinality(Unfolded(2)) >= L3Fold)
      <3>1. Cardinality(Unfolded(2)) >= L3Fold
        BY <1>4, <2>2
      <3>2. QED BY <2>2, <3>1
    <2>3. QED BY <2>1, <2>2
  <1>5. QED BY <1>1, <1>2, <1>3, <1>4 DEF DrainInv

LEMMA DrainStep == FoldInv /\ DrainInv /\ [Next]_vars => DrainInv'
  <1> SUFFICES ASSUME FoldInv, DrainInv, [Next]_vars PROVE DrainInv'
    OBVIOUS
  <1>1. TypeOK /\ messages \in Nat /\ due \in Nat /\ jobs \in Nat /\ due <= messages
        /\ faults \in Nat
    BY BoundsAssumption DEF FoldInv, TypeOK, DrainInv
  <1>2. \A w \in Worker : PassKept(w)
    BY DEF FoldInv
  <1>3. rows' = rows => /\ UNCHANGED due => (Undrained(due)' <=> Undrained(due))
                        /\ Unfolded(1)' = Unfolded(1) /\ Unfolded(2)' = Unfolded(2)
    BY DEF Undrained, Backlog, Covered, Unfolded
  <1>4. ASSUME NEW enqueued \in BOOLEAN, AppendMessage(enqueued)
        PROVE  DrainInv'
    <2>1. CASE enqueued
      <3>1. jobs' > 0 /\ due' = messages'
        BY <1>1, <1>4, <2>1 DEF AppendMessage
      <3>2. messages' \in Nat
        BY <1>1, <1>4 DEF AppendMessage
      <3>3. due' <= messages'
        BY <3>1, <3>2
      <3>4. QED BY <3>1, <3>3 DEF DrainInv
    <2>2. CASE ~enqueued
      <3>1. UNCHANGED <<jobs, due, rows, pc, faults>> /\ messages' = messages + 1
        BY <1>4, <2>2 DEF AppendMessage, passVars
      <3>2. due' <= messages'
        BY <1>1, <3>1
      <3>3. /\ Undrained(due)' <=> Undrained(due)
            /\ Unfolded(1)' = Unfolded(1) /\ Unfolded(2)' = Unfolded(2)
        BY <1>3, <3>1
      <3>4. faults' = 0 =>
              /\ Undrained(due)' => jobs' > 0 \/ \E w \in Worker : pc'[w] \in {"l1", "l1sum"}
              /\ (Cardinality(Unfolded(1)) >= L2Fold)' =>
                   \/ jobs' > 0
                   \/ \E w \in Worker : pc'[w] \in {"l1", "l1sum", "l2", "l2sum", "l2stamp"}
              /\ (Cardinality(Unfolded(2)) >= L3Fold)' =>
                   jobs' > 0 \/ \E w \in Worker : pc'[w] # "idle"
        BY <3>1, <3>3 DEF DrainInv
      <3>5. QED BY <3>2, <3>4 DEF DrainInv
    <2>3. QED BY <2>1, <2>2
  <1>5. ASSUME NEW w \in Worker, StartPass(w)
        PROVE  DrainInv'
    <2>1. pc'[w] = "l1" /\ UNCHANGED <<messages, due>>
      BY <1>1, <1>5 DEF StartPass, Goto, TypeOK
    <2>2. QED BY <1>1, <2>1 DEF DrainInv
  (* The pass of w moves on. *)
  <1>6. ASSUME NEW w \in Worker, PassStep(w)
        PROVE  /\ UNCHANGED <<messages, due, jobs, faults>>
               /\ \A v \in Worker \ {w} : pc'[v] = pc[v]
    <2>1. UNCHANGED <<messages, due, jobs, faults>>
      BY <1>6 DEF PassStep, ReadWindow, InsertL1, ReadL1s, InsertL2, StampL1s, ReadL2s,
                  ReadDigest, RewriteDigest, InsertDigest, StampL2s
    <2>2. \E s : pc' = [pc EXCEPT ![w] = s]
      BY <1>6 DEF PassStep, ReadWindow, InsertL1, ReadL1s, InsertL2, StampL1s, ReadL2s,
                  ReadDigest, RewriteDigest, InsertDigest, StampL2s, Turn, Goto
    <2>3. QED BY <1>1, <2>1, <2>2 DEF TypeOK
  <1>7. ASSUME NEW w \in Worker, NEW s, Goto(w, s)
        PROVE  pc'[w] = s
    BY <1>1, <1>7 DEF Goto, TypeOK
  <1>8. ASSUME NEW w \in Worker, ReadWindow(w)
        PROVE  DrainInv'
    <2>1. rows' = rows /\ PassStep(w) /\ pc'[w] \in {"l2", "l1sum"}
      BY <1>7, <1>8 DEF ReadWindow, PassStep
    <2>2. pc'[w] = "l2" => ~Undrained(due)
      <3>1. CASE messages < Trigger \/ Cardinality(Oldest(Backlog(messages), Window)) < Window
        BY <1>1, <3>1, SmallWindowDrained
      <3>2. CASE Goto(w, "l1sum")
        BY <1>7, <3>2
      <3>3. QED BY <1>8, <3>1, <3>2 DEF ReadWindow
    <2>3. QED BY <1>3, <1>6, <2>1, <2>2, DrainFrame
  <1>9. ASSUME NEW w \in Worker, InsertL1(w)
        PROVE  DrainInv'
    <2>1. PassStep(w) /\ pc'[w] = "l1"
      BY <1>7, <1>9 DEF InsertL1, PassStep, Turn
    <2>2. QED BY <1>6, <2>1, DrainFrame
  <1>10. ASSUME NEW w \in Worker, ReadL1s(w)
         PROVE  DrainInv'
    <2>1. rows' = rows /\ PassStep(w) /\ pc[w] = "l2" /\ pc'[w] \in {"l3", "l2sum"}
      BY <1>7, <1>10 DEF ReadL1s, PassStep
    <2>2. pc'[w] = "l3" => ~(Cardinality(Unfolded(1)) >= L2Fold)
      <3>1. CASE Cardinality(Unfolded(1)) < L2Fold
        <4>1. Cardinality(Unfolded(1)) \in Nat /\ L2Fold \in Nat
          BY <1>1, UnfoldedFinite, KnobsAssumption
        <4>2. QED BY <3>1, <4>1
      <3>2. CASE Goto(w, "l2sum")
        BY <1>7, <3>2
      <3>3. QED BY <1>10, <3>1, <3>2 DEF ReadL1s
    <2>3. QED BY <1>3, <1>6, <2>1, <2>2, DrainFrame
  <1>11. ASSUME NEW w \in Worker, InsertL2(w)
         PROVE  DrainInv'
    <2>1. PassStep(w) /\ pc[w] = "l2sum" /\ pc'[w] = "l2stamp"
      BY <1>7, <1>11 DEF InsertL2, PassStep
    <2>2. Undrained(due)' <=> Undrained(due)
      <3>1. batch[w] \in SUBSET DOMAIN rows
        BY <1>2, <2>1 DEF PassKept, OfLevel
      <3>2. TextOf(batch[w]) \in SUBSET (1..MaxMessages) /\ AddRow(2, TextOf(batch[w]), 0)
        BY <1>1, <1>11, <3>1, TextTyped DEF InsertL2
      <3>3. OfLevel(1)' = OfLevel(1) /\ \A i \in OfLevel(1) : rows'[i].end = rows[i].end
        BY <1>1, <3>2, AddedSame
      <3>4. QED BY <1>6, <2>1, <3>3, CoveredSame
    <2>3. QED BY <1>6, <2>1, <2>2, DrainFrame
  <1>12. ASSUME NEW w \in Worker, StampL1s(w)
         PROVE  DrainInv'
    <2>1. PassStep(w) /\ pc[w] = "l2stamp" /\ pc'[w] = "l2"
      BY <1>7, <1>12 DEF StampL1s, PassStep, Turn
    <2>2. Undrained(due)' <=> Undrained(due)
      <3>1. digest[w] \in Nat /\ Stamp(batch[w], digest[w])
        BY <1>1, <1>12 DEF StampL1s, TypeOK
      <3>2. OfLevel(1)' = OfLevel(1) /\ \A i \in OfLevel(1) : rows'[i].end = rows[i].end
        BY <1>1, <3>1, RowsStamped DEF OfLevel
      <3>3. QED BY <1>6, <2>1, <3>2, CoveredSame
    <2>3. QED BY <1>6, <2>1, <2>2, DrainFrame
  <1>13. ASSUME NEW w \in Worker, ReadL2s(w)
         PROVE  DrainInv'
    <2>1. rows' = rows /\ PassStep(w) /\ pc[w] = "l3" /\ pc'[w] \in {"idle", "digest"}
      BY <1>7, <1>13 DEF ReadL2s, PassStep
    <2>2. pc'[w] = "idle" => ~(Cardinality(Unfolded(2)) >= L3Fold)
      <3>1. CASE Cardinality(Unfolded(2)) < L3Fold
        <4>1. Cardinality(Unfolded(2)) \in Nat /\ L3Fold \in Nat
          BY <1>1, UnfoldedFinite, KnobsAssumption
        <4>2. QED BY <3>1, <4>1
      <3>2. CASE Goto(w, "digest")
        BY <1>7, <3>2
      <3>3. QED BY <1>13, <3>1, <3>2 DEF ReadL2s
    <2>3. QED BY <1>3, <1>6, <2>1, <2>2, DrainFrame
  <1>14. ASSUME NEW w \in Worker, ReadDigest(w)
         PROVE  DrainInv'
    <2>1. rows' = rows /\ PassStep(w) /\ pc[w] = "digest" /\ pc'[w] = "l3sum"
      BY <1>7, <1>14 DEF ReadDigest, PassStep
    <2>2. QED BY <1>3, <1>6, <2>1, DrainFrame
  <1>15. ASSUME NEW w \in Worker, RewriteDigest(w)
         PROVE  DrainInv'
    <2>1. PassStep(w) /\ pc[w] = "l3sum" /\ pc'[w] = "l3stamp"
      BY <1>7, <1>15 DEF RewriteDigest, PassStep
    <2>2. digest[w] \in DOMAIN rows /\ batch[w] \in SUBSET DOMAIN rows
      BY <1>2, <1>15 DEF RewriteDigest, PassKept, OfLevel
    <2>3. recalled[w] \cup TextOf(batch[w]) \in SUBSET (1..MaxMessages)
      BY <1>1, <2>2, TextTyped DEF TypeOK
    <2>4. /\ DOMAIN rows' = DOMAIN rows
          /\ \A i \in DOMAIN rows :
               /\ rows'[i].level = rows[i].level /\ rows'[i].end = rows[i].end
               /\ rows'[i].folded = rows[i].folded
      BY <1>1, <1>15, <2>2, <2>3, RowRewritten DEF RewriteDigest
    <2>5. /\ OfLevel(1)' = OfLevel(1) /\ (\A i \in OfLevel(1) : rows'[i].end = rows[i].end)
          /\ Unfolded(1)' = Unfolded(1)
      BY <2>4 DEF OfLevel, Unfolded
    <2>6. Undrained(due)' <=> Undrained(due)
      BY <1>6, <2>1, <2>5, CoveredSame
    <2>7. QED BY <1>6, <2>1, <2>5, <2>6, DrainFrame
  <1>16. ASSUME NEW w \in Worker, InsertDigest(w)
         PROVE  DrainInv'
    <2>1. PassStep(w) /\ pc[w] = "l3sum" /\ pc'[w] = "l3stamp"
      BY <1>7, <1>16 DEF InsertDigest, PassStep
    <2>2. batch[w] \in SUBSET DOMAIN rows
      BY <1>2, <2>1 DEF PassKept, OfLevel
    <2>3. TextOf(batch[w]) \in SUBSET (1..MaxMessages) /\ AddRow(3, TextOf(batch[w]), 0)
      BY <1>1, <1>16, <2>2, TextTyped DEF InsertDigest
    <2>4. /\ OfLevel(1)' = OfLevel(1) /\ (\A i \in OfLevel(1) : rows'[i].end = rows[i].end)
          /\ Unfolded(1)' = Unfolded(1)
      BY <1>1, <2>3, AddedSame
    <2>5. Undrained(due)' <=> Undrained(due)
      BY <1>6, <2>1, <2>4, CoveredSame
    <2>6. QED BY <1>6, <2>1, <2>4, <2>5, DrainFrame
  <1>17. ASSUME NEW w \in Worker, StampL2s(w)
         PROVE  DrainInv'
    <2>1. PassStep(w) /\ pc[w] = "l3stamp" /\ pc'[w] = "l3"
      BY <1>7, <1>17 DEF StampL2s, PassStep, Turn
    <2>2. digest[w] \in Nat /\ Stamp(batch[w], digest[w]) /\ batch[w] \subseteq OfLevel(2)
      BY <1>1, <1>2, <1>17, <2>1 DEF StampL2s, TypeOK, PassKept
    <2>3. /\ DOMAIN rows' = DOMAIN rows
          /\ \A i \in DOMAIN rows :
               /\ rows'[i].level = rows[i].level /\ rows'[i].end = rows[i].end
               /\ rows'[i].folded = IF i \in batch[w] THEN digest[w] ELSE rows[i].folded
      BY <1>1, <2>2, RowsStamped
    <2>4. OfLevel(1)' = OfLevel(1) /\ \A i \in OfLevel(1) : rows'[i].end = rows[i].end
      BY <2>3 DEF OfLevel
    <2>5. Unfolded(1)' = Unfolded(1)
      <3>1. \A i \in OfLevel(1) : i \notin batch[w]
        BY <2>2 DEF OfLevel
      <3>2. QED BY <2>3, <3>1 DEF Unfolded, OfLevel
    <2>6. Undrained(due)' <=> Undrained(due)
      BY <1>6, <2>1, <2>4, CoveredSame
    <2>7. QED BY <1>6, <2>1, <2>5, <2>6, DrainFrame
  <1>18. ASSUME NEW w \in Worker, EmptySummary(w) \/ PassFails(w)
         PROVE  DrainInv'
    <2>1. faults' = faults + 1 /\ UNCHANGED <<messages, due>>
      BY <1>18 DEF EmptySummary, PassFails
    <2>2. faults' # 0 /\ due' <= messages'
      BY <1>1, <2>1
    <2>3. QED BY <2>2 DEF DrainInv
  <1>19. CASE UNCHANGED vars
    <2>1. UNCHANGED <<messages, due, jobs, rows, pc, faults>>
      BY <1>19 DEF vars, passVars
    <2>2. /\ Undrained(due)' <=> Undrained(due)
          /\ Unfolded(1)' = Unfolded(1) /\ Unfolded(2)' = Unfolded(2)
      BY <1>3, <2>1
    <2>3. QED BY <2>1, <2>2 DEF DrainInv
  <1>20. QED
    BY <1>4, <1>5, <1>8, <1>9, <1>10, <1>11, <1>12, <1>13, <1>14, <1>15, <1>16, <1>17,
       <1>18, <1>19 DEF Next, PassStep

-----------------------------------------------------------------------------
(* The theorems. *)

LEMMA FoldInit == Init => FoldInv /\ DrainInv
  <1> SUFFICES ASSUME Init PROVE FoldInv /\ DrainInv
    OBVIOUS
  <1>1. /\ rows = << >> /\ rows \in Seq(Row) /\ Len(rows) = 0 /\ DOMAIN rows = {}
        /\ \A w \in Worker : pc[w] = "idle"
    BY DEF Init
  <1>2. 0 \in 0..MaxMessages /\ 0 \in 0..MaxFaults /\ 0 \in 0..Len(rows)
    BY <1>1, BoundsAssumption
  <1>3. TypeOK
    BY <1>1, <1>2 DEF Init, TypeOK, Stage
  <1>4. \A w \in Worker : PassKept(w)
    BY <1>1 DEF PassKept
  <1>5. RowsKept /\ OneWriter
    BY <1>1 DEF RowsKept, OneWriter, OfLevel
  <1>6. Unfolded(1) = {} /\ Unfolded(2) = {} /\ Cardinality({}) = 0
    BY <1>1, FS_EmptySet DEF Unfolded
  <1>7. ~Undrained(due) /\ due <= messages
    BY KnobsAssumption DEF Init, Undrained
  <1>8. ~(Cardinality(Unfolded(1)) >= L2Fold) /\ ~(Cardinality(Unfolded(2)) >= L3Fold)
    BY <1>6, KnobsAssumption
  <1>9. QED BY <1>3, <1>4, <1>5, <1>7, <1>8 DEF FoldInv, DrainInv

LEMMA FoldSuffices == FoldInv => SummariesOK /\ NothingForgotten
  <1> SUFFICES ASSUME FoldInv PROVE SummariesOK /\ NothingForgotten
    OBVIOUS
  <1>1. TypeOK /\ RowsKept
    BY DEF FoldInv
  <1>2. \A i \in DOMAIN rows : rows[i].level \in 1..3
    <2>1. \A i \in DOMAIN rows : rows[i] \in Row
      BY <1>1, ElementOfSeq, LenProperties DEF TypeOK
    <2>2. QED BY <2>1 DEF Row
  <1>3. FoldedIntoParent
    BY <1>1 DEF RowsKept, FoldedIntoParent
  <1>4. OneDigestUnlessOverlap
    <2> SUFFICES ASSUME ~overlapped PROVE Cardinality(Digests) <= 1
      BY DEF OneDigestUnlessOverlap
    <2>1. CASE Digests = {}
      BY <2>1, FS_EmptySet
    <2>2. CASE Digests # {}
      <3>1. PICK i \in Digests : TRUE
        BY <2>2
      <3>2. Digests = OfLevel(3)
        BY DEF Digests, OfLevel
      <3>3. \A j \in OfLevel(3) : j = i
        BY <1>1, <3>1, <3>2 DEF RowsKept
      <3>4. Digests = {i}
        BY <3>1, <3>2, <3>3
      <3>5. Cardinality({i}) = 1
        BY FS_Singleton
      <3>6. QED BY <3>4, <3>5
    <2>3. QED BY <2>1, <2>2
  <1>5. NothingForgotten
    <2> SUFFICES ASSUME ~overlapped, NEW i \in DOMAIN rows, rows[i].level = 1
                 PROVE  rows[i].text \subseteq TextOf(Visible)
      BY DEF NothingForgotten
    <2>1. \A j \in Visible : rows[j].text \subseteq TextOf(Visible)
      BY DEF TextOf
    <2>2. CASE rows[i].folded = 0
      BY <2>1, <2>2 DEF Visible
    <2>3. CASE rows[i].folded # 0
      <3> DEFINE p == rows[i].folded
      <3>1. p \in DOMAIN rows /\ rows[p].level = 2 /\ rows[i].text \subseteq rows[p].text
        BY <1>1, <2>3 DEF RowsKept
      <3> HIDE DEF p
      <3>2. CASE rows[p].folded = 0
        BY <2>1, <3>1, <3>2 DEF Visible
      <3>3. CASE rows[p].folded # 0
        <4> DEFINE q == rows[p].folded
        <4>1. q \in DOMAIN rows /\ rows[q].level = 3 /\ rows[p].text \subseteq rows[q].text
          BY <1>1, <3>1, <3>3 DEF RowsKept
        <4>2. rows[q].folded = 0
          BY <1>1, <4>1 DEF RowsKept, OfLevel
        <4>3. QED BY <2>1, <3>1, <4>1, <4>2 DEF Visible
      <3>4. QED BY <3>2, <3>3
    <2>4. QED BY <2>2, <2>3
  <1>6. QED BY <1>1, <1>3, <1>4, <1>5 DEF SummariesOK

LEMMA DrainSuffices == FoldInv /\ DrainInv => QuietMeansDrained
  <1> SUFFICES ASSUME FoldInv, DrainInv, faults = 0, jobs = 0, \A w \in Worker : pc[w] = "idle"
               PROVE  /\ due < Trigger \/ Cardinality(Backlog(due)) < Window
                      /\ Cardinality(Unfolded(1)) < L2Fold
                      /\ Cardinality(Unfolded(2)) < L3Fold
    BY DEF QuietMeansDrained
  <1>1. TypeOK /\ due \in Nat /\ {Window, Trigger, L2Fold, L3Fold} \subseteq Nat
    BY BoundsAssumption, KnobsAssumption DEF FoldInv, TypeOK
  <1>2. /\ Cardinality(Unfolded(1)) \in Nat /\ Cardinality(Unfolded(2)) \in Nat
        /\ Cardinality(Backlog(due)) \in Nat
    <2>1. Backlog(due) \in SUBSET (1..due) /\ IsFiniteSet(1..due)
      BY <1>1, FS_Interval DEF Backlog
    <2>2. IsFiniteSet(Backlog(due))
      BY ONLY <2>1, FS_Subset
    <2>3. QED BY <1>1, <2>2, UnfoldedFinite, FS_CardinalityType
  <1>3. ~Undrained(due) /\ ~(Cardinality(Unfolded(1)) >= L2Fold)
        /\ ~(Cardinality(Unfolded(2)) >= L3Fold)
    BY DEF DrainInv
  <1>4. QED BY <1>1, <1>2, <1>3 DEF Undrained

LEMMA FoldInvHolds == Spec => []FoldInv
  BY FoldInit, FoldStep, PTL DEF Spec

(* However passes race for a window or a fold and wherever they die: a row  *)
(* leaves the prompt only for one of the next level that has its text, and  *)
(* there is one digest, unless two passes rewrite it at once.               *)
THEOREM SummariesOKHolds == Spec => []SummariesOK
  BY FoldInvHolds, FoldSuffices, PTL

(* And so every message that was ever summarized is in some summary that    *)
(* the prompt still shows.                                                  *)
THEOREM NothingForgottenHolds == Spec => []NothingForgotten
  BY FoldInvHolds, FoldSuffices, PTL

(* When no pass is enqueued or under way and none failed, what the last one *)
(* was asked to fold is folded, whichever pass did it.                      *)
THEOREM QuietMeansDrainedHolds == Spec => []QuietMeansDrained
  <1>1. Spec => [](FoldInv /\ DrainInv)
    BY FoldInit, FoldStep, DrainStep, PTL DEF Spec
  <1>2. QED BY <1>1, DrainSuffices, PTL
==============================================================================
