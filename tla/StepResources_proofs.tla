------------------------- MODULE StepResources_proofs -------------------------
(***************************************************************************)
(* What the steps of plan executions share with others.  The slots of a    *)
(* root are counted right, for any tree of subagents and any cap: the      *)
(* permits, the holders, the waiters and the references of its semaphore   *)
(* always add up.  The sandboxes are closed, metered and kept apart, for   *)
(* any executions and calls: each has its users, one of whom drops it, and *)
(* what it holds on the host follows from where its calls stand.           *)
(***************************************************************************)
EXTENDS SubagentSlots, Sandboxes, FiniteSetTheorems, SequenceTheorems,
        WellFoundedInduction, TLAPS

-----------------------------------------------------------------------------
(* The slots: the inductive invariant, in parts. *)

(* The waiters of a root are those in its queue, each once. *)
QueueOf(r) ==
  /\ \A i \in 1..Len(queue[r]) : queue[r][i] \in Waiters(r)
  /\ \A a \in Waiters(r) : \E i \in 1..Len(queue[r]) : queue[r][i] = a
  /\ \A i, j \in 1..Len(queue[r]) : queue[r][i] = queue[r][j] => i = j

(* Each permit of a semaphore is free or held, somebody waits only when     *)
(* none is free, and each that came has a reference.                        *)
CountsOf(r) ==
  /\ IsFiniteSet(Holders(r))
  /\ refs[r] = Cardinality(Holders(r)) + Len(queue[r])
  /\ r \in registry <=> refs[r] > 0
  /\ r \in registry => free[r] + Cardinality(Holders(r)) = Cap
  /\ queue[r] # << >> => free[r] = 0

RootsStarted == \A r \in Root : stage[r] \in {"running", "ended"}

SlotInv ==
  /\ TypeOK
  /\ RootsStarted
  /\ \A r \in Root : QueueOf(r) /\ CountsOf(r)

LEMMA RemovedAt ==
  ASSUME NEW S, NEW s \in Seq(S), NEW i \in 1..Len(s)
  PROVE  /\ RemoveAt(s, i) \in Seq(S)
         /\ Len(RemoveAt(s, i)) = Len(s) - 1
         /\ \A j \in 1..(Len(s) - 1) :
              RemoveAt(s, i)[j] = IF j < i THEN s[j] ELSE s[j + 1]
  <1> DEFINE front == SubSeq(s, 1, i - 1)
             back == SubSeq(s, i + 1, Len(s))
  <1>1. Len(s) \in Nat /\ \A j \in 1..Len(s) : s[j] \in S
    BY LenProperties, ElementOfSeq
  <1>2. /\ front \in Seq(S) /\ Len(front) = i - 1
        /\ \A j \in 1..(i - 1) : front[j] = s[j]
    <2>1. \A j \in 1..(i - 1) : s[j] \in S
      BY <1>1
    <2>2. QED BY <2>1, <1>1, SubSeqProperties
  <1>3. /\ back \in Seq(S) /\ Len(back) = Len(s) - i
        /\ \A j \in 1..(Len(s) - i) : back[j] = s[j + i]
    <2>1. \A j \in (i + 1)..Len(s) : s[j] \in S
      BY <1>1
    <2>2. /\ SubSeq(s, i + 1, Len(s)) \in Seq(S)
          /\ Len(SubSeq(s, i + 1, Len(s))) =
               IF i + 1 <= Len(s) THEN Len(s) - (i + 1) + 1 ELSE 0
          /\ \A j \in 1..(Len(s) - (i + 1) + 1) :
               SubSeq(s, i + 1, Len(s))[j] = s[(i + 1) + j - 1]
      BY <2>1, <1>1, SubSeqProperties
    <2>3. QED BY <2>2, <1>1
  <1>4. RemoveAt(s, i) = front \o back
    BY DEF RemoveAt
  <1>5. /\ front \o back \in Seq(S)
        /\ Len(front \o back) = Len(front) + Len(back)
        /\ \A j \in 1..(Len(front) + Len(back)) :
             (front \o back)[j] = IF j <= Len(front) THEN front[j]
                                                     ELSE back[j - Len(front)]
    BY <1>2, <1>3, ConcatProperties
  <1> HIDE DEF front, back
  <1>6. ASSUME NEW j \in 1..(Len(s) - 1)
        PROVE  RemoveAt(s, i)[j] = IF j < i THEN s[j] ELSE s[j + 1]
    <2>1. CASE j < i
      BY <2>1, <1>1, <1>2, <1>3, <1>4, <1>5
    <2>2. CASE ~(j < i)
      <3>1. j - (i - 1) \in 1..(Len(s) - i)
        BY <2>2, <1>1
      <3>2. (front \o back)[j] = back[j - (i - 1)]
        BY <2>2, <1>1, <1>2, <1>3, <1>5
      <3>3. back[j - (i - 1)] = s[j - (i - 1) + i]
        BY <3>1, <1>3
      <3>4. j - (i - 1) + i = j + 1
        BY <1>1
      <3>5. QED BY <2>2, <3>2, <3>3, <3>4, <1>4
    <2>3. QED BY <2>1, <2>2
  <1>7. QED BY <1>1, <1>2, <1>3, <1>4, <1>5, <1>6

(* What leaves a root's slots as they are keeps its counts. *)
LEMMA SlotsUntouched ==
  ASSUME NEW r, QueueOf(r), CountsOf(r),
         Holders(r)' = Holders(r), Waiters(r)' = Waiters(r),
         queue'[r] = queue[r], refs'[r] = refs[r], free'[r] = free[r],
         r \in registry' <=> r \in registry
  PROVE  QueueOf(r)' /\ CountsOf(r)'
  BY DEF QueueOf, CountsOf

LEMMA SlotInit == Init => SlotInv
  <1> SUFFICES ASSUME Init PROVE SlotInv
    OBVIOUS
  <1>1. TypeOK
    <2>1. (CHOOSE r \in Root : TRUE) \in Root
      BY SlotsAssumption
    <2>2. << >> \in Seq(Agent)
      BY EmptySeq
    <2>3. QED BY <2>1, <2>2, SlotsAssumption DEF Init, TypeOK
  <1>2. RootsStarted
    BY SlotsAssumption DEF Init, RootsStarted
  <1>3. ASSUME NEW r \in Root
        PROVE  QueueOf(r) /\ CountsOf(r)
    <2>1. Holders(r) = {} /\ Waiters(r) = {}
      BY DEF Init, Holders, Waiters
    <2>2. queue[r] = << >> /\ Len(queue[r]) = 0 /\ refs[r] = 0 /\ registry = {}
      BY EmptySeq DEF Init
    <2>3. IsFiniteSet(Holders(r)) /\ Cardinality(Holders(r)) = 0
      BY <2>1, FS_EmptySet
    <2>4. QED BY <2>1, <2>2, <2>3 DEF QueueOf, CountsOf
  <1>4. QED BY <1>1, <1>2, <1>3 DEF SlotInv

(* What a root's counts mean for one that comes: a permit is left only if   *)
(* nobody waits, and none is left only in a semaphore that is there.        *)
LEMMA PermitsLeft ==
  ASSUME SlotInv, NEW r \in Root
  PROVE  /\ Permits(r) \in 0..Cap
         /\ IsFiniteSet(Holders(r)) /\ Cardinality(Holders(r)) \in Nat
         /\ Len(queue[r]) \in Nat /\ queue[r] \in Seq(Agent)
         /\ Permits(r) > 0 => queue[r] = << >> /\ Len(queue[r]) = 0
         /\ Permits(r) = 0 => r \in registry /\ free[r] = 0
         /\ Permits(r) + Cardinality(Holders(r)) = Cap
  <1>1. /\ free[r] \in 0..Cap /\ refs[r] \in Nat /\ queue[r] \in Seq(Agent)
        /\ Cap \in Nat \ {0}
    BY SlotsAssumption DEF SlotInv, TypeOK
  <1>2. QueueOf(r) /\ CountsOf(r)
    BY DEF SlotInv
  <1>3. /\ Len(queue[r]) \in Nat
        /\ queue[r] # << >> => Len(queue[r]) \in Nat \ {0}
        /\ queue[r] = << >> => Len(queue[r]) = 0
    BY <1>1, EmptySeq, LenProperties
  <1>4. IsFiniteSet(Holders(r)) /\ Cardinality(Holders(r)) \in Nat
    BY <1>2, FS_CardinalityType DEF CountsOf
  <1>5. CASE r \in registry
    BY <1>1, <1>2, <1>3, <1>4, <1>5 DEF CountsOf, Permits
  <1>6. CASE r \notin registry
    <2>1. refs[r] = 0
      BY <1>1, <1>2, <1>6 DEF CountsOf
    <2>2. Cardinality(Holders(r)) = 0 /\ Len(queue[r]) = 0
      BY <2>1, <1>2, <1>3, <1>4 DEF CountsOf
    <2>3. QED BY <2>2, <1>1, <1>3, <1>4, <1>6 DEF Permits
  <1>7. QED BY <1>5, <1>6

(* A spawn leaves the types right. *)
LEMMA SpawnTypes ==
  ASSUME SlotInv, NEW a \in Agent, NEW c \in Agent, Spawn(a, c)
  PROVE  TypeOK'
  <1> DEFINE r == root[a]
  <1>1. r \in Root
    BY DEF SlotInv, TypeOK
  <1>2. /\ Permits(r) \in 0..Cap /\ Permits(r) \in Nat /\ Cap \in Nat
        /\ queue[r] \in Seq(Agent)
    BY <1>1, PermitsLeft, SlotsAssumption
  <1>3. Append(queue[r], c) \in Seq(Agent)
    BY <1>2, AppendProperties
  <1>4. (stage \in [Agent -> {"absent", "waiting", "running", "ended"}])'
    BY DEF Spawn, SlotInv, TypeOK
  <1>5. (parent \in [Agent -> Agent \cup {NoAgent}])'
    BY DEF Spawn, SlotInv, TypeOK
  <1>6. (root \in [Agent -> Root])'
    BY DEF Spawn, SlotInv, TypeOK
  <1>7. (depth \in [Agent -> 0..MaxDepth])'
    <2>1. /\ depth \in [Agent -> 0..MaxDepth] /\ depth[a] < MaxDepth
          /\ depth' = [depth EXCEPT ![c] = depth[a] + 1]
      BY DEF Spawn, SlotInv, TypeOK
    <2>2. depth[a] + 1 \in 0..MaxDepth
      BY <2>1, SlotsAssumption
    <2>3. QED BY <2>1, <2>2
  <1>8. (registry \subseteq Root)'
    BY <1>1 DEF Spawn, SlotInv, TypeOK
  <1>9. (refs \in [Root -> Nat])'
    <2>1. refs \in [Root -> Nat] /\ refs' = [refs EXCEPT ![r] = refs[r] + 1]
      BY <1>1 DEF Spawn, SlotInv, TypeOK
    <2>2. refs[r] + 1 \in Nat
      BY <1>1, <2>1
    <2>3. QED BY <2>1, <2>2
  <1>10. (free \in [Root -> 0..Cap])'
    <2>1. /\ free \in [Root -> 0..Cap]
          /\ \/ Permits(r) > 0 /\ free' = [free EXCEPT ![r] = Permits(r) - 1]
             \/ free' = free
      BY DEF Spawn, SlotInv, TypeOK
    <2>2. Permits(r) > 0 => Permits(r) - 1 \in 0..Cap
      BY <1>2
    <2>3. QED BY <2>1, <2>2
  <1>11. (queue \in [Root -> Seq(Agent)])'
    <2>1. /\ queue \in [Root -> Seq(Agent)]
          /\ \/ queue' = queue
             \/ queue' = [queue EXCEPT ![r] = Append(queue[r], c)]
      BY <1>1 DEF Spawn, SlotInv, TypeOK
    <2>2. QED BY <1>3, <2>1
  <1>12. (aborted \subseteq Root)'
    BY DEF Spawn, SlotInv, TypeOK
  <1>13. QED BY <1>4, <1>5, <1>6, <1>7, <1>8, <1>9, <1>10, <1>11, <1>12 DEF TypeOK

LEMMA SpawnKeeps ==
  ASSUME SlotInv, NEW a \in Agent, NEW c \in Agent, Spawn(a, c),
         NEW r \in Root, r = root[a]
  PROVE  SlotInv'
  <1>1. r \in Root
    OBVIOUS
  <1>2. c \notin Root /\ stage[c] = "absent"
    BY DEF SlotInv, RootsStarted, Spawn
  <1>3. /\ Permits(r) \in 0..Cap
        /\ IsFiniteSet(Holders(r)) /\ Cardinality(Holders(r)) \in Nat
        /\ Len(queue[r]) \in Nat /\ queue[r] \in Seq(Agent)
        /\ Permits(r) > 0 => queue[r] = << >> /\ Len(queue[r]) = 0
        /\ Permits(r) = 0 => r \in registry /\ free[r] = 0
        /\ Permits(r) + Cardinality(Holders(r)) = Cap
    BY <1>1, PermitsLeft
  <1>4. /\ refs' = [refs EXCEPT ![r] = @ + 1]
        /\ registry' = registry \cup {r}
        /\ root' = [root EXCEPT ![c] = r]
        /\ depth' = [depth EXCEPT ![c] = depth[a] + 1] /\ depth[a] < MaxDepth
        /\ parent' = [parent EXCEPT ![c] = a] /\ aborted' = aborted
    BY DEF Spawn
  <1>5. c \notin Holders(r) /\ \A s \in Root : c \notin Waiters(s)
    BY <1>2 DEF Holders, Waiters
  <1>6. refs'[r] = refs[r] + 1 /\ refs'[r] > 0 /\ r \in registry'
    BY <1>1, <1>4 DEF SlotInv, TypeOK
  <1>7. CASE Permits(r) > 0
    <2>1. /\ free' = [free EXCEPT ![r] = Permits(r) - 1]
          /\ stage' = [stage EXCEPT ![c] = "running"] /\ queue' = queue
      BY <1>7 DEF Spawn
    <2>2. TypeOK'
      BY SpawnTypes
    <2>3. RootsStarted'
      BY <1>2, <2>1 DEF SlotInv, TypeOK, RootsStarted
    <2>4. /\ Holders(r)' = Holders(r) \cup {c}
          /\ \A s \in Root \ {r} : Holders(s)' = Holders(s)
          /\ \A s \in Root : Waiters(s)' = Waiters(s)
      BY <1>1, <1>2, <1>4, <2>1 DEF Holders, Waiters, SlotInv, TypeOK
    <2>5. QueueOf(r)' /\ CountsOf(r)'
      <3>1. QueueOf(r)'
        BY <1>1, <2>1, <2>4 DEF SlotInv, QueueOf
      <3>2. /\ IsFiniteSet(Holders(r)')
            /\ Cardinality(Holders(r)') = Cardinality(Holders(r)) + 1
        BY <1>3, <1>5, <2>4, FS_AddElement
      <3>3. /\ refs[r] = Cardinality(Holders(r)) + Len(queue[r])
            /\ free'[r] = Permits(r) - 1 /\ queue'[r] = << >>
        BY <1>1, <1>3, <1>7, <2>1 DEF SlotInv, CountsOf, TypeOK
      <3>4. QED BY <1>3, <1>6, <1>7, <2>1, <3>1, <3>2, <3>3 DEF CountsOf
    <2>6. ASSUME NEW s \in Root \ {r} PROVE QueueOf(s)' /\ CountsOf(s)'
      <3>1. /\ queue'[s] = queue[s] /\ refs'[s] = refs[s] /\ free'[s] = free[s]
            /\ s \in registry' <=> s \in registry
        BY <1>1, <1>4, <2>1, <2>6 DEF SlotInv, TypeOK
      <3>2. QueueOf(s) /\ CountsOf(s)
        BY DEF SlotInv
      <3>3. QED BY <2>4, <2>6, <3>1, <3>2, SlotsUntouched
    <2>7. QED BY <2>2, <2>3, <2>5, <2>6 DEF SlotInv
  <1>8. CASE ~(Permits(r) > 0)
    <2>1. /\ queue' = [queue EXCEPT ![r] = Append(@, c)]
          /\ stage' = [stage EXCEPT ![c] = "waiting"] /\ free' = free
      BY <1>8 DEF Spawn
    <2>2. /\ queue'[r] = Append(queue[r], c) /\ queue'[r] \in Seq(Agent)
          /\ Len(queue'[r]) = Len(queue[r]) + 1
          /\ \A i \in 1..Len(queue[r]) : queue'[r][i] = queue[r][i]
          /\ queue'[r][Len(queue[r]) + 1] = c
      <3>1. queue'[r] = Append(queue[r], c)
        BY <1>1, <2>1 DEF SlotInv, TypeOK
      <3>2. QED BY <1>3, <3>1, AppendProperties
    <2>3. TypeOK'
      BY SpawnTypes
    <2>4. RootsStarted'
      BY <1>2, <2>1 DEF SlotInv, TypeOK, RootsStarted
    <2>5. /\ Waiters(r)' = Waiters(r) \cup {c}
          /\ \A s \in Root \ {r} : Waiters(s)' = Waiters(s)
          /\ \A s \in Root : Holders(s)' = Holders(s)
      BY <1>1, <1>2, <1>4, <2>1 DEF Holders, Waiters, SlotInv, TypeOK
    <2>6. QueueOf(r)' /\ CountsOf(r)'
      <3>1. QueueOf(r) /\ CountsOf(r)
        BY <1>1 DEF SlotInv
      <3>2. \A i \in 1..Len(queue[r]) : queue[r][i] # c
        BY <1>1, <1>5, <3>1 DEF QueueOf
      <3>3. \A i \in 1..Len(queue'[r]) : i \in 1..Len(queue[r]) \/ i = Len(queue[r]) + 1
        BY <1>3, <2>2
      <3>4. QueueOf(r)'
        <4>1. \A i \in 1..Len(queue'[r]) : queue'[r][i] \in Waiters(r)'
          BY <2>2, <2>5, <3>1, <3>3 DEF QueueOf
        <4>2. \A b \in Waiters(r)' : \E i \in 1..Len(queue'[r]) : queue'[r][i] = b
          <5>1. \A i \in 1..Len(queue[r]) : i \in 1..Len(queue'[r])
            BY <1>3, <2>2
          <5>2. Len(queue[r]) + 1 \in 1..Len(queue'[r])
            BY <1>3, <2>2
          <5>3. QED BY <2>2, <2>5, <3>1, <5>1, <5>2 DEF QueueOf
        <4>3. \A i, j \in 1..Len(queue'[r]) : queue'[r][i] = queue'[r][j] => i = j
          BY <2>2, <3>1, <3>2, <3>3 DEF QueueOf
        <4>4. QED BY <4>1, <4>2, <4>3 DEF QueueOf
      <3>5. CountsOf(r)'
        <4>1. Permits(r) = 0
          BY <1>3, <1>8
        <4>2. free'[r] = 0 /\ r \in registry /\ Holders(r)' = Holders(r)
          BY <1>1, <1>3, <2>1, <2>5, <4>1
        <4>3. QED BY <1>3, <1>6, <2>1, <2>2, <3>1, <4>2 DEF CountsOf
      <3>6. QED BY <3>4, <3>5
    <2>7. ASSUME NEW s \in Root \ {r} PROVE QueueOf(s)' /\ CountsOf(s)'
      <3>1. /\ queue'[s] = queue[s] /\ refs'[s] = refs[s] /\ free'[s] = free[s]
            /\ s \in registry' <=> s \in registry
        BY <1>1, <1>4, <2>1, <2>7 DEF SlotInv, TypeOK
      <3>2. QueueOf(s) /\ CountsOf(s)
        BY DEF SlotInv
      <3>3. QED BY <2>5, <2>7, <3>1, <3>2, SlotsUntouched
    <2>8. QED BY <2>3, <2>4, <2>6, <2>7 DEF SlotInv
  <1>9. QED BY <1>7, <1>8

(* One reference less, and the entry goes with the last. *)
LEMMA Unregistered ==
  ASSUME SlotInv, NEW r \in Root, Unregister(r), refs[r] > 0
  PROVE  /\ refs' \in [Root -> Nat] /\ registry' \subseteq Root
         /\ refs'[r] = refs[r] - 1
         /\ r \in registry' <=> refs'[r] > 0
         /\ \A s \in Root \ {r} : /\ refs'[s] = refs[s]
                                  /\ s \in registry' <=> s \in registry
  <1>1. /\ refs \in [Root -> Nat] /\ registry \subseteq Root
        /\ refs' = [refs EXCEPT ![r] = refs[r] - 1]
    BY DEF SlotInv, TypeOK, Unregister
  <1>2. refs[r] \in Nat /\ refs[r] - 1 \in Nat
    BY <1>1
  <1>3. /\ refs' \in [Root -> Nat] /\ refs'[r] = refs[r] - 1
        /\ \A s \in Root \ {r} : refs'[s] = refs[s]
    BY <1>1, <1>2
  <1>4. r \in registry
    BY DEF SlotInv, CountsOf
  <1>5. registry' = IF refs[r] - 1 <= 0 THEN registry \ {r} ELSE registry
    BY DEF Unregister
  <1>6. QED BY <1>1, <1>2, <1>3, <1>4, <1>5

(* A queue that loses one waiter keeps the others, in their order. *)
LEMMA QueueShrinks ==
  ASSUME NEW r, QueueOf(r), Len(queue[r]) \in Nat, NEW i \in 1..Len(queue[r]),
         Len(queue'[r]) = Len(queue[r]) - 1,
         \A j \in 1..(Len(queue[r]) - 1) :
           queue'[r][j] = IF j < i THEN queue[r][j] ELSE queue[r][j + 1],
         Waiters(r)' = Waiters(r) \ {queue[r][i]}
  PROVE  QueueOf(r)'
  <1>1. ASSUME NEW j \in 1..Len(queue'[r])
        PROVE  \E k \in 1..Len(queue[r]) :
                 /\ k # i /\ queue'[r][j] = queue[r][k]
                 /\ k = IF j < i THEN j ELSE j + 1
    <2>1. CASE j < i
      BY <2>1
    <2>2. CASE ~(j < i)
      <3>1. j + 1 \in 1..Len(queue[r]) /\ j + 1 # i
        BY <2>2
      <3>2. QED BY <2>2, <3>1
    <2>3. QED BY <2>1, <2>2
  <1>2. \A j \in 1..Len(queue'[r]) : queue'[r][j] \in Waiters(r)'
    BY <1>1 DEF QueueOf
  <1>3. ASSUME NEW b \in Waiters(r)'
        PROVE  \E j \in 1..Len(queue'[r]) : queue'[r][j] = b
    <2>1. PICK k \in 1..Len(queue[r]) : queue[r][k] = b
      BY <1>3 DEF QueueOf
    <2>2. k # i
      BY <1>3, <2>1
    <2>3. CASE k < i
      <3>1. k \in 1..Len(queue'[r]) /\ k \in 1..(Len(queue[r]) - 1)
        BY <2>3
      <3>2. queue'[r][k] = queue[r][k]
        BY <2>3, <3>1
      <3>3. QED BY <2>1, <3>1, <3>2
    <2>4. CASE ~(k < i)
      <3>1. /\ k - 1 \in 1..Len(queue'[r]) /\ k - 1 \in 1..(Len(queue[r]) - 1)
            /\ ~(k - 1 < i) /\ (k - 1) + 1 = k
        BY <2>2, <2>4
      <3>2. queue'[r][k - 1] = queue[r][k]
        BY <3>1
      <3>3. QED BY <2>1, <3>1, <3>2
    <2>5. QED BY <2>3, <2>4
  <1>4. ASSUME NEW j \in 1..Len(queue'[r]), NEW k \in 1..Len(queue'[r]),
               queue'[r][j] = queue'[r][k]
        PROVE  j = k
    <2>1. PICK m \in 1..Len(queue[r]) :
            queue'[r][j] = queue[r][m] /\ m = IF j < i THEN j ELSE j + 1
      BY <1>1
    <2>2. PICK n \in 1..Len(queue[r]) :
            queue'[r][k] = queue[r][n] /\ n = IF k < i THEN k ELSE k + 1
      BY <1>1
    <2>3. m = n
      BY <1>4, <2>1, <2>2 DEF QueueOf
    <2>4. QED BY <2>1, <2>2, <2>3
  <1>5. QED BY <1>2, <1>3, <1>4 DEF QueueOf

(* A child that leaves has a slot, so that its root has an entry and a      *)
(* reference.                                                               *)
LEMMA HolderLeaves ==
  ASSUME SlotInv, NEW r \in Root, NEW a \in Holders(r)
  PROVE  /\ refs[r] \in Nat /\ refs[r] > 0 /\ r \in registry
         /\ refs[r] = Cardinality(Holders(r)) + Len(queue[r])
         /\ free[r] + Cardinality(Holders(r)) = Cap
         /\ Cardinality(Holders(r)) \in Nat \ {0}
         /\ IsFiniteSet(Holders(r) \ {a})
         /\ Cardinality(Holders(r) \ {a}) = Cardinality(Holders(r)) - 1
  <1>1. CountsOf(r) /\ refs[r] \in Nat
    BY DEF SlotInv, TypeOK
  <1>2. Len(queue[r]) \in Nat /\ Cardinality(Holders(r)) \in Nat
    BY PermitsLeft
  <1>3. /\ IsFiniteSet(Holders(r) \ {a})
        /\ Cardinality(Holders(r) \ {a}) = Cardinality(Holders(r)) - 1
    BY <1>1, FS_RemoveElement DEF CountsOf
  <1>4. Cardinality(Holders(r) \ {a}) \in Nat
    BY <1>3, FS_CardinalityType
  <1>5. QED BY <1>1, <1>2, <1>3, <1>4 DEF CountsOf

(* The end of a task the user submitted touches no slot. *)
LEMMA RootEnds ==
  ASSUME SlotInv, NEW a \in Root, End(a)
  PROVE  SlotInv'
  <1>1. stage' = [stage EXCEPT ![a] = "ended"] /\ UNCHANGED <<slotVars, treeVars, aborted>>
    BY DEF End
  <1>2. TypeOK'
    BY <1>1 DEF SlotInv, TypeOK, slotVars, treeVars
  <1>3. RootsStarted'
    BY <1>1 DEF SlotInv, TypeOK, RootsStarted
  <1>4. ASSUME NEW s \in Root PROVE QueueOf(s)' /\ CountsOf(s)'
    <2>1. Holders(s)' = Holders(s) /\ Waiters(s)' = Waiters(s)
      BY <1>1 DEF Holders, Waiters, SlotInv, TypeOK, treeVars
    <2>2. QueueOf(s) /\ CountsOf(s)
      BY DEF SlotInv
    <2>3. QED BY <1>1, <2>1, <2>2, SlotsUntouched DEF slotVars
  <1>5. QED BY <1>2, <1>3, <1>4 DEF SlotInv

(* A child that ends with nobody waiting frees its slot. *)
LEMMA ChildFreesSlot ==
  ASSUME SlotInv, NEW a \in Agent \ Root, End(a),
         NEW r \in Root, r = root[a], queue[r] = << >>
  PROVE  SlotInv'
  <1>1. /\ stage[a] = "running" /\ Unregister(r)
        /\ stage' = [stage EXCEPT ![a] = "ended"]
        /\ free' = [free EXCEPT ![r] = free[r] + 1]
        /\ UNCHANGED <<queue, treeVars, aborted>>
    BY DEF End, Release, SlotInv, TypeOK
  <1>2. a \in Holders(r)
    BY <1>1 DEF Holders
  <1>3. /\ refs[r] \in Nat /\ refs[r] > 0
        /\ refs[r] = Cardinality(Holders(r)) + Len(queue[r])
        /\ free[r] + Cardinality(Holders(r)) = Cap
        /\ Cardinality(Holders(r)) \in Nat \ {0}
        /\ IsFiniteSet(Holders(r) \ {a})
        /\ Cardinality(Holders(r) \ {a}) = Cardinality(Holders(r)) - 1
    BY <1>2, HolderLeaves
  <1>4. /\ refs' \in [Root -> Nat] /\ registry' \subseteq Root
        /\ refs'[r] = refs[r] - 1 /\ (r \in registry' <=> refs'[r] > 0)
        /\ \A s \in Root \ {r} : /\ refs'[s] = refs[s]
                                 /\ s \in registry' <=> s \in registry
    BY <1>1, <1>3, Unregistered
  <1>5. free[r] \in 0..Cap /\ Cap \in Nat /\ free[r] + 1 \in 0..Cap
    <2>1. free[r] \in 0..Cap /\ Cap \in Nat
      BY SlotsAssumption DEF SlotInv, TypeOK
    <2>2. QED BY <1>3, <2>1
  <1>6. /\ free' \in [Root -> 0..Cap] /\ free'[r] = free[r] + 1
        /\ \A s \in Root \ {r} : free'[s] = free[s]
    BY <1>1, <1>5 DEF SlotInv, TypeOK
  <1>7. TypeOK'
    BY <1>1, <1>4, <1>6 DEF SlotInv, TypeOK, treeVars
  <1>8. RootsStarted'
    BY <1>1 DEF SlotInv, TypeOK, RootsStarted
  <1>9. /\ Holders(r)' = Holders(r) \ {a}
        /\ \A s \in Root \ {r} : Holders(s)' = Holders(s)
        /\ \A s \in Root : Waiters(s)' = Waiters(s)
    BY <1>1 DEF Holders, Waiters, SlotInv, TypeOK, treeVars
  <1>10. QueueOf(r)' /\ CountsOf(r)'
    <2>1. QueueOf(r)'
      BY <1>1, <1>9 DEF SlotInv, QueueOf
    <2>2. Len(queue[r]) = 0 /\ queue'[r] = << >> /\ Len(queue'[r]) = 0
      BY <1>1, EmptySeq
    <2>3. QED BY <1>3, <1>4, <1>5, <1>6, <1>9, <2>1, <2>2 DEF CountsOf
  <1>11. ASSUME NEW s \in Root \ {r} PROVE QueueOf(s)' /\ CountsOf(s)'
    <2>1. QueueOf(s) /\ CountsOf(s)
      BY DEF SlotInv
    <2>2. QED BY <1>1, <1>4, <1>6, <1>9, <1>11, <2>1, SlotsUntouched
  <1>12. QED BY <1>7, <1>8, <1>10, <1>11 DEF SlotInv

(* A child that ends hands its slot to the one that came first. *)
LEMMA ChildHandsSlotOn ==
  ASSUME SlotInv, NEW a \in Agent \ Root, End(a),
         NEW r \in Root, r = root[a], queue[r] # << >>,
         NEW h, h = queue[r][1]
  PROVE  SlotInv'
  <1>1. /\ stage[a] = "running" /\ Unregister(r)
        /\ stage' = [stage EXCEPT ![a] = "ended", ![h] = "running"]
        /\ queue' = [queue EXCEPT ![r] = Tail(queue[r])]
        /\ UNCHANGED <<free, treeVars, aborted>>
    BY DEF End, Release, SlotInv, TypeOK
  <1>2. a \in Holders(r)
    BY <1>1 DEF Holders
  <1>3. /\ refs[r] \in Nat /\ refs[r] > 0
        /\ refs[r] = Cardinality(Holders(r)) + Len(queue[r])
        /\ free[r] + Cardinality(Holders(r)) = Cap
        /\ Cardinality(Holders(r)) \in Nat \ {0}
        /\ IsFiniteSet(Holders(r) \ {a})
        /\ Cardinality(Holders(r) \ {a}) = Cardinality(Holders(r)) - 1
    BY <1>2, HolderLeaves
  <1>4. /\ refs' \in [Root -> Nat] /\ registry' \subseteq Root
        /\ refs'[r] = refs[r] - 1 /\ (r \in registry' <=> refs'[r] > 0)
        /\ \A s \in Root \ {r} : /\ refs'[s] = refs[s]
                                 /\ s \in registry' <=> s \in registry
    BY <1>1, <1>3, Unregistered
  <1>5. /\ queue[r] \in Seq(Agent) /\ Len(queue[r]) \in Nat \ {0}
        /\ QueueOf(r) /\ CountsOf(r)
    BY EmptySeq, LenProperties DEF SlotInv, TypeOK
  <1>6. /\ queue' \in [Root -> Seq(Agent)] /\ queue'[r] = Tail(queue[r])
        /\ \A s \in Root \ {r} : queue'[s] = queue[s]
    <2>1. queue \in [Root -> Seq(Agent)]
      BY DEF SlotInv, TypeOK
    <2>2. Tail(queue[r]) \in Seq(Agent)
      BY <1>5, HeadTailProperties
    <2>3. QED BY <1>1, <2>1, <2>2
  <1>7. /\ Len(queue'[r]) = Len(queue[r]) - 1
        /\ \A j \in 1..(Len(queue[r]) - 1) : queue'[r][j] = queue[r][j + 1]
    BY <1>5, <1>6, HeadTailProperties
  <1>8. h \in Waiters(r) /\ h \in Agent \ Root /\ h # a /\ stage[h] = "waiting"
        /\ root[h] = r
    <2>1. h \in Waiters(r)
      BY <1>5 DEF QueueOf
    <2>2. QED BY <1>1, <2>1 DEF Waiters
  <1>9. TypeOK'
    BY <1>1, <1>4, <1>6 DEF SlotInv, TypeOK, treeVars
  <1>10. RootsStarted'
    <2>1. \A s \in Root : stage'[s] = stage[s]
      BY <1>1, <1>8, SlotsAssumption DEF SlotInv, TypeOK
    <2>2. QED BY <2>1 DEF SlotInv, RootsStarted
  <1>11. /\ Holders(r)' = (Holders(r) \ {a}) \cup {h}
         /\ Waiters(r)' = Waiters(r) \ {queue[r][1]}
         /\ \A s \in Root \ {r} : /\ Holders(s)' = Holders(s)
                                  /\ Waiters(s)' = Waiters(s)
    <2>1. /\ root' = root /\ stage'[a] = "ended" /\ stage'[h] = "running"
          /\ \A b \in Agent \ {a, h} : stage'[b] = stage[b]
      BY <1>1, <1>8 DEF SlotInv, TypeOK, treeVars
    <2>2. Holders(r)' = (Holders(r) \ {a}) \cup {h}
      BY <1>8, <2>1 DEF Holders
    <2>3. Waiters(r)' = Waiters(r) \ {h}
      BY <1>1, <2>1 DEF Waiters
    <2>4. \A s \in Root \ {r} : Holders(s)' = Holders(s)
      BY <1>8, <2>1 DEF Holders
    <2>5. \A s \in Root \ {r} : Waiters(s)' = Waiters(s)
      BY <1>8, <2>1 DEF Waiters
    <2>6. QED BY <2>2, <2>3, <2>4, <2>5
  <1>12. QueueOf(r)' /\ CountsOf(r)'
    <2>1. QueueOf(r)'
      <3>1. /\ 1 \in 1..Len(queue[r])
            /\ \A j \in 1..(Len(queue[r]) - 1) :
                 queue'[r][j] = IF j < 1 THEN queue[r][j] ELSE queue[r][j + 1]
        BY <1>5, <1>7
      <3>2. QED BY <1>5, <1>7, <1>11, <3>1, QueueShrinks
    <2>2. h \notin Holders(r) \ {a}
      BY <1>8 DEF Holders
    <2>3. /\ IsFiniteSet(Holders(r)')
          /\ Cardinality(Holders(r)') = Cardinality(Holders(r))
      <3>1. /\ IsFiniteSet((Holders(r) \ {a}) \cup {h})
            /\ Cardinality((Holders(r) \ {a}) \cup {h}) =
                 Cardinality(Holders(r) \ {a}) + 1
        BY <1>3, <2>2, FS_AddElement
      <3>2. Cardinality(Holders(r) \ {a}) + 1 = Cardinality(Holders(r))
        BY <1>3
      <3>3. QED BY <1>11, <3>1, <3>2
    <2>4. free'[r] = free[r] /\ free[r] = 0
      BY <1>1, <1>5 DEF CountsOf
    <2>5. QED BY <1>3, <1>4, <1>5, <1>7, <2>1, <2>3, <2>4 DEF CountsOf
  <1>13. ASSUME NEW s \in Root \ {r} PROVE QueueOf(s)' /\ CountsOf(s)'
    <2>1. QueueOf(s) /\ CountsOf(s)
      BY DEF SlotInv
    <2>2. QED BY <1>1, <1>4, <1>6, <1>11, <1>13, <2>1, SlotsUntouched
  <1>14. QED BY <1>9, <1>10, <1>12, <1>13 DEF SlotInv

(* A cancelled waiter leaves the queue, from wherever it stands. *)
LEMMA GiveUpKeeps ==
  ASSUME SlotInv, NEW a \in Agent, GiveUp(a), NEW r \in Root, r = root[a]
  PROVE  SlotInv'
  <1>1. PICK i \in 1..Len(queue[r]) :
          queue[r][i] = a /\ queue' = [queue EXCEPT ![r] = RemoveAt(queue[r], i)]
    BY DEF GiveUp, SlotInv, TypeOK
  <1>2. /\ stage[a] = "waiting" /\ Unregister(r)
        /\ stage' = [stage EXCEPT ![a] = "ended"]
        /\ UNCHANGED <<free, treeVars, aborted>>
    BY DEF GiveUp
  <1>3. /\ queue[r] \in Seq(Agent) /\ Len(queue[r]) \in Nat /\ Len(queue[r]) > 0
        /\ QueueOf(r) /\ CountsOf(r) /\ refs[r] \in Nat
        /\ IsFiniteSet(Holders(r)) /\ Cardinality(Holders(r)) \in Nat
    <2>1. QueueOf(r) /\ CountsOf(r) /\ refs[r] \in Nat
      BY DEF SlotInv, TypeOK
    <2>2. /\ queue[r] \in Seq(Agent) /\ Len(queue[r]) \in Nat
          /\ IsFiniteSet(Holders(r)) /\ Cardinality(Holders(r)) \in Nat
      BY PermitsLeft
    <2>3. Len(queue[r]) > 0
      BY <2>2
    <2>4. QED BY <2>1, <2>2, <2>3
  <1>4. refs[r] = Cardinality(Holders(r)) + Len(queue[r]) /\ refs[r] > 0
    BY <1>3 DEF CountsOf
  <1>5. /\ refs' \in [Root -> Nat] /\ registry' \subseteq Root
        /\ refs'[r] = refs[r] - 1 /\ (r \in registry' <=> refs'[r] > 0)
        /\ \A s \in Root \ {r} : /\ refs'[s] = refs[s]
                                 /\ s \in registry' <=> s \in registry
    BY <1>2, <1>4, Unregistered
  <1>6. /\ RemoveAt(queue[r], i) \in Seq(Agent)
        /\ Len(RemoveAt(queue[r], i)) = Len(queue[r]) - 1
        /\ \A j \in 1..(Len(queue[r]) - 1) :
             RemoveAt(queue[r], i)[j] = IF j < i THEN queue[r][j]
                                                 ELSE queue[r][j + 1]
    <2>1. queue[r] \in Seq(Agent) /\ i \in 1..Len(queue[r])
      BY <1>3
    <2>2. QED BY ONLY <2>1, RemovedAt
  <1>7. /\ queue' \in [Root -> Seq(Agent)] /\ queue'[r] = RemoveAt(queue[r], i)
        /\ \A s \in Root \ {r} : queue'[s] = queue[s]
    <2>1. queue \in [Root -> Seq(Agent)]
      BY DEF SlotInv, TypeOK
    <2>2. QED BY <1>1, <1>6, <2>1
  <1>8. a \notin Root
    BY <1>2 DEF SlotInv, RootsStarted
  <1>9. TypeOK'
    BY <1>2, <1>5, <1>7 DEF SlotInv, TypeOK, treeVars
  <1>10. RootsStarted'
    BY <1>2, <1>8 DEF SlotInv, TypeOK, RootsStarted
  <1>11. /\ Waiters(r)' = Waiters(r) \ {queue[r][i]}
         /\ \A s \in Root \ {r} : Waiters(s)' = Waiters(s)
         /\ \A s \in Root : Holders(s)' = Holders(s)
    BY <1>1, <1>2 DEF Holders, Waiters, SlotInv, TypeOK, treeVars
  <1>12. QueueOf(r)' /\ CountsOf(r)'
    <2>1. QueueOf(r)'
      BY <1>1, <1>3, <1>6, <1>7, <1>11, QueueShrinks
    <2>2. Len(queue'[r]) = Len(queue[r]) - 1 /\ Holders(r)' = Holders(r)
      BY <1>6, <1>7, <1>11
    <2>3. queue[r] # << >>
      BY <1>3, EmptySeq
    <2>4. free'[r] = free[r] /\ free[r] = 0
      BY <1>2, <1>3, <2>3 DEF CountsOf
    <2>5. r \in registry /\ free[r] + Cardinality(Holders(r)) = Cap
      BY <1>3, <1>4 DEF CountsOf
    <2>6. refs'[r] = Cardinality(Holders(r)) + Len(queue'[r])
      BY <1>3, <1>4, <1>5, <2>2
    <2>7. QED BY <1>3, <1>5, <2>1, <2>2, <2>4, <2>5, <2>6 DEF CountsOf
  <1>13. ASSUME NEW s \in Root \ {r} PROVE QueueOf(s)' /\ CountsOf(s)'
    <2>1. QueueOf(s) /\ CountsOf(s)
      BY DEF SlotInv
    <2>2. QED BY <1>2, <1>5, <1>7, <1>11, <1>13, <2>1, SlotsUntouched
  <1>14. QED BY <1>9, <1>10, <1>12, <1>13 DEF SlotInv

LEMMA SlotStep == SlotInv /\ [Next]_vars => SlotInv'
  <1> SUFFICES ASSUME SlotInv, [Next]_vars PROVE SlotInv'
    OBVIOUS
  <1>1. \A a \in Agent : root[a] \in Root
    BY DEF SlotInv, TypeOK
  <1>2. ASSUME NEW a \in Agent, NEW c \in Agent, Spawn(a, c) PROVE SlotInv'
    BY <1>1, <1>2, SpawnKeeps
  <1>3. ASSUME NEW a \in Agent, End(a) PROVE SlotInv'
    <2>1. CASE a \in Root
      BY <1>3, <2>1, RootEnds
    <2>2. CASE a \notin Root /\ queue[root[a]] = << >>
      BY <1>1, <1>3, <2>2, ChildFreesSlot
    <2>3. CASE a \notin Root /\ queue[root[a]] # << >>
      BY <1>1, <1>3, <2>3, ChildHandsSlotOn
    <2>4. QED BY <2>1, <2>2, <2>3
  <1>4. ASSUME NEW a \in Agent, GiveUp(a) PROVE SlotInv'
    BY <1>1, <1>4, GiveUpKeeps
  <1>5. ASSUME UNCHANGED <<stage, treeVars, slotVars>>, aborted' \subseteq Root
        PROVE  SlotInv'
    <2>1. TypeOK' /\ RootsStarted'
      BY <1>5 DEF SlotInv, TypeOK, RootsStarted, treeVars, slotVars
    <2>2. ASSUME NEW s \in Root PROVE QueueOf(s)' /\ CountsOf(s)'
      <3>1. Holders(s)' = Holders(s) /\ Waiters(s)' = Waiters(s)
        BY <1>5 DEF Holders, Waiters, treeVars
      <3>2. QueueOf(s) /\ CountsOf(s)
        BY DEF SlotInv
      <3>3. QED BY <1>5, <3>1, <3>2, SlotsUntouched DEF slotVars
    <2>3. QED BY <2>1, <2>2 DEF SlotInv
  <1>6. ASSUME NEW r \in Root, Abort(r) PROVE SlotInv'
    <2>1. UNCHANGED <<stage, treeVars, slotVars>> /\ aborted' \subseteq Root
      BY <1>6 DEF Abort, SlotInv, TypeOK
    <2>2. QED BY <1>5, <2>1
  <1>7. CASE UNCHANGED vars
    <2>1. UNCHANGED <<stage, treeVars, slotVars>> /\ aborted' \subseteq Root
      BY <1>7 DEF vars, SlotInv, TypeOK
    <2>2. QED BY <1>5, <2>1
  <1>8. QED BY <1>2, <1>3, <1>4, <1>6, <1>7 DEF Next

LEMMA SlotInvHolds == Spec => []SlotInv
  BY SlotInit, SlotStep, PTL DEF Spec

(* What the counts say of the holders and of the waiters of each root. *)
LEMMA CountsSuffice == SlotInv => SlotsOK /\ NoIdleSlot
  <1> SUFFICES ASSUME SlotInv PROVE SlotsOK /\ NoIdleSlot
    OBVIOUS
  <1>1. ASSUME NEW r \in Root
        PROVE  /\ Cardinality(Holders(r)) <= Cap
               /\ Waiters(r) # {} => Cardinality(Holders(r)) >= Cap
               /\ r \in registry <=> Holders(r) \cup Waiters(r) # {}
    <2>1. /\ QueueOf(r) /\ CountsOf(r) /\ refs[r] \in Nat /\ free[r] \in 0..Cap
          /\ Cap \in Nat /\ queue[r] \in Seq(Agent)
      BY SlotsAssumption DEF SlotInv, TypeOK
    <2>2. /\ IsFiniteSet(Holders(r)) /\ Cardinality(Holders(r)) \in Nat
          /\ Len(queue[r]) \in Nat
      BY PermitsLeft
    <2>3. Holders(r) = {} <=> Cardinality(Holders(r)) = 0
      BY <2>2, FS_EmptySet
    <2>4. Waiters(r) # {} <=> Len(queue[r]) > 0
      BY <2>1, <2>2 DEF QueueOf
    <2>5. r \in registry <=> Holders(r) \cup Waiters(r) # {}
      BY <2>1, <2>2, <2>3, <2>4 DEF CountsOf
    <2>6. Cardinality(Holders(r)) <= Cap
      BY <2>1, <2>2, <2>3, <2>5 DEF CountsOf
    <2>7. Len(queue[r]) > 0 => queue[r] # << >>
      BY EmptySeq
    <2>8. Waiters(r) # {} => Cardinality(Holders(r)) >= Cap
      BY <2>1, <2>2, <2>4, <2>5, <2>7 DEF CountsOf
    <2>9. QED BY <2>5, <2>6, <2>8
  <1>2. QED BY <1>1 DEF SlotInv, SlotsOK, CapHolds, RegistryExact, NoIdleSlot

(* For any set of tasks, cap and depth, a root never runs more than Cap     *)
(* subagents at once, and _subagent_semaphores has an entry exactly for the *)
(* roots with subagents in flight, through any order of spawns, endings,    *)
(* hand-overs and cancellations.                                            *)
THEOREM SlotsOKHolds == Spec => []SlotsOK
  BY SlotInvHolds, CountsSuffice, PTL

(* No wake-up is lost: a subagent waits only while all Cap slots of its     *)
(* root are taken, whoever ends or gives up and in whatever order.          *)
THEOREM NoIdleSlotHolds == Spec => []NoIdleSlot
  BY SlotInvHolds, CountsSuffice, PTL

-----------------------------------------------------------------------------
(* The sandboxes: the inductive invariant, in parts. *)

(* A call under way is one of an execution that uses its sandbox and still  *)
(* runs, unless a thread only goes on starting an environment for nobody.   *)
CallKept(c) ==
  /\ IF call[c].stage = "idle" THEN call[c].heard = NoCall /\ call[c].product = NoCall
                               ELSE call[c].on \in Box
  /\ call[c].stage \in Active =>
       /\ call[c].on \in Box /\ call[c].by \in box[call[c].on].users
       /\ call[c].stage = "stray" <=> exec[call[c].by].stage # "running"
       /\ call[c].stage = "stray" => backend = "remote" /\ box[call[c].on].aborted
       /\ call[c].stage = "starting" => call[c].then # "none"
                                         /\ (backend = "subprocess" => call[c].then = "sent")
       /\ call[c].stage = "queued" => backend = "subprocess"

(* The sandbox of a key is used by executions of that key, all running.     *)
TableKept ==
  \A k \in Key : table[k] # NoBox =>
    /\ box[table[k]].made /\ box[table[k]].users # {}
    /\ \A u \in box[table[k]].users : exec[u].stage = "running" /\ keyOf[u] = k

(* It is dropped once, by one of them.                                      *)
VictimKept ==
  \A e \in Exec :
    /\ exec[e].stage \in {"closing", "recording"} => exec[e].victim # NoBox
    /\ exec[e].victim # NoBox =>
         /\ exec[e].stage # "running" /\ e \in box[exec[e].victim].users
         /\ box[exec[e].victim].made
         /\ \A f \in Exec : exec[f].victim = exec[e].victim => f = e

UsersKept(b) ==
  /\ IsFiniteSet(box[b].users)
  /\ \A u, v \in box[b].users : keyOf[u] = keyOf[v]
  /\ box[b].made => (\E k \in Key : table[k] = b) \/ \E e \in Exec : exec[e].victim = b
  /\ ~box[b].made => box[b].users = {}

(* A sandbox some call was cancelled in has a user that is over; if no two  *)
(* calls ever used it at once, nothing goes on in it but a stray start.     *)
AbortKept(b) ==
  box[b].aborted =>
    /\ \E u \in box[b].users : exec[u].stage # "running"
    /\ ~box[b].overlap => \A c \in ActiveOn(b) : call[c].stage = "stray"

(* The child of the subprocess provider is used by the holder of the lock,  *)
(* and gone for good once the sandbox is closed.                            *)
ChildKept(b) ==
  /\ \A c \in Call : call[c].on = b /\ call[c].stage \in {"starting", "sent"} =>
       /\ Holds(c, box[b]) /\ ~box[b].gone
       /\ call[c].stage = "sent" => box[b].pipe # << >>
       /\ call[c].stage = "sent" /\ ~box[b].aborted => box[b].pipe = <<c>>
  /\ ~box[b].aborted /\ (\A c \in Call : call[c].on = b => call[c].stage # "sent") =>
       box[b].pipe = << >>
  /\ box[b].gone => box[b].alive = 0 /\ ~box[b].handle
  /\ \A e \in Exec : exec[e].victim = b /\ exec[e].stage \in {"recording", "closed"} => box[b].gone

(* A sandbox of one execution, no two of whose calls ran at once, none was  *)
(* cancelled and nothing failed.                                            *)
Single(b) == \A u, v \in box[b].users : u = v
Orderly(b) == faults = 0 /\ ~box[b].overlap /\ ~box[b].aborted /\ Single(b)

(* The environment of the other providers is the one referred to.           *)
EnvironmentKept(b) ==
  /\ box[b].handle => box[b].alive >= 1
  /\ \A e \in Exec : exec[e].victim = b /\ exec[e].stage = "closing" => box[b].handle
  /\ Orderly(b) =>
       /\ box[b].alive = IF box[b].handle THEN 1 ELSE 0
       /\ \A c \in Call : call[c].on = b /\ call[c].stage = "starting" => ~box[b].handle
       /\ \A e \in Exec : exec[e].victim = b /\ exec[e].stage \in {"recording", "closed"} =>
            ~box[b].handle

(* Calls that never ran at once find their own inputs and output.           *)
OutputKept(b) ==
  ~box[b].overlap =>
    /\ \A c, d \in ActiveOn(b) : c = d
    /\ \A c \in ActiveOn(b) : ~box[b].aborted =>
         /\ /\ call[c].kind = "artifact"
            /\ \/ call[c].stage \in {"queued", "sent", "reading"}
               \/ call[c].stage = "starting" /\ call[c].then # "staging"
            => box[b].inputs = c
         /\ \/ call[c].stage = "reading"
            \/ call[c].stage = "starting" /\ call[c].then = "reading"
            => box[b].output = c

(* The seconds a teardown read are all there are, if nobody else was there. *)
SecondsKept(e) ==
  LET b == exec[e].victim IN
  /\ metered[e] # 0 => exec[e].victim # NoBox /\ metered[e] = exec[e].seen
  /\ exec[e].victim # NoBox =>
       /\ exec[e].seen <= box[b].elapsed
       /\ Single(b) => exec[e].seen = box[b].elapsed
       /\ exec[e].stage = "closed" /\ faults = 0 => metered[e] = exec[e].seen

SandboxInv ==
  /\ SandboxTypeOK /\ (\A c \in Call : CallKept(c)) /\ TableKept /\ VictimKept
  /\ \A b \in Box : /\ UsersKept(b) /\ AbortKept(b) /\ OutputKept(b)
                    /\ backend = "subprocess" => ChildKept(b)
                    /\ backend = "remote" => EnvironmentKept(b)
  /\ ToolCallsApart
  /\ \A e \in Exec : SecondsKept(e)

-----------------------------------------------------------------------------
(* Taking calls out of the queue. *)
LEMMA LeastNumber ==
  ASSUME NEW T \in SUBSET Nat, T # {}
  PROVE  \E x \in T : \A y \in T : x <= y
  <1> DEFINE R == OpToRel(<, Nat)
  <1>1. R = {ss \in Nat \X Nat : ss[1] < ss[2]}
    BY DEF OpToRel
  <1>2. IsWellFoundedOn(R, Nat)
    BY NatLessThanWellFounded
  <1> HIDE DEF R
  <1>3. PICK x \in T : \A y \in T : <<y, x>> \notin R
    BY <1>2, WFMin
  <1>4. \A y \in T : ~(y < x)
    BY <1>1, <1>3
  <1> QED BY <1>3, <1>4

(* Every place of the shorter queue is that of one who stays: the least     *)
(* number below which enough of them stand is the place before the next.    *)
LEMMA EveryRankIsTaken ==
  ASSUME NEW l \in Nat, NEW K \in SUBSET (1..l), NEW n \in 1..Cardinality(K)
  PROVE  \E i \in K : Cardinality({j \in K : j < i}) = n - 1
  <1> DEFINE Upto(m) == {j \in K : j <= m}
             Enough == {m \in Nat : Cardinality(Upto(m)) >= n}
  <1>0. \A j \in K : j \in Nat /\ j >= 1 /\ j <= l
    OBVIOUS
  <1>1. IsFiniteSet(K) /\ Cardinality(K) \in Nat /\ n \in Nat /\ n >= 1 /\ n <= Cardinality(K)
    <2>1. IsFiniteSet(1..l)
      BY FS_Interval
    <2>2. IsFiniteSet(K)
      BY <2>1, FS_Subset
    <2> QED BY <2>2, FS_CardinalityType
  <1>2. \A m \in Nat : IsFiniteSet(Upto(m)) /\ Cardinality(Upto(m)) \in Nat
    <2> SUFFICES ASSUME NEW m \in Nat PROVE IsFiniteSet(Upto(m)) /\ Cardinality(Upto(m)) \in Nat
      OBVIOUS
    <2>1. Upto(m) \in SUBSET K
      OBVIOUS
    <2> HIDE DEF Upto
    <2> QED BY <1>1, <2>1, FS_Subset, FS_CardinalityType
  <1>3. l \in Enough
    <2>1. Upto(l) = K
      BY <1>0
    <2> QED BY <1>1, <2>1
  <1>4. PICK m \in Enough : \A k \in Enough : m <= k
    <2>1. Enough \in SUBSET Nat /\ Enough # {}
      BY <1>3
    <2> HIDE DEF Enough
    <2> QED BY <2>1, LeastNumber
  <1>5. m \in Nat /\ Cardinality(Upto(m)) >= n
    BY <1>4
  <1>6. m # 0
    <2>1. Upto(0) = {}
      <3>1. \A j \in K : ~(j <= 0)
        BY <1>0
      <3> QED BY <3>1
    <2>2. Cardinality(Upto(0)) = 0
      BY <2>1, FS_EmptySet
    <2> HIDE DEF Upto
    <2> QED BY <1>1, <1>5, <2>2
  <1>7. m - 1 \in Nat /\ m - 1 \notin Enough
    <2>1. m - 1 \in Nat
      BY <1>5, <1>6
    <2>2. ~(m <= m - 1)
      BY <1>5
    <2> HIDE DEF Enough
    <2> QED BY <1>4, <2>1, <2>2
  <1>8. Cardinality(Upto(m - 1)) < n
    <2>1. Cardinality(Upto(m - 1)) \in Nat /\ ~(Cardinality(Upto(m - 1)) >= n)
      BY <1>2, <1>7
    <2> HIDE DEF Upto
    <2> QED BY <1>1, <2>1
  <1>9. m \in K
    <2> SUFFICES ASSUME m \notin K PROVE FALSE
      OBVIOUS
    <2>1. \A j \in K : j <= m <=> j <= m - 1
      BY <1>0, <1>5
    <2>2. Upto(m) = Upto(m - 1)
      BY <2>1
    <2>3. Cardinality(Upto(m - 1)) \in Nat
      BY <1>2, <1>7
    <2> HIDE DEF Upto
    <2> QED BY <1>1, <1>5, <1>8, <2>2, <2>3
  <1>10. Upto(m) = Upto(m - 1) \cup {m} /\ m \notin Upto(m - 1)
    <2>1. \A j \in K : j <= m <=> (j <= m - 1 \/ j = m)
      BY <1>0, <1>5
    <2>2. ~(m <= m - 1)
      BY <1>5
    <2> QED BY <1>9, <2>1, <2>2
  <1>11. Cardinality(Upto(m)) = Cardinality(Upto(m - 1)) + 1
    <2> HIDE DEF Upto
    <2> QED BY <1>2, <1>7, <1>10, FS_AddElement
  <1>12. Cardinality(Upto(m - 1)) = n - 1
    <2>1. Cardinality(Upto(m - 1)) \in Nat
      BY <1>2, <1>7
    <2> HIDE DEF Upto
    <2> QED BY <1>1, <1>5, <1>8, <1>11, <2>1
  <1>13. {j \in K : j < m} = Upto(m - 1)
    <2>1. \A j \in K : (j < m) <=> (j <= m - 1)
      BY <1>0, <1>5
    <2> QED BY <2>1
  <1> QED BY <1>9, <1>12, <1>13

LEMMA WithoutIsQueue ==
  ASSUME NEW T, NEW s \in Seq(T), NEW S
  PROVE  /\ Without(s, S) \in Seq(T)
         /\ s # << >> /\ Head(s) \notin S =>
              Without(s, S) # << >> /\ Head(Without(s, S)) = Head(s)
  <1> DEFINE K == {i \in DOMAIN s : s[i] \notin S}
             Place(n) == CHOOSE i \in K : Cardinality({j \in K : j < i}) = n - 1
             w == Without(s, S)
  <1>1. Len(s) \in Nat /\ DOMAIN s = 1..Len(s) /\ K \in SUBSET (1..Len(s))
    BY LenProperties
  <1>2. IsFiniteSet(K) /\ Cardinality(K) \in Nat
    <2>1. IsFiniteSet(1..Len(s))
      BY <1>1, FS_Interval
    <2>2. IsFiniteSet(K)
      BY <1>1, <2>1, FS_Subset
    <2> QED BY <2>2, FS_CardinalityType
  <1>3. w = [n \in 1..Cardinality(K) |-> s[Place(n)]]
    BY DEF Without
  <1>4. ASSUME NEW n \in 1..Cardinality(K)
        PROVE  Place(n) \in K /\ Cardinality({j \in K : j < Place(n)}) = n - 1
    <2>1. \E i \in K : Cardinality({j \in K : j < i}) = n - 1
      BY <1>1, EveryRankIsTaken
    <2> QED BY <2>1
  <1>5. \A n \in 1..Cardinality(K) : s[Place(n)] \in T
    BY <1>1, <1>4, ElementOfSeq
  <1>6. w \in Seq(T)
    <2> HIDE DEF Place, K, w
    <2> QED BY <1>2, <1>3, <1>5, IsASeq
  <1>7. ASSUME s # << >>, Head(s) \notin S PROVE w # << >> /\ Head(w) = Head(s)
    <2>1. Len(s) > 0 /\ Head(s) = s[1]
      BY <1>1, <1>7, EmptySeq
    <2>2. 1 \in K
      BY <1>1, <1>7, <2>1
    <2>3. Cardinality(K) # 0
      BY <1>2, <2>2, FS_EmptySet
    <2>4. 1 \in 1..Cardinality(K)
      BY <1>2, <2>3
    <2>5. Place(1) = 1
      <3>1. Place(1) \in K /\ Cardinality({j \in K : j < Place(1)}) = 0
        <4>1. Place(1) \in K /\ Cardinality({j \in K : j < Place(1)}) = 1 - 1
          BY <1>4, <2>4
        <4> HIDE DEF Place
        <4> QED BY <4>1
      <3> HIDE DEF Place
      <3>2. {j \in K : j < Place(1)} \in SUBSET K
        OBVIOUS
      <3>3. IsFiniteSet({j \in K : j < Place(1)})
        BY <1>2, <3>2, FS_Subset
      <3>4. {j \in K : j < Place(1)} = {}
        BY <3>1, <3>3, FS_EmptySet
      <3> QED BY <1>1, <2>2, <3>1, <3>4
    <2>6. DOMAIN w = 1..Cardinality(K) /\ w[1] = s[1]
      <3> HIDE DEF Place, K, w
      <3> QED BY <1>3, <2>4, <2>5
    <2> HIDE DEF Place, K, w
    <2>7. w # << >>
      <3>1. 1 \in DOMAIN w
        BY <2>4, <2>6
      <3>2. DOMAIN w = 1..Len(w) /\ Len(w) \in Nat
        BY <1>6, LenProperties
      <3> QED BY <3>1, <3>2, EmptySeq
    <2>8. Head(w) = w[1]
      BY <1>6, <2>7
    <2> QED BY <2>1, <2>6, <2>7, <2>8
  <1> QED BY <1>6, <1>7


LEMMA AppendKeepsHead ==
  ASSUME NEW T, NEW q \in Seq(T), NEW c \in T
  PROVE  Append(q, c) # << >> /\ (q # << >> => Head(Append(q, c)) = Head(q))
  <1>1. /\ Append(q, c) # << >> /\ Append(q, c) \in Seq(T)
        /\ q # << >> => Append(q, c)[1] = q[1]
    BY AppendProperties, EmptySeq
  <1> QED BY <1>1

-----------------------------------------------------------------------------
(* What the steps of a call do to its record and its sandbox's. *)
CallStage == Active \cup {"idle", "done", "failed", "cancelled"}
CallRecord == [stage : CallStage, then : {"none", "staging", "sent", "reading"},
               kind : {"python", "artifact"}, by : Exec \cup {NoCall},
               on : Box \cup {NoBox}, heard : Call \cup {NoCall}, product : Call \cup {NoCall}]
BoxRecord == [made : BOOLEAN, handle : BOOLEAN, alive : Nat, gone : BOOLEAN,
              queue : Seq(Call \cup Exec), pipe : Seq(Call), elapsed : Nat,
              inputs : Call \cup {NoCall}, output : Call \cup {NoCall},
              users : SUBSET Exec, overlap : BOOLEAN, aborted : BOOLEAN]
ExecRecord == [stage : {"running", "closing", "recording", "closed"},
               victim : Box \cup {NoBox}, seen : Nat]

LEMMA RecordsTyped ==
  ASSUME SandboxTypeOK
  PROVE  /\ call \in [Call -> CallRecord] /\ box \in [Box -> BoxRecord]
         /\ exec \in [Exec -> ExecRecord] /\ table \in [Key -> Box \cup {NoBox}]
         /\ backend \in {"subprocess", "remote"} /\ keyOf \in [Exec -> Key]
         /\ metered \in [Exec -> Nat] /\ faults \in 0..MaxFaults /\ faults \in Nat
  BY SandboxesAssumption DEF SandboxTypeOK, CallRecord, BoxRecord, ExecRecord, CallStage

SameCall(r, q) ==
  /\ r.kind = q.kind /\ r.by = q.by /\ r.on = q.on
  /\ r.heard = q.heard /\ r.product = q.product

SameUse(s, x) ==
  /\ s.made = x.made /\ s.users = x.users /\ s.overlap = x.overlap
  /\ s.aborted = x.aborted /\ s.gone = x.gone

SameChild(s, x) == s.handle = x.handle /\ s.alive = x.alive /\ s.pipe = x.pipe

SameFiles(s, x) == s.inputs = x.inputs /\ s.output = x.output

(* Entering the next operation with the record q of a call, its sandbox     *)
(* being s: n holds both afterwards.                                        *)
Entered(n, q, s, next, c) ==
  /\ n[1] \in CallRecord /\ n[2] \in BoxRecord
  /\ SameCall(n[1], q) /\ SameUse(n[2], s) /\ SameChild(n[2], s) /\ SameFiles(n[2], s)
  /\ n[2].elapsed = s.elapsed
  /\ \/ /\ backend = "remote" /\ ~s.handle /\ n[2].queue = s.queue
        /\ n[1].stage = "starting" /\ n[1].then = next
     \/ /\ backend = "subprocess" /\ next = "sent" /\ n[2].queue = Append(s.queue, c)
        /\ n[1].stage = "queued" /\ n[1].then = q.then
     \/ /\ (backend = "subprocess" /\ next # "sent") \/ (backend = "remote" /\ s.handle)
        /\ n[1].stage = next /\ n[1].then = q.then /\ n[2].queue = s.queue

LEMMA Enters ==
  ASSUME backend \in {"subprocess", "remote"}, NEW q \in CallRecord, NEW s \in BoxRecord,
         NEW next \in {"staging", "sent", "reading"}, NEW c \in Call
  PROVE  Entered(Enter(q, s, next, c), q, s, next, c)
  <1> DEFINE n == Enter(q, s, next, c)
  <1> USE DEF Entered, SameCall, SameUse, SameChild, SameFiles
  <1>1. CASE backend = "remote" /\ ~s.handle
    <2>1. PICK st \in CallStage : st = "starting"
      BY DEF CallStage, Active
    <2> DEFINE r == [q EXCEPT !.stage = st, !.then = next]
    <2>2. n = <<r, s>>
      BY <1>1, <2>1 DEF Enter
    <2>3. r \in CallRecord /\ SameCall(r, q) /\ r.stage = st /\ r.then = next
      BY DEF CallRecord
    <2> HIDE DEF n, r
    <2>4. n[1] = r /\ n[2] = s
      BY <2>2
    <2> QED BY <1>1, <2>1, <2>3, <2>4 DEF n
  <1>2. CASE backend = "subprocess" /\ next = "sent"
    <2>1. PICK st \in CallStage : st = "queued"
      BY DEF CallStage, Active
    <2> DEFINE r == [q EXCEPT !.stage = st]
    <2>0. PICK p : p = Append(s.queue, c)
      OBVIOUS
    <2>00. p \in Seq(Call \cup Exec)
      <3>1. s.queue \in Seq(Call \cup Exec)
        BY DEF BoxRecord
      <3> QED BY <2>0, <3>1, AppendProperties
    <2> DEFINE t == [s EXCEPT !.queue = p]
    <2>2. n = <<r, t>>
      BY <1>2, <2>0, <2>1 DEF Enter
    <2>3. r \in CallRecord /\ SameCall(r, q) /\ r.stage = st /\ r.then = q.then
      BY DEF CallRecord
    <2>4. /\ t \in BoxRecord /\ SameUse(t, s) /\ SameChild(t, s) /\ SameFiles(t, s)
          /\ t.elapsed = s.elapsed /\ t.queue = p
      BY <2>00 DEF BoxRecord
    <2> HIDE DEF n, r, t
    <2>5. n[1] = r /\ n[2] = t
      BY <2>2
    <2> QED BY <1>2, <2>0, <2>1, <2>3, <2>4, <2>5 DEF n
  <1>3. CASE (backend = "subprocess" /\ next # "sent") \/ (backend = "remote" /\ s.handle)
    <2>1. PICK st \in CallStage : st = next
      BY DEF CallStage, Active
    <2> DEFINE r == [q EXCEPT !.stage = st]
    <2>2. n = <<r, s>>
      BY <1>3, <2>1 DEF Enter
    <2>3. r \in CallRecord /\ SameCall(r, q) /\ r.stage = st /\ r.then = q.then
      BY DEF CallRecord
    <2> HIDE DEF n, r
    <2>4. n[1] = r /\ n[2] = s
      BY <2>2
    <2> QED BY <1>3, <2>1, <2>3, <2>4 DEF n
  <1> QED BY <1>1, <1>2, <1>3

(* A step of c touches c and its sandbox alone.                             *)
Moved(c) ==
  /\ call' \in [Call -> CallRecord] /\ box' \in [Box -> BoxRecord]
  /\ \A d \in Call \ {c} : call'[d] = call[d]
  /\ \A b \in Box \ {call[c].on} : box'[b] = box[b]

LEMMA CallUpdated ==
  ASSUME SandboxTypeOK, NEW c \in Call, call[c].on \in Box,
         NEW r \in CallRecord, NEW s \in BoxRecord,
         call' = [call EXCEPT ![c] = r], box' = [box EXCEPT ![call[c].on] = s]
  PROVE  Moved(c) /\ call'[c] = r /\ box'[call[c].on] = s
  <1>1. call \in [Call -> CallRecord] /\ box \in [Box -> BoxRecord]
    BY RecordsTyped
  <1> HIDE DEF CallRecord, BoxRecord
  <1> QED BY <1>1 DEF Moved

LEMMA Finishes ==
  ASSUME SandboxTypeOK, NEW c \in Call, call[c].on \in Box,
         NEW st \in CallStage, NEW s \in BoxRecord, Finish(c, s, st)
  PROVE  /\ Moved(c) /\ box'[call[c].on] = s
         /\ SameCall(call'[c], call[c]) /\ call'[c].stage = st /\ call'[c].then = call[c].then
  <1> DEFINE r == [call[c] EXCEPT !.stage = st]
  <1>1. call \in [Call -> CallRecord] /\ call[c] \in CallRecord
    BY RecordsTyped
  <1>2. r \in CallRecord /\ SameCall(r, call[c]) /\ r.stage = st /\ r.then = call[c].then
    BY <1>1 DEF CallRecord, SameCall
  <1>3. call' = [call EXCEPT ![c] = r] /\ box' = [box EXCEPT ![call[c].on] = s]
    BY <1>1 DEF Finish
  <1> HIDE DEF r
  <1> QED BY <1>2, <1>3, CallUpdated

LEMMA Proceeds ==
  ASSUME SandboxTypeOK, NEW c \in Call, call[c].on \in Box,
         NEW s \in BoxRecord, NEW next \in {"staging", "sent", "reading"}, Proceed(c, s, next)
  PROVE  /\ Moved(c)
         /\ call'[c] = Enter(call[c], s, next, c)[1]
         /\ box'[call[c].on] = Enter(call[c], s, next, c)[2]
  <1> DEFINE n == Enter(call[c], s, next, c)
  <1>1. backend \in {"subprocess", "remote"} /\ call[c] \in CallRecord
    BY RecordsTyped
  <1>2. n[1] \in CallRecord /\ n[2] \in BoxRecord
    BY <1>1, Enters DEF Entered
  <1>3. call' = [call EXCEPT ![c] = n[1]] /\ box' = [box EXCEPT ![call[c].on] = n[2]]
    BY DEF Proceed
  <1> HIDE DEF n
  <1>4. Moved(c) /\ call'[c] = n[1] /\ box'[call[c].on] = n[2]
    BY <1>2, <1>3, CallUpdated
  <1> QED BY <1>4 DEF n

-----------------------------------------------------------------------------
(* A step of a call, seen from its neighbours, its child, its environment   *)
(* and its files.                                                           *)
Answer(c) == IF backend = "subprocess" THEN Head(box[call[c].on].pipe) ELSE c

CallFrame(c) ==
  LET y == call[c]  z == call'[c]  x == box[y.on]  w == box'[y.on] IN
  /\ Moved(c) /\ y.on \in Box /\ y.stage \in Active
  /\ UNCHANGED <<backend, keyOf, exec, table, metered>>
  /\ faults' \in 0..MaxFaults /\ (faults' = 0 => faults = 0)
  /\ z.on = y.on /\ z.by = y.by /\ z.kind = y.kind /\ z.stage # "idle"
  /\ w.made = x.made /\ w.users = x.users /\ w.overlap = x.overlap /\ w.aborted = x.aborted
  /\ w.gone = x.gone
  /\ w.elapsed = x.elapsed \/ (y.stage = "sent" /\ w.elapsed = x.elapsed + 1)
  /\ z.stage \in Active => y.stage # "stray" /\ z.stage # "stray"
  /\ z.stage = "starting" => z.then # "none" /\ (backend = "subprocess" => z.then = "sent")
  /\ z.stage = "queued" => backend = "subprocess"

ChildView(c) ==
  LET y == call[c]  z == call'[c]  x == box[y.on]  w == box'[y.on] IN
  \/ /\ y.stage \notin {"starting", "sent"} /\ z.stage \notin {"starting", "sent"}
     /\ w.queue = x.queue \/ w.queue = Append(x.queue, c)
     /\ SameChild(w, x)
  \/ /\ y.stage = "queued" /\ Holds(c, x) /\ z.stage = "failed" /\ w.queue = Tail(x.queue)
     /\ SameChild(w, x)
  \/ /\ y.stage = "queued" /\ Holds(c, x) /\ z.stage = "sent" /\ w.queue = x.queue /\ x.handle
     /\ w.pipe = Append(x.pipe, c) /\ w.handle = x.handle /\ w.alive = x.alive
  \/ /\ y.stage = "queued" /\ Holds(c, x) /\ z.stage = "starting" /\ w.queue = x.queue
     /\ ~x.gone /\ SameChild(w, x)
  \/ /\ y.stage = "starting" /\ z.stage = "sent" /\ w.queue = x.queue
     /\ w.pipe = <<c>>
  \/ /\ y.stage = "sent" /\ z.stage \notin {"starting", "sent"} /\ w.queue = Tail(x.queue)
     /\ \/ w.pipe = Tail(x.pipe) /\ w.handle = x.handle /\ w.alive = x.alive
        \/ w.pipe = << >> /\ ~w.handle /\ w.alive = 0

EnvironmentView(c) ==
  LET y == call[c]  z == call'[c]  x == box[y.on]  w == box'[y.on] IN
  \/ /\ z.stage # "starting" \/ ~x.handle
     /\ w.handle = x.handle /\ w.alive = x.alive
  \/ /\ y.stage = "starting" /\ z.stage # "starting" /\ w.handle /\ w.alive = x.alive + 1
  \/ /\ y.stage = "stray" /\ z.stage = "cancelled" /\ w.handle = x.handle
     /\ w.alive = x.alive + 1

FilesView(c) ==
  LET y == call[c]  z == call'[c]  x == box[y.on]  w == box'[y.on] IN
  \/ z.stage \notin Active /\ z.product = y.product /\ z.heard = y.heard
  \/ /\ y.stage = "reading" /\ z.stage = "done" /\ z.product = x.output /\ z.heard = y.heard
  \/ /\ y.stage = "sent" /\ z.stage = "done" /\ z.heard = Answer(c) /\ z.product = y.product
  \/ /\ y.stage = "staging" /\ w.inputs = c /\ z.product = y.product /\ z.heard = y.heard
     /\ z.stage \in {"queued", "sent"} \/ (z.stage = "starting" /\ z.then = "sent")
  \/ /\ y.stage = "queued" /\ SameFiles(w, x) /\ z.product = y.product /\ z.heard = y.heard
     /\ z.stage = "sent" \/ (z.stage = "starting" /\ z.then = "sent")
  \/ /\ y.stage = "starting" /\ SameFiles(w, x) /\ z.product = y.product /\ z.heard = y.heard
     /\ z.stage = y.then
  \/ /\ y.stage = "sent" /\ z.heard = Answer(c) /\ z.product = y.product
     /\ z.stage = "reading" \/ (z.stage = "starting" /\ z.then = "reading")
     /\ w.inputs = x.inputs
     /\ y.kind = "artifact" /\ (Answer(c) = c => w.output = x.inputs)

CallSeen(c) ==
  /\ CallFrame(c) /\ FilesView(c)
  /\ backend = "subprocess" => ChildView(c)
  /\ backend = "remote" => EnvironmentView(c)

(* What is known of a call under way. *)
LEMMA CallNow ==
  ASSUME SandboxTypeOK, NEW c \in Call, CallKept(c), call[c].stage \in Active,
         backend = "subprocess" => \A b \in Box : ChildKept(b)
  PROVE  /\ call[c] \in CallRecord /\ call[c].on \in Box /\ box[call[c].on] \in BoxRecord
         /\ backend \in {"subprocess", "remote"} /\ faults \in 0..MaxFaults
         /\ call[c].stage = "starting" => call[c].then \in {"staging", "sent", "reading"}
         /\ call[c].stage = "queued" => backend = "subprocess"
         /\ call[c].stage = "sent" /\ backend = "subprocess" =>
              Holds(c, box[call[c].on]) /\ box[call[c].on].pipe # << >>
  <1>1. call[c].on \in Box
    BY DEF CallKept
  <1>2. call[c] \in CallRecord /\ box[call[c].on] \in BoxRecord /\ backend \in {"subprocess", "remote"}
        /\ faults \in 0..MaxFaults
    BY <1>1, RecordsTyped
  <1>3. call[c].then \in {"none", "staging", "sent", "reading"}
    BY <1>2 DEF CallRecord
  <1> QED BY <1>1, <1>2, <1>3 DEF CallKept, ChildKept

LEMMA StageSeen ==
  ASSUME SandboxTypeOK, NEW c \in Call, CallKept(c),
         backend = "subprocess" => \A b \in Box : ChildKept(b), Stage(c)
  PROVE  CallSeen(c)
  <1> DEFINE y == call[c]
             x == box[y.on]
  <1>0. y.stage = "staging" /\ y.stage \in Active
        /\ UNCHANGED <<backend, keyOf, exec, table, metered, faults>>
    BY DEF Stage, Active
  <1>1. y \in CallRecord /\ y.on \in Box /\ x \in BoxRecord /\ backend \in {"subprocess", "remote"}
        /\ faults \in 0..MaxFaults
    BY <1>0, CallNow
  <1>2. CASE backend = "subprocess" /\ x.gone
    <2>1. Finish(c, x, "failed") /\ "failed" \in CallStage
      BY <1>2 DEF Stage, CallStage
    <2>2. /\ Moved(c) /\ box'[y.on] = x
          /\ SameCall(call'[c], y) /\ call'[c].stage = "failed"
      BY <1>1, <2>1, Finishes
    <2> HIDE DEF x, y
    <2> QED BY <1>0, <1>1, <1>2, <2>2
            DEF CallSeen, CallFrame, ChildView, FilesView, SameCall, SameChild, Active, x, y
  <1>3. CASE ~(backend = "subprocess" /\ x.gone)
    <2> DEFINE s == [x EXCEPT !.inputs = c]
               n == Enter(y, s, "sent", c)
    <2>1. s \in BoxRecord /\ SameUse(s, x) /\ SameChild(s, x) /\ s.inputs = c /\ s.output = x.output
          /\ s.elapsed = x.elapsed /\ s.queue = x.queue
      BY <1>1 DEF BoxRecord, SameUse, SameChild
    <2>2. Proceed(c, s, "sent")
      BY <1>3 DEF Stage
    <2> HIDE DEF s
    <2>3. Moved(c) /\ call'[c] = n[1] /\ box'[y.on] = n[2]
      BY <1>1, <2>1, <2>2, Proceeds
    <2>4. /\ SameCall(n[1], y) /\ SameUse(n[2], s) /\ SameChild(n[2], s) /\ SameFiles(n[2], s)
          /\ n[2].elapsed = s.elapsed
          /\ \/ /\ backend = "remote" /\ ~s.handle /\ n[2].queue = s.queue
                /\ n[1].stage = "starting" /\ n[1].then = "sent"
             \/ /\ backend = "subprocess" /\ n[2].queue = Append(s.queue, c)
                /\ n[1].stage = "queued" /\ n[1].then = y.then
             \/ /\ backend = "remote" /\ s.handle
                /\ n[1].stage = "sent" /\ n[1].then = y.then /\ n[2].queue = s.queue
      <3>1. Entered(n, y, s, "sent", c)
        <4> HIDE DEF x, y
        <4> QED BY <1>1, <2>1, Enters
      <3> HIDE DEF n, x, y
      <3> QED BY <3>1 DEF Entered
    <2> HIDE DEF n, x, y
    <2>5. CallFrame(c)
      BY <1>0, <1>1, <2>1, <2>3, <2>4 DEF CallFrame, SameCall, SameUse, Active, x, y
    <2>6. FilesView(c)
      BY <1>0, <2>1, <2>3, <2>4 DEF FilesView, SameCall, SameFiles, x, y
    <2>7. backend = "subprocess" => ChildView(c)
      BY <1>0, <2>1, <2>3, <2>4 DEF ChildView, SameChild, x, y
    <2>8. backend = "remote" => EnvironmentView(c)
      BY <1>0, <2>1, <2>3, <2>4 DEF EnvironmentView, SameChild, x, y
    <2> QED BY <2>5, <2>6, <2>7, <2>8 DEF CallSeen
  <1> QED BY <1>2, <1>3

LEMMA SendSeen ==
  ASSUME SandboxTypeOK, NEW c \in Call, CallKept(c),
         backend = "subprocess" => \A b \in Box : ChildKept(b), Send(c)
  PROVE  CallSeen(c)
  <1> DEFINE y == call[c]
             x == box[y.on]
  <1>0. y.stage = "queued" /\ y.stage \in Active /\ Holds(c, x)
        /\ UNCHANGED <<backend, keyOf, exec, table, metered, faults>>
    BY DEF Send, Active
  <1>1. y \in CallRecord /\ y.on \in Box /\ x \in BoxRecord /\ backend = "subprocess"
        /\ faults \in 0..MaxFaults
    BY <1>0, CallNow
  <1>2. CASE x.handle
    <2> DEFINE p == Append(x.pipe, c)
               s == [x EXCEPT !.pipe = p]
    <2>1. p \in Seq(Call)
      <3>1. x.pipe \in Seq(Call)
        BY <1>1 DEF BoxRecord
      <3> QED BY <3>1, AppendProperties
    <2>2. box' = [box EXCEPT ![y.on].pipe = p]
      BY <1>2 DEF Send
    <2>3. call' = [call EXCEPT ![c].stage = "sent"]
      BY <1>2 DEF Send
    <2>4. box' = [box EXCEPT ![y.on] = s]
      BY <1>1, <2>2
    <2>5. "sent" \in CallStage /\ Finish(c, s, "sent")
      BY <2>3, <2>4 DEF Finish, CallStage, Active
    <2> HIDE DEF p
    <2>6. s \in BoxRecord /\ SameUse(s, x) /\ SameFiles(s, x) /\ s.elapsed = x.elapsed
          /\ s.queue = x.queue /\ s.handle = x.handle /\ s.alive = x.alive /\ s.pipe = p
      BY <1>1, <2>1 DEF BoxRecord, SameUse, SameFiles
    <2> HIDE DEF s
    <2>7. /\ Moved(c) /\ box'[y.on] = s
          /\ SameCall(call'[c], y) /\ call'[c].stage = "sent"
      BY <1>1, <2>5, <2>6, Finishes
    <2> HIDE DEF x, y
    <2> QED BY <1>0, <1>1, <1>2, <2>6, <2>7
            DEF CallSeen, CallFrame, ChildView, FilesView, SameCall, SameUse, Active, x, y, p
  <1>3. CASE ~x.handle /\ x.gone
    <2> DEFINE q == Tail(x.queue)
               s == [x EXCEPT !.queue = q]
    <2>1. q \in Seq(Call \cup Exec)
      <3>1. x.queue \in Seq(Call \cup Exec) /\ x.queue # << >>
        BY <1>0, <1>1 DEF BoxRecord, Holds
      <3> QED BY <3>1, HeadTailProperties
    <2>5. "failed" \in CallStage /\ Finish(c, s, "failed")
      BY <1>3 DEF Send, CallStage, Active
    <2> HIDE DEF q
    <2>6. s \in BoxRecord /\ SameUse(s, x) /\ SameChild(s, x) /\ s.elapsed = x.elapsed
          /\ s.queue = q
      BY <1>1, <2>1 DEF BoxRecord, SameUse, SameChild
    <2> HIDE DEF s
    <2>7. /\ Moved(c) /\ box'[y.on] = s
          /\ SameCall(call'[c], y) /\ call'[c].stage = "failed"
      BY <1>1, <2>5, <2>6, Finishes
    <2> HIDE DEF x, y
    <2> QED BY <1>0, <1>1, <2>6, <2>7
            DEF CallSeen, CallFrame, ChildView, FilesView, SameCall, SameUse, SameChild, Active, x, y, q
  <1>4. CASE ~x.handle /\ ~x.gone
    <2>1. PICK st \in CallStage, th \in {"none", "staging", "sent", "reading"} :
             st = "starting" /\ th = "sent"
      BY DEF CallStage, Active
    <2> DEFINE r == [y EXCEPT !.stage = st, !.then = th]
    <2>2. call' = [call EXCEPT ![c].stage = st, ![c].then = th] /\ box' = box
      BY <1>4, <2>1 DEF Send
    <2>3. call' = [call EXCEPT ![c] = r]
      BY <1>1, <2>2, RecordsTyped
    <2>4. box' = [box EXCEPT ![y.on] = x]
      BY <1>1, <2>2, RecordsTyped
    <2>6. r \in CallRecord /\ SameCall(r, y) /\ r.stage = st /\ r.then = th
      BY <1>1 DEF CallRecord, SameCall
    <2> HIDE DEF r
    <2>7. Moved(c) /\ box'[y.on] = x /\ call'[c] = r
      <3>1. /\ r \in CallRecord /\ x \in BoxRecord /\ call[c].on \in Box
            /\ call' = [call EXCEPT ![c] = r]
            /\ box' = [box EXCEPT ![call[c].on] = x]
        BY <1>1, <2>3, <2>4, <2>6
      <3> HIDE DEF x, y
      <3>2. Moved(c) /\ box'[call[c].on] = x /\ call'[c] = r
        BY <3>1, CallUpdated
      <3> QED BY <3>2 DEF y
    <2> HIDE DEF x, y
    <2> QED BY <1>0, <1>1, <1>4, <2>1, <2>6, <2>7
            DEF CallSeen, CallFrame, ChildView, FilesView, SameCall, SameChild, SameFiles, Active, x, y
  <1> QED BY <1>2, <1>3, <1>4

LEMMA StartedSeen ==
  ASSUME SandboxTypeOK, NEW c \in Call, CallKept(c),
         backend = "subprocess" => \A b \in Box : ChildKept(b), Started(c)
  PROVE  CallSeen(c)
  <1> DEFINE y == call[c]
             x == box[y.on]
  <1>0. y.stage = "starting" /\ y.stage \in Active
        /\ UNCHANGED <<backend, keyOf, exec, table, metered, faults>>
    BY DEF Started, Active
  <1>1. y \in CallRecord /\ y.on \in Box /\ x \in BoxRecord /\ backend \in {"subprocess", "remote"}
        /\ faults \in 0..MaxFaults /\ y.then \in {"staging", "sent", "reading"}
        /\ (backend = "subprocess" => y.then = "sent")
    BY <1>0, CallNow DEF CallKept
  <1>2. y.then \in CallStage
    BY <1>1 DEF CallStage, Active
  <1>3. PICK th \in {"none", "staging", "sent", "reading"} : th = "none"
    OBVIOUS
  <1>4. PICK p \in Seq(Call) : p = IF backend = "subprocess" THEN <<c>> ELSE x.pipe
    <2>1. x.pipe \in Seq(Call) /\ <<c>> \in Seq(Call)
      BY <1>1 DEF BoxRecord
    <2> QED BY <2>1
  <1>44. PICK more \in Nat : more = x.alive + 1
    <2>1. x.alive \in Nat
      BY <1>1 DEF BoxRecord
    <2> QED BY <2>1
  <1> DEFINE r == [y EXCEPT !.stage = y.then, !.then = th]
             s == [x EXCEPT !.handle = TRUE, !.alive = more, !.pipe = p]
  <1>5. call' = [call EXCEPT ![c] = r]
    <2>1. call' = [call EXCEPT ![c].stage = y.then, ![c].then = th]
      BY <1>3 DEF Started
    <2> QED BY <1>1, <2>1, RecordsTyped
  <1>6. box' = [box EXCEPT ![y.on] = s]
    <2> DEFINE t == [x EXCEPT !.handle = TRUE, !.alive = more]
    <2>0. [x EXCEPT !.handle = TRUE, !.alive = @ + 1] = t
      BY <1>44
    <2>1. box' = [box EXCEPT ![y.on] = IF backend = "subprocess" THEN [t EXCEPT !.pipe = <<c>>] ELSE t]
      BY <2>0 DEF Started
    <2>2. backend = "subprocess" => [t EXCEPT !.pipe = <<c>>] = s
      BY <1>1, <1>4 DEF BoxRecord
    <2>3. backend # "subprocess" => t = s
      BY <1>1, <1>4 DEF BoxRecord
    <2> HIDE DEF t, s
    <2> QED BY <2>1, <2>2, <2>3
  <1>7. r \in CallRecord /\ SameCall(r, y) /\ r.stage = y.then /\ r.then = th
    BY <1>1, <1>2 DEF CallRecord, SameCall
  <1>8. /\ s \in BoxRecord /\ SameUse(s, x) /\ SameFiles(s, x) /\ s.elapsed = x.elapsed
        /\ s.queue = x.queue /\ s.handle /\ s.alive = x.alive + 1 /\ s.pipe = p
    BY <1>1, <1>44 DEF BoxRecord, SameUse, SameFiles
  <1> HIDE DEF r, s
  <1>9. Moved(c) /\ box'[y.on] = s /\ call'[c] = r
    <2>1. /\ r \in CallRecord /\ s \in BoxRecord /\ call[c].on \in Box
          /\ call' = [call EXCEPT ![c] = r]
          /\ box' = [box EXCEPT ![call[c].on] = s]
      BY <1>1, <1>5, <1>6, <1>7, <1>8
    <2> HIDE DEF x, y
    <2>2. Moved(c) /\ box'[call[c].on] = s /\ call'[c] = r
      BY <2>1, CallUpdated
    <2> QED BY <2>2 DEF y
  <1> HIDE DEF x, y
  <1>10. CallFrame(c)
    BY <1>0, <1>1, <1>3, <1>7, <1>8, <1>9 DEF CallFrame, SameCall, SameUse, Active, x, y
  <1>11. FilesView(c)
    BY <1>0, <1>7, <1>8, <1>9 DEF FilesView, SameCall, SameFiles, x, y
  <1>12. backend = "subprocess" => ChildView(c)
    BY <1>0, <1>1, <1>4, <1>7, <1>8, <1>9 DEF ChildView, x, y
  <1>13. backend = "remote" => EnvironmentView(c)
    BY <1>0, <1>1, <1>7, <1>8, <1>9 DEF EnvironmentView, x, y
  <1> QED BY <1>10, <1>11, <1>12, <1>13 DEF CallSeen

LEMMA StrayStartedSeen ==
  ASSUME SandboxTypeOK, NEW c \in Call, CallKept(c),
         backend = "subprocess" => \A b \in Box : ChildKept(b), StrayStarted(c)
  PROVE  CallSeen(c)
  <1> DEFINE y == call[c]
             x == box[y.on]
  <1>0. y.stage = "stray" /\ y.stage \in Active
        /\ UNCHANGED <<backend, keyOf, exec, table, metered, faults>>
    BY DEF StrayStarted, Active
  <1>1. y \in CallRecord /\ y.on \in Box /\ x \in BoxRecord /\ faults \in 0..MaxFaults
        /\ backend = "remote"
    BY <1>0, CallNow DEF CallKept
  <1>11. PICK more \in Nat : more = x.alive + 1
    <2>1. x.alive \in Nat
      BY <1>1 DEF BoxRecord
    <2> QED BY <2>1
  <1> DEFINE s == [x EXCEPT !.alive = more]
  <1>2. "cancelled" \in CallStage /\ Finish(c, s, "cancelled")
    <2>1. [x EXCEPT !.alive = @ + 1] = s
      BY <1>11
    <2> QED BY <2>1 DEF StrayStarted, CallStage
  <1>3. /\ s \in BoxRecord /\ SameUse(s, x) /\ SameFiles(s, x) /\ s.elapsed = x.elapsed
        /\ s.queue = x.queue /\ s.handle = x.handle /\ s.alive = x.alive + 1 /\ s.pipe = x.pipe
    BY <1>1, <1>11 DEF BoxRecord, SameUse, SameFiles
  <1> HIDE DEF s
  <1>4. Moved(c) /\ box'[y.on] = s /\ SameCall(call'[c], y) /\ call'[c].stage = "cancelled"
    BY <1>1, <1>2, <1>3, Finishes
  <1> HIDE DEF x, y
  <1> QED BY <1>0, <1>1, <1>3, <1>4
          DEF CallSeen, CallFrame, EnvironmentView, FilesView, SameCall, SameUse, Active, x, y

LEMMA AnsweredSeen ==
  ASSUME SandboxTypeOK, NEW c \in Call, CallKept(c),
         backend = "subprocess" => \A b \in Box : ChildKept(b), Answered(c)
  PROVE  CallSeen(c)
  <1> DEFINE y == call[c]
             x == box[y.on]
  <1>0. y.stage = "sent" /\ y.stage \in Active
        /\ UNCHANGED <<backend, keyOf, exec, table, metered, faults>>
    BY DEF Answered, Active
  <1>1. /\ y \in CallRecord /\ y.on \in Box /\ x \in BoxRecord /\ backend \in {"subprocess", "remote"}
        /\ faults \in 0..MaxFaults
        /\ backend = "subprocess" => Holds(c, x) /\ x.pipe # << >>
    BY <1>0, CallNow
  <1>2. /\ x.pipe \in Seq(Call) /\ x.queue \in Seq(Call \cup Exec) /\ x.elapsed \in Nat
        /\ x.inputs \in Call \cup {NoCall} /\ x.output \in Call \cup {NoCall}
    BY <1>1 DEF BoxRecord
  <1>3. PICK a \in Call : a = Answer(c)
    <2>1. backend = "subprocess" => Head(x.pipe) \in Call
      BY <1>1, <1>2, HeadTailProperties
    <2> QED BY <2>1 DEF Answer
  <1>4. PICK p \in Seq(Call) : p = IF backend = "subprocess" THEN Tail(x.pipe) ELSE x.pipe
    <2>1. backend = "subprocess" => Tail(x.pipe) \in Seq(Call)
      BY <1>1, <1>2, HeadTailProperties
    <2> QED BY <1>2, <2>1
  <1>5. PICK l \in Seq(Call \cup Exec) :
          l = IF backend = "subprocess" THEN Tail(x.queue) ELSE x.queue
    <2>1. backend = "subprocess" => x.queue # << >>
      BY <1>1 DEF Holds
    <2>2. backend = "subprocess" => Tail(x.queue) \in Seq(Call \cup Exec)
      BY <1>2, <2>1, HeadTailProperties
    <2> QED BY <1>2, <2>2
  <1>6. PICK o \in Call \cup {NoCall} :
          o = IF y.kind = "artifact" /\ a = c THEN x.inputs ELSE x.output
    BY <1>2
  <1>7. PICK secs \in Nat : secs = x.elapsed + 1
    BY <1>2
  <1> DEFINE s == [x EXCEPT !.elapsed = secs, !.output = o, !.pipe = p, !.queue = l]
             r == [y EXCEPT !.heard = a]
             n == Enter(r, s, "reading", c)
  <1>8. /\ s \in BoxRecord /\ SameUse(s, x) /\ s.elapsed = secs /\ s.queue = l
        /\ s.handle = x.handle /\ s.alive = x.alive /\ s.pipe = p
        /\ s.inputs = x.inputs /\ s.output = o
    BY <1>1 DEF BoxRecord, SameUse
  <1>9. /\ r \in CallRecord /\ r.kind = y.kind /\ r.by = y.by /\ r.on = y.on
        /\ r.heard = a /\ r.product = y.product /\ r.stage = y.stage /\ r.then = y.then
    BY <1>1 DEF CallRecord
  <1>10. IF y.kind = "python"
           THEN /\ call' = [call EXCEPT ![c].heard = a, ![c].stage = "done"]
                /\ box' = [box EXCEPT ![y.on] = s]
           ELSE /\ call' = [call EXCEPT ![c] = n[1]]
                /\ box' = [box EXCEPT ![y.on] = n[2]]
    <2>1. [x EXCEPT !.elapsed = @ + 1,
                    !.output = IF y.kind = "artifact" /\ a = c THEN x.inputs ELSE @,
                    !.pipe = IF backend = "subprocess" THEN Tail(@) ELSE @,
                    !.queue = IF backend = "subprocess" THEN Tail(@) ELSE @] = s
      BY <1>4, <1>5, <1>6, <1>7
    <2>2. (IF backend = "subprocess" THEN Head(x.pipe) ELSE c) = a
      BY <1>3 DEF Answer
    <2> DEFINE t == [x EXCEPT !.elapsed = @ + 1,
                    !.output = IF y.kind = "artifact" /\ a = c THEN x.inputs ELSE @,
                    !.pipe = IF backend = "subprocess" THEN Tail(@) ELSE @,
                    !.queue = IF backend = "subprocess" THEN Tail(@) ELSE @]
    <2>3. IF y.kind = "python"
           THEN /\ call' = [call EXCEPT ![c].heard = a, ![c].stage = "done"]
                /\ box' = [box EXCEPT ![y.on] = t]
           ELSE /\ call' = [call EXCEPT ![c] = Enter(r, t, "reading", c)[1]]
                /\ box' = [box EXCEPT ![y.on] = Enter(r, t, "reading", c)[2]]
      BY <2>2, Zenon DEF Answered
    <2>4. t = s
      BY <2>1
    <2> HIDE DEF t, s
    <2> QED BY <2>3, <2>4
  <1> HIDE DEF s
  <1>11. CASE y.kind = "python"
    <2>1. PICK st \in CallStage : st = "done"
      BY DEF CallStage
    <2> DEFINE z == [y EXCEPT !.heard = a, !.stage = st]
    <2>2. /\ z \in CallRecord /\ z.kind = y.kind /\ z.by = y.by /\ z.on = y.on
          /\ z.heard = a /\ z.product = y.product /\ z.stage = st
      BY <1>1 DEF CallRecord
    <2>3. call' = [call EXCEPT ![c] = z] /\ box' = [box EXCEPT ![y.on] = s]
      BY <1>1, <1>10, <1>11, <2>1, RecordsTyped
    <2> HIDE DEF z
    <2>4. Moved(c) /\ call'[c] = z /\ box'[y.on] = s
      <3>1. /\ z \in CallRecord /\ s \in BoxRecord /\ call[c].on \in Box
            /\ call' = [call EXCEPT ![c] = z]
            /\ box' = [box EXCEPT ![call[c].on] = s]
        BY <1>1, <1>8, <2>2, <2>3
      <3> HIDE DEF x, y
      <3>2. Moved(c) /\ box'[call[c].on] = s /\ call'[c] = z
        BY <3>1, CallUpdated
      <3> QED BY <3>2 DEF y
    <2> HIDE DEF x, y
    <2>5. CallFrame(c)
      BY <1>0, <1>1, <1>7, <1>8, <2>1, <2>2, <2>4 DEF CallFrame, SameUse, Active, x, y
    <2>6. FilesView(c)
      BY <1>0, <1>3, <2>1, <2>2, <2>4 DEF FilesView, x, y
    <2>7. backend = "subprocess" => ChildView(c)
      BY <1>0, <1>4, <1>5, <1>8, <2>1, <2>2, <2>4 DEF ChildView, x, y
    <2>8. backend = "remote" => EnvironmentView(c)
      BY <1>0, <1>8, <2>1, <2>2, <2>4 DEF EnvironmentView, x, y
    <2> QED BY <2>5, <2>6, <2>7, <2>8 DEF CallSeen
  <1>12. CASE y.kind # "python"
    <2>0. y.kind = "artifact"
      BY <1>1, <1>12 DEF CallRecord
    <2>1. Entered(n, r, s, "reading", c)
      <3> HIDE DEF r
      <3> QED BY <1>1, <1>8, <1>9, Enters
    <2>2. call' = [call EXCEPT ![c] = n[1]] /\ box' = [box EXCEPT ![y.on] = n[2]]
      BY <1>10, <1>12
    <2>3. n[1] \in CallRecord /\ n[2] \in BoxRecord
      BY <2>1 DEF Entered
    <2> HIDE DEF n, r
    <2>4. Moved(c) /\ call'[c] = n[1] /\ box'[y.on] = n[2]
      BY <1>1, <2>2, <2>3, CallUpdated
    <2> HIDE DEF x, y
    <2>5. CallFrame(c)
      BY <1>0, <1>1, <1>7, <1>8, <1>9, <2>1, <2>4
         DEF CallFrame, Entered, SameCall, SameUse, Active, x, y
    <2>6. FilesView(c)
      BY <1>0, <1>3, <1>6, <1>8, <1>9, <2>0, <2>1, <2>4
         DEF FilesView, Entered, SameCall, SameFiles, x, y
    <2>7. backend = "subprocess" => ChildView(c)
      BY <1>0, <1>4, <1>5, <1>8, <1>9, <2>1, <2>4 DEF ChildView, Entered, SameChild, x, y
    <2>8. backend = "remote" => EnvironmentView(c)
      BY <1>0, <1>8, <1>9, <2>1, <2>4 DEF EnvironmentView, Entered, SameChild, x, y
    <2> QED BY <2>5, <2>6, <2>7, <2>8 DEF CallSeen
  <1> QED BY <1>11, <1>12

LEMMA TimedOutSeen ==
  ASSUME SandboxTypeOK, NEW c \in Call, CallKept(c),
         backend = "subprocess" => \A b \in Box : ChildKept(b), TimedOut(c)
  PROVE  CallSeen(c)
  <1> DEFINE y == call[c]
             x == box[y.on]
             s == Unanswered(x)
  <1>0. y.stage = "sent" /\ y.stage \in Active
        /\ UNCHANGED <<backend, keyOf, exec, table, metered, faults>>
    BY DEF TimedOut, Active
  <1>1. /\ y \in CallRecord /\ y.on \in Box /\ x \in BoxRecord /\ backend \in {"subprocess", "remote"}
        /\ faults \in 0..MaxFaults
        /\ backend = "subprocess" => Holds(c, x) /\ x.pipe # << >>
    BY <1>0, CallNow
  <1>2. "failed" \in CallStage /\ Finish(c, s, "failed")
    BY DEF TimedOut, CallStage
  <1>3. /\ s \in BoxRecord /\ SameUse(s, x) /\ SameFiles(s, x) /\ s.elapsed = x.elapsed
        /\ backend = "subprocess" => s.alive = 0 /\ ~s.handle /\ s.pipe = << >> /\ s.queue = Tail(x.queue)
        /\ backend = "remote" => SameChild(s, x)
    <2>1. CASE backend = "subprocess"
      <3>1. PICK l \in Seq(Call \cup Exec) : l = Tail(x.queue)
        <4>1. x.queue \in Seq(Call \cup Exec) /\ x.queue # << >>
          BY <1>1, <2>1 DEF BoxRecord, Holds
        <4> QED BY <4>1, HeadTailProperties
      <3>2. PICK p \in Seq(Call) : p = << >>
        BY EmptySeq
      <3> DEFINE t == [x EXCEPT !.alive = 0, !.handle = FALSE, !.pipe = p, !.queue = l]
      <3>3. s = t
        BY <2>1, <3>1, <3>2 DEF Unanswered
      <3>4. /\ t \in BoxRecord /\ SameUse(t, x) /\ SameFiles(t, x) /\ t.elapsed = x.elapsed
            /\ t.alive = 0 /\ ~t.handle /\ t.pipe = p /\ t.queue = l
        BY <1>1 DEF BoxRecord, SameUse, SameFiles
      <3> HIDE DEF s, t
      <3> QED BY <2>1, <3>1, <3>2, <3>3, <3>4
    <2>2. CASE backend = "remote"
      <3>1. s = x
        BY <2>2 DEF Unanswered
      <3> QED BY <1>1, <2>2, <3>1 DEF SameUse, SameFiles, SameChild
    <2> QED BY <1>1, <2>1, <2>2
  <1> HIDE DEF s
  <1>4. Moved(c) /\ box'[y.on] = s /\ SameCall(call'[c], y) /\ call'[c].stage = "failed"
    BY <1>1, <1>2, <1>3, Finishes
  <1> HIDE DEF x, y
  <1> QED BY <1>0, <1>1, <1>3, <1>4
          DEF CallSeen, CallFrame, ChildView, EnvironmentView, FilesView, SameCall, SameUse,
              SameChild, Active, x, y

LEMMA RemoteFailsSeen ==
  ASSUME SandboxTypeOK, NEW c \in Call, CallKept(c),
         backend = "subprocess" => \A b \in Box : ChildKept(b), RemoteFails(c)
  PROVE  CallSeen(c)
  <1> DEFINE y == call[c]
             x == box[y.on]
  <1>0. /\ y.stage \in {"staging", "sent", "reading", "starting"} /\ y.stage \in Active
        /\ backend = "remote" /\ UNCHANGED <<backend, keyOf, exec, table, metered>>
    BY DEF RemoteFails, Active
  <1>1. y \in CallRecord /\ y.on \in Box /\ x \in BoxRecord /\ faults \in 0..MaxFaults
    BY <1>0, CallNow
  <1>2. "failed" \in CallStage /\ Finish(c, x, "failed")
    BY DEF RemoteFails, CallStage
  <1>3. faults' \in 0..MaxFaults /\ (faults' = 0 => faults = 0)
    <2>1. \/ faults' = faults
          \/ faults < MaxFaults /\ faults' = faults + 1
      BY DEF RemoteFails
    <2> QED BY <1>1, <2>1, SandboxesAssumption
  <1>4. Moved(c) /\ box'[y.on] = x /\ SameCall(call'[c], y) /\ call'[c].stage = "failed"
    BY <1>1, <1>2, Finishes
  <1> HIDE DEF x, y
  <1> QED BY <1>0, <1>1, <1>3, <1>4
          DEF CallSeen, CallFrame, EnvironmentView, FilesView, SameCall, Active, x, y

LEMMA ReadBackSeen ==
  ASSUME SandboxTypeOK, NEW c \in Call, CallKept(c),
         backend = "subprocess" => \A b \in Box : ChildKept(b), ReadBack(c)
  PROVE  CallSeen(c)
  <1> DEFINE y == call[c]
             x == box[y.on]
  <1>0. y.stage = "reading" /\ y.stage \in Active
        /\ UNCHANGED <<backend, keyOf, exec, table, metered, faults>>
    BY DEF ReadBack, Active
  <1>1. y \in CallRecord /\ y.on \in Box /\ x \in BoxRecord /\ backend \in {"subprocess", "remote"}
        /\ faults \in 0..MaxFaults
    BY <1>0, CallNow
  <1>2. CASE x.gone \/ (backend = "remote" /\ x.alive = 0)
    <2>1. "failed" \in CallStage /\ Finish(c, x, "failed")
      BY <1>2 DEF ReadBack, CallStage
    <2>2. Moved(c) /\ box'[y.on] = x /\ SameCall(call'[c], y) /\ call'[c].stage = "failed"
      BY <1>1, <2>1, Finishes
    <2> HIDE DEF x, y
    <2> QED BY <1>0, <1>1, <2>2
            DEF CallSeen, CallFrame, ChildView, EnvironmentView, FilesView, SameCall, SameChild,
                Active, x, y
  <1>3. CASE ~(x.gone \/ (backend = "remote" /\ x.alive = 0))
    <2>1. PICK st \in CallStage : st = "done"
      BY DEF CallStage
    <2>2. PICK o \in Call \cup {NoCall} : o = x.output
      BY <1>1 DEF BoxRecord
    <2> DEFINE r == [y EXCEPT !.stage = st, !.product = o]
    <2>3. /\ r \in CallRecord /\ r.kind = y.kind /\ r.by = y.by /\ r.on = y.on
          /\ r.heard = y.heard /\ r.product = o /\ r.stage = st
      BY <1>1 DEF CallRecord
    <2>4. call' = [call EXCEPT ![c].stage = st, ![c].product = o] /\ box' = box
      BY <1>3, <2>1, <2>2 DEF ReadBack
    <2>5. call' = [call EXCEPT ![c] = r]
      BY <1>1, <2>4, RecordsTyped
    <2>6. box' = [box EXCEPT ![y.on] = x]
      BY <1>1, <2>4, RecordsTyped
    <2> HIDE DEF r
    <2>7. Moved(c) /\ box'[y.on] = x /\ call'[c] = r
      <3>1. /\ r \in CallRecord /\ x \in BoxRecord /\ call[c].on \in Box
            /\ call' = [call EXCEPT ![c] = r]
            /\ box' = [box EXCEPT ![call[c].on] = x]
        BY <1>1, <2>3, <2>5, <2>6
      <3> HIDE DEF x, y
      <3>2. Moved(c) /\ box'[call[c].on] = x /\ call'[c] = r
        BY <3>1, CallUpdated
      <3> QED BY <3>2 DEF y
    <2> HIDE DEF x, y
    <2> QED BY <1>0, <1>1, <2>1, <2>2, <2>3, <2>7
            DEF CallSeen, CallFrame, ChildView, EnvironmentView, FilesView, SameChild, Active, x, y
  <1> QED BY <1>2, <1>3

LEMMA CallSteps ==
  ASSUME SandboxTypeOK, NEW c \in Call, CallKept(c),
         backend = "subprocess" => \A b \in Box : ChildKept(b), SandboxCall(c)
  PROVE  CallSeen(c)
  BY StageSeen, SendSeen, StartedSeen, StrayStartedSeen, AnsweredSeen, TimedOutSeen,
     RemoteFailsSeen, ReadBackSeen DEF SandboxCall

-----------------------------------------------------------------------------
(* The steps of the calls keep the invariant. *)
LEMMA CallQuiet ==
  ASSUME SandboxTypeOK, NEW c \in Call, CallFrame(c)
  PROVE  /\ SandboxTypeOK'
         /\ call[c].on \in Box /\ call[c].stage \in Active
         /\ \A d \in Call : d # c => call'[d] = call[d]
         /\ \A b \in Box : b # call[c].on => box'[b] = box[b]
         /\ \A b \in Box : SameUse(box'[b], box[b])
         /\ \A d \in Call : /\ call'[d].on = call[d].on /\ call'[d].by = call[d].by
                            /\ call'[d].kind = call[d].kind
                            /\ call'[d].stage \in Active =>
                                 /\ call[d].stage \in Active
                                 /\ call'[d].stage = "stray" <=> call[d].stage = "stray"
  <1>1. /\ call \in [Call -> CallRecord] /\ box \in [Box -> BoxRecord]
        /\ exec \in [Exec -> ExecRecord] /\ table \in [Key -> Box \cup {NoBox}]
        /\ backend \in {"subprocess", "remote"} /\ keyOf \in [Exec -> Key]
        /\ metered \in [Exec -> Nat]
    BY RecordsTyped
  <1>2. /\ Moved(c) /\ UNCHANGED <<backend, keyOf, exec, table, metered>> /\ faults' \in 0..MaxFaults
        /\ call[c].on \in Box /\ call[c].stage \in Active
    BY DEF CallFrame
  <1>3. call' \in [Call -> CallRecord] /\ box' \in [Box -> BoxRecord]
    BY <1>2 DEF Moved
  <1>4. SandboxTypeOK'
    <2>1. /\ backend' \in {"subprocess", "remote"} /\ keyOf' \in [Exec -> Key]
          /\ exec' \in [Exec -> ExecRecord] /\ table' \in [Key -> Box \cup {NoBox}]
          /\ metered' \in [Exec -> Nat]
      BY <1>1, <1>2
    <2> QED BY <1>2, <1>3, <2>1 DEF SandboxTypeOK, ExecRecord, CallRecord, BoxRecord, CallStage
  <1>5. \A d \in Call : d # c => call'[d] = call[d]
    BY <1>2 DEF Moved
  <1>6. \A b \in Box : b # call[c].on => box'[b] = box[b]
    BY <1>2 DEF Moved
  <1>7. SameUse(box'[call[c].on], box[call[c].on])
    BY DEF CallFrame, SameUse
  <1>8. \A b \in Box : SameUse(box'[b], box[b])
    BY <1>6, <1>7 DEF SameUse
  <1>9. /\ call'[c].on = call[c].on /\ call'[c].by = call[c].by /\ call'[c].kind = call[c].kind
        /\ call'[c].stage \in Active => call[c].stage # "stray" /\ call'[c].stage # "stray"
    BY DEF CallFrame
  <1> QED BY <1>2, <1>4, <1>5, <1>6, <1>8, <1>9

LEMMA QuietUse ==
  ASSUME \A b \in Box : SameUse(box'[b], box[b]), exec' = exec, keyOf' = keyOf,
         faults' = 0 => faults = 0, NEW b \in Box
  PROVE  (Single(b)' <=> Single(b)) /\ (Orderly(b)' => Orderly(b))
  BY DEF SameUse, Single, Orderly

LEMMA SeenKeepsUse ==
  ASSUME SandboxInv, NEW c \in Call, CallSeen(c)
  PROVE  /\ \A d \in Call : CallKept(d)'
         /\ TableKept' /\ VictimKept'
         /\ \A b \in Box : UsersKept(b)' /\ AbortKept(b)'
  <1>1. CallFrame(c) /\ SandboxTypeOK
    BY DEF CallSeen, SandboxInv
  <1>2. /\ call[c].on \in Box /\ call[c].stage \in Active
        /\ \A d \in Call : d # c => call'[d] = call[d]
        /\ \A b \in Box : SameUse(box'[b], box[b])
        /\ \A d \in Call : /\ call'[d].on = call[d].on /\ call'[d].by = call[d].by
                           /\ call'[d].stage \in Active =>
                                /\ call[d].stage \in Active
                                /\ call'[d].stage = "stray" <=> call[d].stage = "stray"
    BY <1>1, CallQuiet
  <1>3. backend' = backend /\ keyOf' = keyOf /\ exec' = exec /\ table' = table
    BY <1>1 DEF CallFrame
  <1>4. ASSUME NEW d \in Call PROVE CallKept(d)'
    <2>0. CallKept(d)
      BY DEF SandboxInv
    <2>1. CASE d # c
      BY <1>2, <1>3, <2>0, <2>1 DEF CallKept, SameUse
    <2>2. CASE d = c
      <3>1. /\ call'[c].stage = "starting" =>
                 call'[c].then # "none" /\ (backend = "subprocess" => call'[c].then = "sent")
            /\ call'[c].stage = "queued" => backend = "subprocess"
            /\ call'[c].stage # "idle" /\ call'[c].on \in Box
        BY <1>1, <1>2 DEF CallFrame
      <3>2. ASSUME call'[c].stage \in Active
            PROVE  /\ call'[c].on \in Box /\ call'[c].by \in box'[call'[c].on].users
                   /\ call'[c].stage = "stray" <=> exec'[call'[c].by].stage # "running"
                   /\ call'[c].stage = "stray" => backend' = "remote" /\ box'[call'[c].on].aborted
        <4>1. /\ call[c].stage \in Active /\ call'[c].on = call[c].on /\ call'[c].by = call[c].by
              /\ call'[c].stage = "stray" <=> call[c].stage = "stray"
          BY <1>2, <3>2
        <4>2. SameUse(box'[call[c].on], box[call[c].on])
          BY <1>2
        <4> QED BY <1>2, <1>3, <2>0, <2>2, <4>1, <4>2 DEF CallKept, SameUse
      <3> QED BY <1>3, <2>2, <3>1, <3>2 DEF CallKept
    <2> QED BY <2>1, <2>2
  <1>5. TableKept'
    <2>1. table \in [Key -> Box \cup {NoBox}]
      BY <1>1, RecordsTyped
    <2>2. TableKept
      BY DEF SandboxInv
    <2> SUFFICES ASSUME NEW k \in Key, table[k] # NoBox
                 PROVE  /\ box'[table[k]].made /\ box'[table[k]].users # {}
                        /\ \A u \in box'[table[k]].users :
                             exec[u].stage = "running" /\ keyOf[u] = k
      BY <1>3 DEF TableKept
    <2>3. table[k] \in Box
      BY <2>1
    <2> QED BY <1>2, <2>2, <2>3 DEF TableKept, SameUse
  <1>6. VictimKept'
    <2>1. VictimKept
      BY DEF SandboxInv
    <2>2. exec \in [Exec -> ExecRecord]
      BY <1>1, RecordsTyped
    <2>3. \A e \in Exec : exec[e].victim \in Box \cup {NoBox}
      BY <2>2 DEF ExecRecord
    <2> SUFFICES ASSUME NEW e \in Exec
                 PROVE  /\ exec[e].stage \in {"closing", "recording"} => exec[e].victim # NoBox
                        /\ exec[e].victim # NoBox =>
                             /\ exec[e].stage # "running" /\ e \in box'[exec[e].victim].users
                             /\ box'[exec[e].victim].made
                             /\ \A f \in Exec : exec[f].victim = exec[e].victim => f = e
      BY <1>3 DEF VictimKept
    <2> QED BY <1>2, <2>1, <2>3 DEF VictimKept, SameUse
  <1>7. ASSUME NEW b \in Box PROVE UsersKept(b)' /\ AbortKept(b)'
    <2>1. UsersKept(b) /\ AbortKept(b)
      BY DEF SandboxInv
    <2>2. SameUse(box'[b], box[b])
      BY <1>2
    <2>3. UsersKept(b)'
      BY <1>3, <2>1, <2>2 DEF UsersKept, SameUse
    <2>4. \A d \in ActiveOn(b)' : d \in ActiveOn(b) /\ (call'[d].stage = "stray" <=> call[d].stage = "stray")
      <3> SUFFICES ASSUME NEW d \in Call, call'[d].on = b, call'[d].stage \in Active
                   PROVE  d \in ActiveOn(b) /\ (call'[d].stage = "stray" <=> call[d].stage = "stray")
        BY DEF ActiveOn
      <3>1. call[d].on = b /\ call[d].stage \in Active
            /\ (call'[d].stage = "stray" <=> call[d].stage = "stray")
        BY <1>2
      <3> QED BY <3>1 DEF ActiveOn
    <2>5. AbortKept(b)'
      BY <1>3, <2>1, <2>2, <2>4 DEF AbortKept, SameUse
    <2> QED BY <2>3, <2>5
  <1> QED BY <1>4, <1>5, <1>6, <1>7

LEMMA SeenKeepsChild ==
  ASSUME SandboxInv, NEW c \in Call, CallSeen(c), backend = "subprocess", NEW b \in Box
  PROVE  ChildKept(b)'
  <1>1. CallFrame(c) /\ SandboxTypeOK /\ ChildView(c) /\ ChildKept(b)
    BY DEF CallSeen, SandboxInv
  <1>2. /\ call[c].on \in Box /\ call[c].stage \in Active
        /\ \A d \in Call : d # c => call'[d] = call[d]
        /\ b # call[c].on => box'[b] = box[b]
        /\ SameUse(box'[b], box[b])
        /\ \A d \in Call : call'[d].on = call[d].on
    BY <1>1, CallQuiet
  <1>3. exec' = exec
    BY <1>1 DEF CallFrame
  <1>4. CASE b # call[c].on
    BY <1>1, <1>2, <1>3, <1>4 DEF ChildKept, Holds
  <1>5. CASE b = call[c].on
    <2> DEFINE y == call[c]
               z == call'[c]
               x == box[b]
               w == box'[b]
    <2>1. x.pipe \in Seq(Call) /\ x.queue \in Seq(Call \cup Exec)
      <3>1. x \in BoxRecord
        BY <1>1, RecordsTyped
      <3> QED BY <3>1 DEF BoxRecord
    <2>2. /\ y.on = b /\ z.on = b
          /\ y.stage \in {"starting", "sent"} =>
               /\ Holds(c, x) /\ ~x.gone
               /\ y.stage = "sent" => x.pipe # << >>
               /\ y.stage = "sent" /\ ~x.aborted => x.pipe = <<c>>
      BY <1>1, <1>2, <1>5 DEF ChildKept
    <2>3. \/ /\ y.stage \notin {"starting", "sent"} /\ z.stage \notin {"starting", "sent"}
             /\ w.queue = x.queue \/ w.queue = Append(x.queue, c)
             /\ SameChild(w, x)
          \/ /\ y.stage = "queued" /\ Holds(c, x) /\ z.stage = "failed" /\ w.queue = Tail(x.queue)
             /\ SameChild(w, x)
          \/ /\ y.stage = "queued" /\ Holds(c, x) /\ z.stage = "sent" /\ w.queue = x.queue /\ x.handle
             /\ w.pipe = Append(x.pipe, c) /\ w.handle = x.handle /\ w.alive = x.alive
          \/ /\ y.stage = "queued" /\ Holds(c, x) /\ z.stage = "starting" /\ w.queue = x.queue
             /\ ~x.gone /\ SameChild(w, x)
          \/ /\ y.stage = "starting" /\ z.stage = "sent" /\ w.queue = x.queue
             /\ w.pipe = <<c>>
          \/ /\ y.stage = "sent" /\ z.stage \notin {"starting", "sent"} /\ w.queue = Tail(x.queue)
             /\ \/ w.pipe = Tail(x.pipe) /\ w.handle = x.handle /\ w.alive = x.alive
                \/ w.pipe = << >> /\ ~w.handle /\ w.alive = 0
      BY <1>1, <1>5 DEF ChildView
    <2>4. w.gone = x.gone /\ w.aborted = x.aborted
      BY <1>2 DEF SameUse
    <2>5. \A d \in Call : d # c /\ call'[d].on = b =>
            call'[d].stage = call[d].stage /\ call[d].on = b
      BY <1>2
    <2>6. \A d \in Call : call[d].on = b /\ call[d].stage \in {"starting", "sent"} =>
               /\ Holds(d, x) /\ ~x.gone
               /\ call[d].stage = "sent" => x.pipe # << >>
               /\ call[d].stage = "sent" /\ ~x.aborted => x.pipe = <<d>>
      BY <1>1 DEF ChildKept
    <2>7. ~x.aborted /\ (\A d \in Call : call[d].on = b => call[d].stage # "sent") => x.pipe = << >>
      BY <1>1 DEF ChildKept
    <2>8. x.gone => x.alive = 0 /\ ~x.handle
      BY <1>1 DEF ChildKept
    <2>9. \A d \in Call : Holds(c, x) /\ Holds(d, x) => d = c
      BY DEF Holds
    <2>10. /\ Append(x.queue, c) # << >>
           /\ \A d \in Call : Holds(d, x) => Head(Append(x.queue, c)) = Head(x.queue)
      <3>1. c \in Call \cup Exec
        OBVIOUS
      <3>2. PICK q \in Seq(Call \cup Exec) : q = x.queue
        BY <2>1
      <3>3. Append(q, c) # << >> /\ (q # << >> => Head(Append(q, c)) = Head(q))
        BY <3>1, AppendKeepsHead
      <3> QED BY <3>2, <3>3 DEF Holds
    <2>11. <<c>> # << >> /\ Append(<< >>, c) = <<c>> /\ Tail(<<c>>) = << >> /\ Append(x.pipe, c) # << >>
      BY <2>1
    <2> HIDE DEF x, y, z, w
    <2>20. ASSUME NEW d \in Call, call'[d].on = b, call'[d].stage \in {"starting", "sent"}
           PROVE  /\ Holds(d, w) /\ ~w.gone
                  /\ call'[d].stage = "sent" => w.pipe # << >>
                  /\ call'[d].stage = "sent" /\ ~w.aborted => w.pipe = <<d>>
      <3>1. CASE d # c
        <4>1. /\ call[d].on = b /\ call[d].stage = call'[d].stage
              /\ Holds(d, x) /\ ~x.gone
              /\ call[d].stage = "sent" => x.pipe # << >>
              /\ call[d].stage = "sent" /\ ~x.aborted => x.pipe = <<d>>
          BY <2>5, <2>6, <2>20, <3>1
        <4>2. ~Holds(c, x)
          BY <2>9, <3>1, <4>1
        <4>3. (w.queue = x.queue \/ w.queue = Append(x.queue, c)) /\ w.pipe = x.pipe
          BY <2>2, <2>3, <4>2 DEF SameChild
        <4>4. Holds(d, w)
          BY <2>10, <4>1, <4>3 DEF Holds
        <4> QED BY <2>4, <4>1, <4>3, <4>4
      <3>2. CASE d = c
        <4>1. z.stage \in {"starting", "sent"}
          BY <2>20, <3>2 DEF z
        <4>2. Holds(c, x) /\ w.queue = x.queue /\ ~x.gone
          BY <2>2, <2>3, <2>8, <4>1
        <4>3. Holds(c, w)
          BY <4>2 DEF Holds
        <4>4. ASSUME z.stage = "sent" PROVE w.pipe # << >> /\ (~w.aborted => w.pipe = <<c>>)
          <5>1. CASE w.pipe = <<c>>
            BY <2>11, <5>1
          <5>2. CASE y.stage = "queued" /\ w.pipe = Append(x.pipe, c)
            <6>1. \A e \in Call : call[e].on = b => call[e].stage # "sent"
              BY <2>6, <2>9, <4>2, <5>2 DEF y
            <6>2. ~x.aborted => x.pipe = << >>
              BY <2>7, <6>1
            <6> QED BY <2>4, <2>11, <5>2, <6>2
          <5> QED BY <2>3, <4>4, <5>1, <5>2
        <4> QED BY <2>4, <3>2, <4>2, <4>3, <4>4 DEF z
      <3> QED BY <3>1, <3>2
    <2>21. ASSUME ~w.aborted, \A d \in Call : call'[d].on = b => call'[d].stage # "sent"
           PROVE  w.pipe = << >>
      <3>1. z.stage # "sent"
        BY <2>2, <2>21 DEF z
      <3>2. ASSUME y.stage # "sent" PROVE x.pipe = << >>
        <4>1. \A d \in Call : call[d].on = b => call[d].stage # "sent"
          BY <1>2, <2>21, <3>2 DEF y
        <4> QED BY <2>4, <2>7, <2>21, <4>1
      <3>3. y.stage = "sent" => x.pipe = <<c>>
        BY <2>2, <2>4, <2>21
      <3> QED BY <2>3, <2>11, <3>1, <3>2, <3>3 DEF SameChild
    <2>22. w.gone => w.alive = 0 /\ ~w.handle
      BY <2>2, <2>3, <2>4, <2>8 DEF SameChild
    <2>23. \A e \in Exec : exec[e].victim = b /\ exec[e].stage \in {"recording", "closed"} => w.gone
      <3>1. \A e \in Exec : exec[e].victim = b /\ exec[e].stage \in {"recording", "closed"} => x.gone
        BY <1>1 DEF ChildKept, x
      <3> QED BY <2>4, <3>1
    <2> QED BY <1>3, <2>20, <2>21, <2>22, <2>23 DEF ChildKept, w
  <1> QED BY <1>4, <1>5

LEMMA SeenKeepsEnvironment ==
  ASSUME SandboxInv, NEW c \in Call, CallSeen(c), backend = "remote", NEW b \in Box
  PROVE  EnvironmentKept(b)'
  <1>1. CallFrame(c) /\ SandboxTypeOK /\ EnvironmentView(c) /\ EnvironmentKept(b)
        /\ CallKept(c) /\ VictimKept /\ OutputKept(b)
    BY DEF CallSeen, SandboxInv
  <1>2. /\ call[c].on \in Box /\ call[c].stage \in Active
        /\ \A d \in Call : d # c => call'[d] = call[d]
        /\ b # call[c].on => box'[b] = box[b]
        /\ \A a \in Box : SameUse(box'[a], box[a])
        /\ \A d \in Call : call'[d].on = call[d].on
    BY <1>1, CallQuiet
  <1>3. exec' = exec /\ keyOf' = keyOf /\ (faults' = 0 => faults = 0)
    BY <1>1 DEF CallFrame
  <1>4. Orderly(b)' => Orderly(b)
    BY <1>2, <1>3, QuietUse
  <1>5. CASE b # call[c].on
    BY <1>1, <1>2, <1>3, <1>4, <1>5 DEF EnvironmentKept
  <1>6. CASE b = call[c].on
    <2> DEFINE y == call[c]
               z == call'[c]
               x == box[b]
               w == box'[b]
    <2>1. x.alive \in Nat /\ x.handle \in BOOLEAN
      <3>1. x \in BoxRecord
        BY <1>1, RecordsTyped
      <3> QED BY <3>1 DEF BoxRecord
    <2>2. /\ x.handle => x.alive >= 1
          /\ \A e \in Exec : exec[e].victim = b /\ exec[e].stage = "closing" => x.handle
          /\ Orderly(b) =>
               /\ x.alive = IF x.handle THEN 1 ELSE 0
               /\ \A d \in Call : call[d].on = b /\ call[d].stage = "starting" => ~x.handle
               /\ \A e \in Exec : exec[e].victim = b /\ exec[e].stage \in {"recording", "closed"} =>
                    ~x.handle
      BY <1>1 DEF EnvironmentKept
    <2>3. \/ /\ z.stage # "starting" \/ ~x.handle
             /\ w.handle = x.handle /\ w.alive = x.alive
          \/ /\ y.stage = "starting" /\ z.stage # "starting" /\ w.handle /\ w.alive = x.alive + 1
          \/ /\ y.stage = "stray" /\ z.stage = "cancelled" /\ w.handle = x.handle
             /\ w.alive = x.alive + 1
      BY <1>1, <1>6 DEF EnvironmentView
    <2>4. \A d \in Call : d # c => call'[d] = call[d]
      BY <1>2
    <2>5. y.on = b /\ z.on = b /\ y.stage \in Active
      BY <1>2, <1>6
    <2>6. y.stage = "stray" => ~Orderly(b)
      BY <1>1, <1>6, <2>5 DEF CallKept, Orderly
    <2>7. ASSUME Orderly(b), y.stage = "starting"
          PROVE  /\ \A d \in Call : call[d].on = b /\ call[d].stage = "starting" => d = c
                 /\ \A e \in Exec : exec[e].victim = b => exec[e].stage = "running"
      <3>1. ASSUME NEW d \in Call, call[d].on = b, call[d].stage = "starting" PROVE d = c
        <4>1. c \in ActiveOn(b) /\ d \in ActiveOn(b)
          BY <2>5, <3>1 DEF ActiveOn, Active
        <4> QED BY <1>1, <2>7, <4>1 DEF Orderly, OutputKept
      <3>2. ASSUME NEW e \in Exec, exec[e].victim = b PROVE exec[e].stage = "running"
        <4>1. exec[y.by].stage = "running" /\ y.by \in x.users
          BY <1>1, <1>6, <2>5, <2>7 DEF CallKept
        <4>2. e \in x.users
          <5>1. b # NoBox
            BY SandboxesAssumption
          <5> QED BY <1>1, <3>2, <5>1 DEF VictimKept
        <4> QED BY <2>7, <4>1, <4>2 DEF Orderly, Single
      <3> QED BY <3>1, <3>2
    <2> HIDE DEF x, y, z, w
    <2>8. (w.handle => w.alive >= 1) /\ (x.handle => w.handle)
      BY <2>1, <2>2, <2>3
    <2>9. ASSUME Orderly(b)
          PROVE  /\ w.alive = IF w.handle THEN 1 ELSE 0
                 /\ \A d \in Call : call'[d].on = b /\ call'[d].stage = "starting" => ~w.handle
                 /\ \A e \in Exec : exec[e].victim = b /\ exec[e].stage \in {"recording", "closed"} =>
                      ~w.handle
      <3>1. CASE /\ z.stage # "starting" \/ ~x.handle
                 /\ w.handle = x.handle /\ w.alive = x.alive
        <4>1. ASSUME NEW d \in Call, call'[d].on = b, call'[d].stage = "starting" PROVE ~w.handle
          <5>1. d # c => ~x.handle
            BY <2>2, <2>4, <2>9, <4>1
          <5> QED BY <3>1, <4>1, <5>1 DEF z
        <4> QED BY <2>2, <2>9, <3>1, <4>1
      <3>2. CASE y.stage = "starting" /\ z.stage # "starting" /\ w.handle /\ w.alive = x.alive + 1
        <4>1. ~x.handle /\ x.alive = 0
          BY <2>2, <2>5, <2>9, <3>2 DEF y
        <4>2. \A d \in Call : ~(call'[d].on = b /\ call'[d].stage = "starting")
          BY <2>4, <2>7, <2>9, <3>2 DEF z
        <4>3. \A e \in Exec : ~(exec[e].victim = b /\ exec[e].stage \in {"recording", "closed"})
          BY <2>7, <2>9, <3>2
        <4>4. w.alive = 1
          BY <3>2, <4>1
        <4> QED BY <3>2, <4>2, <4>3, <4>4
      <3> QED BY <2>3, <2>6, <2>9, <3>1, <3>2
    <2>10. \A e \in Exec : exec[e].victim = b /\ exec[e].stage = "closing" => w.handle
      BY <2>2, <2>8
    <2> QED BY <1>3, <1>4, <2>8, <2>9, <2>10 DEF EnvironmentKept, w
  <1> QED BY <1>5, <1>6

LEMMA SeenKeepsOutput ==
  ASSUME SandboxInv, NEW c \in Call, CallSeen(c), NEW b \in Box
  PROVE  OutputKept(b)'
  <1>1. CallFrame(c) /\ SandboxTypeOK /\ FilesView(c) /\ OutputKept(b)
        /\ (backend = "subprocess" => ChildKept(b))
    BY DEF CallSeen, SandboxInv
  <1>2. /\ call[c].on \in Box /\ call[c].stage \in Active
        /\ \A d \in Call : d # c => call'[d] = call[d]
        /\ b # call[c].on => box'[b] = box[b]
        /\ SameUse(box'[b], box[b])
        /\ \A d \in Call : /\ call'[d].on = call[d].on /\ call'[d].kind = call[d].kind
                           /\ call'[d].stage \in Active => call[d].stage \in Active
    BY <1>1, CallQuiet
  <1>3. \A d \in ActiveOn(b)' : d \in ActiveOn(b)
    BY <1>2 DEF ActiveOn
  <1> SUFFICES ASSUME ~box[b].overlap
               PROVE  /\ \A d, e \in ActiveOn(b)' : d = e
                      /\ \A d \in ActiveOn(b)' : ~box[b].aborted =>
                           /\ /\ call'[d].kind = "artifact"
                              /\ \/ call'[d].stage \in {"queued", "sent", "reading"}
                                 \/ call'[d].stage = "starting" /\ call'[d].then # "staging"
                              => box'[b].inputs = d
                           /\ \/ call'[d].stage = "reading"
                              \/ call'[d].stage = "starting" /\ call'[d].then = "reading"
                              => box'[b].output = d
    BY <1>2 DEF OutputKept, SameUse
  <1>4. /\ \A d, e \in ActiveOn(b) : d = e
        /\ \A d \in ActiveOn(b) : ~box[b].aborted =>
             /\ /\ call[d].kind = "artifact"
                /\ \/ call[d].stage \in {"queued", "sent", "reading"}
                   \/ call[d].stage = "starting" /\ call[d].then # "staging"
                => box[b].inputs = d
             /\ \/ call[d].stage = "reading"
                \/ call[d].stage = "starting" /\ call[d].then = "reading"
                => box[b].output = d
    BY <1>1 DEF OutputKept
  <1>5. ASSUME NEW d \in ActiveOn(b)', ~box[b].aborted
        PROVE  /\ /\ call'[d].kind = "artifact"
                  /\ \/ call'[d].stage \in {"queued", "sent", "reading"}
                     \/ call'[d].stage = "starting" /\ call'[d].then # "staging"
                  => box'[b].inputs = d
               /\ \/ call'[d].stage = "reading"
                  \/ call'[d].stage = "starting" /\ call'[d].then = "reading"
                  => box'[b].output = d
    <2>1. d \in Call /\ d \in ActiveOn(b) /\ call'[d].stage \in Active /\ call'[d].on = b
          /\ call[d].on = b
      <3>1. d \in Call /\ call'[d].stage \in Active /\ call'[d].on = b
        BY DEF ActiveOn
      <3> QED BY <1>2, <1>3, <3>1
    <2>2. CASE b # call[c].on
      BY <1>2, <1>4, <1>5, <2>1, <2>2
    <2>3. CASE b = call[c].on
      <3>1. c \in ActiveOn(b)
        BY <1>2, <2>3 DEF ActiveOn
      <3>2. d = c
        BY <1>4, <2>1, <3>1
      <3> DEFINE y == call[c]
                 z == call'[c]
                 x == box[b]
                 w == box'[b]
      <3>3. y.stage = "sent" => Answer(c) = c
        <4>1. CASE backend = "subprocess"
          BY <1>1, <1>5, <2>3, <4>1 DEF ChildKept, Answer
        <4>2. CASE backend # "subprocess"
          BY <4>2 DEF Answer
        <4> QED BY <4>1, <4>2
      <3>4. /\ /\ y.kind = "artifact"
               /\ \/ y.stage \in {"queued", "sent", "reading"}
                  \/ y.stage = "starting" /\ y.then # "staging"
               => x.inputs = c
            /\ \/ y.stage = "reading"
               \/ y.stage = "starting" /\ y.then = "reading"
               => x.output = c
            /\ z.kind = y.kind /\ z.stage \in Active
        BY <1>2, <1>4, <1>5, <2>1, <3>1, <3>2
      <3>5. \/ z.stage \notin Active
            \/ z.stage = "done"
            \/ /\ w.inputs = c
               /\ z.stage \in {"queued", "sent"} \/ (z.stage = "starting" /\ z.then = "sent")
            \/ /\ y.stage = "queued" /\ SameFiles(w, x)
               /\ z.stage = "sent" \/ (z.stage = "starting" /\ z.then = "sent")
            \/ /\ y.stage = "starting" /\ SameFiles(w, x) /\ z.stage = y.then
            \/ /\ y.stage = "sent"
               /\ z.stage = "reading" \/ (z.stage = "starting" /\ z.then = "reading")
               /\ w.inputs = x.inputs
               /\ y.kind = "artifact" /\ (Answer(c) = c => w.output = x.inputs)
        BY <1>1, <2>3 DEF FilesView
      <3>6. y.stage = "starting" => y.then \in {"staging", "sent", "reading"}
        <4>1. CallKept(c)
          BY DEF SandboxInv
        <4> QED BY <1>1, <1>2, <4>1, CallNow DEF SandboxInv
      <3>7. z.stage # "done"
        BY <3>4 DEF Active
      <3> HIDE DEF x, y, z, w
      <3>8. /\ /\ z.kind = "artifact"
               /\ \/ z.stage \in {"queued", "sent", "reading"}
                  \/ z.stage = "starting" /\ z.then # "staging"
               => w.inputs = c
            /\ \/ z.stage = "reading"
               \/ z.stage = "starting" /\ z.then = "reading"
               => w.output = c
        BY <3>3, <3>4, <3>5, <3>6, <3>7 DEF SameFiles
      <3> QED BY <3>2, <3>8 DEF z, w
    <2> QED BY <2>2, <2>3
  <1> QED BY <1>3, <1>4, <1>5

LEMMA TwoMembers ==
  ASSUME NEW S, IsFiniteSet(S), NEW u \in S, NEW v \in S, u # v
  PROVE  Cardinality(S) > 1
  <1>1. Cardinality(S) \in Nat
    BY FS_CardinalityType
  <1>2. Cardinality({u, v}) <= Cardinality(S)
    BY FS_Subset
  <1>3. Cardinality({u, v}) = 2
    <2>1. IsFiniteSet({v}) /\ Cardinality({v}) = 1
      BY FS_Singleton
    <2>2. {u, v} = {v} \cup {u} /\ u \notin {v}
      OBVIOUS
    <2> QED BY <2>1, <2>2, FS_AddElement
  <1> QED BY <1>1, <1>2, <1>3

LEMMA SeenKeepsApart ==
  ASSUME SandboxInv, NEW c \in Call, CallSeen(c)
  PROVE  ToolCallsApart'
  <1>1. CallFrame(c) /\ SandboxTypeOK /\ FilesView(c) /\ ToolCallsApart /\ CallKept(c)
    BY DEF CallSeen, SandboxInv
  <1>2. /\ call[c].on \in Box /\ call[c].stage \in Active
        /\ \A d \in Call : d # c => call'[d] = call[d]
        /\ \A b \in Box : SameUse(box'[b], box[b])
        /\ \A d \in Call : call'[d].on = call[d].on
    BY <1>1, CallQuiet
  <1>3. call \in [Call -> CallRecord]
    BY <1>1, RecordsTyped
  <1> DEFINE y == call[c]
             z == call'[c]
             b == y.on
             x == box[b]
  <1>4. c \in ActiveOn(b)
    BY <1>2 DEF ActiveOn
  <1>5. y.stage # "stray" => exec[y.by].stage = "running" /\ y.by \in x.users
    BY <1>1, <1>2 DEF CallKept
  <1>6. UsersKept(b) /\ AbortKept(b) /\ OutputKept(b) /\ (backend = "subprocess" => ChildKept(b))
    BY <1>2 DEF SandboxInv
  <1>7. ASSUME y.stage = "sent", Answer(c) # c PROVE x.aborted /\ Cardinality(x.users) > 1
    <2>1. backend = "subprocess" /\ x.pipe # <<c>>
      BY <1>7 DEF Answer
    <2>2. x.aborted
      BY <1>6, <1>7, <2>1 DEF ChildKept
    <2>3. PICK u \in x.users : exec[u].stage # "running"
      BY <1>6, <2>2 DEF AbortKept
    <2>4. IsFiniteSet(x.users)
      BY <1>6 DEF UsersKept
    <2> QED BY <1>5, <1>7, <2>2, <2>3, <2>4, TwoMembers
  <1>8. ASSUME y.stage = "reading", ~x.overlap PROVE x.output = c
    <2>1. ~x.aborted
      BY <1>4, <1>6, <1>8 DEF AbortKept
    <2> QED BY <1>4, <1>6, <1>8, <2>1 DEF OutputKept
  <1>11. \A d \in Call : call[d].heard # NoCall \/ call[d].product # NoCall => call[d].on \in Box
    BY DEF SandboxInv, CallKept
  <1>9. AnswersOwnCommand'
    <2>1. ASSUME NEW d \in Call, call'[d].heard \notin {d, NoCall}
          PROVE  box'[call'[d].on].aborted /\ Cardinality(box'[call'[d].on].users) > 1
      <3>0. call'[d].on = call[d].on
        BY <1>2
      <3>1. CASE call'[d].heard = call[d].heard
        <4>1. box[call[d].on].aborted /\ Cardinality(box[call[d].on].users) > 1
          BY <1>1, <2>1, <3>1 DEF ToolCallsApart, AnswersOwnCommand
        <4>2. call[d].on \in Box
          BY <1>11, <2>1, <3>1
        <4> QED BY <1>2, <3>0, <4>1, <4>2 DEF SameUse
      <3>2. CASE call'[d].heard # call[d].heard
        <4>1. d = c
          BY <1>2, <3>2
        <4>2. y.stage = "sent" /\ z.heard = Answer(c)
          BY <1>1, <3>2, <4>1 DEF FilesView
        <4>3. SameUse(box'[b], x) /\ z.on = b
          BY <1>2
        <4> QED BY <1>7, <2>1, <4>1, <4>2, <4>3 DEF SameUse
      <3> QED BY <3>1, <3>2
    <2> QED BY <2>1 DEF AnswersOwnCommand
  <1>10. ArtifactFromOwnInputs'
    <2>1. ASSUME NEW d \in Call, call'[d].product \notin {d, NoCall}
          PROVE  box'[call'[d].on].overlap
      <3>0. call'[d].on = call[d].on
        BY <1>2
      <3>1. CASE call'[d].product = call[d].product
        <4>1. box[call[d].on].overlap
          BY <1>1, <2>1, <3>1 DEF ToolCallsApart, ArtifactFromOwnInputs
        <4>2. call[d].on \in Box
          BY <1>11, <2>1, <3>1
        <4> QED BY <1>2, <3>0, <4>1, <4>2 DEF SameUse
      <3>2. CASE call'[d].product # call[d].product
        <4>1. d = c
          BY <1>2, <3>2
        <4>2. y.stage = "reading" /\ z.product = x.output
          BY <1>1, <3>2, <4>1 DEF FilesView
        <4>3. SameUse(box'[b], x) /\ z.on = b
          BY <1>2
        <4> QED BY <1>8, <2>1, <4>1, <4>2, <4>3 DEF SameUse
      <3> QED BY <3>1, <3>2
    <2> QED BY <2>1 DEF ArtifactFromOwnInputs
  <1> QED BY <1>9, <1>10 DEF ToolCallsApart

LEMMA SeenKeepsSeconds ==
  ASSUME SandboxInv, NEW c \in Call, CallSeen(c), NEW e \in Exec
  PROVE  SecondsKept(e)'
  <1>1. CallFrame(c) /\ SandboxTypeOK /\ SecondsKept(e) /\ CallKept(c) /\ VictimKept
    BY DEF CallSeen, SandboxInv
  <1>2. /\ call[c].on \in Box /\ call[c].stage \in Active
        /\ \A b \in Box : b # call[c].on => box'[b] = box[b]
        /\ \A b \in Box : SameUse(box'[b], box[b])
    BY <1>1, CallQuiet
  <1>3. exec' = exec /\ keyOf' = keyOf /\ metered' = metered /\ (faults' = 0 => faults = 0)
    BY <1>1 DEF CallFrame
  <1>4. CASE exec[e].victim = NoBox
    BY <1>1, <1>3, <1>4 DEF SecondsKept
  <1>5. CASE exec[e].victim # NoBox
    <2> DEFINE b == exec[e].victim
    <2>1. b \in Box /\ exec[e].seen \in Nat /\ box[b].elapsed \in Nat
      <3>1. exec[e] \in ExecRecord
        BY <1>1, RecordsTyped
      <3>2. b \in Box /\ exec[e].seen \in Nat
        BY <1>5, <3>1 DEF ExecRecord
      <3>3. box[b] \in BoxRecord
        BY <1>1, <3>2, RecordsTyped
      <3> QED BY <3>2, <3>3 DEF BoxRecord
    <2>2. Single(b)' => Single(b)
      BY <1>2, <1>3, <2>1, QuietUse
    <2>3. \/ box'[b].elapsed = box[b].elapsed
          \/ b = call[c].on /\ call[c].stage = "sent" /\ box'[b].elapsed = box[b].elapsed + 1
      <3>1. CASE b = call[c].on
        BY <1>1, <3>1 DEF CallFrame
      <3> QED BY <1>2, <2>1, <3>1
    <2>4. b = call[c].on /\ call[c].stage = "sent" => ~Single(b)
      <3> SUFFICES ASSUME b = call[c].on, call[c].stage = "sent" PROVE ~Single(b)
        OBVIOUS
      <3>1. exec[call[c].by].stage = "running" /\ call[c].by \in box[b].users
        BY <1>1, <1>2 DEF CallKept
      <3>2. e \in box[b].users /\ exec[e].stage # "running"
        BY <1>1, <1>5 DEF VictimKept
      <3> QED BY <3>1, <3>2 DEF Single
    <2>5. /\ metered[e] # 0 => metered[e] = exec[e].seen
          /\ exec[e].seen <= box[b].elapsed
          /\ Single(b) => exec[e].seen = box[b].elapsed
          /\ exec[e].stage = "closed" /\ faults = 0 => metered[e] = exec[e].seen
      BY <1>1, <1>5 DEF SecondsKept
    <2>6. exec[e].seen <= box'[b].elapsed
      BY <2>1, <2>3, <2>5
    <2>7. Single(b)' => exec[e].seen = box'[b].elapsed
      BY <2>2, <2>3, <2>4, <2>5
    <2> QED BY <1>3, <1>5, <2>5, <2>6, <2>7 DEF SecondsKept
  <1> QED BY <1>4, <1>5

LEMMA CallKeepsSandboxes ==
  ASSUME SandboxInv, NEW c \in Call, SandboxCall(c)
  PROVE  SandboxInv'
  <1>1. CallSeen(c)
    <2>1. CallKept(c) /\ SandboxTypeOK /\ (backend = "subprocess" => \A b \in Box : ChildKept(b))
      BY DEF SandboxInv
    <2> QED BY <2>1, CallSteps
  <1>2. SandboxTypeOK'
    BY <1>1, CallQuiet DEF CallSeen, SandboxInv
  <1>3. backend' = backend
    BY <1>1 DEF CallSeen, CallFrame
  <1>4. /\ \A d \in Call : CallKept(d)'
        /\ TableKept' /\ VictimKept'
        /\ \A b \in Box : UsersKept(b)' /\ AbortKept(b)'
    BY <1>1, SeenKeepsUse
  <1>5. \A b \in Box : OutputKept(b)' /\ (backend = "subprocess" => ChildKept(b)')
                       /\ (backend = "remote" => EnvironmentKept(b)')
    BY <1>1, SeenKeepsOutput, SeenKeepsChild, SeenKeepsEnvironment
  <1>6. ToolCallsApart' /\ \A e \in Exec : SecondsKept(e)'
    BY <1>1, SeenKeepsApart, SeenKeepsSeconds
  <1> QED BY <1>2, <1>3, <1>4, <1>5, <1>6 DEF SandboxInv

-----------------------------------------------------------------------------
(* A call begins: what it does to its record, its sandbox and the table.    *)
UseSeen(e, c, b) ==
  LET z == call'[c]  x == box[b]  w == box'[b] IN
  /\ exec[e].stage = "running" /\ call[c].stage = "idle"
  /\ UNCHANGED <<backend, keyOf, exec, metered, faults>>
  /\ table[keyOf[e]] # NoBox => b = table[keyOf[e]]
  /\ table[keyOf[e]] = NoBox => ~x.made
  /\ table' = [table EXCEPT ![keyOf[e]] = b]
  /\ call' \in [Call -> CallRecord] /\ box' \in [Box -> BoxRecord]
  /\ \A d \in Call \ {c} : call'[d] = call[d]
  /\ \A a \in Box \ {b} : box'[a] = box[a]
  /\ z.by = e /\ z.on = b /\ z.heard = call[c].heard /\ z.product = call[c].product
  /\ w.made /\ w.users = x.users \cup {e} /\ (w.overlap <=> x.overlap \/ ActiveOn(b) # {})
  /\ w.aborted = x.aborted /\ w.gone = x.gone /\ SameChild(w, x) /\ SameFiles(w, x)
  /\ w.elapsed = x.elapsed
  /\ \/ /\ backend = "remote" /\ ~x.handle /\ w.queue = x.queue /\ z.stage = "starting"
        /\ z.then = "staging" \/ (z.kind = "python" /\ z.then = "sent")
     \/ backend = "subprocess" /\ w.queue = Append(x.queue, c) /\ z.stage = "queued" /\ z.kind = "python"
     \/ z.stage = "staging" /\ w.queue = x.queue
     \/ backend = "remote" /\ z.stage = "sent" /\ z.kind = "python" /\ w.queue = x.queue

LEMMA UseIsSeen ==
  ASSUME SandboxTypeOK, NEW e \in Exec, NEW c \in Call, NEW k \in {"python", "artifact"}, Use(e, c, k)
  PROVE  \E b \in Box : UseSeen(e, c, b)
  <1> DEFINE key == keyOf[e]
             b == IF table[key] # NoBox THEN table[key] ELSE CHOOSE x \in Box : ~box[x].made
             x == box[b]
             y == call[c]
             next == IF k = "artifact" THEN "staging" ELSE "sent"
             q == [y EXCEPT !.kind = k, !.by = e, !.on = b]
             s == [x EXCEPT !.made = TRUE, !.users = @ \cup {e},
                            !.overlap = @ \/ ActiveOn(b) # {}]
             n == Enter(q, s, next, c)
  <1>1. /\ call \in [Call -> CallRecord] /\ box \in [Box -> BoxRecord]
        /\ table \in [Key -> Box \cup {NoBox}] /\ keyOf \in [Exec -> Key]
        /\ backend \in {"subprocess", "remote"}
    BY RecordsTyped
  <1>2. /\ exec[e].stage = "running" /\ call[c].stage = "idle"
        /\ UNCHANGED <<backend, keyOf, exec, metered, faults>>
        /\ table[key] # NoBox \/ \E a \in Box : ~box[a].made
        /\ table' = [table EXCEPT ![key] = b]
        /\ call' = [call EXCEPT ![c] = n[1]]
        /\ box' = [box EXCEPT ![b] = n[2]]
    BY Zenon DEF Use
  <1>3. b \in Box /\ (table[key] = NoBox => ~x.made) /\ (table[key] # NoBox => b = table[key])
    <2>1. table[key] \in Box \cup {NoBox}
      BY <1>1
    <2> QED BY <1>2, <2>1
  <1> HIDE DEF b
  <1>4. x \in BoxRecord /\ y \in CallRecord
    BY <1>1, <1>3
  <1>5. next \in {"staging", "sent"} /\ (next = "sent" => k = "python")
    OBVIOUS
  <1>6. /\ q \in CallRecord /\ q.kind = k /\ q.by = e /\ q.on = b
        /\ q.heard = y.heard /\ q.product = y.product
    BY <1>3, <1>4 DEF CallRecord
  <1>7. /\ s \in BoxRecord /\ s.made /\ s.users = x.users \cup {e}
        /\ (s.overlap <=> x.overlap \/ ActiveOn(b) # {})
        /\ s.aborted = x.aborted /\ s.gone = x.gone /\ SameChild(s, x) /\ SameFiles(s, x)
        /\ s.elapsed = x.elapsed /\ s.queue = x.queue /\ s.handle = x.handle
    <2>1. PICK ov \in BOOLEAN : ov <=> (x.overlap \/ ActiveOn(b) # {})
      OBVIOUS
    <2>2. PICK us \in SUBSET Exec : us = x.users \cup {e}
      <3>1. x.users \in SUBSET Exec
        BY <1>4 DEF BoxRecord
      <3> QED BY <3>1
    <2> DEFINE t == [x EXCEPT !.made = TRUE, !.users = us, !.overlap = ov]
    <2>3. s = t
      BY <2>1, <2>2
    <2>4. /\ t \in BoxRecord /\ t.made /\ t.users = us /\ t.overlap = ov
          /\ t.aborted = x.aborted /\ t.gone = x.gone /\ SameChild(t, x) /\ SameFiles(t, x)
          /\ t.elapsed = x.elapsed /\ t.queue = x.queue /\ t.handle = x.handle
      BY <1>4 DEF BoxRecord, SameChild, SameFiles
    <2> HIDE DEF s, t
    <2> QED BY <2>1, <2>2, <2>3, <2>4
  <1> HIDE DEF q, s, next
  <1>8. Entered(n, q, s, next, c)
    BY <1>1, <1>5, <1>6, <1>7, Enters
  <1>9. n[1] \in CallRecord /\ n[2] \in BoxRecord
    BY <1>8 DEF Entered
  <1> HIDE DEF n, x, y
  <1>10. /\ call' \in [Call -> CallRecord] /\ box' \in [Box -> BoxRecord]
         /\ call'[c] = n[1] /\ box'[b] = n[2]
         /\ \A d \in Call \ {c} : call'[d] = call[d]
         /\ \A a \in Box \ {b} : box'[a] = box[a]
    <2> HIDE DEF CallRecord, BoxRecord
    <2> QED BY <1>1, <1>2, <1>3, <1>9
  <1>11. /\ n[1].by = e /\ n[1].on = b /\ n[1].heard = y.heard /\ n[1].product = y.product
         /\ n[1].kind = k
    BY <1>6, <1>8 DEF Entered, SameCall
  <1>12. /\ n[2].made /\ n[2].users = x.users \cup {e}
         /\ (n[2].overlap <=> x.overlap \/ ActiveOn(b) # {})
         /\ n[2].aborted = x.aborted /\ n[2].gone = x.gone /\ SameChild(n[2], x)
         /\ SameFiles(n[2], x) /\ n[2].elapsed = x.elapsed
    BY <1>7, <1>8 DEF Entered, SameUse, SameChild, SameFiles
  <1>13. \/ /\ backend = "remote" /\ ~x.handle /\ n[2].queue = x.queue
            /\ n[1].stage = "starting" /\ n[1].then = next
         \/ /\ backend = "subprocess" /\ next = "sent" /\ n[2].queue = Append(x.queue, c)
            /\ n[1].stage = "queued"
         \/ /\ next = "staging" \/ (next = "sent" /\ backend = "remote")
            /\ n[1].stage = next /\ n[2].queue = x.queue
    BY <1>1, <1>5, <1>7, <1>8 DEF Entered
  <1>14. UseSeen(e, c, b)
    <2>1. table[keyOf[e]] # NoBox => b = table[keyOf[e]]
      BY <1>3
    <2> QED BY <1>2, <1>3, <1>5, <1>10, <1>11, <1>12, <1>13, <2>1 DEF UseSeen, x, y
  <1> QED BY <1>3, <1>14

(* The sandbox that is used is that of executions under way with the same   *)
(* key; nobody has dropped it, and no call was cancelled in it.             *)
LEMMA UsedTogether ==
  ASSUME SandboxInv, NEW e \in Exec, NEW b \in Box,
         table[keyOf[e]] # NoBox => b = table[keyOf[e]],
         table[keyOf[e]] = NoBox => ~box[b].made
  PROVE  /\ \A u \in box[b].users : exec[u].stage = "running" /\ keyOf[u] = keyOf[e]
         /\ ~box[b].aborted
         /\ \A f \in Exec : exec[f].victim # b
         /\ \A k \in Key : table[k] = b => k = keyOf[e]
         /\ \A d \in ActiveOn(b) : call[d].stage # "stray"
  <1>1. TableKept /\ VictimKept /\ UsersKept(b) /\ AbortKept(b) /\ \A c \in Call : CallKept(c)
    BY DEF SandboxInv
  <1>2. keyOf[e] \in Key /\ b # NoBox
    BY SandboxesAssumption, RecordsTyped DEF SandboxInv
  <1>3. \A u \in box[b].users : exec[u].stage = "running" /\ keyOf[u] = keyOf[e]
    <2>1. CASE table[keyOf[e]] # NoBox
      BY <1>1, <1>2, <2>1 DEF TableKept
    <2>2. CASE table[keyOf[e]] = NoBox
      BY <1>1, <2>2 DEF UsersKept
    <2> QED BY <2>1, <2>2
  <1>4. ~box[b].aborted
    BY <1>1, <1>3 DEF AbortKept
  <1>5. ASSUME NEW f \in Exec PROVE exec[f].victim # b
    <2>1. exec[f].victim = b => f \in box[b].users /\ exec[f].stage # "running"
      BY <1>1, <1>2 DEF VictimKept
    <2> QED BY <1>3, <2>1
  <1>6. ASSUME NEW k \in Key, table[k] = b PROVE k = keyOf[e]
    <2>1. /\ box[b].users # {}
          /\ \A u \in box[b].users : keyOf[u] = k
      BY <1>1, <1>2, <1>6 DEF TableKept
    <2> QED BY <1>3, <2>1
  <1>7. ASSUME NEW d \in ActiveOn(b) PROVE call[d].stage # "stray"
    <2>1. d \in Call /\ call[d].on = b /\ call[d].stage \in Active
      BY DEF ActiveOn
    <2> QED BY <1>1, <1>4, <2>1 DEF CallKept
  <1> QED BY <1>3, <1>4, <1>5, <1>6, <1>7

LEMMA UseKeepsSandboxes ==
  ASSUME SandboxInv, NEW e \in Exec, NEW c \in Call, NEW b \in Box, UseSeen(e, c, b)
  PROVE  SandboxInv'
  <1> DEFINE x == box[b]
             w == box'[b]
             z == call'[c]
             key == keyOf[e]
  <1>0. /\ SandboxTypeOK /\ TableKept /\ VictimKept /\ ToolCallsApart
        /\ \A d \in Call : CallKept(d)
        /\ \A a \in Box : /\ UsersKept(a) /\ AbortKept(a) /\ OutputKept(a)
                          /\ backend = "subprocess" => ChildKept(a)
                          /\ backend = "remote" => EnvironmentKept(a)
        /\ \A f \in Exec : SecondsKept(f)
    BY DEF SandboxInv
  <1>1. /\ call \in [Call -> CallRecord] /\ box \in [Box -> BoxRecord]
        /\ exec \in [Exec -> ExecRecord] /\ table \in [Key -> Box \cup {NoBox}]
        /\ backend \in {"subprocess", "remote"} /\ keyOf \in [Exec -> Key]
        /\ metered \in [Exec -> Nat] /\ faults \in 0..MaxFaults
    BY <1>0, RecordsTyped
  <1>2. /\ exec[e].stage = "running" /\ call[c].stage = "idle"
        /\ UNCHANGED <<backend, keyOf, exec, metered, faults>>
        /\ table' = [table EXCEPT ![key] = b]
        /\ call' \in [Call -> CallRecord] /\ box' \in [Box -> BoxRecord]
        /\ \A d \in Call \ {c} : call'[d] = call[d]
        /\ \A a \in Box \ {b} : box'[a] = box[a]
        /\ z.by = e /\ z.on = b /\ z.heard = call[c].heard /\ z.product = call[c].product
        /\ w.made /\ w.users = x.users \cup {e} /\ (w.overlap <=> x.overlap \/ ActiveOn(b) # {})
        /\ w.aborted = x.aborted /\ w.gone = x.gone /\ SameChild(w, x) /\ SameFiles(w, x)
        /\ w.elapsed = x.elapsed
    BY DEF UseSeen
  <1>3. /\ table[key] # NoBox => b = table[key]
        /\ table[key] = NoBox => ~x.made
        /\ \/ /\ backend = "remote" /\ ~x.handle /\ w.queue = x.queue /\ z.stage = "starting"
              /\ z.then = "staging" \/ (z.kind = "python" /\ z.then = "sent")
           \/ backend = "subprocess" /\ w.queue = Append(x.queue, c) /\ z.stage = "queued" /\ z.kind = "python"
           \/ z.stage = "staging" /\ w.queue = x.queue
           \/ backend = "remote" /\ z.stage = "sent" /\ z.kind = "python" /\ w.queue = x.queue
    BY DEF UseSeen
  <1>4. /\ \A u \in x.users : exec[u].stage = "running" /\ keyOf[u] = key
        /\ ~x.aborted
        /\ \A f \in Exec : exec[f].victim # b
        /\ \A k \in Key : table[k] = b => k = key
        /\ \A d \in ActiveOn(b) : call[d].stage # "stray"
    BY <1>3, UsedTogether
  <1>5. /\ key \in Key /\ table'[key] = b /\ b # NoBox /\ x.users \in SUBSET Exec
        /\ \A k \in Key : k # key => table'[k] = table[k]
    <2>1. x \in BoxRecord
      BY <1>1
    <2> QED BY <1>1, <1>2, <2>1, SandboxesAssumption DEF BoxRecord
  <1>6. \A a \in Box : /\ box'[a].aborted = box[a].aborted /\ box[a].users \subseteq box'[a].users
                       /\ (box[a].overlap => box'[a].overlap) /\ (box[a].made => box'[a].made)
    BY <1>2
  <1>7. c \in Call /\ z.stage \in {"starting", "queued", "staging", "sent"}
        /\ call[c].stage \notin Active
    <2>1. call[c].stage \notin Active
      BY <1>2 DEF Active
    <2> QED BY <1>3, <2>1
  <1>8. \A a \in Box : a # b => ActiveOn(a)' = ActiveOn(a)
    <2> SUFFICES ASSUME NEW a \in Box, a # b, NEW d \in Call
                 PROVE  (call'[d].on = a /\ call'[d].stage \in Active)
                          <=> (call[d].on = a /\ call[d].stage \in Active)
      BY DEF ActiveOn
    <2> QED BY <1>2, <1>7
  <1>9. ActiveOn(b)' = ActiveOn(b) \cup {c}
    <2> SUFFICES ASSUME NEW d \in Call
                 PROVE  (call'[d].on = b /\ call'[d].stage \in Active)
                          <=> (call[d].on = b /\ call[d].stage \in Active) \/ d = c
      BY DEF ActiveOn
    <2>1. z.stage \in Active
      BY <1>7 DEF Active
    <2> QED BY <1>2, <1>7, <2>1
  <1> HIDE DEF x, w, z, key
  <1>10. SandboxTypeOK'
    <2>1. /\ backend' \in {"subprocess", "remote"} /\ keyOf' \in [Exec -> Key]
          /\ exec' \in [Exec -> ExecRecord] /\ metered' \in [Exec -> Nat] /\ faults' \in 0..MaxFaults
      BY <1>1, <1>2
    <2>2. table' \in [Key -> Box \cup {NoBox}]
      BY <1>1, <1>2
    <2> QED BY <1>2, <2>1, <2>2 DEF SandboxTypeOK, ExecRecord, CallRecord, BoxRecord, CallStage
  <1>11. ASSUME NEW d \in Call PROVE CallKept(d)'
    <2>1. CASE d = c
      <3>1. z.on \in Box /\ z.by \in w.users
        BY <1>2
      <3>2. z.stage # "idle" /\ z.stage # "stray" /\ exec[e].stage = "running"
        BY <1>2, <1>7
      <3>3. /\ z.stage = "starting" => z.then # "none" /\ backend = "remote"
            /\ z.stage = "queued" => backend = "subprocess"
        BY <1>3
      <3> QED BY <1>2, <2>1, <3>1, <3>2, <3>3 DEF CallKept, z, w
    <2>2. CASE d # c
      <3>1. call'[d] = call[d] /\ CallKept(d)
        BY <1>0, <1>2, <2>2
      <3> QED BY <1>2, <1>6, <3>1 DEF CallKept
    <2> QED BY <2>1, <2>2
  <1>12. TableKept'
    <2> SUFFICES ASSUME NEW k \in Key, table'[k] # NoBox
                 PROVE  /\ box'[table'[k]].made /\ box'[table'[k]].users # {}
                        /\ \A u \in box'[table'[k]].users : exec[u].stage = "running" /\ keyOf[u] = k
      BY <1>2 DEF TableKept
    <2>1. CASE k = key
      <3>1. \A u \in w.users : exec[u].stage = "running" /\ keyOf[u] = key
        BY <1>2, <1>4 DEF key
      <3> QED BY <1>2, <1>5, <2>1, <3>1 DEF w
    <2>2. CASE k # key
      <3>1. table'[k] = table[k] /\ table[k] \in Box /\ table[k] # b
        BY <1>1, <1>4, <1>5, <2>2
      <3>2. box'[table[k]] = box[table[k]]
        BY <1>2, <3>1
      <3> QED BY <1>0, <3>1, <3>2 DEF TableKept
    <2> QED BY <2>1, <2>2
  <1>13. VictimKept'
    <2>1. ASSUME NEW f \in Exec, exec[f].victim # NoBox
          PROVE  box'[exec[f].victim] = box[exec[f].victim]
      <3>1. exec[f].victim \in Box
        BY <1>1, <2>1 DEF ExecRecord
      <3> QED BY <1>2, <1>4, <3>1
    <2> SUFFICES ASSUME NEW f \in Exec
                 PROVE  /\ exec[f].stage \in {"closing", "recording"} => exec[f].victim # NoBox
                        /\ exec[f].victim # NoBox =>
                             /\ exec[f].stage # "running" /\ f \in box'[exec[f].victim].users
                             /\ box'[exec[f].victim].made
                             /\ \A g \in Exec : exec[g].victim = exec[f].victim => g = f
      BY <1>2 DEF VictimKept
    <2> QED BY <1>0, <2>1 DEF VictimKept
  <1>14. ASSUME NEW a \in Box, a # b
         PROVE  /\ UsersKept(a)' /\ AbortKept(a)' /\ OutputKept(a)'
                /\ backend = "subprocess" => ChildKept(a)'
                /\ backend = "remote" => EnvironmentKept(a)'
    <2>1. box'[a] = box[a] /\ ActiveOn(a)' = ActiveOn(a)
      BY <1>2, <1>8, <1>14
    <2>2. \A d \in Call : call'[d].on = a => call'[d] = call[d]
      BY <1>2, <1>14 DEF z
    <2>3. \A d \in Call : call[d].on = a /\ call[d].stage \in {"starting", "sent"} => call'[d] = call[d]
      <3>1. \A d \in Call : call[d].stage \in {"starting", "sent"} => d # c
        BY <1>2
      <3> QED BY <1>2, <3>1
    <2>4. UsersKept(a)'
      <3>1. \A k \in Key : table[k] = a => table'[k] = a
        BY <1>3, <1>5, <1>14, SandboxesAssumption DEF key
      <3> QED BY <1>0, <1>2, <2>1, <3>1 DEF UsersKept
    <2>5. AbortKept(a)' /\ OutputKept(a)'
      <3>1. \A d \in ActiveOn(a) : call'[d] = call[d]
        <4>1. \A d \in ActiveOn(a) : d \in Call /\ d # c
          BY <1>7 DEF ActiveOn
        <4> QED BY <1>2, <4>1
      <3>2. AbortKept(a) /\ OutputKept(a)
        BY <1>0
      <3>3. AbortKept(a)'
        BY <1>2, <2>1, <3>1, <3>2 DEF AbortKept
      <3>4. OutputKept(a)'
        BY <2>1, <3>1, <3>2 DEF OutputKept
      <3> QED BY <3>3, <3>4
    <2>6. ASSUME backend = "subprocess" PROVE ChildKept(a)'
      <3>1. ChildKept(a)
        BY <1>0, <2>6
      <3>2. \A d \in Call : call'[d].on = a => call[d].on = a /\ call[d].stage = call'[d].stage
        BY <2>2
      <3>3. \A d \in Call : call[d].on = a /\ call[d].stage = "sent" =>
              call'[d].on = a /\ call'[d].stage = "sent"
        BY <2>3
      <3> QED BY <1>2, <2>1, <3>1, <3>2, <3>3 DEF ChildKept
    <2>7. ASSUME backend = "remote" PROVE EnvironmentKept(a)'
      <3>1. EnvironmentKept(a)
        BY <1>0, <2>7
      <3>2. \A d \in Call : call'[d].on = a => call[d].on = a /\ call[d].stage = call'[d].stage
        BY <2>2
      <3>3. Orderly(a)' <=> Orderly(a)
        BY <1>2, <2>1 DEF Orderly, Single
      <3> QED BY <1>2, <2>1, <3>1, <3>2, <3>3 DEF EnvironmentKept
    <2> QED BY <2>4, <2>5, <2>6, <2>7
  <1>15. UsersKept(b)'
    <2>1. IsFiniteSet(x.users)
      BY <1>0 DEF UsersKept, x
    <2>2. IsFiniteSet(w.users)
      BY <1>2, <2>1, FS_AddElement
    <2>3. \A u \in w.users : keyOf[u] = key
      BY <1>2, <1>4 DEF key
    <2>4. w.made /\ \E k \in Key : table'[k] = b
      BY <1>2, <1>5
    <2> QED BY <1>2, <2>2, <2>3, <2>4 DEF UsersKept, w
  <1>16. AbortKept(b)'
    BY <1>2, <1>4 DEF AbortKept, w
  <1>17. OutputKept(b)'
    <2> SUFFICES ASSUME ~w.overlap
                 PROVE  /\ \A d, f \in ActiveOn(b)' : d = f
                        /\ \A d \in ActiveOn(b)' : ~w.aborted =>
                             /\ /\ call'[d].kind = "artifact"
                                /\ \/ call'[d].stage \in {"queued", "sent", "reading"}
                                   \/ call'[d].stage = "starting" /\ call'[d].then # "staging"
                                => w.inputs = d
                             /\ \/ call'[d].stage = "reading"
                                \/ call'[d].stage = "starting" /\ call'[d].then = "reading"
                                => w.output = d
      BY DEF OutputKept, w
    <2>1. ActiveOn(b)' = {c}
      BY <1>2, <1>9
    <2>2. /\ ~(/\ z.kind = "artifact"
               /\ \/ z.stage \in {"queued", "sent", "reading"}
                  \/ z.stage = "starting" /\ z.then # "staging")
          /\ ~(\/ z.stage = "reading"
               \/ z.stage = "starting" /\ z.then = "reading")
      BY <1>3
    <2> QED BY <2>1, <2>2 DEF z
  <1>18. ASSUME backend = "subprocess" PROVE ChildKept(b)'
    <2>1. ChildKept(b)
      BY <1>0, <1>18
    <2>2. /\ x.queue \in Seq(Call \cup Exec)
          /\ w.queue = x.queue \/ w.queue = Append(x.queue, c)
      <3>1. x \in BoxRecord
        BY <1>1 DEF x
      <3> QED BY <1>3, <3>1 DEF BoxRecord
    <2>3. \A d \in Call : Holds(d, x) => Holds(d, w)
      <3>1. PICK q \in Seq(Call \cup Exec) : q = x.queue
        BY <2>2
      <3>2. c \in Call \cup Exec
        OBVIOUS
      <3>3. Append(q, c) # << >> /\ (q # << >> => Head(Append(q, c)) = Head(q))
        BY <3>2, AppendKeepsHead
      <3> QED BY <2>2, <3>1, <3>3 DEF Holds
    <2>4. z.stage \notin {"starting", "sent"} /\ call[c].stage = "idle"
      BY <1>2, <1>3, <1>18
    <2>5. w.handle = x.handle /\ w.alive = x.alive /\ w.pipe = x.pipe /\ w.gone = x.gone
          /\ w.aborted = x.aborted
      BY <1>2 DEF SameChild
    <2>6. ASSUME NEW d \in Call, call'[d].on = b, call'[d].stage \in {"starting", "sent"}
          PROVE  /\ Holds(d, w) /\ ~w.gone
                 /\ call'[d].stage = "sent" => w.pipe # << >>
                 /\ call'[d].stage = "sent" /\ ~w.aborted => w.pipe = <<d>>
      <3>1. d # c
        BY <2>4, <2>6 DEF z
      <3>2. call'[d] = call[d]
        BY <1>2, <3>1
      <3>3. /\ Holds(d, x) /\ ~x.gone
            /\ call[d].stage = "sent" => x.pipe # << >>
            /\ call[d].stage = "sent" /\ ~x.aborted => x.pipe = <<d>>
        BY <2>1, <2>6, <3>2 DEF ChildKept, x
      <3> QED BY <2>3, <2>5, <3>2, <3>3
    <2>7. ASSUME ~w.aborted, \A d \in Call : call'[d].on = b => call'[d].stage # "sent"
          PROVE  w.pipe = << >>
      <3>1. \A d \in Call : call[d].on = b => call[d].stage # "sent"
        BY <1>2, <2>4, <2>7
      <3> QED BY <2>1, <2>5, <2>7, <3>1 DEF ChildKept, x
    <2>8. w.gone => w.alive = 0 /\ ~w.handle
      BY <2>1, <2>5 DEF ChildKept, x
    <2> QED BY <1>2, <1>4, <2>6, <2>7, <2>8 DEF ChildKept, w
  <1>19. ASSUME backend = "remote" PROVE EnvironmentKept(b)'
    <2>1. EnvironmentKept(b)
      BY <1>0, <1>19
    <2>2. w.handle = x.handle /\ w.alive = x.alive
      BY <1>2 DEF SameChild
    <2>3. Orderly(b)' => Orderly(b)
      BY <1>2 DEF Orderly, Single, x, w
    <2>4. ASSUME Orderly(b), NEW d \in Call, call'[d].on = b, call'[d].stage = "starting"
          PROVE  ~w.handle
      <3>1. CASE d = c
        BY <1>3, <2>2, <2>4, <3>1 DEF z
      <3>2. CASE d # c
        BY <1>2, <2>1, <2>2, <2>4, <3>2 DEF EnvironmentKept, x
      <3> QED BY <3>1, <3>2
    <2>5. /\ w.handle => w.alive >= 1
          /\ Orderly(b) => w.alive = IF w.handle THEN 1 ELSE 0
      BY <2>1, <2>2 DEF EnvironmentKept, x
    <2> QED BY <1>2, <1>4, <2>3, <2>4, <2>5 DEF EnvironmentKept, w
  <1>20. ToolCallsApart'
    <2>1. CallKept(c)
      BY <1>0
    <2>2. z.heard = NoCall /\ z.product = NoCall
      BY <1>2, <2>1 DEF CallKept
    <2>3. ASSUME NEW d \in Call, call'[d].heard \notin {d, NoCall}
          PROVE  box'[call'[d].on].aborted /\ Cardinality(box'[call'[d].on].users) > 1
      <3>1. d # c
        BY <2>2, <2>3 DEF z
      <3>2. call'[d] = call[d]
        BY <1>2, <3>1
      <3>3. box[call[d].on].aborted /\ Cardinality(box[call[d].on].users) > 1
        BY <1>0, <2>3, <3>2 DEF ToolCallsApart, AnswersOwnCommand
      <3>4. call[d].on \in Box
        BY <1>0, <2>3, <3>2 DEF CallKept
      <3>5. call[d].on # b
        BY <1>4, <3>3 DEF x
      <3> QED BY <1>2, <3>2, <3>3, <3>4, <3>5
    <2>4. ASSUME NEW d \in Call, call'[d].product \notin {d, NoCall}
          PROVE  box'[call'[d].on].overlap
      <3>1. d # c
        BY <2>2, <2>4 DEF z
      <3>2. call'[d] = call[d]
        BY <1>2, <3>1
      <3>3. box[call[d].on].overlap
        BY <1>0, <2>4, <3>2 DEF ToolCallsApart, ArtifactFromOwnInputs
      <3>4. call[d].on \in Box
        BY <1>0, <2>4, <3>2 DEF CallKept
      <3> QED BY <1>6, <3>2, <3>3, <3>4
    <2> QED BY <2>3, <2>4 DEF ToolCallsApart, AnswersOwnCommand, ArtifactFromOwnInputs
  <1>21. ASSUME NEW f \in Exec PROVE SecondsKept(f)'
    <2>1. SecondsKept(f)
      BY <1>0
    <2>2. CASE exec[f].victim = NoBox
      BY <1>2, <2>1, <2>2 DEF SecondsKept
    <2>3. CASE exec[f].victim # NoBox
      <3>1. exec[f].victim \in Box
        BY <1>1, <2>3 DEF ExecRecord
      <3>2. box'[exec[f].victim] = box[exec[f].victim]
        BY <1>2, <1>4, <3>1
      <3>3. Single(exec[f].victim)' <=> Single(exec[f].victim)
        BY <1>2, <3>2 DEF Single
      <3> QED BY <1>2, <2>1, <3>2, <3>3 DEF SecondsKept
    <2> QED BY <2>2, <2>3
  <1>22. \A a \in Box : /\ UsersKept(a)' /\ AbortKept(a)' /\ OutputKept(a)'
                        /\ backend = "subprocess" => ChildKept(a)'
                        /\ backend = "remote" => EnvironmentKept(a)'
    BY <1>14, <1>15, <1>16, <1>17, <1>18, <1>19
  <1> QED BY <1>2, <1>10, <1>11, <1>12, <1>13, <1>20, <1>21, <1>22 DEF SandboxInv

-----------------------------------------------------------------------------
(* An execution ends: what that does to its calls, its sandbox and itself.  *)
SameUpToQueue(s, x) ==
  /\ s.made = x.made /\ s.overlap = x.overlap /\ s.gone = x.gone /\ s.elapsed = x.elapsed
  /\ SameChild(s, x) /\ SameFiles(s, x)

Dropped(e, boxes) ==
  LET b == table[keyOf[e]] IN
  /\ table' = [table EXCEPT ![keyOf[e]] = NoBox]
  /\ exec' \in [Exec -> ExecRecord] /\ box' \in [Box -> BoxRecord]
  /\ \A f \in Exec \ {e} : exec'[f] = exec[f]
  /\ b = NoBox => exec'[e].stage = "closed" /\ exec'[e].victim = exec[e].victim
  /\ b # NoBox => /\ exec'[e].victim = b /\ exec'[e].seen = boxes[b].elapsed
                  /\ exec'[e].stage = IF backend = "remote" /\ ~boxes[b].handle
                                        THEN "recording" ELSE "closing"
  /\ \A a \in Box :
       /\ SameUpToQueue(box'[a], boxes[a]) /\ box'[a].aborted = boxes[a].aborted
       /\ box'[a].users = IF a = b THEN boxes[a].users \cup {e} ELSE boxes[a].users
       /\ box'[a].queue = boxes[a].queue \/ box'[a].queue = Append(boxes[a].queue, e)

LEMMA DropIsSeen ==
  ASSUME SandboxTypeOK, NEW e \in Exec, NEW boxes \in [Box -> BoxRecord], Drop(e, boxes)
  PROVE  Dropped(e, boxes)
  <1> DEFINE b == table[keyOf[e]]
  <1>1. /\ exec \in [Exec -> ExecRecord] /\ table \in [Key -> Box \cup {NoBox}]
        /\ keyOf \in [Exec -> Key] /\ exec[e] \in ExecRecord
    BY RecordsTyped
  <1>2. b \in Box \cup {NoBox}
    BY <1>1
  <1>3. table' = [table EXCEPT ![keyOf[e]] = NoBox]
    BY DEF Drop
  <1>4. CASE b = NoBox
    <2>1. exec' = [exec EXCEPT ![e].stage = "closed"] /\ box' = boxes
      BY <1>4 DEF Drop
    <2>2. PICK st \in {"running", "closing", "recording", "closed"} : st = "closed"
      OBVIOUS
    <2> DEFINE r == [exec[e] EXCEPT !.stage = st]
    <2>3. exec' = [exec EXCEPT ![e] = r]
      BY <1>1, <2>1, <2>2
    <2>4. r \in ExecRecord /\ r.stage = st /\ r.victim = exec[e].victim
      BY <1>1 DEF ExecRecord
    <2> HIDE DEF r
    <2>5. exec' \in [Exec -> ExecRecord] /\ exec'[e] = r /\ \A f \in Exec \ {e} : exec'[f] = exec[f]
      <3> HIDE DEF ExecRecord
      <3> QED BY <1>1, <2>3, <2>4
    <2>6. \A a \in Box : /\ SameUpToQueue(box'[a], boxes[a]) /\ box'[a].aborted = boxes[a].aborted
                         /\ a # b /\ box'[a].users = boxes[a].users
                         /\ box'[a].queue = boxes[a].queue
      BY <1>4, <2>1, SandboxesAssumption DEF SameUpToQueue, SameChild, SameFiles
    <2>7. box' \in [Box -> BoxRecord]
      BY <2>1
    <2> HIDE DEF b
    <2> QED BY <1>3, <1>4, <2>2, <2>4, <2>5, <2>6, <2>7 DEF Dropped, b
  <1>5. CASE b # NoBox
    <2>0. b \in Box /\ boxes[b] \in BoxRecord
      BY <1>2, <1>5
    <2>1. /\ exec' = [exec EXCEPT ![e] =
                  [stage |-> IF backend = "remote" /\ ~boxes[b].handle
                             THEN "recording" ELSE "closing",
                   victim |-> b, seen |-> boxes[b].elapsed]]
          /\ box' = [boxes EXCEPT
                 ![b].users = @ \cup {e},
                 ![b].queue = IF backend = "subprocess" THEN Append(@, e) ELSE @]
      BY <1>5, Zenon DEF Drop
    <2>2. PICK st \in {"running", "closing", "recording", "closed"} :
             st = IF backend = "remote" /\ ~boxes[b].handle THEN "recording" ELSE "closing"
      OBVIOUS
    <2>3. PICK secs \in Nat : secs = boxes[b].elapsed
      BY <2>0 DEF BoxRecord
    <2>4. PICK us \in SUBSET Exec : us = boxes[b].users \cup {e}
      <3>1. boxes[b].users \in SUBSET Exec
        BY <2>0 DEF BoxRecord
      <3> QED BY <3>1
    <2>5. PICK q \in Seq(Call \cup Exec) :
             q = IF backend = "subprocess" THEN Append(boxes[b].queue, e) ELSE boxes[b].queue
      <3>1. boxes[b].queue \in Seq(Call \cup Exec)
        BY <2>0 DEF BoxRecord
      <3>2. e \in Call \cup Exec
        OBVIOUS
      <3>3. Append(boxes[b].queue, e) \in Seq(Call \cup Exec)
        BY <3>1, <3>2, AppendProperties
      <3> QED BY <3>1, <3>3
    <2> DEFINE r == [stage |-> st, victim |-> b, seen |-> secs]
               s == [boxes[b] EXCEPT !.users = us, !.queue = q]
    <2>6. exec' = [exec EXCEPT ![e] = r]
      BY <2>1, <2>2, <2>3
    <2>7. box' = [boxes EXCEPT ![b] = s]
      BY <2>0, <2>1, <2>4, <2>5
    <2>8. r \in ExecRecord /\ r.stage = st /\ r.victim = b /\ r.seen = secs
      BY <2>0 DEF ExecRecord
    <2>9. /\ s \in BoxRecord /\ SameUpToQueue(s, boxes[b]) /\ s.aborted = boxes[b].aborted
          /\ s.users = us /\ s.queue = q
      BY <2>0 DEF BoxRecord, SameUpToQueue, SameChild, SameFiles
    <2> HIDE DEF r, s, b
    <2>10. /\ exec' \in [Exec -> ExecRecord] /\ exec'[e] = r
           /\ \A f \in Exec \ {e} : exec'[f] = exec[f]
      <3> HIDE DEF ExecRecord
      <3> QED BY <1>1, <2>6, <2>8
    <2>11. /\ box' \in [Box -> BoxRecord] /\ box'[b] = s
           /\ \A a \in Box \ {b} : box'[a] = boxes[a]
      <3> HIDE DEF BoxRecord
      <3> QED BY <2>0, <2>7, <2>9
    <2>12. ASSUME NEW a \in Box
           PROVE  /\ SameUpToQueue(box'[a], boxes[a]) /\ box'[a].aborted = boxes[a].aborted
                  /\ box'[a].users = IF a = b THEN boxes[a].users \cup {e} ELSE boxes[a].users
                  /\ box'[a].queue = boxes[a].queue \/ box'[a].queue = Append(boxes[a].queue, e)
      <3>1. CASE a = b
        BY <2>4, <2>5, <2>9, <2>11, <3>1
      <3>2. CASE a # b
        <4>1. box'[a] = boxes[a]
          BY <2>11, <3>2
        <4> QED BY <3>2, <4>1 DEF SameUpToQueue, SameChild, SameFiles
      <3> QED BY <3>1, <3>2
    <2> QED BY <1>3, <1>5, <2>2, <2>3, <2>8, <2>10, <2>11, <2>12 DEF Dropped, b
  <1> QED BY <1>4, <1>5

EndSeen(e) ==
  LET b == table[keyOf[e]] IN
  /\ exec[e].stage = "running"
  /\ UNCHANGED <<backend, keyOf, metered, faults>>
  /\ table' = [table EXCEPT ![keyOf[e]] = NoBox]
  /\ call' \in [Call -> CallRecord]
  /\ exec' \in [Exec -> ExecRecord] /\ box' \in [Box -> BoxRecord]
  /\ \A d \in Call : d \notin CallsOf(e) => call'[d] = call[d]
  /\ \A d \in CallsOf(e) :
       /\ SameCall(call'[d], call[d]) /\ call'[d].then = call[d].then
       /\ call'[d].stage = IF backend = "remote" /\ call[d].stage = "starting"
                             THEN "stray" ELSE "cancelled"
  /\ \A f \in Exec \ {e} : exec'[f] = exec[f]
  /\ b = NoBox => exec'[e].stage = "closed" /\ exec'[e].victim = exec[e].victim
  /\ b # NoBox => /\ exec'[e].victim = b /\ exec'[e].seen = box[b].elapsed
                  /\ exec'[e].stage = IF backend = "remote" /\ ~box[b].handle
                                        THEN "recording" ELSE "closing"
  /\ \A a \in Box :
       /\ SameUpToQueue(box'[a], box[a])
       /\ box'[a].aborted <=> box[a].aborted \/ ActiveOn(a) \cap CallsOf(e) # {}
       /\ box'[a].users = IF a = b THEN box[a].users \cup {e} ELSE box[a].users
       /\ \A d \in Call : d \notin CallsOf(e) /\ Holds(d, box[a]) => Holds(d, box'[a])

LEMMA LeaveIsSeen ==
  ASSUME SandboxTypeOK, NEW e \in Exec, Leave(e)
  PROVE  EndSeen(e)
  <1>1. /\ call \in [Call -> CallRecord] /\ box \in [Box -> BoxRecord]
    BY RecordsTyped
  <1>2. /\ exec[e].stage = "running" /\ CallsOf(e) = {}
        /\ UNCHANGED <<backend, keyOf, call, metered, faults>> /\ Drop(e, box)
    BY DEF Leave
  <1>3. Dropped(e, box)
    BY <1>1, <1>2, DropIsSeen
  <1>4. ASSUME NEW a \in Box, NEW d \in Call, Holds(d, box[a]) PROVE Holds(d, box'[a])
    <2>1. PICK q \in Seq(Call \cup Exec) : q = box[a].queue
      <3>1. box[a] \in BoxRecord
        BY <1>1
      <3> QED BY <3>1 DEF BoxRecord
    <2>2. e \in Call \cup Exec
      OBVIOUS
    <2>3. Append(q, e) # << >> /\ (q # << >> => Head(Append(q, e)) = Head(q))
      BY <2>2, AppendKeepsHead
    <2>4. box'[a].queue = q \/ box'[a].queue = Append(q, e)
      BY <1>3, <2>1 DEF Dropped
    <2> QED BY <1>4, <2>1, <2>3, <2>4 DEF Holds
  <1>5. \A a \in Box : box'[a].aborted <=> box[a].aborted \/ ActiveOn(a) \cap CallsOf(e) # {}
    BY <1>2, <1>3 DEF Dropped
  <1> QED BY <1>1, <1>2, <1>3, <1>4, <1>5 DEF Dropped, EndSeen

LEMMA AbortIsSeen ==
  ASSUME SandboxTypeOK, NEW e \in Exec, AbortPlan(e)
  PROVE  EndSeen(e)
  <1> DEFINE mine == CallsOf(e)
             hit(a) == ActiveOn(a) \cap mine # {}
             boxes == [a \in Box |-> [box[a] EXCEPT !.queue = Without(@, mine),
                                                    !.aborted = @ \/ hit(a)]]
  <1>1. /\ call \in [Call -> CallRecord] /\ box \in [Box -> BoxRecord]
    BY RecordsTyped
  <1>2. /\ exec[e].stage = "running"
        /\ UNCHANGED <<backend, keyOf, metered, faults>> /\ Drop(e, boxes)
        /\ call' = [d \in Call |->
             IF d \notin mine THEN call[d]
             ELSE [call[d] EXCEPT !.stage =
                     IF backend = "remote" /\ @ = "starting" THEN "stray" ELSE "cancelled"]]
    BY Zenon DEF AbortPlan
  <1> HIDE DEF mine
  <1>3. ASSUME NEW d \in Call
        PROVE  /\ call'[d] \in CallRecord
               /\ d \notin mine => call'[d] = call[d]
               /\ d \in mine =>
                    /\ SameCall(call'[d], call[d]) /\ call'[d].then = call[d].then
                    /\ call'[d].stage = IF backend = "remote" /\ call[d].stage = "starting"
                                          THEN "stray" ELSE "cancelled"
    <2>1. call[d] \in CallRecord
      BY <1>1
    <2>2. PICK st \in CallStage :
             st = IF backend = "remote" /\ call[d].stage = "starting" THEN "stray" ELSE "cancelled"
      BY DEF CallStage, Active
    <2> DEFINE r == [call[d] EXCEPT !.stage = st]
    <2>3. call'[d] = IF d \notin mine THEN call[d] ELSE r
      BY <1>2, <2>2
    <2>4. r \in CallRecord /\ SameCall(r, call[d]) /\ r.then = call[d].then /\ r.stage = st
      BY <2>1 DEF CallRecord, SameCall
    <2> HIDE DEF r
    <2> QED BY <2>1, <2>2, <2>3, <2>4
  <1>4. ASSUME NEW a \in Box
        PROVE  /\ boxes[a] \in BoxRecord /\ SameUpToQueue(boxes[a], box[a])
               /\ boxes[a].users = box[a].users
               /\ boxes[a].aborted <=> box[a].aborted \/ hit(a)
               /\ boxes[a].queue = Without(box[a].queue, mine)
    <2>1. box[a] \in BoxRecord
      BY <1>1
    <2>2. PICK ab \in BOOLEAN : ab <=> (box[a].aborted \/ hit(a))
      OBVIOUS
    <2>3. PICK q \in Seq(Call \cup Exec) : q = Without(box[a].queue, mine)
      <3>1. box[a].queue \in Seq(Call \cup Exec)
        BY <2>1 DEF BoxRecord
      <3> QED BY <3>1, WithoutIsQueue
    <2> HIDE DEF hit
    <2> DEFINE s == [box[a] EXCEPT !.queue = q, !.aborted = ab]
    <2>4. boxes[a] = s
      BY <2>2, <2>3
    <2>5. s \in BoxRecord /\ SameUpToQueue(s, box[a]) /\ s.users = box[a].users /\ s.aborted = ab
          /\ s.queue = q
      BY <2>1 DEF BoxRecord, SameUpToQueue, SameChild, SameFiles
    <2> HIDE DEF s, boxes
    <2> QED BY <2>2, <2>3, <2>4, <2>5
  <1>5. boxes \in [Box -> BoxRecord]
    <2>1. DOMAIN boxes = Box /\ boxes = [a \in Box |-> boxes[a]]
      OBVIOUS
    <2> HIDE DEF boxes
    <2> QED BY <1>4, <2>1
  <1> HIDE DEF boxes
  <1>6. Dropped(e, boxes)
    BY <1>2, <1>5, DropIsSeen
  <1>7. ASSUME NEW a \in Box, NEW d \in Call, d \notin mine, Holds(d, box[a]) PROVE Holds(d, box'[a])
    <2>1. PICK q \in Seq(Call \cup Exec) : q = box[a].queue
      <3>1. box[a] \in BoxRecord
        BY <1>1
      <3> QED BY <3>1 DEF BoxRecord
    <2>2. e \in Call \cup Exec
      OBVIOUS
    <2>3. PICK p \in Seq(Call \cup Exec) : p = Without(q, mine)
      BY WithoutIsQueue
    <2>4. p # << >> /\ Head(p) = d
      <3>1. q # << >> /\ Head(q) = d
        BY <1>7, <2>1 DEF Holds
      <3> QED BY <1>7, <2>3, <3>1, WithoutIsQueue
    <2>5. Append(p, e) # << >> /\ (p # << >> => Head(Append(p, e)) = Head(p))
      BY <2>2, AppendKeepsHead
    <2>6. box'[a].queue = p \/ box'[a].queue = Append(p, e)
      BY <1>4, <1>6, <2>1, <2>3 DEF Dropped
    <2> QED BY <2>4, <2>5, <2>6 DEF Holds
  <1>8. ASSUME NEW a \in Box
        PROVE  /\ SameUpToQueue(box'[a], box[a])
               /\ box'[a].aborted <=> box[a].aborted \/ hit(a)
               /\ box'[a].users = IF a = table[keyOf[e]] THEN box[a].users \cup {e} ELSE box[a].users
    <2>1. /\ SameUpToQueue(box'[a], boxes[a]) /\ box'[a].aborted = boxes[a].aborted
          /\ box'[a].users = IF a = table[keyOf[e]] THEN boxes[a].users \cup {e} ELSE boxes[a].users
      BY <1>6 DEF Dropped
    <2> HIDE DEF hit
    <2> QED BY <1>4, <2>1 DEF SameUpToQueue, SameChild, SameFiles
  <1>9. call' \in [Call -> CallRecord]
    BY <1>2, <1>3
  <1>10. table[keyOf[e]] # NoBox =>
           /\ exec'[e].victim = table[keyOf[e]] /\ exec'[e].seen = box[table[keyOf[e]]].elapsed
           /\ exec'[e].stage = IF backend = "remote" /\ ~box[table[keyOf[e]]].handle
                                 THEN "recording" ELSE "closing"
    <2> SUFFICES ASSUME table[keyOf[e]] # NoBox
                 PROVE  /\ exec'[e].victim = table[keyOf[e]]
                        /\ exec'[e].seen = box[table[keyOf[e]]].elapsed
                        /\ exec'[e].stage = IF backend = "remote" /\ ~box[table[keyOf[e]]].handle
                                 THEN "recording" ELSE "closing"
      OBVIOUS
    <2>1. table[keyOf[e]] \in Box
      BY RecordsTyped
    <2>2. /\ boxes[table[keyOf[e]]].elapsed = box[table[keyOf[e]]].elapsed
          /\ boxes[table[keyOf[e]]].handle = box[table[keyOf[e]]].handle
      BY <1>4, <2>1 DEF SameUpToQueue, SameChild
    <2> QED BY <1>6, <2>2 DEF Dropped
  <1>11. \A d \in mine : d \in Call
    BY DEF mine, CallsOf
  <1>12. /\ table' = [table EXCEPT ![keyOf[e]] = NoBox]
         /\ exec' \in [Exec -> ExecRecord] /\ box' \in [Box -> BoxRecord]
         /\ \A f \in Exec \ {e} : exec'[f] = exec[f]
         /\ table[keyOf[e]] = NoBox => exec'[e].stage = "closed" /\ exec'[e].victim = exec[e].victim
    BY <1>6 DEF Dropped
  <1> QED BY <1>2, <1>3, <1>7, <1>8, <1>9, <1>10, <1>11, <1>12 DEF EndSeen, mine

LEMMA EndKeepsSandboxes ==
  ASSUME SandboxInv, NEW e \in Exec, EndSeen(e)
  PROVE  SandboxInv'
  <1> DEFINE key == keyOf[e]
             b == table[key]
             mine == CallsOf(e)
             hit(a) == ActiveOn(a) \cap mine # {}
  <1>0. /\ SandboxTypeOK /\ TableKept /\ VictimKept /\ ToolCallsApart
        /\ \A d \in Call : CallKept(d)
        /\ \A a \in Box : /\ UsersKept(a) /\ AbortKept(a) /\ OutputKept(a)
                          /\ backend = "subprocess" => ChildKept(a)
                          /\ backend = "remote" => EnvironmentKept(a)
        /\ \A f \in Exec : SecondsKept(f)
    BY DEF SandboxInv
  <1>1. /\ call \in [Call -> CallRecord] /\ box \in [Box -> BoxRecord]
        /\ exec \in [Exec -> ExecRecord] /\ table \in [Key -> Box \cup {NoBox}]
        /\ backend \in {"subprocess", "remote"} /\ keyOf \in [Exec -> Key]
        /\ metered \in [Exec -> Nat] /\ faults \in 0..MaxFaults
    BY <1>0, RecordsTyped
  <1>2. /\ exec[e].stage = "running"
        /\ UNCHANGED <<backend, keyOf, metered, faults>>
        /\ table' = [table EXCEPT ![key] = NoBox]
        /\ call' \in [Call -> CallRecord]
        /\ exec' \in [Exec -> ExecRecord] /\ box' \in [Box -> BoxRecord]
        /\ \A f \in Exec \ {e} : exec'[f] = exec[f]
    BY DEF EndSeen
  <1>3. /\ \A d \in Call : d \notin mine => call'[d] = call[d]
        /\ \A d \in mine :
             /\ SameCall(call'[d], call[d]) /\ call'[d].then = call[d].then
             /\ call'[d].stage = IF backend = "remote" /\ call[d].stage = "starting"
                                   THEN "stray" ELSE "cancelled"
    BY DEF EndSeen
  <1>4. /\ b = NoBox => exec'[e].stage = "closed" /\ exec'[e].victim = exec[e].victim
        /\ b # NoBox => /\ exec'[e].victim = b /\ exec'[e].seen = box[b].elapsed
                        /\ exec'[e].stage = IF backend = "remote" /\ ~box[b].handle
                                              THEN "recording" ELSE "closing"
    BY DEF EndSeen
  <1>5. \A a \in Box :
          /\ SameUpToQueue(box'[a], box[a])
          /\ box'[a].aborted <=> box[a].aborted \/ hit(a)
          /\ box'[a].users = IF a = b THEN box[a].users \cup {e} ELSE box[a].users
          /\ \A d \in Call : d \notin mine /\ Holds(d, box[a]) => Holds(d, box'[a])
    BY DEF EndSeen
  <1>6. /\ key \in Key /\ b \in Box \cup {NoBox} /\ NoBox \notin Box /\ table'[key] = NoBox
        /\ \A k \in Key : k # key => table'[k] = table[k]
    BY <1>1, <1>2, SandboxesAssumption
  <1>7. exec[e].victim = NoBox /\ exec'[e].stage # "running" /\ (b = NoBox => exec'[e].victim = NoBox)
    BY <1>0, <1>2, <1>4 DEF VictimKept
  <1>8. b # NoBox => /\ \A u \in box[b].users : exec[u].stage = "running" /\ keyOf[u] = key
                     /\ \A f \in Exec : exec[f].victim # b
                     /\ \A k \in Key : table[k] = b => k = key
    <2> SUFFICES ASSUME b # NoBox
                 PROVE  /\ \A u \in box[b].users : exec[u].stage = "running" /\ keyOf[u] = key
                        /\ \A f \in Exec : exec[f].victim # b
                        /\ \A k \in Key : table[k] = b => k = key
      OBVIOUS
    <2>1. PICK a \in Box : a = b
      BY <1>6
    <2>2. /\ table[keyOf[e]] # NoBox => a = table[keyOf[e]]
          /\ table[keyOf[e]] = NoBox => ~box[a].made
      BY <2>1
    <2> HIDE DEF b
    <2>3. /\ \A u \in box[a].users : exec[u].stage = "running" /\ keyOf[u] = keyOf[e]
          /\ \A f \in Exec : exec[f].victim # a
          /\ \A k \in Key : table[k] = a => k = keyOf[e]
      BY <2>2, UsedTogether
    <2> QED BY <2>1, <2>3
  <1>9. ASSUME NEW d \in Call
        PROVE  /\ call'[d].on = call[d].on /\ call'[d].by = call[d].by /\ call'[d].kind = call[d].kind
               /\ call'[d].heard = call[d].heard /\ call'[d].product = call[d].product
               /\ d \in mine => call[d].by = e /\ call[d].stage \in Active
               /\ d \notin mine /\ call[d].stage \in Active => call[d].by # e
    <2>1. d \in mine <=> (call[d].by = e /\ call[d].stage \in Active)
      BY DEF CallsOf
    <2> HIDE DEF mine
    <2> QED BY <1>3, <2>1 DEF SameCall
  <1>10. \A a \in Box : /\ box[a].users \subseteq box'[a].users
                        /\ (box[a].aborted => box'[a].aborted)
                        /\ \A d \in mine : d \in ActiveOn(a) => box'[a].aborted
    BY <1>5
  <1>11. ASSUME NEW a \in Box, NEW d \in ActiveOn(a)'
         PROVE  /\ d \in Call /\ d \in ActiveOn(a)
                /\ \/ d \notin mine /\ call'[d] = call[d]
                   \/ d \in mine /\ backend = "remote" /\ call'[d].stage = "stray" /\ hit(a)
    <2>1. d \in Call /\ call'[d].on = a /\ call'[d].stage \in Active
      BY DEF ActiveOn
    <2>2. call[d].on = a /\ call[d].stage \in Active
      <3>1. CASE d \in mine
        BY <1>9, <2>1, <3>1
      <3>2. CASE d \notin mine
        BY <1>3, <2>1, <3>2
      <3> QED BY <3>1, <3>2
    <2>3. d \in ActiveOn(a)
      BY <2>1, <2>2 DEF ActiveOn
    <2>4. d \in mine => backend = "remote" /\ call'[d].stage = "stray" /\ hit(a)
      <3> SUFFICES ASSUME d \in mine PROVE backend = "remote" /\ call'[d].stage = "stray" /\ hit(a)
        OBVIOUS
      <3>1. call'[d].stage # "cancelled"
        BY <2>1 DEF Active
      <3> QED BY <1>3, <2>3, <3>1
    <2> QED BY <1>3, <2>1, <2>3, <2>4
  <1>12. ASSUME NEW a \in Box
         PROVE  /\ box'[a].made = box[a].made /\ box'[a].overlap = box[a].overlap
                /\ box'[a].gone = box[a].gone /\ box'[a].elapsed = box[a].elapsed
                /\ box'[a].handle = box[a].handle /\ box'[a].alive = box[a].alive
                /\ box'[a].pipe = box[a].pipe /\ box'[a].inputs = box[a].inputs
                /\ box'[a].output = box[a].output
    BY <1>5 DEF SameUpToQueue, SameChild, SameFiles
  <1>13. \A a \in Box : hit(a) => e \in box[a].users
    <2> SUFFICES ASSUME NEW a \in Box, NEW d \in Call, d \in ActiveOn(a), d \in mine
                 PROVE  e \in box[a].users
      BY DEF CallsOf
    <2>1. call[d].by = e /\ call[d].on = a /\ call[d].stage \in Active
      BY DEF CallsOf, ActiveOn
    <2> QED BY <1>0, <2>1 DEF CallKept
  <1> HIDE DEF b, mine, hit, key
  <1>20. SandboxTypeOK'
    <2>1. /\ backend' \in {"subprocess", "remote"} /\ keyOf' \in [Exec -> Key]
          /\ metered' \in [Exec -> Nat] /\ faults' \in 0..MaxFaults
          /\ table' \in [Key -> Box \cup {NoBox}]
      BY <1>1, <1>2
    <2> QED BY <1>2, <2>1 DEF SandboxTypeOK, ExecRecord, CallRecord, BoxRecord, CallStage
  <1>21. ASSUME NEW d \in Call PROVE CallKept(d)'
    <2>0. CallKept(d)
      BY <1>0
    <2>1. CASE d \notin mine
      <3>1. call'[d] = call[d]
        BY <1>3, <2>1
      <3>2. ASSUME call[d].stage \in Active
            PROVE  /\ call[d].by \in box'[call[d].on].users
                   /\ exec'[call[d].by] = exec[call[d].by]
                   /\ box[call[d].on].aborted => box'[call[d].on].aborted
        <4>1. call[d].on \in Box /\ call[d].by \in box[call[d].on].users
          BY <2>0, <3>2 DEF CallKept
        <4>2. call[d].by \in Exec
          <5>1. box[call[d].on] \in BoxRecord
            BY <1>1, <4>1
          <5> QED BY <4>1, <5>1 DEF BoxRecord
        <4> QED BY <1>2, <1>9, <1>10, <2>1, <3>2, <4>1, <4>2
      <3> QED BY <1>2, <2>0, <3>1, <3>2 DEF CallKept
    <2>2. CASE d \in mine
      <3>1. /\ call'[d].on = call[d].on /\ call'[d].by = e /\ call[d].by = e
            /\ call[d].stage \in Active
            /\ call'[d].stage = IF backend = "remote" /\ call[d].stage = "starting"
                                  THEN "stray" ELSE "cancelled"
        BY <1>3, <1>9, <2>2
      <3>2. call[d].on \in Box /\ e \in box[call[d].on].users
        BY <2>0, <3>1 DEF CallKept
      <3>3. d \in ActiveOn(call[d].on)
        BY <3>1 DEF ActiveOn
      <3>4. box'[call[d].on].aborted /\ e \in box'[call[d].on].users
        BY <1>10, <2>2, <3>2, <3>3
      <3>5. call'[d].stage \in Active => backend = "remote" /\ call'[d].stage = "stray"
        BY <3>1 DEF Active
      <3>6. call'[d].stage \notin {"idle", "starting", "queued"}
        BY <3>1
      <3> QED BY <1>2, <1>7, <3>1, <3>2, <3>4, <3>5, <3>6 DEF CallKept
    <2> QED BY <2>1, <2>2
  <1>22. TableKept'
    <2> SUFFICES ASSUME NEW k \in Key, table'[k] # NoBox
                 PROVE  /\ box'[table'[k]].made /\ box'[table'[k]].users # {}
                        /\ \A u \in box'[table'[k]].users : exec'[u].stage = "running" /\ keyOf[u] = k
      BY <1>2 DEF TableKept
    <2>1. k # key /\ table'[k] = table[k] /\ table[k] # NoBox
      BY <1>6
    <2>2. table[k] \in Box /\ table[k] # b
      BY <1>1, <1>8, <2>1 DEF b
    <2>3. /\ box[table[k]].made /\ box[table[k]].users # {}
          /\ \A u \in box[table[k]].users : exec[u].stage = "running" /\ keyOf[u] = k
      BY <1>0, <2>1 DEF TableKept
    <2>4. box'[table[k]].users = box[table[k]].users /\ box'[table[k]].made
      BY <1>5, <1>12, <2>2, <2>3
    <2>5. \A u \in box[table[k]].users : u \in Exec /\ u # e
      <3>1. box[table[k]] \in BoxRecord
        BY <1>1, <2>2
      <3>2. box[table[k]].users \in SUBSET Exec
        BY <3>1 DEF BoxRecord
      <3> QED BY <2>1, <2>3, <3>2 DEF key
    <2> QED BY <1>2, <2>1, <2>3, <2>4, <2>5
  <1>23. VictimKept'
    <2>1. \A f \in Exec : f # e => exec'[f] = exec[f] /\ (b # NoBox => exec'[f].victim # b)
      BY <1>2, <1>8
    <2>2. exec'[e].victim = b /\ (b # NoBox => exec'[e].stage \in {"closing", "recording"})
      BY <1>4, <1>7
    <2>3. ASSUME NEW f \in Exec
          PROVE  /\ exec'[f].stage \in {"closing", "recording"} => exec'[f].victim # NoBox
                 /\ exec'[f].victim # NoBox =>
                      /\ exec'[f].stage # "running" /\ f \in box'[exec'[f].victim].users
                      /\ box'[exec'[f].victim].made
                      /\ \A g \in Exec : exec'[g].victim = exec'[f].victim => g = f
      <3>1. CASE f = e
        <4>1. b # NoBox => e \in box'[b].users /\ box'[b].made
          <5> SUFFICES ASSUME b # NoBox PROVE e \in box'[b].users /\ box'[b].made
            OBVIOUS
          <5>1. box[b].made
            BY <1>0, <1>6 DEF TableKept, b
          <5> QED BY <1>5, <1>6, <1>12, <5>1
        <4> QED BY <1>4, <1>7, <2>1, <2>2, <3>1, <4>1
      <3>2. CASE f # e
        <4>1. exec'[f] = exec[f]
          BY <2>1, <3>2
        <4>2. /\ exec[f].stage \in {"closing", "recording"} => exec[f].victim # NoBox
              /\ exec[f].victim # NoBox =>
                      /\ exec[f].stage # "running" /\ f \in box[exec[f].victim].users
                      /\ box[exec[f].victim].made
                      /\ \A g \in Exec : exec[g].victim = exec[f].victim => g = f
          BY <1>0 DEF VictimKept
        <4>3. exec[f].victim # NoBox => exec[f].victim \in Box
          <5>1. exec[f] \in ExecRecord
            BY <1>1
          <5> QED BY <5>1 DEF ExecRecord
        <4>4. ASSUME exec[f].victim # NoBox, NEW g \in Exec, exec'[g].victim = exec[f].victim PROVE g = f
          <5>1. CASE g = e
            BY <2>1, <2>2, <3>2, <4>1, <4>4, <5>1
          <5>2. CASE g # e
            BY <2>1, <4>2, <4>4, <5>2
          <5> QED BY <5>1, <5>2
        <4> QED BY <1>10, <1>12, <4>1, <4>2, <4>3, <4>4
      <3> QED BY <3>1, <3>2
    <2> QED BY <2>3 DEF VictimKept
  <1>24. ASSUME NEW a \in Box PROVE UsersKept(a)' /\ AbortKept(a)' /\ OutputKept(a)'
    <2>1. UsersKept(a) /\ AbortKept(a) /\ OutputKept(a)
      BY <1>0
    <2>2. UsersKept(a)'
      <3>1. IsFiniteSet(box'[a].users)
        <4>1. IsFiniteSet(box[a].users) /\ IsFiniteSet(box[a].users \cup {e})
          BY <2>1, FS_AddElement DEF UsersKept
        <4> QED BY <1>5, <4>1
      <3>2. \A u, v \in box'[a].users : keyOf[u] = keyOf[v]
        <4>1. CASE a = b
          <5>1. \A u \in box'[a].users : keyOf[u] = key
            BY <1>5, <1>6, <1>8, <4>1 DEF key
          <5> QED BY <5>1
        <4>2. CASE a # b
          BY <1>5, <2>1, <4>2 DEF UsersKept
        <4> QED BY <4>1, <4>2
      <3>3. box[a].made => (\E k \in Key : table'[k] = a) \/ \E f \in Exec : exec'[f].victim = a
        <4>1. CASE a = b
          BY <1>4, <1>6, <4>1
        <4>2. CASE a # b
          <5>1. \A k \in Key : table[k] = a => table'[k] = a
            BY <1>6, <4>2 DEF b
          <5>2. \A f \in Exec : exec[f].victim = a => exec'[f].victim = a
            BY <1>2, <1>6, <1>7
          <5> QED BY <2>1, <5>1, <5>2 DEF UsersKept
        <4> QED BY <4>1, <4>2
      <3>4. ~box[a].made => box'[a].users = {}
        <4>1. a = b => box[a].made
          BY <1>0, <1>6 DEF TableKept, b
        <4> QED BY <1>5, <2>1, <4>1 DEF UsersKept
      <3> QED BY <1>2, <1>12, <3>1, <3>2, <3>3, <3>4 DEF UsersKept
    <2>3. AbortKept(a)'
      <3> SUFFICES ASSUME box'[a].aborted
                   PROVE  /\ \E u \in box'[a].users : exec'[u].stage # "running"
                          /\ ~box[a].overlap => \A d \in ActiveOn(a)' : call'[d].stage = "stray"
        BY <1>12 DEF AbortKept
      <3>1. CASE box[a].aborted
        <4>1. PICK u \in box[a].users : exec[u].stage # "running"
          BY <2>1, <3>1 DEF AbortKept
        <4>2. u \in Exec
          <5>1. box[a] \in BoxRecord
            BY <1>1
          <5> QED BY <5>1 DEF BoxRecord
        <4>3. u \in box'[a].users /\ exec'[u].stage # "running"
          BY <1>2, <1>10, <4>1, <4>2
        <4>4. ~box[a].overlap => \A d \in ActiveOn(a)' : call'[d].stage = "stray"
          <5>1. ~box[a].overlap => \A d \in ActiveOn(a) : call[d].stage = "stray"
            BY <2>1, <3>1 DEF AbortKept
          <5> QED BY <1>11, <5>1
        <4> QED BY <4>3, <4>4
      <3>2. CASE hit(a)
        <4>1. e \in box'[a].users /\ exec'[e].stage # "running"
          BY <1>7, <1>10, <1>13, <3>2
        <4>2. PICK d0 \in mine : d0 \in ActiveOn(a)
          BY <3>2 DEF hit
        <4>3. ASSUME ~box[a].overlap, NEW d \in ActiveOn(a)' PROVE call'[d].stage = "stray"
          <5>1. d \in ActiveOn(a)
            BY <1>11
          <5>2. d = d0
            BY <2>1, <4>2, <4>3, <5>1 DEF OutputKept
          <5> QED BY <1>11, <4>2, <5>2
        <4> QED BY <4>1, <4>3
      <3> QED BY <1>5, <3>1, <3>2
    <2>4. OutputKept(a)'
      <3> SUFFICES ASSUME ~box[a].overlap
                   PROVE  /\ \A d, f \in ActiveOn(a)' : d = f
                          /\ \A d \in ActiveOn(a)' : ~box'[a].aborted =>
                               /\ /\ call'[d].kind = "artifact"
                                  /\ \/ call'[d].stage \in {"queued", "sent", "reading"}
                                     \/ call'[d].stage = "starting" /\ call'[d].then # "staging"
                                  => box[a].inputs = d
                               /\ \/ call'[d].stage = "reading"
                                  \/ call'[d].stage = "starting" /\ call'[d].then = "reading"
                                  => box[a].output = d
        BY <1>12 DEF OutputKept
      <3>1. \A d \in ActiveOn(a)' : d \in ActiveOn(a)
        BY <1>11
      <3>2. \A d, f \in ActiveOn(a) : d = f
        BY <2>1 DEF OutputKept
      <3>3. \A d \in ActiveOn(a)' : ~box'[a].aborted => call'[d] = call[d] /\ ~box[a].aborted
        BY <1>5, <1>11
      <3>4. \A d \in ActiveOn(a) : ~box[a].aborted =>
                               /\ /\ call[d].kind = "artifact"
                                  /\ \/ call[d].stage \in {"queued", "sent", "reading"}
                                     \/ call[d].stage = "starting" /\ call[d].then # "staging"
                                  => box[a].inputs = d
                               /\ \/ call[d].stage = "reading"
                                  \/ call[d].stage = "starting" /\ call[d].then = "reading"
                                  => box[a].output = d
        BY <2>1 DEF OutputKept
      <3> QED BY <3>1, <3>2, <3>3, <3>4
    <2> QED BY <2>2, <2>3, <2>4
  <1>25. ASSUME NEW a \in Box, backend = "subprocess" PROVE ChildKept(a)'
    <2>1. ChildKept(a)
      BY <1>0, <1>25
    <2>2. ASSUME NEW d \in Call, call'[d].on = a, call'[d].stage \in {"starting", "sent"}
          PROVE  /\ Holds(d, box'[a]) /\ ~box'[a].gone
                 /\ call'[d].stage = "sent" => box'[a].pipe # << >>
                 /\ call'[d].stage = "sent" /\ ~box'[a].aborted => box'[a].pipe = <<d>>
      <3>1. d \notin mine /\ call'[d] = call[d]
        BY <1>3, <1>25, <2>2
      <3>2. /\ Holds(d, box[a]) /\ ~box[a].gone
            /\ call[d].stage = "sent" => box[a].pipe # << >>
            /\ call[d].stage = "sent" /\ ~box[a].aborted => box[a].pipe = <<d>>
        BY <2>1, <2>2, <3>1 DEF ChildKept
      <3> QED BY <1>5, <1>10, <1>12, <3>1, <3>2
    <2>3. ASSUME ~box'[a].aborted, \A d \in Call : call'[d].on = a => call'[d].stage # "sent"
          PROVE  box'[a].pipe = << >>
      <3>1. ~box[a].aborted
        BY <1>10, <2>3
      <3>2. ASSUME NEW d \in Call, call[d].on = a PROVE call[d].stage # "sent"
        <4>1. CASE d \in mine
          <5>1. d \in ActiveOn(a)
            BY <1>9, <3>2, <4>1 DEF ActiveOn
          <5> QED BY <1>10, <2>3, <4>1, <5>1
        <4>2. CASE d \notin mine
          BY <1>3, <2>3, <3>2, <4>2
        <4> QED BY <4>1, <4>2
      <3> QED BY <1>12, <2>1, <3>1, <3>2 DEF ChildKept
    <2>4. box'[a].gone => box'[a].alive = 0 /\ ~box'[a].handle
      BY <1>12, <2>1 DEF ChildKept
    <2>5. ASSUME NEW f \in Exec, exec'[f].victim = a, exec'[f].stage \in {"recording", "closed"}
          PROVE  box'[a].gone
      <3>1. f # e
        BY <1>4, <1>6, <1>7, <1>25, <2>5
      <3> QED BY <1>2, <1>12, <2>1, <2>5, <3>1 DEF ChildKept
    <2> QED BY <2>2, <2>3, <2>4, <2>5 DEF ChildKept
  <1>26. ASSUME NEW a \in Box, backend = "remote" PROVE EnvironmentKept(a)'
    <2>1. EnvironmentKept(a)
      BY <1>0, <1>26
    <2>2. Orderly(a)' => Orderly(a)
      <3>1. Single(a)' => Single(a)
        BY <1>10 DEF Single
      <3> QED BY <1>2, <1>10, <1>12, <3>1 DEF Orderly
    <2>3. ASSUME NEW f \in Exec, exec'[f].victim = a, exec'[f].stage = "closing" PROVE box'[a].handle
      <3>1. CASE f = e
        BY <1>4, <1>6, <1>7, <1>12, <1>26, <2>3, <3>1
      <3>2. CASE f # e
        BY <1>2, <1>12, <2>1, <2>3, <3>2 DEF EnvironmentKept
      <3> QED BY <3>1, <3>2
    <2>4. ASSUME NEW d \in Call, Orderly(a), call'[d].on = a, call'[d].stage = "starting"
          PROVE  ~box'[a].handle
      <3>1. call'[d] = call[d]
        BY <1>3, <2>4
      <3> QED BY <1>12, <2>1, <2>4, <3>1 DEF EnvironmentKept
    <2>5. ASSUME NEW f \in Exec, Orderly(a), exec'[f].victim = a,
                 exec'[f].stage \in {"recording", "closed"}
          PROVE  ~box'[a].handle
      <3>1. CASE f = e
        BY <1>4, <1>6, <1>7, <1>12, <2>5, <3>1
      <3>2. CASE f # e
        BY <1>2, <1>12, <2>1, <2>5, <3>2 DEF EnvironmentKept
      <3> QED BY <3>1, <3>2
    <2>6. /\ box'[a].handle => box'[a].alive >= 1
          /\ Orderly(a) => box'[a].alive = IF box'[a].handle THEN 1 ELSE 0
      BY <1>12, <2>1 DEF EnvironmentKept
    <2> QED BY <2>2, <2>3, <2>4, <2>5, <2>6 DEF EnvironmentKept
  <1>27. ToolCallsApart'
    <2>1. ASSUME NEW d \in Call, call[d].heard # NoCall \/ call[d].product # NoCall PROVE call[d].on \in Box
      BY <1>0, <2>1 DEF CallKept
    <2>2. ASSUME NEW d \in Call, call'[d].heard \notin {d, NoCall}
          PROVE  box'[call'[d].on].aborted /\ Cardinality(box'[call'[d].on].users) > 1
      <3>1. call[d].on \in Box /\ call'[d].on = call[d].on /\ call[d].heard \notin {d, NoCall}
        BY <1>9, <2>1, <2>2
      <3>2. box[call[d].on].aborted /\ Cardinality(box[call[d].on].users) > 1
        BY <1>0, <3>1 DEF ToolCallsApart, AnswersOwnCommand
      <3>3. IsFiniteSet(box[call[d].on].users) /\ IsFiniteSet(box'[call[d].on].users)
        BY <1>0, <1>24, <3>1 DEF UsersKept
      <3>4. /\ Cardinality(box[call[d].on].users) <= Cardinality(box'[call[d].on].users)
            /\ Cardinality(box[call[d].on].users) \in Nat
            /\ Cardinality(box'[call[d].on].users) \in Nat
        BY <1>10, <3>1, <3>3, FS_Subset, FS_CardinalityType
      <3>5. Cardinality(box'[call[d].on].users) > 1
        BY <3>2, <3>4
      <3> QED BY <1>10, <3>1, <3>2, <3>5
    <2>3. ASSUME NEW d \in Call, call'[d].product \notin {d, NoCall}
          PROVE  box'[call'[d].on].overlap
      <3>1. call[d].on \in Box /\ call'[d].on = call[d].on /\ call[d].product \notin {d, NoCall}
        BY <1>9, <2>1, <2>3
      <3>2. box[call[d].on].overlap
        BY <1>0, <3>1 DEF ToolCallsApart, ArtifactFromOwnInputs
      <3> QED BY <1>12, <3>1, <3>2
    <2> QED BY <2>2, <2>3 DEF ToolCallsApart, AnswersOwnCommand, ArtifactFromOwnInputs
  <1>28. ASSUME NEW f \in Exec PROVE SecondsKept(f)'
    <2>1. SecondsKept(f)
      BY <1>0
    <2>2. CASE f = e
      <3>1. metered'[e] = 0
        BY <1>2, <1>7, <2>1, <2>2 DEF SecondsKept
      <3>2. CASE b = NoBox
        BY <1>7, <2>2, <3>1, <3>2 DEF SecondsKept
      <3>3. CASE b # NoBox
        <4>1. /\ exec'[e].victim = b /\ exec'[e].seen = box'[b].elapsed /\ exec'[e].stage # "closed"
              /\ exec'[e].seen \in Nat
          <5>1. box[b] \in BoxRecord /\ b \in Box
            BY <1>1, <1>6, <3>3
          <5> QED BY <1>4, <1>12, <3>3, <5>1 DEF BoxRecord
        <4> QED BY <2>2, <3>1, <4>1 DEF SecondsKept
      <3> QED BY <3>2, <3>3
    <2>3. CASE f # e
      <3>1. exec'[f] = exec[f]
        BY <1>2, <2>3
      <3>2. CASE exec[f].victim = NoBox
        BY <1>2, <2>1, <3>1, <3>2 DEF SecondsKept
      <3>3. CASE exec[f].victim # NoBox
        <4>1. exec[f].victim \in Box
          BY <1>1, <3>3 DEF ExecRecord
        <4>2. box'[exec[f].victim].elapsed = box[exec[f].victim].elapsed
          BY <1>12, <4>1
        <4>3. Single(exec[f].victim)' => Single(exec[f].victim)
          BY <1>10, <3>1, <4>1 DEF Single
        <4> QED BY <1>2, <2>1, <3>1, <4>2, <4>3 DEF SecondsKept, Single
      <3> QED BY <3>2, <3>3
    <2> QED BY <2>2, <2>3
  <1> QED BY <1>2, <1>20, <1>21, <1>22, <1>23, <1>24, <1>25, <1>26, <1>27, <1>28 DEF SandboxInv

-----------------------------------------------------------------------------
(* A teardown: the close of a sandbox, or the row of its seconds.           *)
Settling(e) ==
  /\ UNCHANGED <<backend, keyOf, call, table>>
  /\ exec' \in [Exec -> ExecRecord] /\ box' \in [Box -> BoxRecord]
  /\ metered' \in [Exec -> Nat] /\ faults' \in 0..MaxFaults /\ (faults' = 0 => faults = 0)
  /\ exec[e].stage \in {"closing", "recording"} /\ exec'[e].stage \in {"recording", "closed"}
  /\ exec'[e].victim = exec[e].victim /\ exec'[e].seen = exec[e].seen
  /\ \A f \in Exec \ {e} : exec'[f] = exec[f] /\ metered'[f] = metered[f]
  /\ \A a \in Box :
       /\ box'[a].made = box[a].made /\ box'[a].users = box[a].users
       /\ box'[a].overlap = box[a].overlap /\ box'[a].aborted = box[a].aborted
       /\ box'[a].elapsed = box[a].elapsed /\ SameFiles(box'[a], box[a])

LEMMA SettlingKeepsUse ==
  ASSUME SandboxInv, NEW e \in Exec, Settling(e)
  PROVE  /\ SandboxTypeOK'
         /\ \A d \in Call : CallKept(d)'
         /\ TableKept' /\ VictimKept' /\ ToolCallsApart'
         /\ \A a \in Box : UsersKept(a)' /\ AbortKept(a)' /\ OutputKept(a)'
         /\ \A f \in Exec : f # e => SecondsKept(f)'
         /\ \A a \in Box : Orderly(a)' => Orderly(a)
  <1>0. /\ SandboxTypeOK /\ TableKept /\ VictimKept /\ ToolCallsApart
        /\ \A d \in Call : CallKept(d)
        /\ \A a \in Box : UsersKept(a) /\ AbortKept(a) /\ OutputKept(a)
        /\ \A f \in Exec : SecondsKept(f)
    BY DEF SandboxInv
  <1>1. /\ call \in [Call -> CallRecord] /\ box \in [Box -> BoxRecord]
        /\ exec \in [Exec -> ExecRecord] /\ table \in [Key -> Box \cup {NoBox}]
        /\ backend \in {"subprocess", "remote"} /\ keyOf \in [Exec -> Key]
    BY <1>0, RecordsTyped
  <1>2. /\ UNCHANGED <<backend, keyOf, call, table>>
        /\ exec' \in [Exec -> ExecRecord] /\ box' \in [Box -> BoxRecord]
        /\ metered' \in [Exec -> Nat] /\ faults' \in 0..MaxFaults /\ (faults' = 0 => faults = 0)
        /\ \A f \in Exec \ {e} : exec'[f] = exec[f] /\ metered'[f] = metered[f]
    BY DEF Settling
  <1>3. \A a \in Box :
          /\ box'[a].made = box[a].made /\ box'[a].users = box[a].users
          /\ box'[a].overlap = box[a].overlap /\ box'[a].aborted = box[a].aborted
          /\ box'[a].elapsed = box[a].elapsed
          /\ box'[a].inputs = box[a].inputs /\ box'[a].output = box[a].output
    BY DEF Settling, SameFiles
  <1>4. \A f \in Exec : /\ exec'[f].victim = exec[f].victim /\ exec'[f].seen = exec[f].seen
                        /\ exec'[f].stage = "running" <=> exec[f].stage = "running"
                        /\ exec'[f].stage \in {"closing", "recording"} =>
                             exec[f].stage \in {"closing", "recording"}
    <2>1. /\ exec[e].stage \in {"closing", "recording"} /\ exec'[e].stage \in {"recording", "closed"}
          /\ exec'[e].victim = exec[e].victim /\ exec'[e].seen = exec[e].seen
      BY DEF Settling
    <2>2. ASSUME NEW f \in Exec, f # e PROVE exec'[f] = exec[f]
      BY <1>2, <2>2
    <2> QED BY <2>1, <2>2
  <1>5. \A a \in Box : box[a].users \in SUBSET Exec
    <2>1. \A a \in Box : box[a] \in BoxRecord
      BY <1>1
    <2> QED BY <2>1 DEF BoxRecord
  <1>6. \A f \in Exec : exec[f].victim \in Box \cup {NoBox}
    <2>1. \A f \in Exec : exec[f] \in ExecRecord
      BY <1>1
    <2> QED BY <2>1 DEF ExecRecord
  <1>7. SandboxTypeOK'
    <2>1. /\ backend' \in {"subprocess", "remote"} /\ keyOf' \in [Exec -> Key]
          /\ table' \in [Key -> Box \cup {NoBox}] /\ call' \in [Call -> CallRecord]
      BY <1>1, <1>2
    <2> QED BY <1>2, <2>1 DEF SandboxTypeOK, ExecRecord, CallRecord, BoxRecord, CallStage
  <1>8. ASSUME NEW d \in Call PROVE CallKept(d)'
    <2>1. CallKept(d)
      BY <1>0
    <2>2. ASSUME call[d].stage \in Active
          PROVE  exec'[call[d].by].stage = "running" <=> exec[call[d].by].stage = "running"
      <3>1. call[d].by \in Exec
        BY <1>5, <2>1, <2>2 DEF CallKept
      <3> QED BY <1>4, <3>1
    <2> QED BY <1>2, <1>3, <2>1, <2>2 DEF CallKept
  <1>9. TableKept'
    <2> SUFFICES ASSUME NEW k \in Key, table[k] # NoBox
                 PROVE  /\ box'[table[k]].made /\ box'[table[k]].users # {}
                        /\ \A u \in box'[table[k]].users : exec'[u].stage = "running" /\ keyOf[u] = k
      BY <1>2 DEF TableKept
    <2>1. table[k] \in Box
      BY <1>1
    <2>2. /\ box[table[k]].made /\ box[table[k]].users # {}
          /\ \A u \in box[table[k]].users : exec[u].stage = "running" /\ keyOf[u] = k
      BY <1>0 DEF TableKept
    <2> QED BY <1>3, <1>4, <1>5, <2>1, <2>2
  <1>10. VictimKept'
    <2> SUFFICES ASSUME NEW f \in Exec
                 PROVE  /\ exec'[f].stage \in {"closing", "recording"} => exec'[f].victim # NoBox
                        /\ exec'[f].victim # NoBox =>
                             /\ exec'[f].stage # "running" /\ f \in box'[exec'[f].victim].users
                             /\ box'[exec'[f].victim].made
                             /\ \A g \in Exec : exec'[g].victim = exec'[f].victim => g = f
      BY DEF VictimKept
    <2>1. /\ exec[f].stage \in {"closing", "recording"} => exec[f].victim # NoBox
          /\ exec[f].victim # NoBox =>
               /\ exec[f].stage # "running" /\ f \in box[exec[f].victim].users
               /\ box[exec[f].victim].made
               /\ \A g \in Exec : exec[g].victim = exec[f].victim => g = f
      BY <1>0 DEF VictimKept
    <2> QED BY <1>3, <1>4, <1>6, <2>1
  <1>11. \A a \in Box : ActiveOn(a)' = ActiveOn(a)
    BY <1>2 DEF ActiveOn
  <1>12. ASSUME NEW a \in Box PROVE UsersKept(a)' /\ AbortKept(a)' /\ OutputKept(a)'
    <2>1. UsersKept(a) /\ AbortKept(a) /\ OutputKept(a)
      BY <1>0
    <2>2. UsersKept(a)'
      BY <1>2, <1>3, <1>4, <2>1 DEF UsersKept
    <2>3. AbortKept(a)'
      BY <1>2, <1>3, <1>4, <1>5, <1>11, <2>1 DEF AbortKept
    <2>4. OutputKept(a)'
      BY <1>2, <1>3, <1>11, <2>1 DEF OutputKept
    <2> QED BY <2>2, <2>3, <2>4
  <1>13. ToolCallsApart'
    <2>1. \A d \in Call : call[d].heard # NoCall \/ call[d].product # NoCall => call[d].on \in Box
      BY <1>0 DEF CallKept
    <2> QED BY <1>0, <1>2, <1>3, <2>1 DEF ToolCallsApart, AnswersOwnCommand, ArtifactFromOwnInputs
  <1>14. ASSUME NEW f \in Exec, f # e PROVE SecondsKept(f)'
    <2>1. SecondsKept(f) /\ exec'[f] = exec[f] /\ metered'[f] = metered[f]
      BY <1>0, <1>2, <1>14
    <2>2. exec[f].victim # NoBox =>
            /\ box'[exec[f].victim].elapsed = box[exec[f].victim].elapsed
            /\ box'[exec[f].victim].users = box[exec[f].victim].users
      BY <1>3, <1>6
    <2> QED BY <1>2, <2>1, <2>2 DEF SecondsKept, Single
  <1>15. \A a \in Box : Orderly(a)' => Orderly(a)
    BY <1>2, <1>3 DEF Orderly, Single
  <1> QED BY <1>7, <1>8, <1>9, <1>10, <1>12, <1>13, <1>14, <1>15

LEMMA CloseKeepsSandboxes ==
  ASSUME SandboxInv, NEW e \in Exec, Close(e)
  PROVE  SandboxInv'
  <1> DEFINE b == exec[e].victim
             x == box[b]
             w == box'[b]
  <1>0. /\ SandboxTypeOK /\ VictimKept /\ SecondsKept(e)
        /\ \A a \in Box : /\ backend = "subprocess" => ChildKept(a)
                          /\ backend = "remote" => EnvironmentKept(a)
    BY DEF SandboxInv
  <1>1. /\ call \in [Call -> CallRecord] /\ box \in [Box -> BoxRecord]
        /\ exec \in [Exec -> ExecRecord] /\ metered \in [Exec -> Nat]
        /\ backend \in {"subprocess", "remote"} /\ faults \in 0..MaxFaults
    BY <1>0, RecordsTyped
  <1>2. /\ exec[e].stage = "closing" /\ UNCHANGED <<backend, keyOf, call, table, metered>>
        /\ exec' = [exec EXCEPT ![e].stage = "recording"]
        /\ CloseChild(e, b) \/ KillEnvironment(b)
    BY DEF Close
  <1>3. b \in Box /\ x \in BoxRecord /\ \A f \in Exec : exec[f].victim = b => f = e
    <2>1. b # NoBox /\ (b # NoBox => \A f \in Exec : exec[f].victim = b => f = e)
      BY <1>0, <1>2 DEF VictimKept
    <2>2. exec[e] \in ExecRecord
      BY <1>1
    <2>3. b \in Box
      BY <2>1, <2>2 DEF ExecRecord
    <2> QED BY <1>1, <2>1, <2>3
  <1>4. /\ exec' \in [Exec -> ExecRecord] /\ exec'[e].stage = "recording"
        /\ exec'[e].victim = b /\ exec'[e].seen = exec[e].seen
        /\ \A f \in Exec \ {e} : exec'[f] = exec[f]
    <2>1. PICK st \in {"running", "closing", "recording", "closed"} : st = "recording"
      OBVIOUS
    <2> DEFINE r == [exec[e] EXCEPT !.stage = st]
    <2>2. r \in ExecRecord /\ r.stage = st /\ r.victim = b /\ r.seen = exec[e].seen
      BY <1>1 DEF ExecRecord
    <2>3. exec' = [exec EXCEPT ![e] = r]
      BY <1>1, <1>2, <2>1
    <2> HIDE DEF r, b, ExecRecord
    <2> QED BY <1>1, <2>1, <2>2, <2>3
  <1>5. PICK s \in BoxRecord :
          /\ box' = [box EXCEPT ![b] = s]
          /\ s.made = x.made /\ s.users = x.users /\ s.overlap = x.overlap /\ s.aborted = x.aborted
          /\ s.elapsed = x.elapsed /\ SameFiles(s, x) /\ ~s.handle
          /\ backend = "subprocess" => /\ Holds(e, x) /\ s.alive = 0 /\ s.pipe = << >> /\ s.gone
                                       /\ faults' = faults
          /\ backend = "remote" => \/ faults' = faults /\ s.alive = x.alive - 1
                                   \/ faults' = faults + 1 /\ faults < MaxFaults
    <2>1. CASE CloseChild(e, b)
      <3>1. backend = "subprocess" /\ Holds(e, x) /\ faults' = faults
        BY <2>1 DEF CloseChild
      <3>2. PICK q \in Seq(Call \cup Exec) : q = Tail(x.queue)
        <4>1. x.queue \in Seq(Call \cup Exec) /\ x.queue # << >>
          BY <1>3, <3>1 DEF BoxRecord, Holds
        <4> QED BY <4>1, HeadTailProperties
      <3>3. PICK p \in Seq(Call) : p = << >>
        BY EmptySeq
      <3> DEFINE s == [x EXCEPT !.alive = 0, !.handle = FALSE, !.pipe = p, !.gone = TRUE,
                                !.queue = q]
      <3>4. box' = [box EXCEPT ![b] = s]
        <4>1. box' = [box EXCEPT ![b].alive = 0, ![b].handle = FALSE, ![b].pipe = p,
                                 ![b].gone = TRUE, ![b].queue = q]
          BY <1>3, <2>1, <3>2, <3>3 DEF CloseChild
        <4> QED BY <1>1, <1>3, <4>1
      <3>5. /\ s \in BoxRecord
            /\ s.made = x.made /\ s.users = x.users /\ s.overlap = x.overlap /\ s.aborted = x.aborted
            /\ s.elapsed = x.elapsed /\ SameFiles(s, x) /\ ~s.handle
            /\ s.alive = 0 /\ s.pipe = p /\ s.gone
        BY <1>3 DEF BoxRecord, SameFiles
      <3> HIDE DEF s
      <3> QED BY <3>1, <3>3, <3>4, <3>5
    <2>2. CASE KillEnvironment(b)
      <3>1. backend = "remote"
        BY <2>2 DEF KillEnvironment
      <3>2. PICK killed \in BOOLEAN :
              /\ ~killed => faults < MaxFaults
              /\ faults' = IF killed THEN faults ELSE faults + 1
              /\ box' = [box EXCEPT ![b].handle = FALSE,
                            ![b].alive = IF killed THEN @ - 1 ELSE @]
        BY <2>2, Zenon DEF KillEnvironment
      <3>3. PICK n \in Nat : n = IF killed THEN x.alive - 1 ELSE x.alive
        <4>1. x.handle /\ (x.handle => x.alive >= 1)
          BY <1>0, <1>2, <1>3, <3>1 DEF EnvironmentKept
        <4>2. x.alive \in Nat
          BY <1>3 DEF BoxRecord
        <4> QED BY <4>1, <4>2
      <3> DEFINE s == [x EXCEPT !.handle = FALSE, !.alive = n]
      <3>4. box' = [box EXCEPT ![b] = s]
        <4>1. box' = [box EXCEPT ![b].handle = FALSE, ![b].alive = n]
          BY <1>1, <1>3, <3>2, <3>3
        <4> QED BY <1>1, <1>3, <4>1
      <3>5. /\ s \in BoxRecord
            /\ s.made = x.made /\ s.users = x.users /\ s.overlap = x.overlap /\ s.aborted = x.aborted
            /\ s.elapsed = x.elapsed /\ SameFiles(s, x) /\ ~s.handle /\ s.alive = n
        BY <1>3 DEF BoxRecord, SameFiles
      <3> HIDE DEF s
      <3> QED BY <3>1, <3>2, <3>3, <3>4, <3>5
    <2> QED BY <1>2, <2>1, <2>2
  <1>6. box' \in [Box -> BoxRecord] /\ w = s /\ \A a \in Box \ {b} : box'[a] = box[a]
    <2> HIDE DEF b, BoxRecord
    <2> QED BY <1>1, <1>3, <1>5
  <1>7. faults' \in 0..MaxFaults /\ (faults' = 0 => faults = 0 /\ faults' = faults)
    BY <1>1, <1>5, SandboxesAssumption
  <1>8. Settling(e)
    <2>1. ASSUME NEW a \in Box
          PROVE  /\ box'[a].made = box[a].made /\ box'[a].users = box[a].users
                 /\ box'[a].overlap = box[a].overlap /\ box'[a].aborted = box[a].aborted
                 /\ box'[a].elapsed = box[a].elapsed /\ SameFiles(box'[a], box[a])
      <3>1. CASE a = b
        BY <1>5, <1>6, <3>1
      <3>2. CASE a # b
        <4>1. box'[a] = box[a]
          BY <1>6, <3>2
        <4> QED BY <4>1 DEF SameFiles
      <3> QED BY <3>1, <3>2
    <2> QED BY <1>1, <1>2, <1>4, <1>6, <1>7, <2>1 DEF Settling
  <1>9. /\ SandboxTypeOK' /\ \A d \in Call : CallKept(d)'
        /\ TableKept' /\ VictimKept' /\ ToolCallsApart'
        /\ \A a \in Box : UsersKept(a)' /\ AbortKept(a)' /\ OutputKept(a)'
        /\ \A f \in Exec : f # e => SecondsKept(f)'
        /\ \A a \in Box : Orderly(a)' => Orderly(a)
    BY <1>8, SettlingKeepsUse
  <1> HIDE DEF b, x, w
  <1>10. ASSUME NEW a \in Box, backend = "subprocess" PROVE ChildKept(a)'
    <2>1. ChildKept(a)
      BY <1>0, <1>10
    <2>2. CASE a # b
      <3>1. box'[a] = box[a]
        BY <1>6, <2>2
      <3>2. \A f \in Exec : exec'[f].victim = a => exec'[f] = exec[f]
        BY <1>4, <2>2
      <3> QED BY <1>2, <2>1, <3>1, <3>2 DEF ChildKept
    <2>3. CASE a = b
      <3>1. ASSUME NEW d \in Call PROVE ~(call[d].on = b /\ call[d].stage \in {"starting", "sent"})
        <4>1. Holds(e, x)
          BY <1>5, <1>10
        <4>2. ~Holds(d, x)
          <5>1. d # e
            BY SandboxesAssumption
          <5> QED BY <4>1, <5>1 DEF Holds
        <4> QED BY <2>1, <2>3, <4>2 DEF ChildKept, x
      <3>2. w.alive = 0 /\ ~w.handle /\ w.pipe = << >> /\ w.gone
        BY <1>5, <1>6, <1>10
      <3> QED BY <1>2, <2>3, <3>1, <3>2 DEF ChildKept, w
    <2> QED BY <2>2, <2>3
  <1>11. ASSUME NEW a \in Box, backend = "remote" PROVE EnvironmentKept(a)'
    <2>1. EnvironmentKept(a)
      BY <1>0, <1>11
    <2>2. CASE a # b
      <3>1. box'[a] = box[a]
        BY <1>6, <2>2
      <3>2. \A f \in Exec : exec'[f].victim = a => exec'[f] = exec[f]
        BY <1>4, <2>2
      <3> QED BY <1>2, <1>9, <2>1, <3>1, <3>2 DEF EnvironmentKept
    <2>3. CASE a = b
      <3>1. \A f \in Exec : exec'[f].victim = b => exec'[f].stage # "closing"
        BY <1>3, <1>4
      <3>2. ASSUME Orderly(a)' PROVE w.alive = 0
        <4>1. faults' = faults
          BY <1>7, <3>2 DEF Orderly
        <4>2. w.alive = x.alive - 1
          BY <1>1, <1>5, <1>6, <1>11, <4>1
        <4>3. Orderly(a)
          BY <1>9, <3>2
        <4>4. x.handle /\ x.alive = 1
          BY <1>2, <2>1, <2>3, <4>3 DEF EnvironmentKept, x, b
        <4> QED BY <4>2, <4>4
      <3>3. ~w.handle
        BY <1>5, <1>6
      <3>4. w = box'[a] /\ \A f \in Exec : exec'[f].victim = a => exec'[f].stage # "closing"
        BY <2>3, <3>1 DEF w
      <3> QED BY <1>2, <3>2, <3>3, <3>4 DEF EnvironmentKept
    <2> QED BY <2>2, <2>3
  <1>12. SecondsKept(e)'
    <2>1. /\ metered'[e] = metered[e] /\ exec'[e].victim = b /\ exec'[e].seen = exec[e].seen
          /\ exec'[e].stage # "closed" /\ b # NoBox
          /\ w.elapsed = x.elapsed /\ w.users = x.users /\ keyOf' = keyOf
      BY <1>2, <1>3, <1>4, <1>5, <1>6, SandboxesAssumption
    <2> QED BY <1>0, <2>1 DEF SecondsKept, Single, x, w, b
  <1> QED BY <1>2, <1>9, <1>10, <1>11, <1>12 DEF SandboxInv

LEMMA RecordKeepsSandboxes ==
  ASSUME SandboxInv, NEW e \in Exec, Record(e)
  PROVE  SandboxInv'
  <1> DEFINE b == exec[e].victim
  <1>0. /\ SandboxTypeOK /\ VictimKept /\ SecondsKept(e)
        /\ \A a \in Box : /\ backend = "subprocess" => ChildKept(a)
                          /\ backend = "remote" => EnvironmentKept(a)
    BY DEF SandboxInv
  <1>1. /\ call \in [Call -> CallRecord] /\ box \in [Box -> BoxRecord]
        /\ exec \in [Exec -> ExecRecord] /\ metered \in [Exec -> Nat]
        /\ backend \in {"subprocess", "remote"} /\ faults \in 0..MaxFaults
    BY <1>0, RecordsTyped
  <1>2. /\ exec[e].stage = "recording" /\ UNCHANGED <<backend, keyOf, call, table, box>>
        /\ exec' = [exec EXCEPT ![e].stage = "closed"]
    BY DEF Record
  <1>3. PICK written \in BOOLEAN :
          /\ ~written => exec[e].seen > 0 /\ faults < MaxFaults
          /\ faults' = IF written THEN faults ELSE faults + 1
          /\ metered' = IF written THEN [metered EXCEPT ![e] = exec[e].seen] ELSE metered
    BY Zenon DEF Record
  <1>4. b # NoBox /\ exec[e] \in ExecRecord /\ exec[e].seen \in Nat
    <2>1. exec[e] \in ExecRecord
      BY <1>1
    <2> QED BY <1>0, <1>2, <2>1 DEF VictimKept, ExecRecord
  <1>5. /\ exec' \in [Exec -> ExecRecord] /\ exec'[e].stage = "closed"
        /\ exec'[e].victim = b /\ exec'[e].seen = exec[e].seen
        /\ \A f \in Exec \ {e} : exec'[f] = exec[f]
    <2>1. PICK st \in {"running", "closing", "recording", "closed"} : st = "closed"
      OBVIOUS
    <2> DEFINE r == [exec[e] EXCEPT !.stage = st]
    <2>2. r \in ExecRecord /\ r.stage = st /\ r.victim = b /\ r.seen = exec[e].seen
      BY <1>4 DEF ExecRecord
    <2>3. exec' = [exec EXCEPT ![e] = r]
      BY <1>1, <1>2, <2>1
    <2> HIDE DEF r, b, ExecRecord
    <2> QED BY <1>1, <2>1, <2>2, <2>3
  <1>6. /\ metered' \in [Exec -> Nat] /\ \A f \in Exec \ {e} : metered'[f] = metered[f]
        /\ metered'[e] = IF written THEN exec[e].seen ELSE metered[e]
    BY <1>1, <1>3, <1>4
  <1>7. faults' \in 0..MaxFaults /\ (faults' = 0 => faults = 0 /\ written)
    BY <1>1, <1>3, SandboxesAssumption
  <1>8. Settling(e)
    BY <1>1, <1>2, <1>5, <1>6, <1>7 DEF Settling, SameFiles
  <1>9. /\ SandboxTypeOK' /\ \A d \in Call : CallKept(d)'
        /\ TableKept' /\ VictimKept' /\ ToolCallsApart'
        /\ \A a \in Box : UsersKept(a)' /\ AbortKept(a)' /\ OutputKept(a)'
        /\ \A f \in Exec : f # e => SecondsKept(f)'
        /\ \A a \in Box : Orderly(a)' => Orderly(a)
    BY <1>8, SettlingKeepsUse
  <1> HIDE DEF b
  <1>10. \A f \in Exec : /\ exec'[f].victim = exec[f].victim
                         /\ exec'[f].stage = "closing" => exec[f].stage = "closing"
                         /\ exec'[f].stage \in {"recording", "closed"} =>
                              exec[f].stage \in {"recording", "closed"}
    BY <1>2, <1>5 DEF b
  <1>11. ASSUME NEW a \in Box, backend = "subprocess" PROVE ChildKept(a)'
    BY <1>0, <1>2, <1>10, <1>11 DEF ChildKept
  <1>12. ASSUME NEW a \in Box, backend = "remote" PROVE EnvironmentKept(a)'
    BY <1>0, <1>2, <1>9, <1>10, <1>12 DEF EnvironmentKept
  <1>13. SecondsKept(e)'
    BY <1>0, <1>2, <1>4, <1>5, <1>6, <1>7 DEF SecondsKept, Single, b
  <1> QED BY <1>2, <1>9, <1>11, <1>12, <1>13 DEF SandboxInv

-----------------------------------------------------------------------------
(* The sandboxes: the theorems. *)
LEMMA SandboxesBegin == SandboxInit => SandboxInv
  <1> SUFFICES ASSUME SandboxInit PROVE SandboxInv
    OBVIOUS
  <1>1. /\ backend \in {"subprocess", "remote"}
        /\ keyOf \in {k \in [Exec -> Key] : Cardinality({e \in Exec : k[e] = "task"}) <= 1}
        /\ exec = [e \in Exec |-> [stage |-> "running", victim |-> NoBox, seen |-> 0]]
        /\ call = [c \in Call |-> [stage |-> "idle", then |-> "none", kind |-> "python",
                             by |-> NoCall, on |-> NoBox, heard |-> NoCall,
                             product |-> NoCall]]
        /\ table = [k \in Key |-> NoBox]
        /\ box = [b \in Box |-> [made |-> FALSE, handle |-> FALSE, alive |-> 0, gone |-> FALSE,
                           queue |-> << >>, pipe |-> << >>, elapsed |-> 0,
                           inputs |-> NoCall, output |-> NoCall,
                           users |-> {}, overlap |-> FALSE, aborted |-> FALSE]]
        /\ metered = [e \in Exec |-> 0]
        /\ faults = 0
    BY DEF SandboxInit
  <1>2. keyOf \in [Exec -> Key] /\ MaxFaults \in Nat
    BY <1>1, SandboxesAssumption
  <1>3. \A c \in Call : /\ call[c].stage = "idle" /\ call[c].heard = NoCall
                        /\ call[c].product = NoCall
    BY <1>1
  <1>4. \A b \in Box : /\ ~box[b].made /\ ~box[b].handle /\ box[b].alive = 0 /\ ~box[b].gone
                       /\ box[b].pipe = << >> /\ box[b].users = {} /\ ~box[b].aborted
    BY <1>1
  <1>5. \A e \in Exec : exec[e].stage = "running" /\ exec[e].victim = NoBox /\ metered[e] = 0
    BY <1>1
  <1>6. SandboxTypeOK
    <2>1. exec \in [Exec -> ExecRecord]
      BY <1>1 DEF ExecRecord
    <2>2. call \in [Call -> CallRecord]
      BY <1>1 DEF CallRecord, CallStage
    <2>3. box \in [Box -> BoxRecord]
      <3>1. << >> \in Seq(Call \cup Exec) /\ << >> \in Seq(Call)
        BY EmptySeq
      <3> QED BY <1>1, <3>1 DEF BoxRecord
    <2>4. table \in [Key -> Box \cup {NoBox}] /\ metered \in [Exec -> Nat] /\ faults \in 0..MaxFaults
      BY <1>1, <1>2
    <2> QED BY <1>1, <1>2, <2>1, <2>2, <2>3, <2>4
            DEF SandboxTypeOK, ExecRecord, CallRecord, BoxRecord, CallStage
  <1>7. \A c \in Call : CallKept(c) /\ call[c].stage \notin Active
    BY <1>3 DEF CallKept, Active
  <1>8. \A b \in Box : ActiveOn(b) = {}
    BY <1>7 DEF ActiveOn
  <1>9. TableKept /\ VictimKept /\ ToolCallsApart /\ \A e \in Exec : SecondsKept(e)
    BY <1>1, <1>3, <1>5
       DEF TableKept, VictimKept, ToolCallsApart, AnswersOwnCommand, ArtifactFromOwnInputs, SecondsKept
  <1>10. ASSUME NEW b \in Box
         PROVE  UsersKept(b) /\ AbortKept(b) /\ OutputKept(b) /\ ChildKept(b) /\ EnvironmentKept(b)
    <2>1. UsersKept(b)
      BY <1>4, FS_EmptySet DEF UsersKept
    <2>2. AbortKept(b) /\ OutputKept(b)
      BY <1>4, <1>8 DEF AbortKept, OutputKept
    <2>3. \A e \in Exec : exec[e].victim # b
      BY <1>5, SandboxesAssumption
    <2>4. ChildKept(b)
      BY <1>3, <1>4, <2>3 DEF ChildKept
    <2>5. EnvironmentKept(b)
      BY <1>3, <1>4, <2>3 DEF EnvironmentKept
    <2> QED BY <2>1, <2>2, <2>4, <2>5
  <1> QED BY <1>6, <1>7, <1>9, <1>10 DEF SandboxInv

LEMMA SandboxesStep == SandboxInv /\ [SandboxNext]_sandboxVars => SandboxInv'
  <1> SUFFICES ASSUME SandboxInv, [SandboxNext]_sandboxVars PROVE SandboxInv'
    OBVIOUS
  <1>1. CASE SandboxNext
    <2>0. SandboxTypeOK
      BY DEF SandboxInv
    <2>1. ASSUME NEW e \in Exec, NEW c \in Call, RunPython(e, c) \/ MakeArtifact(e, c)
          PROVE  SandboxInv'
      <3>1. \E b \in Box : UseSeen(e, c, b)
        BY <2>0, <2>1, UseIsSeen DEF RunPython, MakeArtifact
      <3> QED BY <3>1, UseKeepsSandboxes
    <2>2. ASSUME NEW e \in Exec, Leave(e) \/ AbortPlan(e) PROVE SandboxInv'
      BY <2>0, <2>2, LeaveIsSeen, AbortIsSeen, EndKeepsSandboxes
    <2>3. ASSUME NEW e \in Exec, Close(e) PROVE SandboxInv'
      BY <2>3, CloseKeepsSandboxes
    <2>4. ASSUME NEW e \in Exec, Record(e) PROVE SandboxInv'
      BY <2>4, RecordKeepsSandboxes
    <2>5. ASSUME NEW c \in Call, SandboxCall(c) PROVE SandboxInv'
      BY <2>5, CallKeepsSandboxes
    <2> QED BY <1>1, <2>1, <2>2, <2>3, <2>4, <2>5 DEF SandboxNext
  <1>2. CASE UNCHANGED sandboxVars
    <2>0. /\ backend' = backend /\ keyOf' = keyOf /\ exec' = exec /\ call' = call
          /\ table' = table /\ box' = box /\ metered' = metered /\ faults' = faults
      BY <1>2 DEF sandboxVars
    <2>1. SandboxTypeOK' /\ TableKept' /\ VictimKept' /\ ToolCallsApart'
      BY <2>0 DEF SandboxInv, SandboxTypeOK, TableKept, VictimKept, ToolCallsApart,
         AnswersOwnCommand, ArtifactFromOwnInputs
    <2>2. (\A c \in Call : CallKept(c)') /\ \A e \in Exec : SecondsKept(e)'
      BY <2>0 DEF SandboxInv, CallKept, SecondsKept, Single
    <2>3. ASSUME NEW b \in Box PROVE UsersKept(b)' /\ AbortKept(b)' /\ OutputKept(b)'
      <3>1. UsersKept(b) /\ AbortKept(b) /\ OutputKept(b)
        BY DEF SandboxInv
      <3>2. UsersKept(b)'
        BY <2>0, <3>1 DEF UsersKept
      <3>3. ActiveOn(b)' = ActiveOn(b)
        BY <2>0 DEF ActiveOn
      <3> QED BY <2>0, <3>1, <3>2, <3>3 DEF AbortKept, OutputKept
    <2>4. ASSUME NEW b \in Box
          PROVE  /\ backend = "subprocess" => ChildKept(b)'
                 /\ backend = "remote" => EnvironmentKept(b)'
      BY <2>0 DEF SandboxInv, ChildKept, EnvironmentKept, Orderly, Single
    <2> QED BY <2>0, <2>1, <2>2, <2>3, <2>4 DEF SandboxInv
  <1> QED BY <1>1, <1>2

(* Once whoever used a sandbox is over, one of them has dropped it: the     *)
(* table would name executions under way.                                   *)
LEMMA SettledIsDropped ==
  ASSUME SandboxInv, NEW b \in Box, Settled(b)
  PROVE  \E e \in Exec : exec[e].victim = b /\ exec[e].stage = "closed" /\ e \in box[b].users
  <1>0. TableKept /\ VictimKept /\ UsersKept(b)
    BY DEF SandboxInv
  <1>1. b # NoBox /\ box[b].made /\ \A u \in box[b].users : exec[u].stage = "closed"
    BY SandboxesAssumption DEF Settled
  <1>2. \A k \in Key : table[k] # b
    BY <1>0, <1>1 DEF TableKept
  <1>3. PICK e \in Exec : exec[e].victim = b
    BY <1>0, <1>1, <1>2 DEF UsersKept
  <1>4. e \in box[b].users
    BY <1>0, <1>1, <1>3 DEF VictimKept
  <1> QED BY <1>1, <1>3, <1>4

LEMMA OneUser ==
  ASSUME SandboxInv, NEW b \in Box, ~(Cardinality(box[b].users) > 1)
  PROVE  Single(b)
  <1>1. IsFiniteSet(box[b].users)
    BY DEF SandboxInv, UsersKept
  <1> SUFFICES ASSUME NEW u \in box[b].users, NEW v \in box[b].users, u # v PROVE FALSE
    BY DEF Single
  <1> QED BY <1>1, TwoMembers

LEMMA InvariantReleases == SandboxInv => SandboxesOK
  <1> SUFFICES ASSUME SandboxInv PROVE SandboxReleased
    BY DEF SandboxesOK, SandboxInv
  <1> SUFFICES ASSUME NEW b \in Box, Settled(b), box[b].alive > 0
               PROVE  /\ backend = "remote"
                      /\ \/ faults > 0 \/ box[b].overlap \/ box[b].aborted
                         \/ Cardinality(box[b].users) > 1
    BY DEF SandboxReleased
  <1>1. PICK e \in Exec : exec[e].victim = b /\ exec[e].stage = "closed" /\ e \in box[b].users
    BY SettledIsDropped
  <1>2. backend \in {"subprocess", "remote"} /\ box[b].alive \in Nat /\ box[b].alive # 0
        /\ faults \in Nat
    <2>1. box[b] \in BoxRecord /\ backend \in {"subprocess", "remote"} /\ faults \in Nat
      BY RecordsTyped DEF SandboxInv
    <2> QED BY <2>1 DEF BoxRecord
  <1>3. backend # "subprocess"
    BY <1>1, <1>2 DEF SandboxInv, ChildKept
  <1>4. ~Orderly(b)
    BY <1>1, <1>2, <1>3 DEF SandboxInv, EnvironmentKept
  <1>5. \/ faults # 0 \/ box[b].overlap \/ box[b].aborted \/ Cardinality(box[b].users) > 1
    BY <1>4, OneUser DEF Orderly
  <1> QED BY <1>2, <1>3, <1>5

LEMMA InvariantMetersIn ==
  ASSUME SandboxInv, NEW b \in Box
  PROVE  /\ \A e \in RowsOf(b) :
              /\ RowsOf(b) = {e} /\ metered[e] <= box[b].elapsed
              /\ \A u \in box[b].users : keyOf[u] = keyOf[e]
         /\ Settled(b) /\ box[b].elapsed > 0 =>
              \/ \E e \in RowsOf(b) : metered[e] = box[b].elapsed
              \/ faults > 0 \/ Cardinality(box[b].users) > 1
  <1>1. /\ VictimKept /\ UsersKept(b) /\ \A e \in Exec : SecondsKept(e)
        /\ b # NoBox /\ metered \in [Exec -> Nat] /\ faults \in Nat
    BY RecordsTyped, SandboxesAssumption DEF SandboxInv
  <1>2. ASSUME NEW e \in RowsOf(b)
        PROVE  /\ RowsOf(b) = {e} /\ metered[e] <= box[b].elapsed
               /\ \A u \in box[b].users : keyOf[u] = keyOf[e]
    <2>1. e \in Exec /\ exec[e].victim = b /\ metered[e] > 0 /\ metered[e] \in Nat
      BY <1>1 DEF RowsOf
    <2>2. e \in box[b].users /\ \A f \in Exec : exec[f].victim = b => f = e
      BY <1>1, <2>1 DEF VictimKept
    <2>3. metered[e] # 0
      BY <2>1
    <2>4. metered[e] = exec[e].seen /\ exec[e].seen <= box[b].elapsed
      BY <1>1, <2>1, <2>3 DEF SecondsKept
    <2>5. \A f \in RowsOf(b) : f = e
      BY <2>2 DEF RowsOf
    <2> QED BY <1>1, <2>2, <2>4, <2>5 DEF UsersKept
  <1>3. ASSUME Settled(b), box[b].elapsed > 0, ~(faults > 0), ~(Cardinality(box[b].users) > 1)
        PROVE  \E e \in RowsOf(b) : metered[e] = box[b].elapsed
    <2>1. PICK e \in Exec : exec[e].victim = b /\ exec[e].stage = "closed"
      BY <1>3, SettledIsDropped
    <2>2. Single(b) /\ faults = 0
      BY <1>1, <1>3, OneUser
    <2>3. metered[e] = exec[e].seen /\ exec[e].seen = box[b].elapsed
      BY <1>1, <2>1, <2>2 DEF SecondsKept
    <2>4. metered[e] > 0
      BY <1>3, <2>3
    <2>5. e \in RowsOf(b)
      BY <2>1, <2>4 DEF RowsOf
    <2> QED BY <2>3, <2>5
  <1> QED BY <1>2, <1>3

LEMMA InvariantMeters == SandboxInv => SecondsMeteredOnce
  <1> SUFFICES ASSUME SandboxInv
               PROVE  SecondsMeteredOnce
    OBVIOUS
  <1>1. ASSUME NEW e \in Exec, metered[e] > 0
        PROVE  exec[e].victim \in Box
    <2>1. SecondsKept(e) /\ metered[e] \in Nat /\ exec[e].victim \in Box \cup {NoBox}
      BY RecordsTyped DEF SandboxInv, ExecRecord
    <2>2. metered[e] # 0
      BY <1>1, <2>1
    <2> QED BY <2>1, <2>2 DEF SecondsKept
  <1> QED BY <1>1, InvariantMetersIn DEF SecondsMeteredOnce

(* The invariant of the sandboxes: who may use, drop and close a sandbox,   *)
(* what it holds on the host meanwhile, and what a teardown read of it.     *)
THEOREM SandboxesInvariant == SandboxSpec => []SandboxInv
  BY SandboxesBegin, SandboxesStep, PTL DEF SandboxSpec

(* A closed sandbox leaves nothing running on the host: never with the      *)
(* subprocess provider, and with the others if its calls were made one      *)
(* after the other by one execution, none cancelled and nothing failing.    *)
THEOREM SandboxesAreReleased == SandboxSpec => []SandboxesOK
  BY SandboxesInvariant, InvariantReleases, PTL

(* A run is answered for its own command and an artifact made from its own  *)
(* inputs, but for the two cases in which the code lets calls meet.         *)
THEOREM CallsAreKeptApart == SandboxSpec => []ToolCallsApart
  <1>1. SandboxInv => ToolCallsApart
    BY DEF SandboxInv
  <1> QED BY <1>1, SandboxesInvariant, PTL

(* The seconds of a sandbox are metered in one row at most, none that did   *)
(* not run, and all of them if nothing failed and nobody else was there.    *)
THEOREM SecondsAreMeteredOnce == SandboxSpec => []SecondsMeteredOnce
  BY SandboxesInvariant, InvariantMeters, PTL
===============================================================================
