---------------------------- MODULE SubagentSlots ----------------------------
(***************************************************************************)
(* Subagent steps (agents/executor.py, _run_subagent): a task that spawns  *)
(* children takes one slot per child from a semaphore that all descendants *)
(* of one root share, and keeps its own slot while it waits for them.  The *)
(* semaphores live in a refcounted registry of the process.  Coroutines    *)
(* switch only at awaits, and the registry lock is never held across one,  *)
(* so entering and leaving _acquire_subagent_slot are one step each.       *)
(***************************************************************************)
EXTENDS Naturals, FiniteSets, SequencesExt

CONSTANTS
  Agent,                        \* tasks of one process
  Root,                         \* those submitted by the user
  NoAgent,
  Cap,                          \* MAX_CONCURRENT_SUBAGENTS_PER_ROOT
  MaxDepth                      \* MAX_SUBAGENT_DEPTH

ASSUME SlotsAssumption ==
  /\ Root \subseteq Agent /\ Root # {} /\ NoAgent \notin Agent
  /\ Cap \in Nat \ {0} /\ MaxDepth \in Nat

VARIABLES
  stage,                        \* where a task of the tree stands
  parent,                       \* tasks.parent_task_id
  root,                         \* get_root, as its spawner read it
  depth,                        \* get_depth
  registry,                     \* the roots _subagent_semaphores has an entry for
  refs,                         \* _subagent_semaphore_refs
  free,                         \* permits left in the semaphore of a root
  queue,                        \* its waiters, first come first served
  aborted                       \* roots whose request was cancelled

treeVars == <<parent, root, depth>>
slotVars == <<registry, refs, free, queue>>
vars == <<stage, treeVars, slotVars, aborted>>

TypeOK ==
  /\ stage \in [Agent -> {"absent", "waiting", "running", "ended"}]
  /\ parent \in [Agent -> Agent \cup {NoAgent}]
  /\ root \in [Agent -> Root]
  /\ depth \in [Agent -> 0..MaxDepth]
  /\ registry \subseteq Root
  /\ refs \in [Root -> Nat]
  /\ free \in [Root -> 0..Cap]
  /\ queue \in [Root -> Seq(Agent)]
  /\ aborted \subseteq Root

Init ==
  /\ stage = [a \in Agent |-> IF a \in Root THEN "running" ELSE "absent"]
  /\ parent = [a \in Agent |-> NoAgent]
  /\ root = [a \in Agent |-> IF a \in Root THEN a ELSE CHOOSE r \in Root : TRUE]
  /\ depth = [a \in Agent |-> 0]
  /\ registry = {}
  /\ refs = [r \in Root |-> 0]
  /\ free = [r \in Root |-> Cap]
  /\ queue = [r \in Root |-> << >>]
  /\ aborted = {}

Live(a) == stage[a] \in {"waiting", "running"}
Children(a) == {c \in Agent : parent[c] = a}

(* Faulty variant of Permits: a new semaphore is one permit short. *)
PermitsOneFewer(r) == IF r \in registry THEN free[r] ELSE Cap - 1

(* A root without an entry gets a new semaphore. *)
Permits(r) == IF r \in registry THEN free[r] ELSE Cap

(* A running step of task a spawns child c: the depth check, then the way   *)
(* into _acquire_subagent_slot.  Parallel steps spawn several; a retry      *)
(* spawns a new one after the failed child has left.                        *)
Spawn(a, c) ==
  LET r == root[a] IN
  /\ stage[a] = "running" /\ r \notin aborted
  /\ depth[a] < MaxDepth
  /\ stage[c] = "absent"
  /\ parent' = [parent EXCEPT ![c] = a]
  /\ root' = [root EXCEPT ![c] = r]
  /\ depth' = [depth EXCEPT ![c] = depth[a] + 1]
  /\ registry' = registry \cup {r}
  /\ refs' = [refs EXCEPT ![r] = @ + 1]
  /\ IF Permits(r) > 0
       THEN /\ free' = [free EXCEPT ![r] = Permits(r) - 1]
            /\ stage' = [stage EXCEPT ![c] = "running"]
            /\ UNCHANGED queue
       ELSE /\ queue' = [queue EXCEPT ![r] = Append(@, c)]
            /\ stage' = [stage EXCEPT ![c] = "waiting"]
            /\ UNCHANGED free
  /\ UNCHANGED aborted

(* Faulty variant of Unregister: the entry goes while one holder is left. *)
UnregisterEarly(r) ==
  /\ refs' = [refs EXCEPT ![r] = @ - 1]
  /\ registry' = IF refs[r] - 1 <= 1 THEN registry \ {r} ELSE registry

(* The finally block of _acquire_subagent_slot. *)
Unregister(r) ==
  /\ refs' = [refs EXCEPT ![r] = @ - 1]
  /\ registry' = IF refs[r] - 1 <= 0 THEN registry \ {r} ELSE registry

(* asyncio.Semaphore.release hands the permit to the first waiter. *)
Release(a) ==
  LET r == root[a] IN
  IF queue[r] = << >>
    THEN /\ free' = [free EXCEPT ![r] = @ + 1]
         /\ stage' = [stage EXCEPT ![a] = "ended"]
         /\ UNCHANGED queue
    ELSE /\ queue' = [queue EXCEPT ![r] = Tail(@)]
         /\ stage' = [stage EXCEPT ![a] = "ended", ![Head(queue[r])] = "running"]
         /\ UNCHANGED free

(* Faulty variant of End: a child leaves with its slot. *)
EndKeepsSlot(a) ==
  /\ stage[a] = "running"
  /\ \A c \in Children(a) : ~Live(c)
  /\ stage' = [stage EXCEPT ![a] = "ended"]
  /\ IF a \in Root THEN UNCHANGED slotVars
                  ELSE Unregister(root[a]) /\ UNCHANGED <<free, queue>>
  /\ UNCHANGED <<treeVars, aborted>>

(* The task is over, one way or another: it has gathered its children.  A   *)
(* child gives its slot back.                                               *)
End(a) ==
  /\ stage[a] = "running"
  /\ \A c \in Children(a) : ~Live(c)
  /\ IF a \in Root
       THEN stage' = [stage EXCEPT ![a] = "ended"] /\ UNCHANGED slotVars
       ELSE Release(a) /\ Unregister(root[a])
  /\ UNCHANGED <<treeVars, aborted>>

(* The request of root r is cancelled: every coroutine of its tree gets a   *)
(* CancelledError, those that wait for a slot too.                          *)
Abort(r) ==
  /\ stage[r] = "running" /\ r \notin aborted
  /\ aborted' = aborted \cup {r}
  /\ UNCHANGED <<stage, treeVars, slotVars>>

GiveUp(a) ==
  /\ stage[a] = "waiting" /\ root[a] \in aborted
  /\ \E i \in 1..Len(queue[root[a]]) :
       /\ queue[root[a]][i] = a
       /\ queue' = [queue EXCEPT ![root[a]] = RemoveAt(@, i)]
  /\ stage' = [stage EXCEPT ![a] = "ended"]
  /\ Unregister(root[a])
  /\ UNCHANGED <<treeVars, free, aborted>>

Next ==
  \/ \E a, c \in Agent : Spawn(a, c)
  \/ \E a \in Agent : End(a) \/ GiveUp(a)
  \/ \E r \in Root : Abort(r)

Spec == Init /\ [][Next]_vars

(* Model calls and tools return, so that a task whose children are over     *)
(* ends, and a cancelled coroutine is resumed.                              *)
FairSpec == Spec /\ \A a \in Agent : WF_vars(End(a)) /\ WF_vars(GiveUp(a))

-----------------------------------------------------------------------------
(* Properties. *)

Holders(r) == {a \in Agent \ Root : root[a] = r /\ stage[a] = "running"}
Waiters(r) == {a \in Agent \ Root : root[a] = r /\ stage[a] = "waiting"}

(* At any depth and through any number of times that the registry drops and *)
(* recreates the semaphore, a root runs at most Cap subagents at once.      *)
CapHolds == \A r \in Root : Cardinality(Holders(r)) <= Cap

(* No subagent waits while a slot of its root is free, so no wake-up is     *)
(* lost.                                                                    *)
NoIdleSlot == \A r \in Root : Waiters(r) # {} => Cardinality(Holders(r)) >= Cap

(* The registry has an entry exactly for the roots with subagents in        *)
(* flight: it neither leaks nor drops a semaphore in use.                   *)
RegistryExact ==
  \A r \in Root : r \in registry <=> Holders(r) \cup Waiters(r) # {}

(* The slots of a root are counted right. *)
SlotsOK == TypeOK /\ CapHolds /\ RegistryExact

(* Each subagent gets its slot, or is cancelled, in runs in which no        *)
(* subagent of a subagent ever has to wait: siblings of one level cannot    *)
(* block each other for good.                                               *)
FlatWaitersServed ==
  [](\A a \in Agent : stage[a] = "waiting" => depth[a] = 1)
    => \A a \in Agent : stage[a] = "waiting" ~> stage[a] # "waiting"

(* test_agent_executor_subagent.py: those over the cap wait until a slot    *)
(* frees up.  With subagents of subagents none may: the holders wait for    *)
(* children that wait for them.                                             *)
WaitersServed == \A a \in Agent : stage[a] = "waiting" ~> stage[a] # "waiting"
=============================================================================
