------------------------------ MODULE Sandboxes ------------------------------
(***************************************************************************)
(* The Python sandboxes of plan executions (sandbox/manager.py and its     *)
(* providers; agents/executor.py closes them).  Steps of one batch run     *)
(* concurrently and share the sandbox of their key: a task, or the user    *)
(* alone for every plan run inline, so that two inline plans share one     *)
(* too.  A step runs code (run_python) or makes an artifact: it writes     *)
(* inputs.json, runs a script, reads the output back.  The subprocess      *)
(* provider serialises runs with a lock and talks to its child through a   *)
(* pipe; the docker and e2b providers ("remote") start an environment on   *)
(* first use and take no lock.  Seconds are counted as one per run that    *)
(* was answered in time.                                                   *)
(***************************************************************************)
EXTENDS Naturals, SequencesExt, FiniteSetsExt

CONSTANTS
  Exec,                         \* plan executions
  Call,                         \* tool calls, each made once
  NoCall,
  Box,                          \* sandboxes that may be built
  NoBox,
  MaxFaults                     \* bound: failures of the provider or the database

ASSUME SandboxesAssumption ==
  /\ NoCall \notin Call /\ NoBox \notin Box /\ Exec \cap Call = {}
  /\ MaxFaults \in Nat

VARIABLES
  backend,                      \* WOLFPAW_SANDBOX_BACKEND
  keyOf,                        \* the key of an execution
  exec,                         \* executions: stage, sandbox being closed, seconds read
  call,                         \* tool calls
  table,                        \* SandboxManager._sandboxes
  box,                          \* sandboxes, with what they hold on the host
  metered,                      \* compute_usage: the seconds of the row a teardown wrote
  faults

sandboxVars == <<backend, keyOf, exec, call, table, box, metered, faults>>

Key == {"task", "inline"}
Active == {"staging", "queued", "starting", "sent", "reading", "stray"}

SandboxTypeOK ==
  /\ backend \in {"subprocess", "remote"}
  /\ keyOf \in [Exec -> Key]
  /\ exec \in [Exec -> [stage : {"running", "closing", "recording", "closed"},
                        victim : Box \cup {NoBox}, seen : Nat]]
  /\ call \in [Call -> [stage : Active \cup {"idle", "done", "failed", "cancelled"},
                        then : {"none", "staging", "sent", "reading"},
                        kind : {"python", "artifact"}, by : Exec \cup {NoCall},
                        on : Box \cup {NoBox}, heard : Call \cup {NoCall},
                        product : Call \cup {NoCall}]]
  /\ table \in [Key -> Box \cup {NoBox}]
  /\ box \in [Box -> [made : BOOLEAN, handle : BOOLEAN, alive : Nat, gone : BOOLEAN,
                      queue : Seq(Call \cup Exec), pipe : Seq(Call), elapsed : Nat,
                      inputs : Call \cup {NoCall}, output : Call \cup {NoCall},
                      users : SUBSET Exec, overlap : BOOLEAN, aborted : BOOLEAN]]
  /\ metered \in [Exec -> Nat]
  /\ faults \in 0..MaxFaults

(* users, overlap and aborted only record who used or closed a sandbox, and how. *)
SandboxInit ==
  /\ backend \in {"subprocess", "remote"}
  /\ keyOf \in {k \in [Exec -> Key] : Cardinality({e \in Exec : k[e] = "task"}) <= 1}
  /\ exec = [e \in Exec |-> [stage |-> "running", victim |-> NoBox, seen |-> 0]]
  /\ call = [c \in Call |-> [stage |-> "idle", then |-> "none", kind |-> "python",
                             by |-> NoCall, on |-> NoBox, heard |-> NoCall,
                             product |-> NoCall]]
  /\ table = [k \in Key |-> NoBox]
  /\ box = [b \in Box |-> [made |-> FALSE, handle |-> FALSE, alive |-> 0, gone |-> FALSE,
                           queue |-> << >>, pipe |-> << >>, elapsed |-> 0,
                           inputs |-> NoCall, output |-> NoCall,
                           users |-> {}, overlap |-> FALSE, aborted |-> FALSE]]
  /\ metered = [e \in Exec |-> 0]
  /\ faults = 0

ActiveOn(b) == {c \in Call : call[c].on = b /\ call[c].stage \in Active}
CallsOf(e) == {c \in Call : call[c].by = e /\ call[c].stage \in Active}

(* The lock of b is held by the first of its queue. *)
Holds(x, b) == b.queue # << >> /\ Head(b.queue) = x

(* s without the members of S, the others in their order. *)
Without(s, S) ==
  LET kept == {i \in DOMAIN s : s[i] \notin S} IN
  [n \in 1..Cardinality(kept) |->
     s[CHOOSE i \in kept : Cardinality({j \in kept : j < i}) = n - 1]]

(* How a call enters its next operation on its sandbox: a run takes the     *)
(* subprocess lock; every remote operation first ensures an environment.    *)
Enter(c, b, next, id) ==
  CASE backend = "remote" /\ ~b.handle ->
         <<[c EXCEPT !.stage = "starting", !.then = next], b>>
    [] backend = "subprocess" /\ next = "sent" ->
         <<[c EXCEPT !.stage = "queued"], [b EXCEPT !.queue = Append(@, id)]>>
    [] OTHER -> <<[c EXCEPT !.stage = next], b>>

(* A step of e calls a tool: the manager returns the key's sandbox  *)
(* or builds it, and the call goes on without yielding to its first wait.   *)
Use(e, c, k) ==
  LET key == keyOf[e]
      b == IF table[key] # NoBox THEN table[key]
           ELSE CHOOSE x \in Box : ~box[x].made
      entered == Enter([call[c] EXCEPT !.kind = k, !.by = e, !.on = b],
                       [box[b] EXCEPT !.made = TRUE, !.users = @ \cup {e},
                                      !.overlap = @ \/ ActiveOn(b) # {}],
                       IF k = "artifact" THEN "staging" ELSE "sent", c)
  IN
  /\ exec[e].stage = "running" /\ call[c].stage = "idle"
  /\ table[key] # NoBox \/ \E x \in Box : ~box[x].made
  /\ table' = [table EXCEPT ![key] = b]
  /\ call' = [call EXCEPT ![c] = entered[1]]
  /\ box' = [box EXCEPT ![b] = entered[2]]
  /\ UNCHANGED <<backend, keyOf, exec, metered, faults>>

RunPython(e, c) == Use(e, c, "python")
MakeArtifact(e, c) == Use(e, c, "artifact")     \* a chart, a PDF, a table

(* The call goes on to its next operation, b being its sandbox by then.     *)
Proceed(c, b, next) ==
  LET entered == Enter(call[c], b, next, c) IN
  /\ call' = [call EXCEPT ![c] = entered[1]]
  /\ box' = [box EXCEPT ![call[c].on] = entered[2]]

(* The call ends in stage, leaving its sandbox as b. *)
Finish(c, b, stage) ==
  /\ call' = [call EXCEPT ![c].stage = stage]
  /\ box' = [box EXCEPT ![call[c].on] = b]

(* write_file(inputs.json); a sandbox torn down meanwhile has no directory. *)
Stage(c) ==
  LET b == box[call[c].on] IN
  /\ call[c].stage = "staging"
  /\ IF backend = "subprocess" /\ b.gone
       THEN Finish(c, b, "failed")
       ELSE Proceed(c, [b EXCEPT !.inputs = c], "sent")
  /\ UNCHANGED <<backend, keyOf, exec, table, metered, faults>>

(* The lock's holder sends its command, or first spawns the child, which    *)
(* cannot start in a directory that is gone.                                *)
Send(c) ==
  LET b == box[call[c].on] IN
  /\ call[c].stage = "queued" /\ Holds(c, b)
  /\ CASE b.handle ->
            /\ call' = [call EXCEPT ![c].stage = "sent"]
            /\ box' = [box EXCEPT ![call[c].on].pipe = Append(@, c)]
       [] ~b.handle /\ b.gone -> Finish(c, [b EXCEPT !.queue = Tail(@)], "failed")
       [] OTHER -> /\ call' = [call EXCEPT ![c].stage = "starting", ![c].then = "sent"]
                   /\ UNCHANGED box
  /\ UNCHANGED <<backend, keyOf, exec, table, metered, faults>>

(* The child is up, or the provider's environment is: the reference to it   *)
(* replaces whatever the sandbox held.                                      *)
Started(c) ==
  LET b == [box[call[c].on] EXCEPT !.handle = TRUE, !.alive = @ + 1] IN
  /\ call[c].stage = "starting"
  /\ call' = [call EXCEPT ![c].stage = call[c].then, ![c].then = "none"]
  /\ box' = [box EXCEPT ![call[c].on] =
                IF backend = "subprocess" THEN [b EXCEPT !.pipe = <<c>>] ELSE b]
  /\ UNCHANGED <<backend, keyOf, exec, table, metered, faults>>

(* The call was cancelled while a thread was starting an environment: the   *)
(* thread goes on, and nobody takes what it returns.                        *)
StrayStarted(c) ==
  /\ call[c].stage = "stray"
  /\ Finish(c, [box[call[c].on] EXCEPT !.alive = @ + 1], "cancelled")
  /\ UNCHANGED <<backend, keyOf, exec, table, metered, faults>>

(* The run is answered: with the oldest line of the child's pipe, or by the *)
(* provider.  Its seconds are added once the lock is released.              *)
Answered(c) ==
  LET b == box[call[c].on]
      answer == IF backend = "subprocess" THEN Head(b.pipe) ELSE c
      after == [b EXCEPT !.elapsed = @ + 1,
                         !.output = IF call[c].kind = "artifact" /\ answer = c
                                    THEN b.inputs ELSE @,
                         !.pipe = IF backend = "subprocess" THEN Tail(@) ELSE @,
                         !.queue = IF backend = "subprocess" THEN Tail(@) ELSE @]
      entered == Enter([call[c] EXCEPT !.heard = answer], after, "reading", c)
  IN
  /\ call[c].stage = "sent" /\ b.alive > 0
  /\ IF call[c].kind = "python"
       THEN /\ call' = [call EXCEPT ![c].heard = answer, ![c].stage = "done"]
            /\ box' = [box EXCEPT ![call[c].on] = after]
       ELSE /\ call' = [call EXCEPT ![c] = entered[1]]
            /\ box' = [box EXCEPT ![call[c].on] = entered[2]]
  /\ UNCHANGED <<backend, keyOf, exec, table, metered, faults>>

(* What a run that is not answered in time leaves of its sandbox: the child *)
(* is killed, the provider's environment stays.                             *)
Unanswered(b) ==
  IF backend = "subprocess"
    THEN [b EXCEPT !.alive = 0, !.handle = FALSE, !.pipe = << >>, !.queue = Tail(@)]
    ELSE b

(* Faulty variant of TimedOut: the child is left to finish its command. *)
TimedOutAlive(c) ==
  /\ call[c].stage = "sent"
  /\ Finish(c, [box[call[c].on] EXCEPT
                   !.queue = IF backend = "subprocess" THEN Tail(@) ELSE @], "failed")
  /\ UNCHANGED <<backend, keyOf, exec, table, metered, faults>>

(* The run takes too long, or the child exits: no seconds are added. *)
TimedOut(c) ==
  /\ call[c].stage = "sent"
  /\ Finish(c, Unanswered(box[call[c].on]), "failed")
  /\ UNCHANGED <<backend, keyOf, exec, table, metered, faults>>

(* A remote operation fails: its environment is gone, or the provider's call raises. *)
RemoteFails(c) ==
  LET b == box[call[c].on] IN
  /\ backend = "remote" /\ call[c].stage \in {"staging", "sent", "reading", "starting"}
  /\ IF b.alive = 0 /\ call[c].stage # "starting"
       THEN UNCHANGED faults
       ELSE faults < MaxFaults /\ faults' = faults + 1
  /\ Finish(c, b, "failed")
  /\ UNCHANGED <<backend, keyOf, exec, table, metered>>

(* The artifact's bytes are read back and registered. *)
ReadBack(c) ==
  LET b == box[call[c].on] IN
  /\ call[c].stage = "reading"
  /\ IF b.gone \/ (backend = "remote" /\ b.alive = 0)
       THEN Finish(c, b, "failed")
       ELSE /\ call' = [call EXCEPT ![c].stage = "done", ![c].product = b.output]
            /\ UNCHANGED box
  /\ UNCHANGED <<backend, keyOf, exec, table, metered, faults>>

(* close_for_task: the sandbox leaves the table, its seconds are read, and  *)
(* its close begins: it queues for the subprocess lock, and a remote        *)
(* sandbox without an environment has nothing to close.                     *)
Drop(e, boxes) ==
  LET b == table[keyOf[e]] IN
  /\ table' = [table EXCEPT ![keyOf[e]] = NoBox]
  /\ IF b = NoBox
       THEN /\ exec' = [exec EXCEPT ![e].stage = "closed"]
            /\ box' = boxes
       ELSE /\ exec' = [exec EXCEPT ![e] =
                  [stage |-> IF backend = "remote" /\ ~boxes[b].handle
                             THEN "recording" ELSE "closing",
                   victim |-> b, seen |-> boxes[b].elapsed]]
            /\ box' = [boxes EXCEPT
                 ![b].users = @ \cup {e},
                 ![b].queue = IF backend = "subprocess" THEN Append(@, e) ELSE @]

(* The steps are over, well or badly: the finally block of execute. *)
Leave(e) ==
  /\ exec[e].stage = "running" /\ CallsOf(e) = {}
  /\ Drop(e, box)
  /\ UNCHANGED <<backend, keyOf, call, metered, faults>>

(* Faulty variant of AbortPlan: only the steps are cancelled, nothing is closed. *)
AbortKeepsSandbox(e) ==
  /\ exec[e].stage = "running" /\ CallsOf(e) # {}
  /\ call' = [c \in Call |-> IF c \in CallsOf(e)
                 THEN [call[c] EXCEPT !.stage = "cancelled"] ELSE call[c]]
  /\ box' = [b \in Box |-> [box[b] EXCEPT
                 !.queue = Without(@, CallsOf(e)),
                 !.aborted = @ \/ ActiveOn(b) \cap CallsOf(e) # {}]]
  /\ exec' = [exec EXCEPT ![e].stage = "closed"]
  /\ UNCHANGED <<backend, keyOf, table, metered, faults>>

(* The execution is cancelled (the client went away, the job timed out):    *)
(* its calls end where they wait, and the finally block runs.  A cancelled  *)
(* spawn takes its child with it; a remote start goes on in its thread; a   *)
(* command that was sent is still answered, to nobody.                      *)
AbortPlan(e) ==
  /\ exec[e].stage = "running" /\ CallsOf(e) # {}
  /\ call' = [c \in Call |->
       IF c \notin CallsOf(e) THEN call[c]
       ELSE [call[c] EXCEPT !.stage =
               IF backend = "remote" /\ @ = "starting" THEN "stray" ELSE "cancelled"]]
  /\ Drop(e, [b \in Box |-> [box[b] EXCEPT
                !.queue = Without(@, CallsOf(e)),
                !.aborted = @ \/ ActiveOn(b) \cap CallsOf(e) # {}]])
  /\ UNCHANGED <<backend, keyOf, metered, faults>>

(* Faulty variant of Close: the child is forgotten, not terminated. *)
CloseForgets(e) ==
  LET b == exec[e].victim IN
  /\ exec[e].stage = "closing"
  /\ backend = "subprocess" => Holds(e, box[b])
  /\ box' = [box EXCEPT ![b].handle = FALSE, ![b].gone = backend = "subprocess",
                        ![b].queue = IF backend = "subprocess" THEN Tail(@) ELSE @]
  /\ exec' = [exec EXCEPT ![e].stage = "recording"]
  /\ UNCHANGED <<backend, keyOf, call, table, metered, faults>>

(* The child is terminated under the lock, and its directory removed. *)
CloseChild(e, b) ==
  /\ backend = "subprocess" /\ Holds(e, box[b])
  /\ box' = [box EXCEPT ![b].alive = 0, ![b].handle = FALSE, ![b].pipe = << >>,
                        ![b].gone = TRUE, ![b].queue = Tail(@)]
  /\ UNCHANGED faults

(* The provider is told to kill the environment; an error is swallowed. *)
KillEnvironment(b) ==
  /\ backend = "remote"
  /\ \E killed \in BOOLEAN :
       /\ ~killed => faults < MaxFaults
       /\ faults' = IF killed THEN faults ELSE faults + 1
       /\ box' = [box EXCEPT ![b].handle = FALSE,
                     ![b].alive = IF killed THEN @ - 1 ELSE @]

Close(e) ==
  /\ exec[e].stage = "closing"
  /\ CloseChild(e, exec[e].victim) \/ KillEnvironment(exec[e].victim)
  /\ exec' = [exec EXCEPT ![e].stage = "recording"]
  /\ UNCHANGED <<backend, keyOf, call, table, metered>>

(* record_compute; a failure is logged and the seconds are lost. *)
Record(e) ==
  /\ exec[e].stage = "recording"
  /\ \E written \in BOOLEAN :
       /\ ~written => exec[e].seen > 0 /\ faults < MaxFaults
       /\ faults' = IF written THEN faults ELSE faults + 1
       /\ metered' = IF written THEN [metered EXCEPT ![e] = exec[e].seen] ELSE metered
  /\ exec' = [exec EXCEPT ![e].stage = "closed"]
  /\ UNCHANGED <<backend, keyOf, call, table, box>>

SandboxCall(c) ==
  \/ Stage(c) \/ Send(c) \/ Started(c) \/ StrayStarted(c) \/ Answered(c)
  \/ TimedOut(c) \/ RemoteFails(c) \/ ReadBack(c)

SandboxNext ==
  \/ \E e \in Exec : \/ \E c \in Call : RunPython(e, c) \/ MakeArtifact(e, c)
                    \/ Leave(e) \/ AbortPlan(e) \/ Close(e) \/ Record(e)
  \/ \E c \in Call : SandboxCall(c)

SandboxSpec == SandboxInit /\ [][SandboxNext]_sandboxVars

-----------------------------------------------------------------------------
(* Whoever used the sandbox has ended: its calls, and its executions. *)
Settled(b) ==
  /\ box[b].made /\ ActiveOn(b) = {}
  /\ \A e \in box[b].users : exec[e].stage = "closed"

(* A sandbox leaves nothing running on the host.  With the subprocess       *)
(* provider this holds whatever its users did to it; docker and e2b need    *)
(* their users to call one after the other, none cancelled, because the     *)
(* reference to an environment is only kept if nobody else starts one.      *)
SandboxReleased ==
  \A b \in Box :
    Settled(b) /\ box[b].alive > 0 =>
      /\ backend = "remote"
      /\ faults > 0 \/ box[b].overlap \/ box[b].aborted \/ Cardinality(box[b].users) > 1

(* Every sandbox is released in time. *)
SandboxesOK == SandboxTypeOK /\ SandboxReleased

(* A run gets the answer to its own command.  Only a run that another       *)
(* execution's cancelled run left a command for, in the one sandbox that    *)
(* inline plans share, can read somebody else's.                            *)
AnswersOwnCommand ==
  \A c \in Call :
    call[c].heard \notin {c, NoCall} =>
      box[call[c].on].aborted /\ Cardinality(box[call[c].on].users) > 1

(* An artifact is made from the inputs of its own step, unless two calls    *)
(* used the sandbox at once: all of them write the same inputs.json.        *)
ArtifactFromOwnInputs ==
  \A c \in Call : call[c].product \notin {c, NoCall} => box[call[c].on].overlap

(* The calls that share a sandbox are kept apart. *)
ToolCallsApart == AnswersOwnCommand /\ ArtifactFromOwnInputs

(* The rows that say what was run in b. *)
RowsOf(b) == {e \in Exec : exec[e].victim = b /\ metered[e] > 0}

(* What was answered in time in a sandbox is metered once, for the task or  *)
(* user it belongs to: no row is of no sandbox, two executions that end     *)
(* never both count one, and when all is over it has its row with all its   *)
(* seconds, unless a write failed or another plan still ran code there when *)
(* it was read.                                                             *)
SecondsMeteredOnce ==
  /\ \A e \in Exec : metered[e] > 0 => exec[e].victim \in Box
  /\ \A b \in Box :
       /\ \A e \in RowsOf(b) :
            /\ RowsOf(b) = {e} /\ metered[e] <= box[b].elapsed
            /\ \A u \in box[b].users : keyOf[u] = keyOf[e]
       /\ Settled(b) /\ box[b].elapsed > 0 =>
            \/ \E e \in RowsOf(b) : metered[e] = box[b].elapsed
            \/ faults > 0 \/ Cardinality(box[b].users) > 1
=============================================================================
