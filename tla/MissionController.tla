-------------------------- MODULE MissionController --------------------------
(***************************************************************************)
(* The mission controller process, hydra/mission/controller.py: its start  *)
(* up, its scheduler loop, the single and the parallel execution path, its *)
(* worker processes and its stop, composed with the queue they work on.    *)
(*                                                                         *)
(* Each set_kv and each queue call commits by itself, so pc names every    *)
(* point between two commits and Crash may strike at each.  The lock lets  *)
(* one process be up (LockHeld), so its memory is kept once.               *)
(*                                                                         *)
(* Abstracted: which follow-up the _reconcile_ and _route_ methods choose  *)
(* (any, or a block), when the governance guard refuses, when the shadow   *)
(* pipeline fails and when a forward update is due (any time; that the Q4  *)
(* record is COMPLETED is what Forward # {} stands for).  The waiting      *)
(* phases are one phase, and the failures that the controller treats by    *)
(* their type (a Q4 one shot, an exhausted turbo grammar) may happen to    *)
(* any experiment.  A process that is given up while it works is a stray.  *)
(* A row BLOCKED for a missing handler before claims were checked first is *)
(* a legacy state: the start-up that reopens it is in ExperimentQueue.     *)
(***************************************************************************)
EXTENDS ExperimentQueue

CONSTANTS
  Forward,          \* forward_shadow_append_update rows: never parallel safe
  MaxStops          \* BOUND: stop requests and signals over a behaviour

ASSUME ForwardAssumption == Forward \subseteq Experiments \ ParallelSafe

VARIABLES
  phase, blocker,   \* kv rows current_phase and current_blocker
  envelope,         \* worker_results/<experiment>.json
  stopFile,         \* the STOP file exists
  supported,        \* experiment types the deployed code has a handler for
  pc,               \* what the process does next; "down" when there is none
  shutdown,         \* its _shutdown flag
  saved,            \* previous_phase and previous_blocker
  pending,          \* the kv pair being written, and where to go on
  accepted,         \* claims of the batch that passed the guard
  tally,            \* "boot", or the worst outcome of the rows settled
  worker,           \* watched worker process of each experiment
  strays,           \* working processes nobody watches, by experiment
  faulted,          \* history: experiments one of whose runs was given up
  stops             \* stop requests so far

kv == <<phase, blocker>>
memory == <<shutdown, saved, pending, accepted, tally>>
left == <<strays, faulted>>
world == <<envelope, stopFile, supported, worker, left, stops>>
mvars == <<vars, kv, memory, world, pc>>

Blocked == {"INTEGRITY_BLOCKED", "ENGINEERING_BLOCKED", "EXPERIMENT_BLOCKED"}
Phases == Blocked \cup
  {"PHASE_0_GOVERNANCE", "RECOVERING", "PLANNING_NEXT_ACTION", "RUNNING_EXPERIMENT",
   "RUNNING_PARALLEL_EXPERIMENTS", "RETRY_SCHEDULED", "SCHEDULER_STALLED", "STOPPING",
   "STOPPED_CLEANLY"}
Blockers ==
  [why : {"none", "guard", "shadow", "review", "handler", "failed", "routed", "feed", "task", "data"},
   types : SUBSET Kinds]
Because(why) == [why |-> why, types |-> {}]

Unset == [phase |-> "PHASE_0_GOVERNANCE", blocker |-> Because("none")]
Fresh == [phase |-> "PHASE_0_GOVERNANCE", blocker |-> Because("none"), next |-> "down"]

MissionInit ==
  /\ Init
  /\ phase = "PHASE_0_GOVERNANCE" /\ blocker = Because("none")
  /\ envelope = [e \in Experiments |-> "none"]
  /\ stopFile = FALSE
  /\ supported \in SUBSET Kinds
  /\ pc = "down" /\ shutdown = FALSE
  /\ saved = Unset /\ pending = Fresh
  /\ accepted = {} /\ tally = "boot"
  /\ worker = [e \in Experiments |-> "none"]
  /\ strays = [e \in Experiments |-> 0]
  /\ faulted = {}
  /\ stops = 0

StopAsked == shutdown \/ stopFile
Alive == {e \in Experiments : worker[e] \in {"alive", "published"}}

-----------------------------------------------------------------------------
(* Building blocks.                                                        *)

At(here, there) == pc = here /\ pc' = there

\* set_kv of the phase, then of the blocker, then on to next.
Publish(here, ph, bl, next) ==
  /\ At(here, "publishing")
  /\ pending' = [phase |-> ph, blocker |-> bl, next |-> next]

PublishPhase ==
  /\ At("publishing", "labelling")
  /\ phase' = pending.phase
  /\ UNCHANGED <<vars, blocker, memory, world>>

PublishBlocker ==
  /\ At("labelling", pending.next)
  /\ blocker' = pending.blocker
  /\ pending' = Fresh
  /\ UNCHANGED <<vars, phase, shutdown, saved, accepted, tally, world>>

-----------------------------------------------------------------------------
(* Start-up: _initialize.                                                  *)

Boot(c) ==
  /\ At("down", "booting")
  /\ Start(c)
  /\ UNCHANGED <<kv, memory, world>>

\* The STOP file is removed, whoever made it and whenever.
ReadPrevious ==
  /\ At("booting", "announcing")
  /\ stopFile' = FALSE
  /\ saved' = [phase |-> phase, blocker |-> blocker]
  /\ UNCHANGED <<vars, kv, shutdown, pending, accepted, tally, envelope, supported, worker, left, stops>>

\* current_phase is overwritten before governance is asserted; if that
\* raises, the process ends as in a crash.
Announce ==
  /\ At("announcing", "scanning")
  /\ phase' = "RECOVERING"
  /\ UNCHANGED <<vars, blocker, memory, world>>

Recover(c) ==
  /\ \/ At("scanning", "recovering") /\ RecoverScan(c) /\ UNCHANGED tally
     \/ At("recovering", "reconciling") /\ RecoverCommit(c) /\ tally' = "boot"
  /\ UNCHANGED <<kv, shutdown, saved, pending, accepted, world>>

\* _reconcile_*: completed results lead to follow-up experiments, or to a
\* block that asks for a change.  A failed turbo epoch is followed up where
\* it is settled.
Reconciling == {"reconciling", "pivoting"}

FollowUp(c) ==
  /\ \E here \in Reconciling : At(here, here)
  /\ \E e \in Experiments \ Forward : Enqueue(c, e)
  /\ UNCHANGED <<kv, memory, world>>

\* A feed-only wait ("feed") or another change that a result asks for.
RouteToBlock ==
  /\ phase \notin Blocked
  /\ \/ \E ph \in {"ENGINEERING_BLOCKED", "INTEGRITY_BLOCKED"} :
          Publish("reconciling", ph, Because("routed"), "reconciling")
     \/ Publish("reconciling", "ENGINEERING_BLOCKED", Because("feed"), "reconciling")
  /\ UNCHANGED <<vars, kv, shutdown, saved, accepted, tally, world>>

AfterReconciling(here) ==
  IF here = "pivoting" THEN "loop"
  ELSE IF tally = "boot" THEN "restoring" ELSE "concluding"

\* A block made in the same pass is lifted again with any row queued, or by
\* the routing of a later result, which need not have queued one.
Lift ==
  /\ phase \in Blocked /\ blocker.why \in {"failed", "routed", "feed"}
  /\ \E here \in Reconciling :
       /\ \/ Queued # {}
          \/ here = "reconciling" /\ InStatus("COMPLETED") # {}
       /\ Publish(here, "PLANNING_NEXT_ACTION", Because("none"), AfterReconciling(here))
  /\ UNCHANGED <<vars, kv, shutdown, saved, accepted, tally, world>>

Reconciled ==
  /\ \E here \in Reconciling : At(here, AfterReconciling(here))
  /\ UNCHANGED <<vars, kv, memory, world>>

\* _resolved_missing_handler_type
HandlerInstalled ==
  /\ saved.phase = "ENGINEERING_BLOCKED" /\ saved.blocker.why = "handler"
  /\ saved.blocker.types \subseteq supported

\* The block read at start-up is put back ...
RestoreBlock ==
  /\ saved.phase \in Blocked /\ ~HandlerInstalled
  /\ Publish("restoring", saved.phase, saved.blocker, "loop")
  /\ saved' = Unset
  /\ UNCHANGED <<vars, kv, shutdown, accepted, tally, world>>

\* ... unless its handler is there now, or a reconciliation has queued the
\* work that its blocker asked for.
Resume ==
  /\ saved.phase \in Blocked =>
       HandlerInstalled \/ (saved.blocker.why \in {"failed", "routed", "feed"} /\ Queued # {})
  /\ \/ /\ phase \in Blocked
        /\ At("restoring", "loop") /\ UNCHANGED pending
     \/ /\ phase \notin Blocked
        /\ Publish("restoring", "PLANNING_NEXT_ACTION", Because("none"), "loop")
  /\ saved' = Unset
  /\ UNCHANGED <<vars, kv, shutdown, accepted, tally, world>>

-----------------------------------------------------------------------------
(* The scheduler loop: run and step.                                       *)

CheckStop ==
  /\ IF StopAsked THEN At("loop", "stopping") /\ phase' = "STOPPED_CLEANLY"
                  ELSE At("loop", "ticking") /\ UNCHANGED phase
  /\ UNCHANGED <<vars, blocker, memory, world>>

Leave(c) ==
  /\ At("stopping", "down")
  /\ StopCleanly(c)
  /\ shutdown' = FALSE
  /\ UNCHANGED <<kv, saved, pending, accepted, tally, world>>

Tick ==
  /\ \/ At("ticking", "updating") /\ UNCHANGED pending
     \/ Publish("ticking", "INTEGRITY_BLOCKED", Because("shadow"), "loop")
  /\ UNCHANGED <<vars, kv, shutdown, saved, accepted, tally, world>>

\* _reconcile_due_forward_shadow_update, on each turn and before the phase
\* is looked at.  An integrity block it respects, but for one of its data.
Feedable == phase = "INTEGRITY_BLOCKED" => blocker.why = "data"

Forwarded == \E e \in Forward : status[e] \in {"QUEUED", "RUNNING"}

Stalling == {"ENGINEERING_BLOCKED", "EXPERIMENT_BLOCKED", "SCHEDULER_STALLED"}

\* MUTANT of UpdateForward: an integrity block is no reason to return.
UpdateForwardAlways(c) ==
  /\ ~Forwarded /\ \E e \in Forward : Enqueue(c, e)
  /\ Publish("updating", "PLANNING_NEXT_ACTION", Because("none"), "deciding")
  /\ UNCHANGED <<kv, shutdown, saved, accepted, tally, world>>

\* An update that waits in the queue lifts whatever the mission waits for,
\* a new one does so as it is queued; without its boundary manifest or its
\* frozen task there is none.
UpdateForward(c) ==
  /\ Feedable
  /\ \/ /\ Forwarded /\ phase \in Stalling /\ UNCHANGED vars
        /\ Publish("updating", "PLANNING_NEXT_ACTION", Because("none"), "deciding")
     \/ /\ ~Forwarded /\ \E e \in Forward : Enqueue(c, e)
        /\ Publish("updating", "PLANNING_NEXT_ACTION", Because("none"), "deciding")
     \/ /\ ~Forwarded /\ Forward # {} /\ UNCHANGED vars
        /\ \/ Publish("updating", "ENGINEERING_BLOCKED", Because("feed"), "deciding")
           \/ Publish("updating", "INTEGRITY_BLOCKED", Because("task"), "deciding")
  /\ UNCHANGED <<kv, shutdown, saved, accepted, tally, world>>

SkipUpdate ==
  /\ ~(Forwarded /\ phase \in Stalling)
  /\ At("updating", "deciding")
  /\ UNCHANGED <<vars, kv, memory, world>>

StayBlocked ==
  /\ phase \in Blocked
  /\ At("deciding", "loop")
  /\ UNCHANGED <<vars, kv, memory, world>>

\* The head of the queue is refused before it is claimed.
Refuse ==
  /\ phase \notin Blocked
  /\ \E e \in Heads :
       \/ Publish("deciding", "INTEGRITY_BLOCKED", Because("guard"), "loop")
       \/ /\ Kind[e] \notin supported
          /\ Publish("deciding", "ENGINEERING_BLOCKED",
                     [why |-> "handler", types |-> {Kind[e]}], "loop")
  /\ UNCHANGED <<vars, kv, shutdown, saved, accepted, tally, world>>

\* MUTANT of Dispatch: the claim does not ask for QUEUED rows.
DispatchAnyRow(c) ==
  /\ phase \notin Blocked
  /\ At("deciding", "vetting")
  /\ \E batch \in SUBSET ParallelSafe :
       batch \cap Heads # {} /\ Cardinality(batch) <= WorkerLimit /\ Claimed(c, batch)
  /\ UNCHANGED <<kv, memory, world>>

Dispatch(c) ==
  /\ phase \notin Blocked
  /\ \E e \in Heads :
       /\ Kind[e] \in supported
       /\ IF e \in ParallelSafe /\ WorkerLimit > 1
          THEN /\ At("deciding", "vetting")
               /\ \E batch \in SUBSET (Queued \cap ParallelSafe) :
                    e \in batch /\ IsBatch(batch) /\ Claimed(c, batch)
          ELSE At("deciding", "checking") /\ Claimed(c, {e})
  /\ UNCHANGED <<kv, memory, world>>

\* plan_next_action, with nothing queued: an experiment is planned, or the
\* controller waits.
Plan(c) ==
  /\ phase \notin Blocked /\ Queued = {}
  /\ \/ /\ At("deciding", "loop") /\ UNCHANGED pending
        /\ \E e \in Experiments \ Forward : Enqueue(c, e)
     \/ /\ Publish("deciding", "SCHEDULER_STALLED", Because("none"), "loop")
        /\ UNCHANGED vars
  /\ UNCHANGED <<kv, shutdown, saved, accepted, tally, world>>

-----------------------------------------------------------------------------
(* One experiment: _execute_queued_experiment and                          *)
(* _run_experiment_with_heartbeat.                                         *)

Reject(c) ==
  /\ Publish("checking", "INTEGRITY_BLOCKED", Because("guard"), "loop")
  /\ \E k \in claims[c] : Block(c, k, "guard")
  /\ UNCHANGED <<kv, shutdown, saved, accepted, tally, world>>

Admit ==
  /\ At("checking", "launching")
  /\ phase' = "RUNNING_EXPERIMENT"
  /\ UNCHANGED <<vars, blocker, memory, world>>

\* MUTANT of Spawned: a published result is not looked for.
SpawnedAfresh(es) ==
  /\ envelope' = [e \in Experiments |-> IF e \in es THEN "none" ELSE envelope[e]]
  /\ worker' = [e \in Experiments |-> IF e \in es THEN "alive" ELSE "none"]

\* A published result of the same specification is used as it is; any
\* other envelope is removed and a worker is spawned.  (A stray that
\* publishes between the look and the removal is one that never did.)
Spawned(es) ==
  LET run == {e \in es : envelope[e] # "ok"}
  IN  /\ envelope' = [e \in Experiments |-> IF e \in run THEN "none" ELSE envelope[e]]
      /\ worker' = [e \in Experiments |-> IF e \in run THEN "alive" ELSE "none"]

Launch(c) ==
  LET es == {k.id : k \in claims[c]}
  IN  /\ At("launching", IF \E e \in es : envelope[e] # "ok" THEN "working" ELSE "settling")
      /\ Spawned(es)
      /\ UNCHANGED <<vars, kv, memory, stopFile, supported, left, stops>>

\* MUTANT of WorkerGone: the second look for a stop is missing.
WorkerGoneUnchecked ==
  /\ Alive = {}
  /\ At("working", "settling")
  /\ UNCHANGED <<vars, kv, memory, world>>

\* A stop is looked for while the worker lives and again when it is gone,
\* before its result is read.
WorkerGone ==
  /\ Alive = {}
  /\ At("working", IF StopAsked THEN "releasing" ELSE "settling")
  /\ UNCHANGED <<vars, kv, memory, world>>

NoWorkers == worker' = [e \in Experiments |-> "none"]


Interrupt ==
  /\ StopAsked /\ Alive # {}
  /\ At("working", "releasing")
  /\ NoWorkers
  /\ UNCHANGED <<vars, kv, memory, envelope, stopFile, supported, left, stops>>

\* MUTANT of Unclaim: the claim of the killed worker is not released.
UnclaimHeld(c) ==
  /\ Publish("releasing", "STOPPING", Because("none"), "loop")
  /\ NoWorkers
  /\ UNCHANGED <<vars, kv, shutdown, saved, accepted, tally, envelope, stopFile, supported, left, stops>>

Unclaim(c) ==
  /\ Publish("releasing", "STOPPING", Because("none"), "loop")
  /\ NoWorkers
  /\ \E k \in claims[c] : Release(c, k)
  /\ UNCHANGED <<kv, shutdown, saved, accepted, tally, envelope, stopFile, supported, left, stops>>

\* The tick of the heartbeat fails: the phase is written, the worker killed
\* and the row blocked, in this order.
TickAtWork ==
  /\ Publish("working", "INTEGRITY_BLOCKED", Because("shadow"), "halting")
  /\ Alive # {}
  /\ UNCHANGED <<vars, kv, shutdown, saved, accepted, tally, world>>

Halt(c) ==
  /\ Publish("halting", "INTEGRITY_BLOCKED", Because("shadow"), "loop")
  /\ NoWorkers
  /\ \E k \in claims[c] : Block(c, k, "guard")
  /\ UNCHANGED <<kv, shutdown, saved, accepted, tally, envelope, stopFile, supported, left, stops>>

\* Any exception of the run is taken for its failure; the row first, then
\* the phase.
Failed(c, here, k) ==
  /\ \E retryable \in BOOLEAN : Fail(c, k, retryable)
  /\ IF status'[k.id] = "QUEUED"
     THEN Publish(here, "RETRY_SCHEDULED", Because("none"), "loop")
     ELSE \/ Publish(here, "EXPERIMENT_BLOCKED", Because("failed"), "pivoting")
          \/ Publish(here, "INTEGRITY_BLOCKED", Because("review"), "loop")
  /\ UNCHANGED tally

\* MUTANT of SettleOne: a failing worker's envelope completes the row.
SettleOnePublished(c) ==
  /\ \E k \in claims[c] :
       IF envelope[k.id] # "none"
       THEN /\ At("settling", "reconciling") /\ tally' = "done" /\ UNCHANGED pending
            /\ Complete(c, k)
       ELSE Failed(c, "settling", k)
  /\ NoWorkers
  /\ UNCHANGED <<kv, shutdown, saved, accepted, envelope, stopFile, supported, left, stops>>

SettleOne(c) ==
  /\ \E k \in claims[c] :
       IF envelope[k.id] = "ok"
       THEN /\ At("settling", "reconciling") /\ tally' = "done" /\ UNCHANGED pending
            /\ Complete(c, k)
       ELSE Failed(c, "settling", k)
  /\ NoWorkers
  /\ UNCHANGED <<kv, shutdown, saved, accepted, envelope, stopFile, supported, left, stops>>

Unwatched(e) == IF worker[e] = "alive" THEN strays[e] + 1 ELSE strays[e]

\* MUTANT of Fault: the row is failed, but its worker stays watched.
FaultWatching(c) ==
  /\ pc \in {"launching", "working", "settling"}
  /\ \E k \in claims[c] : Failed(c, pc, k) /\ faulted' = faulted \cup {k.id}
  /\ UNCHANGED <<kv, shutdown, saved, accepted, envelope, stopFile, supported, worker, strays, stops>>

\* An exception of the controller's own while it launches, watches or reads
\* a run (a heartbeat that cannot be written, a locked database) fails the
\* row like one of the worker's; nobody ends the worker or asks it to.
Fault(c) ==
  /\ pc \in {"launching", "working", "settling"}
  /\ \E k \in claims[c] :
       /\ Failed(c, pc, k)
       /\ strays' = [strays EXCEPT ![k.id] = Unwatched(k.id)]
       /\ faulted' = faulted \cup {k.id}
  /\ NoWorkers
  /\ UNCHANGED <<kv, shutdown, saved, accepted, envelope, stopFile, supported, stops>>

\* After the reconciliation that follows a settlement.
Conclude ==
  /\ \/ /\ tally = "failed"
        /\ Publish("concluding", "EXPERIMENT_BLOCKED", Because("failed"), "loop")
     \/ /\ tally # "failed" /\ phase \in Blocked
        /\ At("concluding", "loop") /\ UNCHANGED pending
     \/ /\ tally = "retry" /\ phase \notin Blocked
        /\ Publish("concluding", "RETRY_SCHEDULED", blocker, "loop")
     \/ /\ tally = "done" /\ phase \notin Blocked
        /\ Publish("concluding", "PLANNING_NEXT_ACTION", Because("none"), "loop")
  /\ tally' = "boot"
  /\ UNCHANGED <<vars, kv, shutdown, saved, accepted, world>>

-----------------------------------------------------------------------------
(* A batch: _execute_queued_experiment_batch and                           *)
(* _run_parallel_experiment_workers.                                       *)

VetReject(c) ==
  /\ Publish("vetting", "INTEGRITY_BLOCKED", Because("guard"), "vetting")
  /\ \E k \in claims[c] \ accepted : Block(c, k, "guard")
  /\ UNCHANGED <<kv, shutdown, saved, accepted, tally, world>>

VetAccept(c) ==
  /\ At("vetting", "vetting")
  /\ \E k \in claims[c] \ accepted : Kind[k.id] \in supported /\ accepted' = accepted \cup {k}
  /\ UNCHANGED <<vars, kv, shutdown, saved, pending, tally, world>>

\* The phase is written again, whatever the vetting left in it.
Vetted(c) ==
  /\ claims[c] = accepted
  /\ IF accepted = {} THEN At("vetting", "loop") /\ UNCHANGED phase
     ELSE At("vetting", "spawning") /\ phase' = "RUNNING_PARALLEL_EXPERIMENTS"
  /\ accepted' = {}
  /\ UNCHANGED <<vars, blocker, shutdown, saved, pending, tally, world>>

SpawnBatch(c) ==
  /\ At("spawning", "running")
  /\ Spawned({k.id : k \in claims[c]})
  /\ UNCHANGED <<vars, kv, memory, stopFile, supported, left, stops>>

\* MUTANT of BatchOver: the batch waits for an envelope of every worker.
BatchOverWithResults ==
  /\ At("running", "collecting")
  /\ Alive = {} /\ \A e \in Experiments : worker[e] # "none" => envelope[e] # "none"
  /\ tally' = "done"
  /\ UNCHANGED <<vars, kv, shutdown, saved, pending, accepted, world>>

\* The loop runs while a worker is alive; its body looks for a stop.
BatchOver ==
  /\ At("running", "collecting")
  /\ Alive = {}
  /\ tally' = "done"
  /\ UNCHANGED <<vars, kv, shutdown, saved, pending, accepted, world>>

InterruptBatch ==
  /\ StopAsked /\ \E e \in Experiments : worker[e] # "none"
  /\ At("running", "unwinding")
  /\ NoWorkers
  /\ UNCHANGED <<vars, kv, memory, envelope, stopFile, supported, left, stops>>

\* Nobody catches this one, or any other exception of the loop: the phase
\* is written, if at all, and the process fails.
TickInBatch ==
  /\ \/ Publish("running", "INTEGRITY_BLOCKED", Because("shadow"), "failing")
     \/ At("running", "failing") /\ UNCHANGED pending
  /\ Alive # {}
  /\ UNCHANGED <<vars, kv, shutdown, saved, accepted, tally, world>>

Unwind(c) ==
  /\ \/ /\ At("unwinding", "unwinding") /\ UNCHANGED pending
        /\ \E k \in claims[c] : Release(c, k)
     \/ /\ claims[c] = {} /\ UNCHANGED vars
        /\ Publish("unwinding", "STOPPING", Because("none"), "loop")
  /\ UNCHANGED <<kv, shutdown, saved, accepted, tally, world>>

Worse(a, b) == IF "failed" \in {a, b} THEN "failed" ELSE IF "retry" \in {a, b} THEN "retry" ELSE a

\* MUTANT of Collect: a worker that left no envelope counts as a success.
CollectExited(c) ==
  /\ At("collecting", "collecting")
  /\ \E k \in claims[c] :
       /\ IF envelope[k.id] # "failed" THEN Complete(c, k) /\ UNCHANGED tally
          ELSE Fail(c, k, TRUE) /\ tally' = Worse(tally, "failed")
       /\ worker' = [worker EXCEPT ![k.id] = "none"]
  /\ UNCHANGED <<kv, shutdown, saved, pending, accepted, envelope, stopFile, supported, left, stops>>

Collect(c) ==
  /\ At("collecting", "collecting")
  /\ \E k \in claims[c] :
       /\ IF envelope[k.id] = "ok" THEN Complete(c, k) /\ UNCHANGED tally
          ELSE /\ Fail(c, k, TRUE)
               /\ tally' = Worse(tally, IF status'[k.id] = "QUEUED" THEN "retry" ELSE "failed")
       /\ worker' = [worker EXCEPT ![k.id] = "none"]
  /\ UNCHANGED <<kv, shutdown, saved, pending, accepted, envelope, stopFile, supported, left, stops>>

Collected(c) ==
  /\ claims[c] = {}
  /\ At("collecting", "reconciling")
  /\ UNCHANGED <<vars, kv, memory, world>>

-----------------------------------------------------------------------------
(* Worker processes, crashes and the operator.                             *)

\* experiment_worker_entry: the envelope appears at once (os.replace), over
\* one that another process of the experiment left; then the process ends.
Work(e) ==
  /\ worker[e] = "alive" /\ worker' = [worker EXCEPT ![e] = "published"]
  /\ \E outcome \in {"ok", "failed"} : envelope' = [envelope EXCEPT ![e] = outcome]
  /\ UNCHANGED <<vars, kv, memory, stopFile, supported, left, stops, pc>>

WorkerExit(e) ==
  /\ e \in Alive
  /\ worker' = [worker EXCEPT ![e] = "dead"]
  /\ UNCHANGED <<vars, kv, memory, envelope, stopFile, supported, left, stops, pc>>

\* A stray ends like any worker, with an envelope or without.
Stray(e) ==
  /\ strays[e] > 0 /\ strays' = [strays EXCEPT ![e] = @ - 1]
  /\ \/ UNCHANGED envelope
     \/ \E outcome \in {"ok", "failed"} : envelope' = [envelope EXCEPT ![e] = outcome]
  /\ UNCHANGED <<vars, kv, memory, stopFile, supported, worker, faulted, stops, pc>>

NoStrays == strays' = [e \in Experiments |-> 0]

\* The process dies, killed or by an exception; before it is started again
\* the workers it watched have ended or been killed with its control group,
\* and so have its strays, unless it was started beside the old group.
Perish(c) ==
  /\ pc # "down" /\ pc' = "down"
  /\ Crash(c)
  /\ NoWorkers
  /\ NoStrays \/ UNCHANGED strays
  /\ shutdown' = FALSE /\ saved' = Unset /\ pending' = Fresh
  /\ accepted' = {} /\ tally' = "boot"
  /\ UNCHANGED <<kv, envelope, stopFile, supported, faulted, stops>>

RequestStop ==
  /\ stops < MaxStops /\ stops' = stops + 1
  /\ stopFile' = TRUE
  /\ UNCHANGED <<vars, kv, memory, envelope, supported, worker, left, pc>>

\* SIGTERM: of one process, or, as the service unit's default kill mode has
\* it, of the whole control group, workers and strays included.
Terminate ==
  /\ stops < MaxStops /\ stops' = stops + 1
  /\ pc # "down" /\ shutdown' = TRUE
  /\ \/ UNCHANGED <<worker, strays>>
     \/ /\ worker' = [e \in Experiments |-> IF e \in Alive THEN "killed" ELSE worker[e]]
        /\ NoStrays
  /\ UNCHANGED <<vars, kv, saved, pending, accepted, tally, envelope, stopFile, supported,
                 faulted, pc>>

\* Between two runs the code gains a handler.
Deploy ==
  /\ pc = "down"
  /\ \E kind \in Kinds \ supported : supported' = supported \cup {kind}
  /\ UNCHANGED <<vars, kv, memory, envelope, stopFile, worker, left, stops, pc>>

-----------------------------------------------------------------------------
Initialize(c) ==
  \/ ReadPrevious \/ Announce \/ Recover(c) \/ RestoreBlock \/ Resume

RunStep(c) ==
  \/ CheckStop \/ Leave(c) \/ Tick \/ UpdateForward(c) \/ SkipUpdate
  \/ StayBlocked \/ Refuse \/ Dispatch(c) \/ Plan(c)
  \/ FollowUp(c) \/ RouteToBlock \/ Lift \/ Reconciled \/ Conclude
  \/ PublishPhase \/ PublishBlocker

RunOne(c) ==
  \/ Reject(c) \/ Admit \/ Launch(c) \/ WorkerGone \/ Interrupt \/ Unclaim(c)
  \/ Halt(c) \/ SettleOne(c)

RunBatch(c) ==
  \/ VetReject(c) \/ VetAccept(c) \/ Vetted(c) \/ SpawnBatch(c) \/ BatchOver \/ InterruptBatch
  \/ Unwind(c) \/ Collect(c) \/ Collected(c)

\* The process whose steps these are is the one that took the lock.
Controller(c) == owner = c /\ (Initialize(c) \/ RunStep(c) \/ RunOne(c) \/ RunBatch(c))

MissionNext ==
  \/ \E c \in Controllers : Boot(c) \/ Controller(c) \/ Perish(c)
  \/ TickAtWork \/ TickInBatch
  \/ \E c \in Controllers : owner = c /\ Fault(c)
  \/ \E e \in Experiments : Work(e) \/ WorkerExit(e) \/ Stray(e)
  \/ RequestStop \/ Terminate \/ Deploy

MissionSpec == MissionInit /\ [][MissionNext]_mvars

\* A process that is up keeps running; nothing is asked of its workers, and
\* no tick of a heartbeat, nor the controller itself, has to fail.
MissionFairSpec == MissionSpec /\ WF_mvars(\E c \in Controllers : Controller(c))

\* The same, with workers that end and a failed process that leaves when
\* they have (at its exit the interpreter joins them).
BatchFairSpec ==
  /\ MissionFairSpec
  /\ WF_mvars(\E e \in Experiments : WorkerExit(e))
  /\ WF_mvars(pc = "failing" /\ Alive = {} /\ \E c \in Controllers : Perish(c))

-----------------------------------------------------------------------------
(* Properties.                                                             *)

\* Types.
MissionTypeOK ==
  /\ TypeOK
  /\ phase \in Phases /\ blocker \in Blockers
  /\ envelope \in [Experiments -> {"none", "ok", "failed"}]
  /\ supported \subseteq Kinds
  /\ {stopFile, shutdown} \subseteq BOOLEAN
  /\ {pending.phase, saved.phase} \subseteq Phases
  /\ {pending.blocker, saved.blocker} \subseteq Blockers
  /\ accepted \subseteq Claim
  /\ tally \in {"boot", "done", "retry", "failed"}
  /\ worker \in [Experiments -> {"none", "alive", "published", "dead", "killed"}]
  /\ strays \in [Experiments -> Nat] /\ faulted \subseteq Experiments

\* Whoever works on an experiment is accounted for.  A watched worker that
\* lives works for a claim that still holds, whatever interruption, failing
\* tick, rejected sibling or crash comes between; and it and the strays of
\* its experiment are never more than the attempts charged to the row, so
\* that no retry of a given-up run escapes the retry budget.
WorkersAreClaimed ==
  /\ \A e \in Alive : \E c \in Controllers : \E k \in claims[c] : k.id = e /\ Holds(k)
  /\ \A e \in Experiments : strays[e] + (IF e \in Alive THEN 1 ELSE 0) <= attempt[e]

\* The verdict on a settled row agrees with what its worker published: a
\* completed row has a result, and a row failed by its worker has none, so
\* no sibling's failure and no interruption discards a success.  Except
\* where the controller gave a run of the row up: its worker may publish
\* a result, or another, after the verdict.
VerdictsMatchResults ==
  \A e \in Experiments \ faulted :
    /\ status[e] = "COMPLETED" => envelope[e] = "ok"
    /\ status[e] = "FAILED" /\ error[e] = "worker" => envelope[e] # "ok"

\* A result that is published stays, and the work is not taken up again.
KeepsResult(e) ==
  envelope[e] = "ok" /\ worker[e] # "alive" /\ strays[e] = 0 =>
    envelope'[e] = "ok" /\ worker'[e] # "alive"

\* Work whose result is published is never done again, whatever stops,
\* crashes, faults and retries lie between its publication and its commit,
\* unless it was being done twice already, by a stray.
NoWorkRepeated == [][\A e \in Experiments : KeepsResult(e)]_mvars

\* A clean stop leaves no row running, no claim and none of the workers the
\* process knows of (strays it knows nothing of: see StopEndsWorkers).
StopLeavesNothing ==
  phase = "STOPPED_CLEANLY" =>
    Running = {} /\ Alive = {} /\ \A c \in Controllers : claims[c] = {}

\* The four together: no order of the siblings of a batch, of their workers'
\* ends and of a stop, a failing tick or a crash loses a worker, a verdict or
\* a claim, or does finished work again.
MissionIsSafe ==
  [][/\ (WorkersAreClaimed /\ VerdictsMatchResults /\ StopLeavesNothing)'
     /\ \A e \in Experiments : KeepsResult(e)]_mvars

\* The controller uses the queue as ExperimentQueue says, so what is proved
\* of the queue holds of the mission.
ImplementsQueue == Spec

\* A block is absorbing while the process runs, whatever commits a crash left
\* undone before: its clean stop and the start-up of the next process
\* overwrite a blocked phase, but no other write of the phase ends an
\* integrity block that names the governance guard, the shadow pipeline, a
\* Q4 review or a changed task; an engineering or experiment block that no
\* result made is ended by a forward update in the queue, before the turn of
\* the loop looks at the phase, and by nothing else.  (A block of the forward
\* data, which it ends too, nobody writes.)
BlockedIsAbsorbing ==
  [][(phase \in Blocked) /\ phase' \notin Blocked \cup {"RECOVERING", "STOPPED_CLEANLY"} =>
       \/ blocker.why \in {"failed", "routed", "feed", "data"}
       \/ phase # "INTEGRITY_BLOCKED" /\ Forwarded /\ pending.next = "deciding"]_mvars

\* What the comment at the call of _reconcile_due_forward_shadow_update says
\* of it: the block that a forward update lifts is a feed-only wait.  The
\* code does not keep this (README).
FeedLiftsFeedWaits ==
  [][(phase \in Blocked) /\ pc = "publishing" /\ pending.next = "deciding" /\ phase' \notin Blocked =>
       blocker.why = "feed"]_mvars

\* A worker killed by the stop signal is not counted as a failed attempt,
\* unless the controller faults itself while it watches it.
StopIsFree ==
  [][\A e \in Experiments :
       worker[e] = "killed" /\ pc # "working" /\
       status[e] = "RUNNING" /\ status'[e] \in {"QUEUED", "FAILED"} =>
         status'[e] = "QUEUED" /\ attempt'[e] < attempt[e]]_mvars

\* What the scheduler's engineering task asks of a stop: every worker tree
\* has been terminated when it is over.  The code does not keep this (README).
StopEndsWorkers ==
  phase = "STOPPED_CLEANLY" => Alive = {} /\ \A e \in Experiments : strays[e] = 0

\* The strengthening under which the safety properties of the mission are
\* inductive, next to the queue's own: where the process is determines its
\* stage at the queue, how many claims it holds and whether it has workers.
\* A pair being published stands for the place it leads to.
StartUp == {"booting", "announcing", "scanning", "recovering"}
Alone ==
  {"loop", "ticking", "updating", "deciding", "reconciling", "pivoting", "concluding", "restoring",
   "stopping"}
Solo == {"checking", "launching", "working", "releasing", "halting", "settling"}
Many == {"vetting", "spawning", "running", "unwinding", "collecting", "failing"}
Writing == {"publishing", "labelling"}

Here == IF pc \in Writing THEN pending.next ELSE pc

StageHere ==
  IF pc \in {"booting", "announcing", "scanning"} THEN "starting"
  ELSE IF pc = "recovering" THEN "scanned" ELSE "serving"

PlaceKnown ==
  /\ pc \in {"down"} \cup StartUp \cup Alone \cup Solo \cup Many \cup Writing
  /\ pc \in Writing => pending.next \in Alone \cup {"halting", "vetting", "failing"}

\* The process that is up is the holder of the lock.
LockIsPlace ==
  /\ pc = "down" <=> owner = NoController
  /\ \A c \in Controllers : owner = c => stage[c] = StageHere

\* Between two dispatches nothing is claimed, on the single path one row.
ClaimsFitPlace ==
  \A c \in Controllers : owner = c =>
    /\ Here \in Alone => claims[c] = {}
    /\ Here \in Solo => \E k \in claims[c] : claims[c] = {k}

\* A worker is the worker of a claim, and one that lives is watched.
WorkersFitPlace ==
  \A e \in Experiments : worker[e] # "none" =>
    /\ Here \in {"working", "releasing", "halting", "settling", "running", "collecting", "failing"}
    /\ e \in Alive => Here \in {"working", "halting", "running", "failing"}
    /\ \E c \in Controllers : owner = c /\ \E k \in claims[c] : k.id = e

\* The phase of a clean stop is published with nothing claimed, and before
\* anything can be claimed again it is overwritten.
StopIsPlace ==
  /\ phase = "STOPPED_CLEANLY" =>
       pc \in {"stopping", "down", "booting", "announcing"} /\ Running = {}
  /\ pending.phase # "STOPPED_CLEANLY"

\* A stray is the worker of a run that was given up, and each has cost its
\* experiment one of its attempts.
StraysAreSpent ==
  \A e \in Experiments :
    /\ strays[e] <= SpentOf[e]
    /\ strays[e] > 0 => e \in faulted

PlaceInv ==
  /\ PlaceKnown /\ LockIsPlace /\ ClaimsFitPlace /\ WorkersFitPlace
  /\ StopIsPlace /\ StraysAreSpent /\ VerdictsMatchResults

\* With a single worker no batch is ever claimed; then a row is worked on
\* under a phase that is not blocked, of the blocks only those of results
\* and, by a forward update, the waits are overwritten, and a killed worker
\* is known to have been killed until it is disposed of.
SingleInv ==
  /\ Here \notin Many
  /\ pc \in {"checking", "launching", "working", "releasing", "settling"} => phase \notin Blocked
  /\ pc = "publishing" /\ phase \in Blocked /\ pending.phase \notin Blocked =>
       \/ blocker.why \in {"failed", "routed", "feed", "data"}
       \/ phase # "INTEGRITY_BLOCKED" /\ Forwarded /\ pending.next = "deciding"
  /\ \A e \in Experiments : worker[e] = "killed" =>
       shutdown /\ Here \in {"working", "releasing", "halting"}


\* No claim is held for ever: each batch comes to an end, by settlement,
\* by release or with its process.
ClaimsSettle == \A c \in Controllers : claims[c] # {} ~> claims[c] = {}
=============================================================================
