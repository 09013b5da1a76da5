----------------------- MODULE MissionControllerProofs -----------------------
(***************************************************************************)
(* Safety of ExperimentQueue and of MissionController for every set of     *)
(* experiments, any number of controller processes and workers, every      *)
(* retry budget and every bound on stop requests.  First the queue by      *)
(* itself, and that it implements JobLedger; then the mission, which uses  *)
(* the queue as ExperimentQueue says, so that what is proved of the queue  *)
(* holds of the mission.                                                   *)
(***************************************************************************)
EXTENDS MissionController, FiniteSetTheorems, TLAPS

\* A set of experiments is finite and has a natural number of elements.
LEMMA BatchFinite ==
  ASSUME NEW batch \in SUBSET Experiments
  PROVE  IsFiniteSet(batch) /\ Cardinality(batch) \in Nat
<1>1. IsFiniteSet(batch)
  BY QueueAssumption, FS_Subset
<1> QED BY <1>1, FS_CardinalityType

\* Claiming keeps every column in its type.
LEMMA ClaimedType ==
  ASSUME TypeOK, NEW c \in Controllers, NEW batch \in SUBSET Experiments,
         Claimed(c, batch)
  PROVE  TypeOK'
<1>1. Cardinality(batch) \in Nat
  BY BatchFinite
<1>2. PICK fresh \in [batch -> minted + 1 .. minted + Cardinality(batch)] :
        /\ status' = [e \in Experiments |-> IF e \in batch THEN "RUNNING" ELSE status[e]]
        /\ attempt' = [e \in Experiments |-> IF e \in batch THEN attempt[e] + 1 ELSE attempt[e]]
        /\ error' = [e \in Experiments |-> IF e \in batch THEN "none" ELSE error[e]]
        /\ token' = [e \in Experiments |-> IF e \in batch THEN fresh[e] ELSE token[e]]
        /\ claims' = [claims EXCEPT ![c] = {[id |-> e, token |-> fresh[e]] : e \in batch}]
        /\ minted' = minted + Cardinality(batch)
        /\ UNCHANGED <<owner, stage, scan, refunds>>
  BY DEF Claimed
<1>3. \A e \in batch : fresh[e] \in Nat \ {0}
  BY <1>1, <1>2 DEF TypeOK
<1>4. {[id |-> e, token |-> fresh[e]] : e \in batch} \in SUBSET Claim
  BY <1>3 DEF Claim
<1>5. status' \in [Experiments -> Statuses] /\ error' \in [Experiments -> Errors]
  BY <1>2 DEF TypeOK, Statuses, Errors
<1>6. attempt' \in [Experiments -> Nat] /\ token' \in [Experiments -> Nat]
  BY <1>2, <1>3 DEF TypeOK
<1>7. claims' \in [Controllers -> SUBSET Claim]
  BY <1>2, <1>4 DEF TypeOK
<1>8. minted' \in Nat
  BY <1>1, <1>2 DEF TypeOK
<1> QED BY <1>2, <1>5, <1>6, <1>7, <1>8 DEF TypeOK

\* Settling a claim keeps every column in its type.
LEMMA SettleType ==
  ASSUME TypeOK, NEW c \in Controllers, NEW k \in claims[c], NEW s \in Statuses,
         NEW why \in Errors, Settle(c, k, s, why)
  PROVE  /\ k \in Claim
         /\ status' \in [Experiments -> Statuses]
         /\ error' \in [Experiments -> Errors]
         /\ token' \in [Experiments -> Nat]
         /\ claims' \in [Controllers -> SUBSET Claim]
         /\ UNCHANGED <<owner, stage, scan, minted>>
<1>1. k \in Claim
  BY DEF TypeOK
<1>2. claims[c] \ {k} \in SUBSET Claim
  BY DEF TypeOK
<1> QED BY <1>1, <1>2 DEF Settle, TypeOK, Claim

\* Every step keeps every variable in its type.
LEMMA TypeStep == TypeOK /\ [Next]_vars => TypeOK'
<1> SUFFICES ASSUME TypeOK, [Next]_vars PROVE TypeOK'
  OBVIOUS
<1>1. CASE UNCHANGED vars
  BY <1>1 DEF vars, rows, procs, TypeOK
<1>2. ASSUME NEW c \in Controllers, Start(c) PROVE TypeOK'
  BY <1>2 DEF Start, TypeOK, Stages, rows
<1>3. ASSUME NEW c \in Controllers, Die(c) PROVE TypeOK'
  BY <1>3 DEF Die, TypeOK, Stages, rows, Verdict, NothingRead
<1>4. ASSUME NEW c \in Controllers, RecoverScan(c) PROVE TypeOK'
  BY <1>4 DEF RecoverScan, TypeOK, Stages, rows, Verdict, Running, InStatus
<1>5. ASSUME NEW c \in Controllers, RecoverCommit(c) PROVE TypeOK'
  BY <1>5 DEF RecoverCommit, TypeOK, Stages, Statuses, Terminal, Errors, Verdict, NothingRead
<1>6. ASSUME NEW c \in Controllers, NEW kind \in Kinds, ReopenResolved(c, kind) PROVE TypeOK'
  <2> DEFINE back == {e \in Experiments : /\ status[e] = "BLOCKED"
                                          /\ error[e] = "missing_handler"
                                          /\ Kind[e] = kind}
  <2>1. Cardinality(back) \in Nat
    BY BatchFinite
  <2>2. refunds' \in Nat
    BY <1>6, <2>1 DEF ReopenResolved, TypeOK
  <2>3. status' \in [Experiments -> Statuses] /\ error' \in [Experiments -> Errors]
    BY <1>6 DEF ReopenResolved, TypeOK, Statuses, Errors
  <2>4. attempt' \in [Experiments -> Nat]
    BY <1>6 DEF ReopenResolved, TypeOK
  <2> QED BY <1>6, <2>2, <2>3, <2>4 DEF ReopenResolved, TypeOK, procs
<1>7. ASSUME NEW c \in Controllers, NEW kind \in Kinds, Retire(c, kind) PROVE TypeOK'
  BY <1>7 DEF Retire, TypeOK, Statuses, Terminal, Errors, procs
<1>8. ASSUME NEW c \in Controllers, NEW e \in Experiments, Enqueue(c, e) PROVE TypeOK'
  BY <1>8 DEF Enqueue, TypeOK, Statuses, procs
<1>9. ASSUME NEW c \in Controllers, ClaimNext(c) PROVE TypeOK'
  BY <1>9, ClaimedType DEF ClaimNext, Heads, Queued, InStatus
<1>10. ASSUME NEW c \in Controllers, ClaimBatch(c) PROVE TypeOK'
  BY <1>10, ClaimedType DEF ClaimBatch, Queued, InStatus
<1>11. ASSUME NEW c \in Controllers, NEW k \in claims[c], Complete(c, k) PROVE TypeOK'
  BY <1>11, SettleType DEF Complete, TypeOK, Statuses, Terminal, Errors
<1>12. ASSUME NEW c \in Controllers, NEW k \in claims[c], NEW r \in BOOLEAN, Fail(c, k, r)
       PROVE TypeOK'
  <2>1. CASE r /\ attempt[k.id] < MaxAttempts[k.id]
    BY <1>12, <2>1, SettleType DEF Fail, TypeOK, Statuses, Errors
  <2>2. CASE ~(r /\ attempt[k.id] < MaxAttempts[k.id])
    BY <1>12, <2>2, SettleType DEF Fail, TypeOK, Statuses, Terminal, Errors
  <2> QED BY <2>1, <2>2
<1>13. ASSUME NEW c \in Controllers, NEW k \in claims[c], NEW why \in {"guard", "missing_handler"},
              Block(c, k, why)
       PROVE TypeOK'
  BY <1>13, SettleType DEF Block, TypeOK, Statuses, Terminal, Errors
<1>14. ASSUME NEW c \in Controllers, NEW k \in claims[c], Release(c, k) PROVE TypeOK'
  <2>1. Settle(c, k, "QUEUED", "shutdown")
    BY <1>14 DEF Release
  <2>2. /\ k \in Claim
        /\ status' \in [Experiments -> Statuses]
        /\ error' \in [Experiments -> Errors]
        /\ token' \in [Experiments -> Nat]
        /\ claims' \in [Controllers -> SUBSET Claim]
        /\ UNCHANGED <<owner, stage, scan, minted>>
    BY <2>1, SettleType DEF Statuses, Errors
  <2>3. attempt' \in [Experiments -> Nat] /\ refunds' \in Nat
    BY <1>14, <2>2 DEF Release, TypeOK, Claim
  <2> QED BY <2>2, <2>3 DEF TypeOK
<1> QED
  BY <1>1, <1>2, <1>3, <1>4, <1>5, <1>6, <1>7, <1>8, <1>9, <1>10, <1>11, <1>12, <1>13, <1>14
     DEF Next, Resolve, Crash, StopCleanly

\* The initial state is well typed.
LEMMA TypeInit == Init => TypeOK
BY QueueAssumption DEF Init, TypeOK, Statuses, Errors, Stages, Verdict, NothingRead

\* Every variable stays in its type.
THEOREM TypeCorrect == Spec => []TypeOK
BY TypeInit, TypeStep, PTL DEF Spec

-----------------------------------------------------------------------------
(* The inductive invariant.  Its type part is TypeStep; each lemma below   *)
(* takes one action and shows the other conjuncts it can disturb.          *)

\* The inductive invariant without the typing.
SafetyPart == /\ LockHeld /\ ClaimsAreServed /\ ScanIsCurrent /\ RunsAreCounted
              /\ Custody /\ AttemptBudget

\* RunsAreCounted and AttemptBudget speak of one row at a time.
CountedRight(e) ==
  /\ Unwasted(e) => attempt[e] > 0
  /\ status[e] = "ABSENT" => attempt[e] = 0
  /\ status[e] = "QUEUED" => attempt[e] < MaxAttempts[e]
  /\ attempt[e] <= MaxAttempts[e]
  /\ status[e] = "FAILED" /\ error[e] = "restart" => attempt[e] = MaxAttempts[e]

\* The two counting invariants are that every row is counted right.
LEMMA CountsSplit == (\A e \in Experiments : CountedRight(e)) <=> RunsAreCounted /\ AttemptBudget
BY DEF CountedRight, RunsAreCounted, AttemptBudget, Unwasted

\* The same of the next state.
LEMMA CountsSplitNext ==
  ASSUME \A e \in Experiments : CountedRight(e)'
  PROVE  RunsAreCounted' /\ AttemptBudget'
BY DEF CountedRight, RunsAreCounted, AttemptBudget, Unwasted

\* Only the holder of the lock is up.
LEMMA OthersDown ==
  ASSUME LockHeld, NEW c \in Controllers, stage[c] # "down"
  PROVE  \A d \in Controllers \ {c} : stage[d] = "down"
BY DEF LockHeld

\* Starting a controller keeps the invariant.
LEMMA StartSafe ==
  ASSUME IInv, NEW c \in Controllers, Start(c)
  PROVE  SafetyPart'
<1>1. \A d \in Controllers : stage[d] = "down"
  BY QueueAssumption DEF IInv, LockHeld, Start
<1>2. UNCHANGED <<status, attempt, token, error, scan, claims>> /\ owner' = c
  BY DEF Start, rows
<1>3. \A d \in Controllers : stage'[d] = IF d = c THEN "starting" ELSE "down"
  BY <1>1 DEF Start, IInv, TypeOK
<1>4. LockHeld' /\ ClaimsAreServed' /\ ScanIsCurrent' /\ Custody'
  BY <1>1, <1>2, <1>3 DEF IInv, LockHeld, ClaimsAreServed, ScanIsCurrent, Custody
<1>5. RunsAreCounted' /\ AttemptBudget'
  BY <1>2 DEF IInv, RunsAreCounted, Unwasted, AttemptBudget
<1> QED BY <1>4, <1>5 DEF SafetyPart

\* A controller's death, by crash or clean stop, keeps the invariant.
LEMMA DieSafe ==
  ASSUME IInv, NEW c \in Controllers, stage[c] # "down", Die(c)
  PROVE  SafetyPart'
<1>1. \A d \in Controllers : stage'[d] = "down" /\ (d # c => claims'[d] = claims[d])
  BY OthersDown DEF IInv, TypeOK, Die
<1>2. \A d \in Controllers : claims'[d] = {}
  BY <1>1, OthersDown DEF IInv, TypeOK, Die, ClaimsAreServed
<1>3. UNCHANGED <<status, attempt, token, error>>
  BY DEF Die, rows
<1>4. LockHeld' /\ ClaimsAreServed' /\ ScanIsCurrent' /\ Custody'
  BY <1>1, <1>2 DEF LockHeld, ClaimsAreServed, ScanIsCurrent, Custody
<1>5. RunsAreCounted' /\ AttemptBudget'
  BY <1>3 DEF IInv, RunsAreCounted, Unwasted, AttemptBudget
<1> QED BY <1>4, <1>5 DEF SafetyPart

\* The read of recovery makes its verdict current.
LEMMA RecoverScanSafe ==
  ASSUME IInv, NEW c \in Controllers, RecoverScan(c)
  PROVE  SafetyPart'
<1>1. \A d \in Controllers \ {c} : stage[d] = "down"
  BY OthersDown DEF IInv, RecoverScan
<1>2. \A d \in Controllers : stage'[d] = IF d = c THEN "scanned" ELSE "down"
  BY <1>1 DEF IInv, TypeOK, RecoverScan
<1>3. UNCHANGED <<status, attempt, token, error, owner, claims>>
  BY DEF RecoverScan, rows
<1>4. LockHeld' /\ ClaimsAreServed' /\ Custody'
  BY <1>2, <1>3 DEF IInv, LockHeld, ClaimsAreServed, Custody, RecoverScan
<1>5. ScanIsCurrent'
  BY <1>2, <1>3 DEF IInv, TypeOK, ScanIsCurrent, RecoverScan, Running, InStatus
<1>6. RunsAreCounted' /\ AttemptBudget'
  BY <1>3 DEF IInv, RunsAreCounted, Unwasted, AttemptBudget
<1> QED BY <1>4, <1>5, <1>6 DEF SafetyPart

\* The verdict of recovery covers the RUNNING rows, so none is left.
LEMMA RecoverCommitSettlesAll ==
  ASSUME IInv, NEW c \in Controllers, RecoverCommit(c)
  PROVE  /\ \A e \in Experiments :
              /\ status[e] = "RUNNING" /\ attempt[e] < MaxAttempts[e] =>
                   status'[e] = "QUEUED" /\ error'[e] = "restart"
              /\ status[e] = "RUNNING" /\ attempt[e] >= MaxAttempts[e] =>
                   status'[e] = "FAILED" /\ error'[e] = "restart"
              /\ status[e] # "RUNNING" => status'[e] = status[e] /\ error'[e] = error[e]
              /\ attempt'[e] = attempt[e]
         /\ Running' = {}
<1>1. /\ scan[c].requeue = {e \in Running : attempt[e] < MaxAttempts[e]}
      /\ scan[c].fail = {e \in Running : attempt[e] >= MaxAttempts[e]}
  BY DEF IInv, ScanIsCurrent, RecoverCommit
<1>2. ASSUME NEW e \in Experiments
      PROVE  /\ status[e] = "RUNNING" /\ attempt[e] < MaxAttempts[e] =>
                  status'[e] = "QUEUED" /\ error'[e] = "restart"
             /\ status[e] = "RUNNING" /\ attempt[e] >= MaxAttempts[e] =>
                  status'[e] = "FAILED" /\ error'[e] = "restart"
             /\ status[e] # "RUNNING" => status'[e] = status[e] /\ error'[e] = error[e]
             /\ attempt'[e] = attempt[e]
  BY <1>1, QueueAssumption DEF RecoverCommit, Running, InStatus, IInv, TypeOK
<1>3. ASSUME NEW e \in Experiments PROVE status'[e] # "RUNNING"
  <2>1. attempt[e] \in Nat /\ MaxAttempts[e] \in Nat
    BY QueueAssumption DEF IInv, TypeOK
  <2> QED BY <1>2, <2>1
<1> QED BY <1>2, <1>3 DEF Running, InStatus

\* The write of recovery keeps the invariant, whatever it did not compare.
LEMMA RecoverCommitSafe ==
  ASSUME IInv, NEW c \in Controllers, RecoverCommit(c)
  PROVE  SafetyPart'
<1>1. \A d \in Controllers \ {c} : stage[d] = "down"
  BY OthersDown DEF IInv, RecoverCommit
<1>2. \A d \in Controllers : stage'[d] = IF d = c THEN "serving" ELSE "down"
  BY <1>1 DEF IInv, TypeOK, RecoverCommit
<1>3. \A d \in Controllers : claims'[d] = {}
  BY <1>1 DEF IInv, ClaimsAreServed, RecoverCommit
<1>4. LockHeld' /\ ClaimsAreServed' /\ ScanIsCurrent'
  BY <1>1, <1>2, <1>3 DEF IInv, LockHeld, ClaimsAreServed, ScanIsCurrent, RecoverCommit
<1>5. Custody'
  BY <1>3, RecoverCommitSettlesAll DEF Custody
<1>6. RunsAreCounted'
  BY RecoverCommitSettlesAll, QueueAssumption DEF IInv, TypeOK, RunsAreCounted, Unwasted, AttemptBudget
<1>7. AttemptBudget'
  BY RecoverCommitSettlesAll, QueueAssumption DEF IInv, TypeOK, AttemptBudget
<1> QED BY <1>4, <1>5, <1>6, <1>7 DEF SafetyPart

\* What only rewrites rows that are not RUNNING, and keeps the processes,
\* disturbs nothing but the counting of attempts.
LEMMA RowsAtRestSafe ==
  ASSUME IInv, UNCHANGED <<token, procs>>, Running' = Running,
         \A e \in Running : attempt'[e] = attempt[e],
         RunsAreCounted', AttemptBudget'
  PROVE  SafetyPart'
<1>1. LockHeld' /\ ClaimsAreServed'
  BY DEF IInv, LockHeld, ClaimsAreServed, procs
<1>2. ScanIsCurrent'
  BY DEF IInv, ScanIsCurrent, procs
<1>3. Custody'
  BY DEF IInv, Custody, procs
<1> QED BY <1>1, <1>2, <1>3 DEF SafetyPart

\* Enqueueing keeps the invariant.
LEMMA EnqueueSafe ==
  ASSUME IInv, NEW c \in Controllers, NEW e \in Experiments, Enqueue(c, e)
  PROVE  SafetyPart'
<1>1. UNCHANGED <<token, procs>> /\ Running' = Running /\ attempt' = attempt
  BY DEF Enqueue, IInv, TypeOK, Running, InStatus
<1>2. ASSUME NEW f \in Experiments PROVE CountedRight(f)'
  <2>1. CASE f = e
    <3>1. status'[f] = "QUEUED" /\ attempt'[f] = 0
      BY <2>1 DEF Enqueue, IInv, TypeOK, RunsAreCounted
    <3> QED BY <3>1, QueueAssumption DEF CountedRight, Unwasted
  <2>2. CASE f # e
    <3>1. status'[f] = status[f] /\ attempt'[f] = attempt[f] /\ error'[f] = error[f]
      BY <2>2 DEF Enqueue, IInv, TypeOK
    <3> QED BY <3>1, CountsSplit DEF IInv, CountedRight, Unwasted
  <2> QED BY <2>1, <2>2
<1> QED BY <1>1, <1>2, CountsSplitNext, RowsAtRestSafe

\* Retiring unclaimed rows of a type keeps the invariant.
LEMMA RetireSafe ==
  ASSUME IInv, NEW c \in Controllers, NEW kind, Retire(c, kind)
  PROVE  SafetyPart'
<1>1. UNCHANGED <<token, procs>> /\ Running' = Running /\ attempt' = attempt
  BY DEF Retire, IInv, TypeOK, Running, Queued, InStatus
<1>2. RunsAreCounted' /\ AttemptBudget'
  BY DEF Retire, IInv, TypeOK, RunsAreCounted, Unwasted, AttemptBudget, Queued, InStatus
<1> QED BY <1>1, <1>2, RowsAtRestSafe

\* Reopening rows blocked for a missing handler keeps the invariant.
LEMMA ReopenResolvedSafe ==
  ASSUME IInv, NEW c \in Controllers, NEW kind, ReopenResolved(c, kind)
  PROVE  SafetyPart'
<1>1. UNCHANGED <<token, procs>> /\ Running' = Running
  BY DEF ReopenResolved, IInv, TypeOK, Running, InStatus
<1>2. \A e \in Running : attempt'[e] = attempt[e]
  BY DEF ReopenResolved, IInv, TypeOK, Running, InStatus
<1>3. RunsAreCounted' /\ AttemptBudget'
  <2> SUFFICES ASSUME NEW e \in Experiments PROVE CountedRight(e)'
    BY CountsSplitNext
  <2>1. attempt[e] \in Nat /\ MaxAttempts[e] \in Nat
    BY QueueAssumption DEF IInv, TypeOK
  <2>2. CASE status[e] = "BLOCKED" /\ error[e] = "missing_handler" /\ Kind[e] = kind
    <3>1. status'[e] = "QUEUED" /\ error'[e] = "resolved"
      BY <2>2 DEF ReopenResolved
    <3>2. attempt[e] > 0 /\ attempt[e] <= MaxAttempts[e]
      BY <2>2 DEF IInv, RunsAreCounted, Unwasted, AttemptBudget
    <3>3. attempt'[e] = attempt[e] - 1
      BY <2>2, <3>2 DEF ReopenResolved
    <3> QED BY <2>1, <3>1, <3>2, <3>3 DEF CountedRight, Unwasted
  <2>3. CASE ~(status[e] = "BLOCKED" /\ error[e] = "missing_handler" /\ Kind[e] = kind)
    <3>1. status'[e] = status[e] /\ error'[e] = error[e] /\ attempt'[e] = attempt[e]
      BY <2>3 DEF ReopenResolved
    <3> QED BY <3>1, CountsSplit DEF IInv, CountedRight, Unwasted
  <2> QED BY <2>2, <2>3
<1> QED BY <1>1, <1>2, <1>3, RowsAtRestSafe

\* A controller that serves and holds no claim sees no RUNNING row.
LEMMA IdleMeansQuiet ==
  ASSUME IInv, NEW c \in Controllers, Idle(c)
  PROVE  Running = {}
BY DEF IInv, Custody, Idle

\* Claiming keeps the invariant, and only what was claimed is RUNNING.
LEMMA ClaimedSafe ==
  ASSUME IInv, NEW c \in Controllers, Idle(c), NEW batch \in SUBSET Queued, Claimed(c, batch)
  PROVE  SafetyPart' /\ Running' = batch
<1>1. batch \subseteq Experiments /\ \A e \in batch : status[e] = "QUEUED"
  BY DEF Queued, InStatus
<1>2. PICK fresh \in [batch -> minted + 1 .. minted + Cardinality(batch)] :
        /\ status' = [e \in Experiments |-> IF e \in batch THEN "RUNNING" ELSE status[e]]
        /\ attempt' = [e \in Experiments |-> IF e \in batch THEN attempt[e] + 1 ELSE attempt[e]]
        /\ error' = [e \in Experiments |-> IF e \in batch THEN "none" ELSE error[e]]
        /\ token' = [e \in Experiments |-> IF e \in batch THEN fresh[e] ELSE token[e]]
        /\ claims' = [claims EXCEPT ![c] = {[id |-> e, token |-> fresh[e]] : e \in batch}]
        /\ UNCHANGED <<owner, stage, scan>>
  BY DEF Claimed
<1>3. \A d \in Controllers \ {c} : stage[d] = "down"
  BY OthersDown DEF IInv, Idle
<1>4. Running' = batch
  BY <1>1, <1>2, IdleMeansQuiet DEF Running, InStatus
<1>5. LockHeld' /\ ScanIsCurrent' /\ ClaimsAreServed'
  BY <1>2, <1>3 DEF IInv, TypeOK, LockHeld, ScanIsCurrent, ClaimsAreServed, Idle
<1>6. Custody'
  <2>1. claims'[c] = {[id |-> e, token |-> fresh[e]] : e \in batch}
    BY <1>2 DEF IInv, TypeOK
  <2>2. \A e \in batch : token'[e] = fresh[e]
    BY <1>1, <1>2
  <2>3. claims'[c] = {[id |-> e, token |-> token'[e]] : e \in Running'}
    BY <1>4, <2>1, <2>2
  <2>4. \A d \in Controllers : stage'[d] = "serving" => d = c
    BY <1>2, <1>3
  <2> QED BY <2>3, <2>4 DEF Custody
<1>7. ASSUME NEW e \in Experiments PROVE CountedRight(e)'
  <2>0. attempt[e] \in Nat /\ MaxAttempts[e] \in Nat
    BY QueueAssumption DEF IInv, TypeOK
  <2>1. CASE e \in batch
    <3>1. attempt[e] < MaxAttempts[e]
      BY <1>1, <2>1 DEF IInv, AttemptBudget
    <3>2. status'[e] = "RUNNING" /\ attempt'[e] = attempt[e] + 1
      BY <1>2, <2>1
    <3> QED BY <2>0, <3>1, <3>2 DEF CountedRight, Unwasted
  <2>2. CASE e \notin batch
    <3>1. status'[e] = status[e] /\ attempt'[e] = attempt[e] /\ error'[e] = error[e]
      BY <1>2, <2>2
    <3> QED BY <3>1, CountsSplit DEF IInv, CountedRight, Unwasted
  <2> QED BY <2>1, <2>2
<1> QED BY <1>4, <1>5, <1>6, <1>7, CountsSplitNext DEF SafetyPart

\* Settling ends the run of one row and drops the one claim on it.
LEMMA SettleSafe ==
  ASSUME IInv, NEW c \in Controllers, NEW k \in claims[c],
         NEW s \in Statuses \ {"RUNNING"}, NEW why, Settle(c, k, s, why),
         \A e \in Experiments \ {k.id} : attempt'[e] = attempt[e],
         CountedRight(k.id)'
  PROVE  SafetyPart' /\ Running' = Running \ {k.id}
<1>1. k.id \in Experiments
  BY DEF IInv, TypeOK, Claim
<1>2. stage[c] = "serving" /\ claims[c] = {[id |-> e, token |-> token[e]] : e \in Running}
  BY DEF IInv, ClaimsAreServed, Custody
<1>3. \A d \in Controllers \ {c} : stage[d] = "down"
  BY <1>2, OthersDown DEF IInv
<1>4. \A e \in Experiments \ {k.id} :
        status'[e] = status[e] /\ error'[e] = error[e] /\ token'[e] = token[e]
  BY DEF Settle, IInv, TypeOK
<1>5. Running' = Running \ {k.id}
  BY <1>1, <1>4 DEF Settle, IInv, TypeOK, Running, InStatus
<1>6. LockHeld' /\ ScanIsCurrent' /\ ClaimsAreServed'
  BY <1>2, <1>3 DEF Settle, IInv, TypeOK, LockHeld, ScanIsCurrent, ClaimsAreServed
<1>7. Custody'
  <2>1. claims'[c] = claims[c] \ {k}
    BY DEF Settle, IInv, TypeOK
  <2>2. k = [id |-> k.id, token |-> token[k.id]]
    BY <1>2
  <2>3. claims[c] \ {k} = {[id |-> e, token |-> token[e]] : e \in Running \ {k.id}}
    BY <1>2, <2>2
  <2>4. \A e \in Running \ {k.id} : token'[e] = token[e]
    BY <1>4 DEF Running, InStatus
  <2>5. claims'[c] = {[id |-> e, token |-> token'[e]] : e \in Running'}
    BY <1>5, <2>1, <2>3, <2>4
  <2>6. \A d \in Controllers : stage'[d] = "serving" => d = c
    BY <1>3 DEF Settle
  <2> QED BY <2>5, <2>6 DEF Custody
<1>8. ASSUME NEW e \in Experiments PROVE CountedRight(e)'
  <2>1. CASE e = k.id
    BY <2>1
  <2>2. CASE e # k.id
    BY <1>4, <2>2, CountsSplit DEF IInv, CountedRight, Unwasted
  <2> QED BY <2>1, <2>2
<1> QED BY <1>5, <1>6, <1>7, <1>8, CountsSplitNext DEF SafetyPart

\* What a claim says of the row it is on.
LEMMA HeldRow ==
  ASSUME IInv, NEW c \in Controllers, NEW k \in claims[c]
  PROVE  /\ k.id \in Experiments
         /\ status[k.id] = "RUNNING"
         /\ attempt[k.id] \in Nat /\ MaxAttempts[k.id] \in Nat
         /\ attempt[k.id] > 0
         /\ attempt[k.id] <= MaxAttempts[k.id]
<1>1. k.id \in Experiments
  BY DEF IInv, TypeOK, Claim
<1>2. status[k.id] = "RUNNING"
  BY DEF IInv, ClaimsAreServed, Custody, Running, InStatus
<1> QED BY <1>1, <1>2, QueueAssumption DEF IInv, TypeOK, AttemptBudget

\* The settled row after a settlement.
LEMMA SettledRow ==
  ASSUME IInv, NEW c \in Controllers, NEW k \in claims[c], NEW s, NEW why,
         Settle(c, k, s, why)
  PROVE  status'[k.id] = s /\ error'[k.id] = why
BY HeldRow DEF Settle, IInv, TypeOK

\* Completing a claim keeps the invariant.
LEMMA CompleteSafe ==
  ASSUME IInv, NEW c \in Controllers, NEW k \in claims[c], Complete(c, k)
  PROVE  SafetyPart' /\ Running' = Running \ {k.id}
<1>1. Settle(c, k, "COMPLETED", "none") /\ attempt' = attempt
  BY DEF Complete
<1>2. CountedRight(k.id)'
  BY <1>1, HeldRow, SettledRow DEF CountedRight, Unwasted
<1>3. "COMPLETED" \in Statuses \ {"RUNNING"}
  BY DEF Statuses, Terminal
<1> QED BY <1>1, <1>2, <1>3, SettleSafe

\* Failing a claim keeps the invariant, retried or not.
LEMMA FailSafe ==
  ASSUME IInv, NEW c \in Controllers, NEW k \in claims[c], NEW r \in BOOLEAN, Fail(c, k, r)
  PROVE  SafetyPart' /\ Running' = Running \ {k.id}
<1> DEFINE retried == r /\ attempt[k.id] < MaxAttempts[k.id]
           s == IF retried THEN "QUEUED" ELSE "FAILED"
<1>1. Settle(c, k, s, "worker") /\ attempt' = attempt
  BY DEF Fail
<1>2. CountedRight(k.id)'
  BY <1>1, HeldRow, SettledRow DEF CountedRight, Unwasted
<1>3. s \in Statuses \ {"RUNNING"}
  BY DEF Statuses, Terminal
<1> HIDE DEF s
<1> QED BY <1>1, <1>2, <1>3, SettleSafe

\* Blocking a claim keeps the invariant.
LEMMA BlockSafe ==
  ASSUME IInv, NEW c \in Controllers, NEW k \in claims[c], NEW why, Block(c, k, why)
  PROVE  SafetyPart' /\ Running' = Running \ {k.id}
<1>1. Settle(c, k, "BLOCKED", why) /\ attempt' = attempt
  BY DEF Block
<1>2. CountedRight(k.id)'
  BY <1>1, HeldRow, SettledRow DEF CountedRight, Unwasted
<1>3. "BLOCKED" \in Statuses \ {"RUNNING"}
  BY DEF Statuses, Terminal
<1> QED BY <1>1, <1>2, <1>3, SettleSafe

\* Releasing a claim for shutdown keeps the invariant.
LEMMA ReleaseSafe ==
  ASSUME IInv, NEW c \in Controllers, NEW k \in claims[c], Release(c, k)
  PROVE  SafetyPart' /\ Running' = Running \ {k.id}
<1>1. Settle(c, k, "QUEUED", "shutdown")
  BY DEF Release
<1>2. /\ attempt'[k.id] = attempt[k.id] - 1
      /\ \A e \in Experiments \ {k.id} : attempt'[e] = attempt[e]
  BY HeldRow DEF Release, IInv, TypeOK
<1>3. CountedRight(k.id)'
  BY <1>1, <1>2, HeldRow, SettledRow DEF CountedRight, Unwasted
<1>4. "QUEUED" \in Statuses \ {"RUNNING"}
  BY DEF Statuses
<1> QED BY <1>1, <1>2, <1>3, <1>4, SettleSafe

\* Init establishes the inductive invariant.
LEMMA InvInit == Init => IInv
<1> SUFFICES ASSUME Init PROVE IInv
  OBVIOUS
<1>1. LockHeld /\ ClaimsAreServed /\ ScanIsCurrent /\ Custody
  BY DEF Init, LockHeld, ClaimsAreServed, ScanIsCurrent, Custody
<1>2. RunsAreCounted /\ AttemptBudget
  BY QueueAssumption DEF Init, RunsAreCounted, Unwasted, AttemptBudget
<1> QED BY <1>1, <1>2, TypeInit DEF IInv

\* Every step preserves the inductive invariant.
LEMMA InvStep == IInv /\ [Next]_vars => IInv'
<1> SUFFICES ASSUME IInv, [Next]_vars PROVE IInv'
  OBVIOUS
<1>1. TypeOK'
  BY TypeStep DEF IInv
<1>2. SafetyPart'
  <2>1. CASE UNCHANGED vars
    <3>1. LockHeld' /\ ClaimsAreServed' /\ ScanIsCurrent' /\ Custody'
      BY <2>1 DEF vars, rows, procs, IInv, LockHeld, ClaimsAreServed, ScanIsCurrent, Custody,
                  Running, InStatus
    <3>2. RunsAreCounted' /\ AttemptBudget'
      BY <2>1 DEF vars, rows, IInv, RunsAreCounted, Unwasted, AttemptBudget
    <3> QED BY <3>1, <3>2 DEF SafetyPart
  <2>2. ASSUME NEW c \in Controllers, Start(c) PROVE SafetyPart'
    BY <2>2, StartSafe
  <2>3. ASSUME NEW c \in Controllers, Crash(c) \/ StopCleanly(c) PROVE SafetyPart'
    BY <2>3, DieSafe DEF Crash, StopCleanly
  <2>4. ASSUME NEW c \in Controllers, RecoverScan(c) PROVE SafetyPart'
    BY <2>4, RecoverScanSafe
  <2>5. ASSUME NEW c \in Controllers, RecoverCommit(c) PROVE SafetyPart'
    BY <2>5, RecoverCommitSafe
  <2>6. ASSUME NEW c \in Controllers, NEW kind \in Kinds, ReopenResolved(c, kind) PROVE SafetyPart'
    BY <2>6, ReopenResolvedSafe
  <2>7. ASSUME NEW c \in Controllers, NEW kind \in Kinds, Retire(c, kind) PROVE SafetyPart'
    BY <2>7, RetireSafe
  <2>8. ASSUME NEW c \in Controllers, NEW e \in Experiments, Enqueue(c, e) PROVE SafetyPart'
    BY <2>8, EnqueueSafe
  <2>9. ASSUME NEW c \in Controllers, ClaimNext(c) PROVE SafetyPart'
    BY <2>9, ClaimedSafe DEF ClaimNext, Heads
  <2>10. ASSUME NEW c \in Controllers, ClaimBatch(c) PROVE SafetyPart'
    BY <2>10, ClaimedSafe DEF ClaimBatch
  <2>11. ASSUME NEW c \in Controllers, NEW k \in claims[c], Complete(c, k) PROVE SafetyPart'
    BY <2>11, CompleteSafe
  <2>12. ASSUME NEW c \in Controllers, NEW k \in claims[c], NEW r \in BOOLEAN, Fail(c, k, r)
         PROVE SafetyPart'
    BY <2>12, FailSafe
  <2>13. ASSUME NEW c \in Controllers, NEW k \in claims[c], NEW why, Block(c, k, why)
         PROVE SafetyPart'
    BY <2>13, BlockSafe
  <2>14. ASSUME NEW c \in Controllers, NEW k \in claims[c], Release(c, k) PROVE SafetyPart'
    BY <2>14, ReleaseSafe
  <2> QED
    BY <2>1, <2>2, <2>3, <2>4, <2>5, <2>6, <2>7, <2>8, <2>9, <2>10, <2>11, <2>12, <2>13, <2>14
       DEF Next, Resolve
<1> QED BY <1>1, <1>2 DEF IInv, SafetyPart

\* The inductive invariant holds in every reachable state.
THEOREM Invariance == Spec => []IInv
BY InvInit, InvStep, PTL DEF Spec

\* RUNNING rows are exactly the claims of the controller that serves.
THEOREM CustodyHolds == Spec => []Custody
<1>1. IInv => Custody
  BY DEF IInv
<1> QED BY <1>1, Invariance, PTL

\* No row is run more often than its specification allows.
THEOREM BudgetHolds == Spec => []AttemptBudget
<1>1. IInv => AttemptBudget
  BY DEF IInv
<1> QED BY <1>1, Invariance, PTL

-----------------------------------------------------------------------------
(* Isolation of what runs at one moment.                                   *)

\* Fewer rows running, and none new: isolation is kept.
LEMMA FewerRunning ==
  ASSUME BatchIsolation, Running' \subseteq Running
  PROVE  BatchIsolation'
<1>1. IsFiniteSet(Running)
  BY BatchFinite DEF Running, InStatus
<1>2. Cardinality(Running') <= Cardinality(Running)
  BY <1>1, FS_Subset
<1>3. Cardinality(Running') \in Nat /\ Cardinality(Running) \in Nat
  BY <1>1, FS_Subset, FS_CardinalityType
<1> QED BY <1>2, <1>3, QueueAssumption DEF BatchIsolation

\* Every step keeps the RUNNING rows isolated.
LEMMA IsolationStep == IInv /\ BatchIsolation /\ [Next]_vars => BatchIsolation'
<1> SUFFICES ASSUME IInv, BatchIsolation, [Next]_vars PROVE BatchIsolation'
  OBVIOUS
<1>1. CASE UNCHANGED vars
  BY <1>1, FewerRunning DEF vars, rows, Running, InStatus
<1>2. ASSUME NEW c \in Controllers, Start(c) \/ Crash(c) \/ StopCleanly(c) \/ RecoverScan(c)
      PROVE  BatchIsolation'
  BY <1>2, FewerRunning DEF Start, Crash, StopCleanly, Die, RecoverScan, rows, Running, InStatus
<1>3. ASSUME NEW c \in Controllers, RecoverCommit(c) PROVE BatchIsolation'
  BY <1>3, RecoverCommitSettlesAll, FewerRunning
<1>4. ASSUME NEW c \in Controllers, NEW kind \in Kinds, ReopenResolved(c, kind) PROVE BatchIsolation'
  BY <1>4, FewerRunning DEF ReopenResolved, Running, InStatus
<1>5. ASSUME NEW c \in Controllers, NEW kind \in Kinds, Retire(c, kind) PROVE BatchIsolation'
  BY <1>5, FewerRunning DEF Retire, Running, InStatus
<1>6. ASSUME NEW c \in Controllers, NEW e \in Experiments, Enqueue(c, e) PROVE BatchIsolation'
  BY <1>6, FewerRunning DEF Enqueue, IInv, TypeOK, Running, InStatus
<1>7. ASSUME NEW c \in Controllers, ClaimNext(c) PROVE BatchIsolation'
  <2>1. PICK e \in Queued : Idle(c) /\ Claimed(c, {e})
    BY <1>7 DEF ClaimNext, Heads
  <2>2. Running' = {e}
    BY <2>1, ClaimedSafe
  <2>3. Cardinality({e}) = 1
    BY FS_Singleton
  <2> QED BY <2>2, <2>3, QueueAssumption DEF BatchIsolation
<1>8. ASSUME NEW c \in Controllers, ClaimBatch(c) PROVE BatchIsolation'
  <2>1. PICK batch \in SUBSET Queued : Idle(c) /\ IsBatch(batch) /\ Claimed(c, batch)
    BY <1>8 DEF ClaimBatch
  <2>2. Running' = batch
    BY <2>1, ClaimedSafe
  <2> QED BY <2>1, <2>2 DEF BatchIsolation, IsBatch, Clash
<1>9. ASSUME NEW c \in Controllers, NEW k \in claims[c],
             \/ Complete(c, k) \/ Release(c, k)
             \/ \E r \in BOOLEAN : Fail(c, k, r)
             \/ \E why : Block(c, k, why)
      PROVE  BatchIsolation'
  <2>1. Running' = Running \ {k.id}
    BY <1>9, CompleteSafe, ReleaseSafe, FailSafe, BlockSafe
  <2> QED BY <2>1, FewerRunning
<1> QED BY <1>1, <1>2, <1>3, <1>4, <1>5, <1>6, <1>7, <1>8, <1>9 DEF Next, Resolve

\* No two rows run together that share a pipeline or write the ledger.
THEOREM IsolationHolds == Spec => []BatchIsolation
<1>1. Init => BatchIsolation
  <2> SUFFICES ASSUME Init PROVE BatchIsolation
    OBVIOUS
  <2>1. Running = {}
    BY DEF Init, Running, InStatus
  <2> QED BY <2>1, FS_EmptySet, QueueAssumption DEF BatchIsolation
<1> QED BY <1>1, IsolationStep, Invariance, PTL DEF Spec

-----------------------------------------------------------------------------
(* Finality of outcomes.                                                   *)

\* OutcomeIsFinal, of one row.
Final(e) ==
  /\ status[e] \in {"COMPLETED", "FAILED"} => status'[e] = status[e]
  /\ status[e] = "BLOCKED" /\ status'[e] # "BLOCKED" =>
       error[e] = "missing_handler" /\ status'[e] = "QUEUED"

\* Settling one claim leaves every row that was not RUNNING alone.
LEMMA SettleFinal ==
  ASSUME IInv, NEW c \in Controllers, NEW k \in claims[c], NEW s, NEW why,
         Settle(c, k, s, why)
  PROVE  \A e \in Experiments : Final(e)
<1>1. status[k.id] = "RUNNING" /\ k.id \in Experiments
  BY HeldRow
<1>2. \A e \in Experiments : e # k.id => status'[e] = status[e]
  BY DEF Settle, IInv, TypeOK
<1> QED BY <1>1, <1>2 DEF Final

\* No step reopens an outcome.
LEMMA FinalStep == IInv /\ [Next]_vars => \A e \in Experiments : Final(e)
<1> SUFFICES ASSUME IInv, [Next]_vars PROVE \A e \in Experiments : Final(e)
  OBVIOUS
<1>1. CASE UNCHANGED status
  BY <1>1 DEF Final
<1>2. ASSUME NEW c \in Controllers, RecoverCommit(c) PROVE \A e \in Experiments : Final(e)
  BY <1>2, RecoverCommitSettlesAll DEF Final
<1>3. ASSUME NEW c \in Controllers, NEW kind \in Kinds, ReopenResolved(c, kind)
      PROVE  \A e \in Experiments : Final(e)
  BY <1>3 DEF ReopenResolved, Final
<1>4. ASSUME NEW c \in Controllers, NEW kind \in Kinds, Retire(c, kind)
      PROVE  \A e \in Experiments : Final(e)
  BY <1>4 DEF Retire, Queued, InStatus, Final
<1>5. ASSUME NEW c \in Controllers, NEW f \in Experiments, Enqueue(c, f)
      PROVE  \A e \in Experiments : Final(e)
  BY <1>5 DEF Enqueue, Final, IInv, TypeOK
<1>6. ASSUME NEW c \in Controllers, NEW batch \in SUBSET Queued, Claimed(c, batch)
      PROVE  \A e \in Experiments : Final(e)
  BY <1>6 DEF Claimed, Queued, InStatus, Final
<1>7. ASSUME NEW c \in Controllers, NEW k \in claims[c],
             \/ Complete(c, k) \/ Release(c, k)
             \/ \E r \in BOOLEAN : Fail(c, k, r)
             \/ \E why : Block(c, k, why)
      PROVE  \A e \in Experiments : Final(e)
  <2>1. PICK s, why : Settle(c, k, s, why)
    BY <1>7 DEF Complete, Release, Fail, Block
  <2> QED BY <2>1, SettleFinal
<1> QED
  BY <1>1, <1>2, <1>3, <1>4, <1>5, <1>6, <1>7
     DEF Next, Resolve, vars, rows, Start, Crash, StopCleanly, Die, RecoverScan, ClaimNext, Heads,
         ClaimBatch

\* No COMPLETED or FAILED row changes, and a BLOCKED one only for its handler.
THEOREM OutcomesAreFinal == Spec => OutcomeIsFinal
<1>1. IInv /\ [Next]_vars =>
        [\A e \in Experiments :
           /\ status[e] \in {"COMPLETED", "FAILED"} => status'[e] = status[e]
           /\ status[e] = "BLOCKED" /\ status'[e] # "BLOCKED" =>
                error[e] = "missing_handler" /\ status'[e] = "QUEUED"]_vars
  BY FinalStep DEF Final
<1> QED BY <1>1, Invariance, PTL DEF Spec, OutcomeIsFinal

-----------------------------------------------------------------------------
(* The queue implements JobLedger.                                         *)

\* What one step may do to one row.
Untouched(e) == status'[e] = status[e] /\ attempt'[e] = attempt[e] /\ error'[e] = error[e]
Turns(e, from, to) == status[e] = from /\ status'[e] = to
RowMove(e) ==
  \/ Untouched(e)
  \/ Turns(e, "ABSENT", "QUEUED") /\ attempt'[e] = attempt[e]
  \/ Turns(e, "QUEUED", "RUNNING") /\ attempt'[e] = attempt[e] + 1
  \/ Turns(e, "RUNNING", "COMPLETED") /\ attempt'[e] = attempt[e]
  \/ Turns(e, "RUNNING", "QUEUED") /\ attempt'[e] = attempt[e] /\ attempt[e] < MaxAttempts[e]
  \/ Turns(e, "RUNNING", "FAILED") /\ attempt'[e] = attempt[e]
  \/ Turns(e, "RUNNING", "QUEUED") /\ attempt'[e] = attempt[e] - 1
  \/ Turns(e, "RUNNING", "BLOCKED") /\ attempt'[e] = attempt[e] /\ error'[e] # "retired"
  \/ Turns(e, "QUEUED", "BLOCKED") /\ attempt'[e] = attempt[e] /\ error'[e] = "retired"
  \/ Turns(e, "BLOCKED", "QUEUED") /\ attempt'[e] = attempt[e] - 1 /\ error[e] = "missing_handler"

\* Each such move is a step of the abstract ledger.
LEMMA RowMoveIsStep ==
  ASSUME IInv, IInv', NEW e \in Experiments, RowMove(e)
  PROVE  Ledger!Step(e)
<1>1. /\ attempt[e] \in Nat /\ attempt'[e] \in Nat /\ MaxAttempts[e] \in Nat
      /\ attempt[e] <= MaxAttempts[e]
      /\ status'[e] = "QUEUED" => attempt'[e] < MaxAttempts[e]
  BY QueueAssumption DEF IInv, TypeOK, AttemptBudget
<1>2. /\ JobOf[e] = JobPhase[status[e]] /\ JobOf'[e] = JobPhase[status'[e]]
      /\ SpentOf[e] = IF Unwasted(e) THEN attempt[e] - 1 ELSE attempt[e]
      /\ SpentOf'[e] = IF Unwasted(e)' THEN attempt'[e] - 1 ELSE attempt'[e]
  BY DEF JobOf, SpentOf
<1>3. /\ JobPhase["ABSENT"] = "none" /\ JobPhase["QUEUED"] = "waiting"
      /\ JobPhase["RUNNING"] = "active" /\ JobPhase["COMPLETED"] = "done"
      /\ JobPhase["FAILED"] = "dead" /\ JobPhase["BLOCKED"] = "shelved"
  BY DEF JobPhase
<1>4. CASE Untouched(e)
  BY <1>2, <1>4 DEF Untouched, Unwasted, Ledger!Step, Ledger!Rest, Ledger!Free
<1>5. CASE Turns(e, "ABSENT", "QUEUED") /\ attempt'[e] = attempt[e]
  BY <1>2, <1>3, <1>5 DEF Turns, Unwasted, Ledger!Step, Ledger!Submit, Ledger!Moves, Ledger!Free
<1>6. CASE Turns(e, "QUEUED", "RUNNING") /\ attempt'[e] = attempt[e] + 1
  BY <1>1, <1>2, <1>3, <1>6 DEF Turns, Unwasted, Ledger!Step, Ledger!Begin, Ledger!Moves, Ledger!Free
<1>7. CASE Turns(e, "RUNNING", "COMPLETED") /\ attempt'[e] = attempt[e]
  BY <1>2, <1>3, <1>7 DEF Turns, Unwasted, Ledger!Step, Ledger!Finish, Ledger!Moves, Ledger!Free
<1>8. CASE Turns(e, "RUNNING", "QUEUED") /\ attempt'[e] = attempt[e] /\ attempt[e] < MaxAttempts[e]
  BY <1>1, <1>2, <1>3, <1>8
     DEF Turns, Unwasted, Ledger!Step, Ledger!Waste, Ledger!Moves, Ledger!Charged
<1>9. CASE Turns(e, "RUNNING", "FAILED") /\ attempt'[e] = attempt[e]
  BY <1>1, <1>2, <1>3, <1>9
     DEF Turns, Unwasted, Ledger!Step, Ledger!GiveUp, Ledger!Moves, Ledger!Charged
<1>10. CASE Turns(e, "RUNNING", "QUEUED") /\ attempt'[e] = attempt[e] - 1
  BY <1>2, <1>3, <1>10 DEF Turns, Unwasted, Ledger!Step, Ledger!HandBack, Ledger!Moves, Ledger!Free
<1>11. CASE Turns(e, "RUNNING", "BLOCKED") /\ attempt'[e] = attempt[e] /\ error'[e] # "retired"
  BY <1>2, <1>3, <1>11 DEF Turns, Unwasted, Ledger!Step, Ledger!Shelve, Ledger!Moves, Ledger!Free
<1>12. CASE Turns(e, "QUEUED", "BLOCKED") /\ attempt'[e] = attempt[e] /\ error'[e] = "retired"
  BY <1>2, <1>3, <1>12 DEF Turns, Unwasted, Ledger!Step, Ledger!Shelve, Ledger!Moves, Ledger!Free
<1>13. CASE /\ Turns(e, "BLOCKED", "QUEUED")
            /\ attempt'[e] = attempt[e] - 1
            /\ error[e] = "missing_handler"
  BY <1>2, <1>3, <1>13 DEF Turns, Unwasted, Ledger!Step, Ledger!Reopen, Ledger!Moves, Ledger!Free
<1> QED BY <1>4, <1>5, <1>6, <1>7, <1>8, <1>9, <1>10, <1>11, <1>12, <1>13 DEF RowMove

\* A settlement moves its row as told and touches no other row.
LEMMA SettleMoves ==
  ASSUME IInv, NEW c \in Controllers, NEW k \in claims[c], NEW s, NEW why,
         Settle(c, k, s, why), attempt' = attempt
  PROVE  /\ Turns(k.id, "RUNNING", s) /\ error'[k.id] = why /\ attempt'[k.id] = attempt[k.id]
         /\ \A e \in Experiments \ {k.id} : Untouched(e)
BY HeldRow, SettledRow DEF Settle, IInv, TypeOK, Turns, Untouched

\* Every step moves every row as RowMove allows.
LEMMA EveryRowMoves == IInv /\ [Next]_vars => \A e \in Experiments : RowMove(e)
<1> SUFFICES ASSUME IInv, [Next]_vars PROVE \A e \in Experiments : RowMove(e)
  OBVIOUS
<1>1. CASE UNCHANGED rows
  BY <1>1 DEF rows, RowMove, Untouched
<1>2. ASSUME NEW c \in Controllers, RecoverCommit(c) PROVE \A e \in Experiments : RowMove(e)
  <2> TAKE e \in Experiments
  <2>1. attempt[e] \in Nat /\ MaxAttempts[e] \in Nat
    BY QueueAssumption DEF IInv, TypeOK
  <2> QED BY <1>2, <2>1, RecoverCommitSettlesAll DEF RowMove, Untouched, Turns
<1>3. ASSUME NEW c \in Controllers, NEW kind \in Kinds, ReopenResolved(c, kind)
      PROVE  \A e \in Experiments : RowMove(e)
  <2> SUFFICES ASSUME NEW e \in Experiments PROVE RowMove(e)
    OBVIOUS
  <2>1. CASE status[e] = "BLOCKED" /\ error[e] = "missing_handler" /\ Kind[e] = kind
    <3>1. attempt[e] > 0
      BY <2>1 DEF IInv, RunsAreCounted, Unwasted
    <3> QED BY <1>3, <2>1, <3>1 DEF ReopenResolved, RowMove, Turns
  <2>2. CASE ~(status[e] = "BLOCKED" /\ error[e] = "missing_handler" /\ Kind[e] = kind)
    BY <1>3, <2>2 DEF ReopenResolved, RowMove, Untouched
  <2> QED BY <2>1, <2>2
<1>4. ASSUME NEW c \in Controllers, NEW kind \in Kinds, Retire(c, kind)
      PROVE  \A e \in Experiments : RowMove(e)
  BY <1>4 DEF Retire, Queued, InStatus, RowMove, Untouched, Turns
<1>5. ASSUME NEW c \in Controllers, NEW f \in Experiments, Enqueue(c, f)
      PROVE  \A e \in Experiments : RowMove(e)
  BY <1>5 DEF Enqueue, IInv, TypeOK, RowMove, Untouched, Turns
<1>6. ASSUME NEW c \in Controllers, NEW batch \in SUBSET Queued, Claimed(c, batch)
      PROVE  \A e \in Experiments : RowMove(e)
  BY <1>6 DEF Claimed, Queued, InStatus, RowMove, Untouched, Turns
<1>7. ASSUME NEW c \in Controllers, NEW k \in claims[c], Complete(c, k)
      PROVE  \A e \in Experiments : RowMove(e)
  BY <1>7, SettleMoves DEF Complete, RowMove
<1>8. ASSUME NEW c \in Controllers, NEW k \in claims[c], NEW r \in BOOLEAN, Fail(c, k, r)
      PROVE  \A e \in Experiments : RowMove(e)
  <2>1. CASE r /\ attempt[k.id] < MaxAttempts[k.id]
    <3>1. Settle(c, k, "QUEUED", "worker") /\ attempt' = attempt
      BY <1>8, <2>1 DEF Fail
    <3> QED BY <2>1, <3>1, SettleMoves DEF RowMove
  <2>2. CASE ~(r /\ attempt[k.id] < MaxAttempts[k.id])
    <3>1. Settle(c, k, "FAILED", "worker") /\ attempt' = attempt
      BY <1>8, <2>2 DEF Fail
    <3> QED BY <3>1, SettleMoves DEF RowMove
  <2> QED BY <2>1, <2>2
<1>9. ASSUME NEW c \in Controllers, NEW k \in claims[c], NEW why \in {"guard", "missing_handler"},
             Block(c, k, why)
      PROVE  \A e \in Experiments : RowMove(e)
  BY <1>9, SettleMoves DEF Block, RowMove
<1>10. ASSUME NEW c \in Controllers, NEW k \in claims[c], Release(c, k)
       PROVE  \A e \in Experiments : RowMove(e)
  <2>1. Turns(k.id, "RUNNING", "QUEUED") /\ attempt'[k.id] = attempt[k.id] - 1
    BY <1>10, HeldRow, SettledRow DEF Release, IInv, TypeOK, Turns
  <2>2. \A e \in Experiments \ {k.id} : Untouched(e)
    BY <1>10 DEF Release, Settle, IInv, TypeOK, Untouched
  <2> QED BY <2>1, <2>2 DEF RowMove
<1> QED
  BY <1>1, <1>2, <1>3, <1>4, <1>5, <1>6, <1>7, <1>8, <1>9, <1>10
     DEF Next, Resolve, vars, Start, Crash, StopCleanly, Die, RecoverScan, ClaimNext, Heads,
         ClaimBatch

\* The abstract ledger's types of the mapped variables.
Mapped == JobOf \in [Experiments -> Ledger!Phases] /\ SpentOf \in [Experiments -> Nat]

\* The mapped variables have those types.
LEMMA MappedType == IInv => Mapped
<1> SUFFICES ASSUME IInv PROVE Mapped
  OBVIOUS
<1>1. ASSUME NEW e \in Experiments PROVE JobPhase[status[e]] \in Ledger!Phases
  BY DEF IInv, TypeOK, Statuses, Terminal, JobPhase, Ledger!Phases
<1>2. ASSUME NEW e \in Experiments
      PROVE  (IF Unwasted(e) THEN attempt[e] - 1 ELSE attempt[e]) \in Nat
  BY DEF IInv, TypeOK, RunsAreCounted
<1> QED BY <1>1, <1>2 DEF Mapped, JobOf, SpentOf

\* So they have after a step.
LEMMA MappedNext == IInv' => Mapped'
BY MappedType, PTL

\* The queue implements the abstract ledger.
THEOREM Refinement == Spec => ImplementsLedger
<1>1. Init => Ledger!Init
  BY DEF Init, Ledger!Init, JobOf, SpentOf, JobPhase, Unwasted
<1>2. IInv' => Mapped'
  BY MappedType, PTL
<1>3. IInv /\ [Next]_vars => [Ledger!Next]_(Ledger!vars)
  <2> SUFFICES ASSUME IInv, [Next]_vars PROVE Ledger!Next
    OBVIOUS
  <2>1. IInv'
    BY InvStep
  <2>2. \A e \in Experiments : Ledger!Step(e)
    BY <2>1, EveryRowMoves, RowMoveIsStep
  <2>3. JobOf' \in [Experiments -> Ledger!Phases] /\ SpentOf' \in [Experiments -> Nat]
    BY <2>1, <1>2 DEF Mapped
  <2> QED BY <2>2, <2>3 DEF Ledger!Next
<1> QED BY <1>1, <1>3, Invariance, PTL DEF Spec, ImplementsLedger, Ledger!Spec

\* The inductive invariant: the queue's, the types, and the place of the
\* process.
MissionInv == IInv /\ MissionTypeOK /\ PlaceInv

-----------------------------------------------------------------------------
(* Every step of the mission is a step of the queue, or leaves it alone.   *)

\* A process past its start-up serves.
LEMMA ServesHere ==
  ASSUME LockIsPlace, NEW c \in Controllers, owner = c, pc # "down", pc \notin StartUp
  PROVE  stage[c] = "serving"
BY DEF LockIsPlace, StageHere, StartUp

\* A process between two dispatches is idle at the queue.
LEMMA AloneIsIdle ==
  ASSUME PlaceInv, NEW c \in Controllers, owner = c, pc \in Alone
  PROVE  Idle(c)
BY ServesHere DEF PlaceInv, ClaimsFitPlace, Idle, Here, Alone, Writing, StartUp

\* Dispatching claims the head of the queue, or a batch that has it.
LEMMA DispatchClaims ==
  ASSUME MissionInv, NEW c \in Controllers, owner = c, Dispatch(c)
  PROVE  ClaimNext(c) \/ ClaimBatch(c)
<1>1. Idle(c)
  BY AloneIsIdle DEF MissionInv, Dispatch, At, Alone
<1>2. PICK e \in Heads :
        IF e \in ParallelSafe /\ WorkerLimit > 1
        THEN \E batch \in SUBSET (Queued \cap ParallelSafe) :
               e \in batch /\ IsBatch(batch) /\ Claimed(c, batch)
        ELSE Claimed(c, {e})
  BY DEF Dispatch
<1>3. CASE e \in ParallelSafe /\ WorkerLimit > 1
  BY <1>1, <1>2, <1>3 DEF ClaimBatch
<1>4. CASE ~(e \in ParallelSafe /\ WorkerLimit > 1)
  BY <1>1, <1>2, <1>4 DEF ClaimNext
<1> QED BY <1>3, <1>4

\* A failed run is retried, or not.
LEMMA FailIsNext ==
  ASSUME NEW c \in Controllers, NEW k \in claims[c], NEW r \in BOOLEAN, Fail(c, k, r)
  PROVE  Next
<1>1. CASE r = TRUE
  BY <1>1 DEF Next, Resolve
<1>2. CASE r = FALSE
  BY <1>2 DEF Next
<1> QED BY <1>1, <1>2

\* What a settlement on the single path does.
LEMMA SettleOneCases ==
  ASSUME NEW c \in Controllers, SettleOne(c)
  PROVE  \E k \in claims[c] :
           \/ envelope[k.id] = "ok" /\ Complete(c, k)
           \/ envelope[k.id] # "ok" /\ \E r \in BOOLEAN : Fail(c, k, r)
BY DEF SettleOne, Failed

\* What a fault of the controller does: the row of the run is failed, its
\* worker is left to itself.
LEMMA FaultCases ==
  ASSUME NEW c \in Controllers, Fault(c)
  PROVE  /\ pc \in {"launching", "working", "settling"} /\ pc' = "publishing"
         /\ pending'.next \in {"loop", "pivoting"}
         /\ pending'.phase \in {"RETRY_SCHEDULED", "EXPERIMENT_BLOCKED", "INTEGRITY_BLOCKED"}
         /\ UNCHANGED <<kv, shutdown, saved, accepted, tally, envelope, stopFile, supported, stops>>
         /\ NoWorkers
         /\ \E k \in claims[c] :
              /\ \E r \in BOOLEAN : Fail(c, k, r)
              /\ strays' = [strays EXCEPT ![k.id] = Unwatched(k.id)]
              /\ faulted' = faulted \cup {k.id}
<1>1. PICK k \in claims[c] :
        /\ Failed(c, pc, k)
        /\ strays' = [strays EXCEPT ![k.id] = Unwatched(k.id)]
        /\ faulted' = faulted \cup {k.id}
  BY DEF Fault
<1>2. /\ pc' = "publishing" /\ pending'.next \in {"loop", "pivoting"} /\ UNCHANGED tally
      /\ pending'.phase \in {"RETRY_SCHEDULED", "EXPERIMENT_BLOCKED", "INTEGRITY_BLOCKED"}
  BY <1>1 DEF Failed, Publish, At
<1>3. \E r \in BOOLEAN : Fail(c, k, r)
  BY <1>1 DEF Failed
<1> QED BY <1>1, <1>2, <1>3 DEF Fault

\* What a settlement of the batch does.
LEMMA CollectCases ==
  ASSUME NEW c \in Controllers, Collect(c)
  PROVE  \E k \in claims[c] :
           /\ \/ envelope[k.id] = "ok" /\ Complete(c, k)
              \/ envelope[k.id] # "ok" /\ Fail(c, k, TRUE)
           /\ worker' = [worker EXCEPT ![k.id] = "none"]
BY DEF Collect

\* A step of the process that is up is a step of the queue.
LEMMA ControllerUsesQueue ==
  ASSUME MissionInv, NEW c \in Controllers, Controller(c)
  PROVE  [Next]_vars
<1>0. owner = c
  BY DEF Controller
<1>1. CASE Recover(c)
  BY <1>1 DEF Recover, Next
<1>2. CASE FollowUp(c) \/ Plan(c)
  BY <1>2 DEF FollowUp, Plan, Next
<1>3. CASE Leave(c)
  BY <1>3 DEF Leave, Next
<1>4. CASE Dispatch(c)
  BY <1>0, <1>4, DispatchClaims DEF Next
<1>5. CASE Reject(c) \/ Halt(c) \/ VetReject(c)
  BY <1>5 DEF Reject, Halt, VetReject, Next
<1>6. CASE Unclaim(c) \/ Unwind(c)
  BY <1>6 DEF Unclaim, Unwind, Next
<1>7. CASE SettleOne(c)
  BY <1>7, SettleOneCases, FailIsNext DEF Next, Resolve
<1>8. CASE Collect(c)
  BY <1>8, CollectCases DEF Next, Resolve
<1>9. CASE ReadPrevious \/ Announce \/ RestoreBlock \/ Resume
  BY <1>9 DEF ReadPrevious, Announce, RestoreBlock, Resume
<1>10. CASE \/ CheckStop \/ Tick \/ StayBlocked \/ Refuse \/ RouteToBlock \/ Lift
            \/ Reconciled \/ Conclude \/ PublishPhase \/ PublishBlocker
  BY <1>10 DEF CheckStop, Tick, StayBlocked, Refuse, RouteToBlock, Lift, Reconciled, Conclude,
               PublishPhase, PublishBlocker
<1>12. CASE UpdateForward(c) \/ SkipUpdate
  BY <1>12, ForwardAssumption DEF UpdateForward, SkipUpdate, Next
<1>11. CASE \/ Admit \/ Launch(c) \/ WorkerGone \/ Interrupt \/ VetAccept(c) \/ Vetted(c)
            \/ SpawnBatch(c) \/ BatchOver \/ InterruptBatch \/ Collected(c)
  BY <1>11 DEF Admit, Launch, WorkerGone, Interrupt, VetAccept, Vetted, SpawnBatch, BatchOver,
               InterruptBatch, Collected
<1> QED
  BY <1>1, <1>2, <1>3, <1>4, <1>5, <1>6, <1>7, <1>8, <1>9, <1>10, <1>11, <1>12
     DEF Controller, Initialize, RunStep, RunOne, RunBatch

\* A step of the mission is a step of the queue.
LEMMA MissionUsesQueue == MissionInv /\ [MissionNext]_mvars => [Next]_vars
<1> SUFFICES ASSUME MissionInv, [MissionNext]_mvars PROVE [Next]_vars
  OBVIOUS
<1>1. ASSUME NEW c \in Controllers, Boot(c) \/ Perish(c) PROVE [Next]_vars
  BY <1>1 DEF Boot, Perish, Next
<1>2. ASSUME NEW c \in Controllers, Controller(c) PROVE [Next]_vars
  BY <1>2, ControllerUsesQueue
<1>3. CASE TickAtWork \/ TickInBatch
  BY <1>3 DEF TickAtWork, TickInBatch
<1>4. ASSUME NEW e \in Experiments, Work(e) \/ WorkerExit(e) \/ Stray(e) PROVE [Next]_vars
  BY <1>4 DEF Work, WorkerExit, Stray
<1>5. CASE RequestStop \/ Terminate \/ Deploy
  BY <1>5 DEF RequestStop, Terminate, Deploy
<1>6. CASE UNCHANGED mvars
  BY <1>6 DEF mvars
<1>7. ASSUME NEW c \in Controllers, Fault(c) PROVE [Next]_vars
  BY <1>7, FaultCases, FailIsNext
<1> QED BY <1>1, <1>2, <1>3, <1>4, <1>5, <1>6, <1>7 DEF MissionNext

-----------------------------------------------------------------------------
(* Types.                                                                  *)

\* What the mission has next to the queue is typed.
OwnTypes ==
  /\ phase \in Phases /\ blocker \in Blockers
  /\ envelope \in [Experiments -> {"none", "ok", "failed"}]
  /\ supported \subseteq Kinds
  /\ {stopFile, shutdown} \subseteq BOOLEAN
  /\ {pending.phase, saved.phase} \subseteq Phases
  /\ {pending.blocker, saved.blocker} \subseteq Blockers
  /\ accepted \subseteq Claim
  /\ tally \in {"boot", "done", "retry", "failed"}
  /\ worker \in [Experiments -> {"none", "alive", "published", "dead", "killed"}]
  /\ strays \in [Experiments -> Nat] /\ faulted \subseteq Experiments

\* A bare reason is a blocker.
LEMMA BecauseType ==
  \A why \in {"none", "guard", "shadow", "review", "handler", "failed", "routed", "feed", "task"} :
    Because(why) \in Blockers
BY DEF Because, Blockers

\* So is the type of an experiment that no handler is there for.
LEMMA HandlerType ==
  \A e \in Experiments : [why |-> "handler", types |-> {Kind[e]}] \in Blockers
BY DEF Blockers, Kinds

\* Publishing a typed pair keeps what is pending typed.
LEMMA PublishType ==
  ASSUME NEW here, NEW ph \in Phases, NEW bl \in Blockers, NEW next, Publish(here, ph, bl, next)
  PROVE  pending'.phase \in Phases /\ pending'.blocker \in Blockers
BY DEF Publish

\* The phases the process publishes.
LEMMA PhaseType ==
  /\ Blocked \subseteq Phases
  /\ {"PHASE_0_GOVERNANCE", "RECOVERING", "PLANNING_NEXT_ACTION", "RUNNING_EXPERIMENT",
      "RUNNING_PARALLEL_EXPERIMENTS", "RETRY_SCHEDULED", "SCHEDULER_STALLED", "STOPPING",
      "STOPPED_CLEANLY"} \subseteq Phases
  /\ {"INTEGRITY_BLOCKED", "ENGINEERING_BLOCKED", "EXPERIMENT_BLOCKED"} \subseteq Blocked
BY DEF Phases, Blocked

\* Spawning keeps envelopes and workers typed.
LEMMA SpawnedType ==
  ASSUME OwnTypes, NEW es, Spawned(es)
  PROVE  /\ envelope' \in [Experiments -> {"none", "ok", "failed"}]
         /\ worker' \in [Experiments -> {"none", "alive", "published", "dead", "killed"}]
BY DEF OwnTypes, Spawned

\* The start-up keeps them typed.
LEMMA InitializeTypes ==
  ASSUME OwnTypes, NEW c \in Controllers, Initialize(c)
  PROVE  OwnTypes'
<1>1. CASE ReadPrevious
  BY <1>1 DEF ReadPrevious, OwnTypes, kv, left
<1>2. CASE Announce
  BY <1>2, PhaseType DEF Announce, OwnTypes, memory, world, left
<1>3. CASE Recover(c)
  BY <1>3 DEF Recover, OwnTypes, kv, world, left
<1>4. CASE RestoreBlock
  BY <1>4, PublishType, PhaseType, BecauseType DEF RestoreBlock, OwnTypes, Unset, kv, world, left
<1>5. CASE Resume
  BY <1>5, PublishType, PhaseType, BecauseType DEF Resume, OwnTypes, Unset, kv, world, left
<1> QED BY <1>1, <1>2, <1>3, <1>4, <1>5 DEF Initialize

\* The scheduler loop keeps them typed.
LEMMA RunStepTypes ==
  ASSUME OwnTypes, NEW c \in Controllers, RunStep(c)
  PROVE  OwnTypes'
<1>1. CASE CheckStop \/ StayBlocked \/ Dispatch(c) \/ FollowUp(c) \/ Reconciled
  BY <1>1, PhaseType
     DEF CheckStop, StayBlocked, Dispatch, FollowUp, Reconciled, OwnTypes, memory, kv, world, left
<1>2. CASE Leave(c)
  BY <1>2 DEF Leave, OwnTypes, kv, world, left
<1>3. CASE Tick
  BY <1>3, PublishType, PhaseType, BecauseType DEF Tick, OwnTypes, kv, world, left
<1>4. CASE Refuse
  BY <1>4, PublishType, PhaseType, BecauseType, HandlerType
     DEF Refuse, Heads, Queued, InStatus, OwnTypes, kv, world, left
<1>5. CASE Plan(c)
  BY <1>5, PublishType, PhaseType, BecauseType DEF Plan, OwnTypes, kv, world, left
<1>6. CASE RouteToBlock \/ Lift
  BY <1>6, PublishType, PhaseType, BecauseType DEF RouteToBlock, Lift, OwnTypes, kv, world, left
<1>7. CASE Conclude
  BY <1>7, PublishType, PhaseType, BecauseType DEF Conclude, OwnTypes, kv, world, left
<1>9. CASE UpdateForward(c) \/ SkipUpdate
  BY <1>9, PublishType, PhaseType, BecauseType
     DEF UpdateForward, SkipUpdate, OwnTypes, memory, kv, world, left
<1>8. CASE PublishPhase \/ PublishBlocker
  BY <1>8, PhaseType, BecauseType
     DEF PublishPhase, PublishBlocker, Fresh, OwnTypes, memory, world, left
<1> QED BY <1>1, <1>2, <1>3, <1>4, <1>5, <1>6, <1>7, <1>8, <1>9 DEF RunStep

\* The single path keeps them typed.
LEMMA RunOneTypes ==
  ASSUME OwnTypes, NEW c \in Controllers, RunOne(c)
  PROVE  OwnTypes'
<1>1. CASE Admit \/ WorkerGone \/ Interrupt
  BY <1>1, PhaseType DEF Admit, WorkerGone, Interrupt, NoWorkers, OwnTypes, memory, kv, world, left
<1>2. CASE Launch(c)
  BY <1>2, SpawnedType DEF Launch, OwnTypes, memory, kv, left
<1>3. CASE Reject(c) \/ Unclaim(c) \/ Halt(c)
  BY <1>3, PublishType, PhaseType, BecauseType
     DEF Reject, Unclaim, Halt, NoWorkers, OwnTypes, kv, world, left
<1>4. CASE SettleOne(c)
  BY <1>4, PublishType, PhaseType, BecauseType DEF SettleOne, Failed, NoWorkers, OwnTypes, kv, left
<1> QED BY <1>1, <1>2, <1>3, <1>4 DEF RunOne

\* The batch keeps them typed.
LEMMA RunBatchTypes ==
  ASSUME OwnTypes, TypeOK, NEW c \in Controllers, RunBatch(c)
  PROVE  OwnTypes'
<1>1. CASE VetReject(c) \/ Unwind(c)
  BY <1>1, PublishType, PhaseType, BecauseType DEF VetReject, Unwind, OwnTypes, kv, world, left
<1>2. CASE VetAccept(c)
  BY <1>2 DEF VetAccept, OwnTypes, TypeOK, kv, world, left
<1>3. CASE Vetted(c)
  BY <1>3, PhaseType DEF Vetted, OwnTypes, world, left
<1>4. CASE SpawnBatch(c)
  BY <1>4, SpawnedType DEF SpawnBatch, OwnTypes, memory, kv, left
<1>5. CASE BatchOver \/ InterruptBatch \/ Collected(c)
  BY <1>5 DEF BatchOver, InterruptBatch, NoWorkers, Collected, OwnTypes, memory, kv, world, left
<1>6. CASE Collect(c)
  BY <1>6 DEF Collect, Worse, OwnTypes, kv, left
<1> QED BY <1>1, <1>2, <1>3, <1>4, <1>5, <1>6 DEF RunBatch

\* A fault of the controller keeps them typed.
LEMMA FaultTypes ==
  ASSUME OwnTypes, NEW c \in Controllers, \A k \in claims[c] : k.id \in Experiments, Fault(c)
  PROVE  OwnTypes'
<1>1. PICK k \in claims[c] : /\ Failed(c, pc, k)
                            /\ strays' = [strays EXCEPT ![k.id] = Unwatched(k.id)]
                            /\ faulted' = faulted \cup {k.id}
  BY DEF Fault
<1>2. strays' \in [Experiments -> Nat] /\ faulted' \subseteq Experiments
  BY <1>1 DEF OwnTypes, Unwatched
<1>3. pending'.phase \in Phases /\ pending'.blocker \in Blockers
  BY <1>1, PublishType, PhaseType, BecauseType DEF Failed
<1> QED BY <1>1, <1>2, <1>3 DEF Fault, Failed, NoWorkers, OwnTypes, kv

\* Every step keeps them typed.
LEMMA OwnTypesStep == OwnTypes /\ TypeOK /\ [MissionNext]_mvars => OwnTypes'
<1> SUFFICES ASSUME OwnTypes, TypeOK, [MissionNext]_mvars PROVE OwnTypes'
  OBVIOUS
<1>1. ASSUME NEW c \in Controllers, Boot(c) PROVE OwnTypes'
  BY <1>1 DEF Boot, OwnTypes, memory, kv, world, left
<1>2. ASSUME NEW c \in Controllers, Perish(c) PROVE OwnTypes'
  <2>1. strays' \in [Experiments -> Nat]
    BY <1>2 DEF Perish, NoStrays, OwnTypes
  <2> QED BY <1>2, <2>1, PhaseType, BecauseType DEF Perish, NoWorkers, Unset, Fresh, OwnTypes, kv
<1>3. ASSUME NEW c \in Controllers, Controller(c) PROVE OwnTypes'
  BY <1>3, InitializeTypes, RunStepTypes, RunOneTypes, RunBatchTypes DEF Controller
<1>4. CASE TickAtWork \/ TickInBatch
  BY <1>4, PublishType, PhaseType, BecauseType DEF TickAtWork, TickInBatch, OwnTypes, kv, world, left
<1>5. ASSUME NEW e \in Experiments, Work(e) \/ WorkerExit(e) \/ Stray(e) PROVE OwnTypes'
  BY <1>5 DEF Work, WorkerExit, Stray, OwnTypes, memory, kv, left
<1>6. CASE RequestStop \/ Terminate \/ Deploy
  <2>1. strays' \in [Experiments -> Nat] /\ faulted' = faulted
    BY <1>6 DEF RequestStop, Terminate, NoStrays, Deploy, OwnTypes, left
  <2>2. worker' \in [Experiments -> {"none", "alive", "published", "dead", "killed"}]
    BY <1>6 DEF RequestStop, Terminate, Deploy, OwnTypes
  <2> QED BY <1>6, <2>1, <2>2 DEF RequestStop, Terminate, Deploy, OwnTypes, memory, kv
<1>7. CASE UNCHANGED mvars
  BY <1>7 DEF mvars, OwnTypes, memory, kv, world, left
<1>8. ASSUME NEW c \in Controllers, Fault(c) PROVE OwnTypes'
  <2>1. \A k \in claims[c] : k.id \in Experiments
    BY DEF TypeOK, Claim
  <2> QED BY <1>8, <2>1, FaultTypes
<1> QED BY <1>1, <1>2, <1>3, <1>4, <1>5, <1>6, <1>7, <1>8 DEF MissionNext

-----------------------------------------------------------------------------
(* Where the process is.  Claims, workers and the lock follow the place;   *)
(* each lemma takes a group of actions of one kind.                        *)

\* The place invariant without the verdicts, which speak of rows at rest.
PlacePart ==
  /\ PlaceKnown /\ LockIsPlace /\ ClaimsFitPlace /\ WorkersFitPlace /\ StopIsPlace

\* The places a pair that is published may lead to.
Targets == Alone \cup {"halting", "vetting", "failing"}

\* What a step of the process that serves has to show: where it goes, what
\* it holds and which workers it has there.
Arrives(c) ==
  /\ pc' \in Alone \cup Solo \cup Many \cup Writing
  /\ pc' \in Writing => pending'.next \in Targets
  /\ Here' \in Alone => claims'[c] = {}
  /\ Here' \in Solo => \E k \in claims'[c] : claims'[c] = {k}
  /\ \A e \in Experiments : worker'[e] # "none" =>
       /\ Here' \in {"working", "releasing", "halting", "settling", "running", "collecting",
                    "failing"}
       /\ worker'[e] \in {"alive", "published"} =>
            Here' \in {"working", "halting", "running", "failing"}
       /\ \E k \in claims'[c] : k.id = e

\* Such a step keeps lock, claims and workers in their place.
LEMMA ArrivesSafe ==
  ASSUME MissionInv, NEW c \in Controllers, owner = c, pc # "down", pc \notin StartUp,
         UNCHANGED <<owner, stage>>, Arrives(c)
  PROVE  PlaceKnown' /\ LockIsPlace' /\ ClaimsFitPlace' /\ WorkersFitPlace'
<1>1. stage[c] = "serving"
  BY ServesHere DEF MissionInv, PlaceInv
<1>2. pc' # "down" /\ pc' \notin StartUp
  BY DEF Arrives, Alone, Solo, Many, Writing, StartUp
<1>3. PlaceKnown'
  BY DEF Arrives, PlaceKnown, Targets
<1>4. LockIsPlace'
  BY <1>1, <1>2, QueueAssumption DEF LockIsPlace, StageHere, StartUp
<1>5. ClaimsFitPlace' /\ WorkersFitPlace'
  BY DEF Arrives, ClaimsFitPlace, WorkersFitPlace, Alive
<1> QED BY <1>3, <1>4, <1>5

\* Nothing runs while nothing is claimed: the rows at rest after a stop.
LEMMA NothingRuns ==
  ASSUME MissionInv, NEW c \in Controllers, owner = c, pc \in Alone
  PROVE  Running = {} /\ claims[c] = {} /\ \A e \in Experiments : worker[e] = "none"
<1>1. Idle(c)
  BY AloneIsIdle DEF MissionInv
<1>2. Running = {}
  BY <1>1, IdleMeansQuiet DEF MissionInv
<1>3. \A e \in Experiments : worker[e] = "none"
  BY <1>1 DEF MissionInv, PlaceInv, WorkersFitPlace, Idle
<1> QED BY <1>1, <1>2, <1>3 DEF Idle

\* Steps between two dispatches that claim nothing.
LEMMA LoopArrives ==
  ASSUME MissionInv, NEW c \in Controllers, owner = c,
         \/ CheckStop \/ Tick \/ StayBlocked \/ Refuse \/ Plan(c) \/ FollowUp(c)
         \/ RouteToBlock \/ Lift \/ Reconciled \/ Conclude \/ RestoreBlock \/ Resume
         \/ UpdateForward(c) \/ SkipUpdate
  PROVE  /\ pc \in Alone /\ Here' \in Alone /\ pc' \in Alone \cup Writing
         /\ UNCHANGED <<owner, stage, claims, worker>>
<1>1. CASE CheckStop \/ Tick \/ StayBlocked
  BY <1>1 DEF CheckStop, Tick, StayBlocked, At, Publish, Here, Alone, Writing, world, vars, procs
<1>2. CASE Refuse
  BY <1>2 DEF Refuse, At, Publish, Here, Alone, Writing, world, vars, procs
<1>3. CASE Plan(c)
  BY <1>3 DEF Plan, Enqueue, At, Publish, Here, Alone, Writing, world, vars, procs
<1>4. CASE FollowUp(c)
  BY <1>4 DEF FollowUp, Reconciling, Enqueue, At, Here, Alone, Writing, world, vars, procs
<1>5. CASE RouteToBlock \/ Lift
  BY <1>5 DEF RouteToBlock, Lift, Reconciling, AfterReconciling, At, Publish, Here, Alone,
     Writing,
              world, vars, procs
<1>6. CASE Reconciled
  BY <1>6 DEF Reconciled, Reconciling, AfterReconciling, At, Here, Alone, Writing, world, vars, procs
<1>7. CASE Conclude
  BY <1>7 DEF Conclude, At, Publish, Here, Alone, Writing, world, vars, procs
<1>8. CASE RestoreBlock \/ Resume
  BY <1>8 DEF RestoreBlock, Resume, At, Publish, Here, Alone, Writing, world, vars, procs
<1>9. CASE UpdateForward(c) \/ SkipUpdate
  BY <1>9 DEF UpdateForward, SkipUpdate, Enqueue, At, Publish, Here, Alone, Writing, world, vars,
              procs
<1> QED BY <1>1, <1>2, <1>3, <1>4, <1>5, <1>6, <1>7, <1>8, <1>9

\* So they arrive with empty hands.
LEMMA LoopSafe ==
  ASSUME MissionInv, NEW c \in Controllers, owner = c,
         \/ CheckStop \/ Tick \/ StayBlocked \/ Refuse \/ Plan(c) \/ FollowUp(c)
         \/ RouteToBlock \/ Lift \/ Reconciled \/ Conclude \/ RestoreBlock \/ Resume
         \/ UpdateForward(c) \/ SkipUpdate
  PROVE  Arrives(c)
<1>1. /\ pc \in Alone /\ Here' \in Alone /\ pc' \in Alone \cup Writing
      /\ UNCHANGED <<owner, stage, claims, worker>>
  BY LoopArrives
<1>2. claims'[c] = {} /\ \A e \in Experiments : worker'[e] = "none"
  BY <1>1, NothingRuns
<1>3. pc' \in Writing => pending'.next \in Targets
  BY <1>1 DEF Here, Targets
<1>4. Here' \notin Solo
  BY <1>1 DEF Alone, Solo
<1> QED BY <1>1, <1>2, <1>3, <1>4 DEF Arrives

\* Writing a pair does not move the process.
LEMMA WriteSafe ==
  ASSUME MissionInv, NEW c \in Controllers, owner = c, PublishPhase \/ PublishBlocker
  PROVE  Arrives(c) /\ pc # "down" /\ pc \notin StartUp /\ UNCHANGED <<owner, stage>>
<1>1. pc \in Writing /\ UNCHANGED <<owner, stage, claims, worker>> /\ Here' = Here
  BY DEF PublishPhase, PublishBlocker, MissionInv, PlaceInv, PlaceKnown, At, Here, Writing, Alone,
         memory, world, vars, procs
<1>2. Here \in Targets
  BY <1>1 DEF MissionInv, PlaceInv, PlaceKnown, Targets, Here
<1>3. pc' \in Targets \cup Writing /\ (pc' \in Writing => pending'.next \in Targets)
  BY <1>2 DEF PublishPhase, PublishBlocker, At, Here, Writing, Targets, Alone, memory
<1>4. ClaimsFitPlace /\ WorkersFitPlace
  BY DEF MissionInv, PlaceInv
<1> QED
  BY <1>1, <1>3, <1>4 DEF Arrives, ClaimsFitPlace, WorkersFitPlace, Alive, Targets, Alone, Solo,
     Many, Writing,
                     StartUp

\* A claimed batch is what the process holds.
LEMMA ClaimedHolds ==
  ASSUME TypeOK, NEW c \in Controllers, NEW batch, Claimed(c, batch)
  PROVE  /\ UNCHANGED <<owner, stage>>
         /\ \E fresh : claims'[c] = {[id |-> e, token |-> fresh[e]] : e \in batch}
BY DEF Claimed, TypeOK

\* Dispatching: one claim on the single path, a batch on the other.
LEMMA DispatchSafe ==
  ASSUME MissionInv, NEW c \in Controllers, owner = c, Dispatch(c)
  PROVE  Arrives(c) /\ UNCHANGED <<owner, stage>>
<1>1. pc = "deciding" /\ worker' = worker
  BY DEF Dispatch, At, world
<1>2. \A e \in Experiments : worker'[e] = "none"
  BY <1>1, NothingRuns DEF Alone
<1>3. TypeOK
  BY DEF MissionInv, IInv
<1>4. CASE pc' = "vetting"
  <2>1. \E batch : Claimed(c, batch)
    BY <1>4 DEF Dispatch, At
  <2> QED BY <1>2, <1>3, <1>4, <2>1, ClaimedHolds DEF Arrives, Here, Alone, Solo, Many, Writing
<1>5. CASE pc' # "vetting"
  <2>1. pc' = "checking" /\ \E e : Claimed(c, {e})
    BY <1>5 DEF Dispatch, At
  <2>2. PICK e : Claimed(c, {e})
    BY <2>1
  <2>3. UNCHANGED <<owner, stage>> /\ \E f : claims'[c] = {[id |-> g, token |-> f[g]] : g \in {e}}
    BY <1>3, <2>2, ClaimedHolds
  <2>4. \E k : claims'[c] = {k}
    BY <2>3
  <2> QED BY <1>2, <2>1, <2>3, <2>4 DEF Arrives, Here, Alone, Solo, Many, Writing
<1> QED BY <1>4, <1>5

\* A settlement drops the claim it settles and no other.
LEMMA SettleDrops ==
  ASSUME TypeOK, NEW c \in Controllers, NEW k \in claims[c], NEW s, NEW why, Settle(c, k, s, why)
  PROVE  claims'[c] = claims[c] \ {k} /\ UNCHANGED <<owner, stage>>
BY DEF Settle, TypeOK

\* Every settlement is a Settle.
LEMMA SettlesAll ==
  ASSUME TypeOK, NEW c \in Controllers, NEW k \in claims[c],
         \/ Complete(c, k) \/ Release(c, k)
         \/ \E r \in BOOLEAN : Fail(c, k, r)
         \/ \E why : Block(c, k, why)
  PROVE  claims'[c] = claims[c] \ {k} /\ UNCHANGED <<owner, stage>>
<1>1. PICK s, why : Settle(c, k, s, why)
  BY DEF Complete, Release, Fail, Block
<1> QED BY <1>1, SettleDrops

\* On the single path the settled claim was the last one.
LEMMA SettlesLast ==
  ASSUME MissionInv, NEW c \in Controllers, owner = c, Here \in Solo, NEW k \in claims[c],
         \/ Complete(c, k) \/ Release(c, k)
         \/ \E r \in BOOLEAN : Fail(c, k, r)
         \/ \E why : Block(c, k, why)
  PROVE  claims'[c] = {} /\ UNCHANGED <<owner, stage>>
<1>1. claims[c] = {k}
  BY DEF MissionInv, PlaceInv, ClaimsFitPlace
<1>2. claims'[c] = claims[c] \ {k} /\ UNCHANGED <<owner, stage>>
  BY SettlesAll DEF MissionInv, IInv
<1> QED BY <1>1, <1>2

\* Spawning leaves no worker but those of the claims it was told of.
LEMMA SpawnedAlive ==
  ASSUME NEW es, Spawned(es), NEW e \in Experiments
  PROVE  worker'[e] # "none" => e \in es /\ envelope[e] # "ok"
BY DEF Spawned

\* The single path: a row, its worker and what becomes of them.
LEMMA RunOneSafe ==
  ASSUME MissionInv, NEW c \in Controllers, owner = c, RunOne(c)
  PROVE  Arrives(c) /\ pc \in Solo /\ UNCHANGED <<owner, stage>>
<1>0. TypeOK /\ ClaimsFitPlace /\ WorkersFitPlace
  BY DEF MissionInv, PlaceInv, IInv
<1>1. CASE Reject(c)
  <2>1. pc = "checking" /\ Here \in Solo /\ worker' = worker
    BY <1>1 DEF Reject, Publish, At, Here, Writing, Solo, world
  <2>2. \A e \in Experiments : worker'[e] = "none"
    BY <1>0, <2>1 DEF WorkersFitPlace, Here, Writing
  <2>3. PICK k \in claims[c] : Block(c, k, "guard")
    BY <1>1 DEF Reject
  <2>4. claims'[c] = {} /\ UNCHANGED <<owner, stage>>
    BY <2>1, <2>3, SettlesLast
  <2>5. pc' = "publishing" /\ pending'.next = "loop"
    BY <1>1 DEF Reject, Publish, At
  <2> QED
    BY <2>1, <2>2, <2>4, <2>5 DEF Arrives, Here, Alone, Solo, Many, Writing, Targets
<1>2. CASE Admit
  BY <1>0, <1>2 DEF Admit, At, Arrives, ClaimsFitPlace, WorkersFitPlace, Alive, Here, Alone, Solo, Many,
                    Writing, memory, world, vars, procs
<1>3. CASE Launch(c)
  <2>1. pc = "launching" /\ UNCHANGED <<owner, stage, claims>>
    BY <1>3 DEF Launch, At, vars, procs
  <2>2. PICK k \in claims[c] : claims[c] = {k}
    BY <1>0, <2>1 DEF ClaimsFitPlace, Here, Writing, Solo
  <2>3. ASSUME NEW e \in Experiments, worker'[e] # "none"
        PROVE  e = k.id /\ pc' = "working"
    <3>1. e \in {x.id : x \in claims[c]} /\ envelope[e] # "ok"
      BY <1>3, <2>3, SpawnedAlive DEF Launch
    <3> QED BY <1>3, <2>2, <3>1 DEF Launch, At
  <2>4. pc' \in {"working", "settling"}
    BY <1>3 DEF Launch, At
  <2> QED BY <2>1, <2>2, <2>3, <2>4 DEF Arrives, Here, Alone, Solo, Many, Writing
<1>4. CASE WorkerGone
  BY <1>0, <1>4 DEF WorkerGone, At, Arrives, ClaimsFitPlace, WorkersFitPlace, Alive, Here, Alone,
                    Solo, Many, Writing, memory, world, vars, procs
<1>5. CASE Interrupt
  BY <1>0, <1>5 DEF Interrupt, NoWorkers, At, Arrives, ClaimsFitPlace, Here, Alone, Solo, Many,
                    Writing, memory, vars, procs
<1>6. CASE Unclaim(c) \/ Halt(c)
  <2>1. pc \in {"releasing", "halting"} /\ Here \in Solo /\ NoWorkers
    BY <1>6 DEF Unclaim, Halt, Publish, At, Here, Writing, Solo
  <2>2. \A e \in Experiments : worker'[e] = "none"
    BY <2>1 DEF NoWorkers
  <2>3. PICK k \in claims[c] : Block(c, k, "guard") \/ Release(c, k)
    BY <1>6 DEF Unclaim, Halt
  <2>4. claims'[c] = {} /\ UNCHANGED <<owner, stage>>
    BY <2>1, <2>3, SettlesLast
  <2>5. pc' = "publishing" /\ pending'.next = "loop"
    BY <1>6 DEF Unclaim, Halt, Publish, At
  <2> QED
    BY <2>1, <2>2, <2>4, <2>5 DEF Arrives, Here, Alone, Solo, Many, Writing, Targets
<1>7. CASE SettleOne(c)
  <2>1. pc = "settling" /\ Here \in Solo /\ NoWorkers
    BY <1>7 DEF SettleOne, Failed, Publish, At, Here, Writing, Solo
  <2>2. \A e \in Experiments : worker'[e] = "none"
    BY <2>1 DEF NoWorkers
  <2>3. claims'[c] = {} /\ UNCHANGED <<owner, stage>>
    BY <1>7, <2>1, SettleOneCases, SettlesLast
  <2>4. \/ pc' = "reconciling"
        \/ pc' = "publishing" /\ pending'.next \in {"loop", "pivoting"}
    BY <1>7 DEF SettleOne, Failed, Publish, At
  <2> QED
    BY <2>1, <2>2, <2>3, <2>4 DEF Arrives, Here, Alone, Solo, Many, Writing, Targets
<1> QED BY <1>1, <1>2, <1>3, <1>4, <1>5, <1>6, <1>7
   DEF RunOne, Admit, WorkerGone, Interrupt, Launch, At, Solo, vars, procs

\* The batch: rows, their workers and what becomes of them.
LEMMA RunBatchSafe ==
  ASSUME MissionInv, NEW c \in Controllers, owner = c, RunBatch(c)
  PROVE  Arrives(c) /\ pc \in Many /\ UNCHANGED <<owner, stage>>
<1>0. TypeOK /\ WorkersFitPlace
  BY DEF MissionInv, PlaceInv, IInv
<1>1. CASE VetReject(c) \/ Unwind(c)
  <2>1. pc \in {"vetting", "unwinding"} /\ worker' = worker
    BY <1>1 DEF VetReject, Unwind, Publish, At, world
  <2>2. \A e \in Experiments : worker'[e] = "none"
    BY <1>0, <2>1 DEF WorkersFitPlace, Here, Writing
  <2>3. UNCHANGED <<owner, stage>>
    BY <1>0, <1>1, SettlesAll DEF VetReject, Unwind, vars, procs
  <2>4. \/ pc' = "unwinding"
        \/ pc' = "publishing" /\ pending'.next = "vetting"
        \/ pc' = "publishing" /\ pending'.next = "loop" /\ claims'[c] = {}
    BY <1>1 DEF VetReject, Unwind, Publish, At, vars, procs
  <2> QED
    BY <2>1, <2>2, <2>3, <2>4 DEF Arrives, Here, Alone, Solo, Many, Writing, Targets
<1>2. CASE VetAccept(c)
  BY <1>0, <1>2 DEF VetAccept, At, Arrives, WorkersFitPlace, Alive, Here, Alone, Solo, Many, Writing,
     world,
                    vars, procs
<1>3. CASE Vetted(c)
  BY <1>0, <1>3 DEF Vetted, At, Arrives, WorkersFitPlace, Alive, Here, Alone, Solo, Many, Writing, world,
                    vars, procs
<1>4. CASE SpawnBatch(c)
  <2>1. \A e \in Experiments : worker'[e] # "none" => e \in {x.id : x \in claims[c]}
    BY <1>4, SpawnedAlive DEF SpawnBatch
  <2> QED BY <1>4, <2>1 DEF SpawnBatch, At, Arrives, Here, Alone, Solo, Many, Writing, vars, procs
<1>5. CASE BatchOver
  BY <1>0, <1>5 DEF BatchOver, At, Arrives, WorkersFitPlace, Alive, Here, Alone, Solo, Many,
     Writing,
                    world, vars, procs
<1>6. CASE InterruptBatch
  BY <1>6 DEF InterruptBatch, NoWorkers, At, Arrives, Here, Alone, Solo, Many, Writing, vars,
     procs
<1>7. CASE Collect(c)
  <2>1. PICK k \in claims[c] : /\ Complete(c, k) \/ Fail(c, k, TRUE)
                              /\ worker' = [worker EXCEPT ![k.id] = "none"]
    BY <1>7, CollectCases
  <2>2. claims'[c] = claims[c] \ {k} /\ UNCHANGED <<owner, stage>>
    BY <1>0, <2>1, SettlesAll
  <2>3. pc = "collecting" /\ pc' = "collecting"
    BY <1>7 DEF Collect, At
  <2>4. \A e \in Experiments : worker'[e] # "none" => e # k.id /\ worker'[e] = worker[e]
    BY <2>1 DEF MissionInv, MissionTypeOK
  <2> QED
    BY <1>0, <2>2, <2>3, <2>4 DEF Arrives, WorkersFitPlace, Alive, Here, Alone, Solo, Many, Writing
<1>8. CASE Collected(c)
  BY <1>0, <1>8 DEF Collected, At, Arrives, WorkersFitPlace, Alive, Here, Alone, Solo, Many, Writing,
     world,
                    vars, procs
<1> QED
  BY <1>1, <1>2, <1>3, <1>4, <1>5, <1>6, <1>7, <1>8
     DEF RunBatch, VetReject, VetAccept, Vetted, SpawnBatch, BatchOver, InterruptBatch, Unwind,
         Collect, Collected, Publish, At, Many, vars, procs

\* The four parts that a move of the process disturbs.
Placed == PlaceKnown /\ LockIsPlace /\ ClaimsFitPlace /\ WorkersFitPlace

\* Coming up and going down: the lock, the recovery and the end.
LEMMA ComeAndGoPlaced ==
  ASSUME MissionInv, NEW c \in Controllers,
         Boot(c) \/ Perish(c)
         \/ (owner = c /\ (ReadPrevious \/ Announce \/ Recover(c) \/ Leave(c)))
  PROVE  Placed'
<1>0. /\ TypeOK /\ LockHeld /\ ClaimsAreServed
      /\ PlaceKnown /\ LockIsPlace /\ ClaimsFitPlace /\ WorkersFitPlace
  BY DEF MissionInv, PlaceInv, IInv
<1>1. CASE Boot(c)
  <2>1. /\ pc = "down" /\ pc' = "booting" /\ owner' = c /\ stage'[c] = "starting"
        /\ UNCHANGED <<claims, worker>>
    BY <1>0, <1>1 DEF Boot, At, Start, TypeOK, world
  <2>2. \A e \in Experiments : worker'[e] = "none"
    BY <1>0, <2>1 DEF WorkersFitPlace, Here, Writing
  <2> QED
    BY <2>1, <2>2, QueueAssumption
       DEF Placed, PlaceKnown, LockIsPlace, ClaimsFitPlace, WorkersFitPlace, Here, StageHere,
          StartUp,
           Alone, Solo, Writing
<1>2. CASE Perish(c) \/ (owner = c /\ Leave(c))
  <2>1. pc' = "down" /\ owner' = NoController
    BY <1>2 DEF Perish, Leave, At, Crash, StopCleanly, Die
  <2>2. \A e \in Experiments : worker'[e] = "none"
    BY <1>2, NothingRuns DEF Perish, NoWorkers, Leave, At, Alone, world
  <2> QED
    BY <2>1, <2>2, QueueAssumption
       DEF Placed, PlaceKnown, LockIsPlace, ClaimsFitPlace, WorkersFitPlace, Writing
<1>3. CASE owner = c /\ (ReadPrevious \/ Announce \/ Recover(c))
  <2>1. pc \in StartUp
    BY <1>3 DEF ReadPrevious, Announce, Recover, At, StartUp
  <2>2. claims[c] = {}
    BY <1>0, <1>3, <2>1 DEF LockIsPlace, StageHere, StartUp, ClaimsAreServed
  <2>3. claims' = claims /\ owner' = owner /\ worker' = worker
    BY <1>3 DEF ReadPrevious, Announce, Recover, RecoverScan, RecoverCommit, world, vars, procs
  <2>4. \A e \in Experiments : worker'[e] = "none"
    BY <1>0, <2>1, <2>3 DEF WorkersFitPlace, Here, Writing, StartUp
  <2>5. pc' \in {"announcing", "scanning", "recovering", "reconciling"}
    BY <1>3 DEF ReadPrevious, Announce, Recover, At
  <2>6. stage'[c] = StageHere'
    BY <1>0, <1>3 DEF ReadPrevious, Announce, Recover, At, RecoverScan, RecoverCommit, TypeOK,
                      LockIsPlace, StageHere, vars, procs
  <2>7. PlaceKnown' /\ WorkersFitPlace'
    BY <2>4, <2>5 DEF PlaceKnown, WorkersFitPlace, StartUp, Alone, Writing
  <2>8. LockIsPlace'
    BY <1>0, <1>3, <2>1, <2>3, <2>5, <2>6, QueueAssumption DEF LockIsPlace, StartUp
  <2>9. ClaimsFitPlace'
    BY <1>3, <2>2, <2>3, <2>5 DEF ClaimsFitPlace, Here, Solo, Writing
  <2> QED BY <2>7, <2>8, <2>9 DEF Placed
<1> QED BY <1>1, <1>2, <1>3

\* A step of the process that is up keeps it placed.
LEMMA ControllerPlaced ==
  ASSUME MissionInv, NEW c \in Controllers, Controller(c)
  PROVE  Placed'
<1>0. owner = c
  BY DEF Controller
<1>1. CASE ReadPrevious \/ Announce \/ Recover(c) \/ Leave(c)
  BY <1>0, <1>1, ComeAndGoPlaced
<1>2. CASE \/ CheckStop \/ Tick \/ StayBlocked \/ Refuse \/ Plan(c) \/ FollowUp(c)
           \/ RouteToBlock \/ Lift \/ Reconciled \/ Conclude \/ RestoreBlock \/ Resume
         \/ UpdateForward(c) \/ SkipUpdate
  <2>1. pc \in Alone /\ UNCHANGED <<owner, stage>> /\ Arrives(c)
    BY <1>0, <1>2, LoopArrives, LoopSafe
  <2>2. pc # "down" /\ pc \notin StartUp
    BY <2>1 DEF Alone, StartUp
  <2> QED BY <1>0, <2>1, <2>2, ArrivesSafe DEF Placed
<1>3. CASE PublishPhase \/ PublishBlocker
  BY <1>0, <1>3, WriteSafe, ArrivesSafe DEF Placed
<1>4. CASE Dispatch(c)
  <2>1. pc = "deciding"
    BY <1>4 DEF Dispatch, At
  <2>2. pc # "down" /\ pc \notin StartUp
    BY <2>1 DEF StartUp
  <2> QED BY <1>0, <1>4, <2>2, DispatchSafe, ArrivesSafe DEF Placed
<1>5. CASE RunOne(c) \/ RunBatch(c)
  <2>1. Arrives(c) /\ pc \in Solo \cup Many /\ UNCHANGED <<owner, stage>>
    BY <1>0, <1>5, RunOneSafe, RunBatchSafe
  <2>2. pc # "down" /\ pc \notin StartUp
    BY <2>1 DEF Solo, Many, StartUp
  <2> QED BY <1>0, <2>1, <2>2, ArrivesSafe DEF Placed
<1> QED BY <1>1, <1>2, <1>3, <1>4, <1>5 DEF Controller, Initialize, RunStep

\* A failing heartbeat leaves the worker to be killed where it leads.
LEMMA TickFailsPlaced ==
  ASSUME MissionInv, TickAtWork \/ TickInBatch
  PROVE  Placed'
<1>1. /\ PlaceKnown /\ LockIsPlace /\ ClaimsFitPlace /\ WorkersFitPlace
      /\ UNCHANGED <<owner, stage, claims, worker>>
  BY DEF MissionInv, PlaceInv, TickAtWork, TickInBatch, Publish, At, world, vars, procs
<1>2. CASE TickAtWork
  <2>1. pc = "working" /\ pc' = "publishing" /\ pending'.next = "halting"
    BY <1>2 DEF TickAtWork, Publish, At
  <2> QED
    BY <1>1, <2>1 DEF Placed, PlaceKnown, LockIsPlace, ClaimsFitPlace, WorkersFitPlace, Alive,
                      Here, StageHere, Writing, Alone, Solo, Many
<1>3. CASE TickInBatch
  <2>1. /\ pc = "running"
        /\ pc' = "failing" \/ (pc' = "publishing" /\ pending'.next = "failing")
    BY <1>3 DEF TickInBatch, Publish, At
  <2> QED
    BY <1>1, <2>1 DEF Placed, PlaceKnown, LockIsPlace, ClaimsFitPlace, WorkersFitPlace, Alive,
                      Here, StageHere, Writing, Alone, Solo, Many
<1> QED BY <1>2, <1>3

\* A fault of the controller takes it back to the loop with empty hands.
LEMMA FaultPlaced ==
  ASSUME MissionInv, NEW c \in Controllers, owner = c, Fault(c)
  PROVE  Placed'
<1>1. /\ pc \in {"launching", "working", "settling"} /\ pc' = "publishing"
      /\ pending'.next \in {"loop", "pivoting"} /\ NoWorkers
  BY FaultCases
<1>2. PICK k \in claims[c], r \in BOOLEAN : Fail(c, k, r)
  BY FaultCases
<1>3. Here \in Solo /\ pc # "down" /\ pc \notin StartUp
  BY <1>1 DEF Here, Writing, Solo, StartUp
<1>4. claims'[c] = {} /\ UNCHANGED <<owner, stage>>
  BY <1>2, <1>3, SettlesLast
<1>5. \A e \in Experiments : worker'[e] = "none"
  BY <1>1 DEF NoWorkers
<1>6. Arrives(c)
  BY <1>1, <1>4, <1>5 DEF Arrives, Here, Alone, Solo, Many, Writing, Targets
<1> QED BY <1>3, <1>4, <1>6, ArrivesSafe DEF Placed

\* Workers, signals and the operator do not move the process.
LEMMA OutsidePlaced ==
  ASSUME MissionInv,
         (\E e \in Experiments : Work(e) \/ WorkerExit(e) \/ Stray(e)) \/ RequestStop \/ Terminate \/ Deploy
           \/ UNCHANGED mvars
  PROVE  Placed'
<1>1. /\ PlaceKnown /\ LockIsPlace /\ ClaimsFitPlace /\ WorkersFitPlace
      /\ worker \in [Experiments -> {"none", "alive", "published", "dead", "killed"}]
  BY DEF MissionInv, PlaceInv, MissionTypeOK
<1>2. UNCHANGED <<owner, stage, claims, pc, pending>>
  BY DEF Work, WorkerExit, Stray, RequestStop, Terminate, Deploy, mvars, memory, vars, procs
<1>3. \A e \in Experiments : \/ worker'[e] = worker[e]
                             \/ e \in Alive /\ worker'[e] \in {"published", "dead", "killed"}
  BY <1>1 DEF Work, WorkerExit, Stray, Alive, RequestStop, Terminate, Deploy, mvars, world
<1>4. PlaceKnown' /\ LockIsPlace' /\ ClaimsFitPlace'
  BY <1>1, <1>2 DEF PlaceKnown, LockIsPlace, ClaimsFitPlace, Here, StageHere
<1>5. WorkersFitPlace'
  BY <1>1, <1>2, <1>3 DEF WorkersFitPlace, Alive, Here
<1> QED BY <1>4, <1>5 DEF Placed

\* Every step keeps the process placed.
LEMMA PlacedStep == MissionInv /\ [MissionNext]_mvars => Placed'
BY ControllerPlaced, ComeAndGoPlaced, TickFailsPlaced, FaultPlaced, OutsidePlaced DEF MissionNext

-----------------------------------------------------------------------------
(* A clean stop.                                                           *)

\* What is pending is never the phase of a clean stop.
LEMMA PendingStep ==
  ASSUME MissionInv, [MissionNext]_mvars
  PROVE  pending'.phase # "STOPPED_CLEANLY"
<1>0. pending.phase # "STOPPED_CLEANLY"
  BY DEF MissionInv, PlaceInv, StopIsPlace
<1>1. ASSUME NEW c \in Controllers, Boot(c) \/ Perish(c) PROVE pending'.phase # "STOPPED_CLEANLY"
  BY <1>0, <1>1 DEF Boot, Perish, Fresh, memory
<1>2. ASSUME NEW c \in Controllers, Initialize(c) PROVE pending'.phase # "STOPPED_CLEANLY"
  BY <1>0, <1>2 DEF Initialize, ReadPrevious, Announce, Recover, RestoreBlock, Resume, Publish,
                    Blocked, memory
<1>3. ASSUME NEW c \in Controllers, RunStep(c) PROVE pending'.phase # "STOPPED_CLEANLY"
  <2>1. CASE \/ CheckStop \/ Leave(c) \/ Tick \/ StayBlocked \/ Dispatch(c) \/ Plan(c)
             \/ FollowUp(c) \/ Reconciled \/ UpdateForward(c) \/ SkipUpdate
    BY <1>0, <2>1 DEF CheckStop, Leave, Tick, StayBlocked, Dispatch, Plan, FollowUp, Reconciled,
                      UpdateForward, SkipUpdate, Publish, memory
  <2>2. CASE \/ Refuse \/ RouteToBlock \/ Lift \/ Conclude \/ PublishPhase \/ PublishBlocker
    BY <1>0, <2>2 DEF Refuse, RouteToBlock, Lift, Conclude, PublishPhase, PublishBlocker, Publish,
                      Fresh, memory
  <2> QED BY <1>3, <2>1, <2>2 DEF RunStep
<1>4. ASSUME NEW c \in Controllers, RunOne(c) PROVE pending'.phase # "STOPPED_CLEANLY"
  BY <1>0, <1>4 DEF RunOne, Reject, Admit, Launch, WorkerGone, Interrupt, Unclaim, Halt,
     SettleOne, Failed,
                    Publish, memory
<1>5. ASSUME NEW c \in Controllers, RunBatch(c) PROVE pending'.phase # "STOPPED_CLEANLY"
  <2>1. CASE VetReject(c) \/ VetAccept(c) \/ Vetted(c) \/ Unwind(c)
    BY <1>0, <2>1 DEF VetReject, VetAccept, Vetted, Unwind, Publish
  <2>2. CASE SpawnBatch(c) \/ BatchOver \/ InterruptBatch \/ Collect(c) \/ Collected(c)
    BY <1>0, <2>2 DEF SpawnBatch, BatchOver, InterruptBatch, Collect, Collected, memory
  <2> QED BY <1>5, <2>1, <2>2 DEF RunBatch
<1>6. CASE TickAtWork \/ TickInBatch
  BY <1>0, <1>6 DEF TickAtWork, TickInBatch, Publish
<1>9. ASSUME NEW c \in Controllers, Fault(c) PROVE pending'.phase # "STOPPED_CLEANLY"
  BY <1>9, FaultCases
<1>7. CASE (\E e \in Experiments : Work(e) \/ WorkerExit(e) \/ Stray(e)) \/ RequestStop \/ Terminate
           \/ Deploy
  BY <1>0, <1>7 DEF Work, WorkerExit, Stray, RequestStop, Terminate, Deploy, memory
<1>8. CASE UNCHANGED mvars
  BY <1>0, <1>8 DEF mvars, memory
<1> QED BY <1>1, <1>2, <1>3, <1>4, <1>5, <1>6, <1>7, <1>8, <1>9 DEF MissionNext, Controller

\* Where a clean stop may be read, little can happen.
LEMMA FewStepsAtStop ==
  ASSUME NEW c \in Controllers, Controller(c), pc \in {"stopping", "booting", "announcing",
  "down"}
  PROVE  (Leave(c) /\ pc = "stopping") \/ ReadPrevious \/ Announce
<1>1. CASE Initialize(c)
  BY <1>1 DEF Initialize, Recover, RestoreBlock, Resume, Publish, At
<1>2. CASE RunStep(c)
  <2>1. ~\/ CheckStop \/ Tick \/ StayBlocked \/ Dispatch(c) \/ Plan(c)
    BY DEF CheckStop, Tick, StayBlocked, Dispatch, Plan, Publish, At
  <2>2. ~\/ Refuse \/ FollowUp(c) \/ RouteToBlock \/ Lift \/ Reconciled
    BY DEF Refuse, FollowUp, RouteToBlock, Lift, Reconciled, Reconciling, Publish, At
  <2>3. ~\/ Conclude \/ PublishPhase \/ PublishBlocker \/ UpdateForward(c) \/ SkipUpdate
    BY DEF Conclude, PublishPhase, PublishBlocker, UpdateForward, SkipUpdate, Publish, At
  <2> QED BY <1>2, <2>1, <2>2, <2>3 DEF RunStep, Leave, At
<1>3. ~RunOne(c)
  BY DEF RunOne, Reject, Admit, Launch, WorkerGone, Interrupt, Unclaim, Halt, SettleOne,
     Failed, Publish, At
<1>4. ~RunBatch(c)
  BY DEF RunBatch, VetReject, VetAccept, Vetted, SpawnBatch, BatchOver, InterruptBatch, Unwind,
         Collect, Collected, Publish, At
<1> QED BY <1>1, <1>2, <1>3, <1>4 DEF Controller

\* The phase of a clean stop is written by the check for a stop alone.
LEMMA StopIsWritten ==
  ASSUME MissionInv, NEW c \in Controllers, Controller(c), phase' = "STOPPED_CLEANLY"
  PROVE  CheckStop \/ phase = "STOPPED_CLEANLY"
<1>0. pending.phase # "STOPPED_CLEANLY"
  BY DEF MissionInv, PlaceInv, StopIsPlace
<1>1. CASE Initialize(c)
  BY <1>1 DEF Initialize, ReadPrevious, Announce, Recover, RestoreBlock, Resume, kv
<1>2. CASE RunStep(c)
  <2>1. CASE PublishPhase
    BY <1>0, <2>1 DEF PublishPhase
  <2>2. CASE \/ Leave(c) \/ Tick \/ StayBlocked \/ Refuse \/ Dispatch(c) \/ Plan(c) \/ FollowUp(c)
             \/ RouteToBlock \/ Lift \/ Reconciled \/ Conclude \/ PublishBlocker
             \/ UpdateForward(c) \/ SkipUpdate
    BY <2>2 DEF UpdateForward, SkipUpdate, Leave, Tick, StayBlocked, Refuse, Dispatch, Plan, FollowUp, RouteToBlock, Lift,
                Reconciled, Conclude, PublishBlocker, kv
  <2> QED BY <1>2, <2>1, <2>2 DEF RunStep
<1>3. CASE RunOne(c)
  BY <1>3 DEF RunOne, Reject, Admit, Launch, WorkerGone, Interrupt, Unclaim, Halt, SettleOne, kv
<1>4. CASE RunBatch(c)
  BY <1>4 DEF RunBatch, VetReject, VetAccept, Vetted, SpawnBatch, BatchOver, InterruptBatch,
     Unwind,
              Collect, Collected, kv
<1> QED BY <1>1, <1>2, <1>3, <1>4 DEF Controller

\* Every step keeps the phase of a clean stop true.
LEMMA StopStep ==
  ASSUME MissionInv, [MissionNext]_mvars
  PROVE  StopIsPlace'
<1> DEFINE Stopped == pc \in {"stopping", "down", "booting", "announcing"} /\ Running = {}
<1>0. phase = "STOPPED_CLEANLY" => Stopped
  BY DEF MissionInv, PlaceInv, StopIsPlace
<1>1. ASSUME phase' = "STOPPED_CLEANLY" PROVE Stopped'
  <2>1. ASSUME NEW c \in Controllers, Controller(c) PROVE Stopped'
    <3>1. CASE CheckStop
      <4>1. Running = {}
        BY <2>1, <3>1, NothingRuns DEF Controller, CheckStop, At, Alone
      <4>2. pc' = "stopping" /\ status' = status
        BY <1>1, <3>1, <1>0 DEF CheckStop, At, vars, rows
      <4> QED BY <4>1, <4>2 DEF Running, InStatus
    <3>2. CASE ~CheckStop
      <4>1. phase = "STOPPED_CLEANLY" /\ Stopped
        BY <1>0, <1>1, <2>1, <3>2, StopIsWritten
      <4>2. (Leave(c) /\ pc = "stopping") \/ ReadPrevious \/ Announce
        BY <2>1, <4>1, FewStepsAtStop
      <4>3. status' = status /\ pc' \in {"down", "announcing"}
        BY <1>1, <4>2 DEF Leave, StopCleanly, Die, ReadPrevious, Announce, At, vars, rows
      <4> QED BY <4>1, <4>3 DEF Running, InStatus
    <3> QED BY <3>1, <3>2
  <2>2. ASSUME NEW c \in Controllers, Boot(c) \/ Perish(c) PROVE Stopped'
    <3>1. phase = "STOPPED_CLEANLY"
      BY <1>1, <2>2 DEF Boot, Perish, kv
    <3>2. status' = status /\ pc' \in {"booting", "down"}
      BY <2>2 DEF Boot, Perish, At, Start, Crash, Die, rows
    <3> QED BY <1>0, <3>1, <3>2 DEF Running, InStatus
  <2>5. ASSUME NEW c \in Controllers, Fault(c) PROVE Stopped'
    <3>1. phase = "STOPPED_CLEANLY" /\ pc \in {"launching", "working", "settling"}
      BY <1>1, <2>5, FaultCases DEF kv
    <3> QED BY <1>0, <3>1
  <2>3. CASE TickAtWork \/ TickInBatch
    <3>1. phase = "STOPPED_CLEANLY" /\ pc \in {"working", "running"}
      BY <1>1, <2>3 DEF TickAtWork, TickInBatch, Publish, At, kv
    <3> QED BY <1>0, <3>1
  <2>4. CASE \/ \E e \in Experiments : Work(e) \/ WorkerExit(e) \/ Stray(e)
             \/ RequestStop \/ Terminate \/ Deploy \/ UNCHANGED mvars
    <3>1. phase' = phase /\ pc' = pc /\ status' = status
      BY <2>4 DEF Work, WorkerExit, Stray, RequestStop, Terminate, Deploy, mvars, kv, vars, rows
    <3> QED BY <1>0, <1>1, <3>1 DEF Running, InStatus
  <2> QED BY <2>1, <2>2, <2>3, <2>4, <2>5 DEF MissionNext
<1> QED BY <1>1, PendingStep DEF StopIsPlace

-----------------------------------------------------------------------------
(* Strays and the attempts they cost.                                      *)

\* The process that is up makes no stray as long as it does not fault.
LEMMA ControllerLeaves ==
  ASSUME NEW c \in Controllers, Controller(c)
  PROVE  UNCHANGED left
<1>1. CASE Initialize(c)
  BY <1>1 DEF Initialize, ReadPrevious, Announce, Recover, RestoreBlock, Resume, world
<1>2. CASE RunStep(c)
  <2>1. CASE \/ CheckStop \/ Leave(c) \/ Tick \/ StayBlocked \/ Dispatch(c) \/ Plan(c)
             \/ FollowUp(c) \/ Reconciled \/ UpdateForward(c) \/ SkipUpdate
    BY <2>1 DEF CheckStop, Leave, Tick, StayBlocked, Dispatch, Plan, FollowUp, Reconciled,
                UpdateForward, SkipUpdate, world
  <2>2. CASE \/ Refuse \/ RouteToBlock \/ Lift \/ Conclude \/ PublishPhase \/ PublishBlocker
    BY <2>2 DEF Refuse, RouteToBlock, Lift, Conclude, PublishPhase, PublishBlocker, world
  <2> QED BY <1>2, <2>1, <2>2 DEF RunStep
<1>3. CASE RunOne(c)
  BY <1>3 DEF RunOne, Reject, Admit, Launch, WorkerGone, Interrupt, Unclaim, Halt, SettleOne, world
<1>4. CASE RunBatch(c)
  BY <1>4 DEF RunBatch, VetReject, VetAccept, Vetted, SpawnBatch, BatchOver, InterruptBatch,
              Unwind, Collect, Collected, world
<1> QED BY <1>1, <1>2, <1>3, <1>4 DEF Controller

\* No step of the queue takes a wasted run back.
LEMMA SpentGrows ==
  ASSUME IInv, [Next]_vars, NEW e \in Experiments
  PROVE  SpentOf[e] \in Nat /\ SpentOf'[e] \in Nat /\ SpentOf[e] <= SpentOf'[e]
<1>1. IInv'
  BY InvStep
<1>2. SpentOf[e] \in Nat /\ SpentOf'[e] \in Nat
  BY <1>1, MappedType, MappedNext DEF Mapped
<1>3. Ledger!Step(e)
  BY <1>1, EveryRowMoves, RowMoveIsStep
<1> QED
  BY <1>2, <1>3
     DEF Ledger!Step, Ledger!Submit, Ledger!Begin, Ledger!Finish, Ledger!HandBack, Ledger!Waste,
         Ledger!GiveUp, Ledger!Shelve, Ledger!Reopen, Ledger!Rest, Ledger!Free, Ledger!Charged

\* A run that is failed is a wasted one.
LEMMA FailSpends ==
  ASSUME IInv, NEW c \in Controllers, NEW k \in claims[c], NEW r \in BOOLEAN, Fail(c, k, r)
  PROVE  SpentOf'[k.id] = SpentOf[k.id] + 1
<1>1. k.id \in Experiments /\ status[k.id] = "RUNNING" /\ attempt[k.id] \in Nat
  BY HeldRow DEF IInv, TypeOK
<1>2. status'[k.id] \in {"QUEUED", "FAILED"} /\ attempt' = attempt
  BY SettledRow DEF Fail
<1> QED BY <1>1, <1>2 DEF SpentOf, Unwasted

\* Every step keeps the strays of an experiment within its wasted runs.
LEMMA StraysStep == MissionInv /\ [MissionNext]_mvars => StraysAreSpent'
<1> SUFFICES ASSUME MissionInv, [MissionNext]_mvars, NEW e \in Experiments
             PROVE  strays'[e] <= SpentOf'[e] /\ (strays'[e] > 0 => e \in faulted')
  BY DEF StraysAreSpent
<1>0. /\ strays \in [Experiments -> Nat] /\ strays[e] \in Nat
      /\ strays[e] <= SpentOf[e] /\ (strays[e] > 0 => e \in faulted)
  BY DEF MissionInv, MissionTypeOK, PlaceInv, StraysAreSpent
<1>1. SpentOf[e] \in Nat /\ SpentOf'[e] \in Nat /\ SpentOf[e] <= SpentOf'[e]
  BY MissionUsesQueue, SpentGrows DEF MissionInv
<1>2. ASSUME strays'[e] \in Nat, strays'[e] <= strays[e], faulted' = faulted
      PROVE  strays'[e] <= SpentOf'[e] /\ (strays'[e] > 0 => e \in faulted')
  BY <1>0, <1>1, <1>2
<1>3. CASE UNCHANGED left
  BY <1>0, <1>2, <1>3 DEF left
<1>4. CASE \/ \E c \in Controllers : Boot(c) \/ Perish(c)
           \/ (\E f \in Experiments : Work(f) \/ WorkerExit(f) \/ Stray(f)) \/ Terminate
  <2>1. strays'[e] \in Nat /\ strays'[e] <= strays[e] /\ faulted' = faulted
    BY <1>0, <1>4 DEF Boot, Perish, NoStrays, Work, WorkerExit, Stray, Terminate, left, world
  <2> QED BY <1>2, <2>1
<1>5. ASSUME NEW c \in Controllers, Fault(c)
      PROVE  strays'[e] <= SpentOf'[e] /\ (strays'[e] > 0 => e \in faulted')
  <2>1. PICK k \in claims[c] : /\ \E r \in BOOLEAN : Fail(c, k, r)
                              /\ strays' = [strays EXCEPT ![k.id] = Unwatched(k.id)]
                              /\ faulted' = faulted \cup {k.id}
    BY <1>5, FaultCases
  <2>2. CASE e = k.id
    <3>1. SpentOf'[e] = SpentOf[e] + 1
      BY <2>1, <2>2, FailSpends DEF MissionInv
    <3>2. strays'[e] \in Nat /\ strays'[e] <= strays[e] + 1 /\ e \in faulted'
      BY <1>0, <2>1, <2>2 DEF Unwatched
    <3> QED BY <1>0, <1>1, <3>1, <3>2
  <2>3. CASE e # k.id
    <3>1. strays'[e] = strays[e] /\ faulted \subseteq faulted'
      BY <1>0, <2>1, <2>3
    <3> QED BY <1>0, <1>1, <3>1
  <2> QED BY <2>2, <2>3
<1>6. CASE TickAtWork \/ TickInBatch \/ RequestStop \/ Deploy \/ UNCHANGED mvars
  BY <1>3, <1>6 DEF TickAtWork, TickInBatch, RequestStop, Deploy, mvars, world
<1> QED BY <1>3, <1>4, <1>5, <1>6, ControllerLeaves DEF MissionNext

-----------------------------------------------------------------------------
(* Verdicts and results.                                                   *)

\* A row at rest agrees with what its worker published.
Verdict1(e) ==
  /\ status[e] = "COMPLETED" => envelope[e] = "ok"
  /\ status[e] = "FAILED" /\ error[e] = "worker" => envelope[e] # "ok"

\* Settling a claim by the envelope of its worker, or without a verdict.
LEMMA SettlesByResult ==
  ASSUME MissionInv, NEW c \in Controllers, NEW k \in claims[c], UNCHANGED <<envelope, left>>,
         \/ envelope[k.id] = "ok" /\ Complete(c, k)
         \/ envelope[k.id] # "ok" /\ \E r \in BOOLEAN : Fail(c, k, r)
         \/ Release(c, k)
         \/ \E why : Block(c, k, why)
  PROVE  VerdictsMatchResults'
<1>1. PICK s, why : /\ Settle(c, k, s, why)
                    /\ s = "COMPLETED" => envelope[k.id] = "ok"
                    /\ s = "FAILED" => envelope[k.id] # "ok"
  BY DEF Complete, Fail, Release, Block
<1>2. status'[k.id] = s
  BY <1>1, SettledRow DEF MissionInv
<1>3. \A e \in Experiments \ {k.id} : status'[e] = status[e] /\ error'[e] = error[e]
  BY <1>1 DEF Settle, MissionInv, IInv, TypeOK
<1>4. VerdictsMatchResults
  BY DEF MissionInv, PlaceInv
<1>5. ASSUME NEW e \in Experiments \ faulted PROVE Verdict1(e)'
  <2>1. CASE e = k.id
    BY <1>1, <1>2, <2>1 DEF Verdict1
  <2>2. CASE e # k.id
    BY <1>3, <1>4, <2>2 DEF Verdict1, VerdictsMatchResults
  <2> QED BY <2>1, <2>2
<1> QED BY <1>5 DEF Verdict1, VerdictsMatchResults, left

\* Spawning removes no result, and only envelopes of claimed rows.
LEMMA SpawnedVerdicts ==
  ASSUME MissionInv, NEW c \in Controllers, Spawned({k.id : k \in claims[c]}),
         UNCHANGED <<vars, left>>
  PROVE  VerdictsMatchResults'
<1>1. UNCHANGED <<status, error>> /\ VerdictsMatchResults
  BY DEF vars, rows, MissionInv, PlaceInv
<1>2. ASSUME NEW e \in Experiments, envelope'[e] # envelope[e] PROVE status[e] = "RUNNING"
  <2>1. e \in {k.id : k \in claims[c]}
    BY <1>2 DEF Spawned, MissionInv, MissionTypeOK
  <2> QED BY <2>1, HeldRow DEF MissionInv
<1> QED BY <1>1, <1>2 DEF VerdictsMatchResults, left

\* The rest of what happens to rows ends no run by its result.
LEMMA RestOfRowsVerdicts ==
  ASSUME MissionInv, NEW c \in Controllers, UNCHANGED <<envelope, faulted>>,
         \/ RecoverCommit(c) \/ (\E e \in Experiments : Enqueue(c, e))
         \/ (\E batch : Claimed(c, batch)) \/ UNCHANGED <<status, error>>
  PROVE  VerdictsMatchResults'
<1>0. VerdictsMatchResults /\ TypeOK /\ IInv
  BY DEF MissionInv, PlaceInv, IInv
<1>1. CASE RecoverCommit(c)
  <2>1. ASSUME NEW e \in Experiments \ faulted PROVE Verdict1(e)'
    <3>1. attempt[e] \in Nat /\ MaxAttempts[e] \in Nat
      BY <1>0, QueueAssumption DEF TypeOK
    <3> QED BY <1>0, <1>1, <3>1, RecoverCommitSettlesAll DEF Verdict1, VerdictsMatchResults
  <2> QED BY <2>1 DEF Verdict1, VerdictsMatchResults
<1>2. ASSUME NEW e \in Experiments, Enqueue(c, e) PROVE VerdictsMatchResults'
  BY <1>0, <1>2 DEF Enqueue, TypeOK, VerdictsMatchResults
<1>3. ASSUME NEW batch, Claimed(c, batch) PROVE VerdictsMatchResults'
  <2>1. \A e \in Experiments :
          \/ status'[e] = "RUNNING"
          \/ status'[e] = status[e] /\ error'[e] = error[e]
    BY <1>3 DEF Claimed
  <2> QED BY <1>0, <2>1 DEF VerdictsMatchResults
<1>4. CASE UNCHANGED <<status, error>>
  BY <1>0, <1>4 DEF VerdictsMatchResults
<1> QED BY <1>1, <1>2, <1>3, <1>4

\* A worker publishes for a row that is RUNNING.
LEMMA WorkVerdicts ==
  ASSUME MissionInv, NEW e \in Experiments, Work(e)
  PROVE  VerdictsMatchResults'
<1>1. status[e] = "RUNNING"
  BY HeldRow DEF Work, MissionInv, PlaceInv, WorkersFitPlace
<1>2. /\ UNCHANGED <<status, error>>
      /\ \A f \in Experiments \ {e} : envelope'[f] = envelope[f]
      /\ faulted' = faulted
  BY DEF Work, left, vars, rows, MissionInv, MissionTypeOK
<1> QED BY <1>1, <1>2 DEF MissionInv, PlaceInv, VerdictsMatchResults

\* A step of the process that is up keeps verdicts and results in agreement.
LEMMA ControllerVerdicts ==
  ASSUME MissionInv, NEW c \in Controllers, Controller(c)
  PROVE  VerdictsMatchResults'
<1>0. UNCHANGED left /\ faulted' = faulted
  BY ControllerLeaves DEF left
<1>1. CASE \/ Recover(c) \/ FollowUp(c) \/ Plan(c) \/ Dispatch(c) \/ Leave(c)
           \/ UpdateForward(c)
  <2>1. UNCHANGED envelope
    BY <1>1 DEF Recover, RecoverScan, RecoverCommit, FollowUp, Plan, Dispatch, Leave,
                UpdateForward, world
  <2>2. \/ RecoverCommit(c) \/ (\E e \in Experiments : Enqueue(c, e))
        \/ (\E batch : Claimed(c, batch)) \/ UNCHANGED <<status, error>>
    <3>1. CASE UpdateForward(c)
      BY <3>1, ForwardAssumption DEF UpdateForward, vars, rows
    <3>2. CASE Dispatch(c)
      BY <3>2 DEF Dispatch
    <3> QED
      BY <1>1, <3>1, <3>2 DEF Recover, RecoverScan, FollowUp, Plan, Leave, StopCleanly, Die, vars,
                              rows
  <2> QED BY <1>0, <2>1, <2>2, RestOfRowsVerdicts
<1>2. CASE Reject(c) \/ Halt(c) \/ VetReject(c) \/ Unclaim(c)
  <2>1. UNCHANGED envelope
    BY <1>2 DEF Reject, Halt, VetReject, Unclaim, world
  <2>2. PICK k \in claims[c] : Block(c, k, "guard") \/ Release(c, k)
    BY <1>2 DEF Reject, Halt, VetReject, Unclaim
  <2> QED BY <1>0, <2>1, <2>2, SettlesByResult
<1>3. CASE Unwind(c)
  <2>1. UNCHANGED envelope
    BY <1>3 DEF Unwind, world
  <2>2. (\E k \in claims[c] : Release(c, k)) \/ UNCHANGED <<status, error>>
    BY <1>3 DEF Unwind, vars, rows
  <2> QED BY <1>0, <2>1, <2>2, SettlesByResult, RestOfRowsVerdicts
<1>4. CASE SettleOne(c)
  BY <1>0, <1>4, SettleOneCases, SettlesByResult DEF SettleOne
<1>5. CASE Collect(c)
  BY <1>0, <1>5, CollectCases, SettlesByResult DEF Collect
<1>6. CASE Launch(c) \/ SpawnBatch(c)
  BY <1>0, <1>6, SpawnedVerdicts DEF Launch, SpawnBatch
<1>7. CASE ReadPrevious \/ Announce \/ RestoreBlock \/ Resume
  BY <1>0, <1>7, RestOfRowsVerdicts DEF ReadPrevious, Announce, RestoreBlock, Resume, vars, rows, world
<1>8. CASE \/ CheckStop \/ Tick \/ StayBlocked \/ Refuse \/ RouteToBlock \/ Lift
           \/ Reconciled \/ Conclude \/ PublishPhase \/ PublishBlocker \/ SkipUpdate
  BY <1>0, <1>8, RestOfRowsVerdicts
     DEF CheckStop, Tick, StayBlocked, Refuse, RouteToBlock, Lift, Reconciled, Conclude,
         PublishPhase, PublishBlocker, SkipUpdate, vars, rows, world
<1>9. CASE \/ Admit \/ WorkerGone \/ Interrupt \/ VetAccept(c) \/ Vetted(c)
           \/ BatchOver \/ InterruptBatch \/ Collected(c)
  BY <1>0, <1>9, RestOfRowsVerdicts
     DEF Admit, WorkerGone, Interrupt, VetAccept, Vetted, BatchOver, InterruptBatch, Collected,
         vars, rows, world
<1> QED
  BY <1>1, <1>2, <1>3, <1>4, <1>5, <1>6, <1>7, <1>8, <1>9
     DEF Controller, Initialize, RunStep, RunOne, RunBatch

\* Every step keeps verdicts and results in agreement.
LEMMA VerdictsStep == MissionInv /\ [MissionNext]_mvars => VerdictsMatchResults'
<1> SUFFICES ASSUME MissionInv, [MissionNext]_mvars PROVE VerdictsMatchResults'
  OBVIOUS
<1>1. ASSUME NEW c \in Controllers, Boot(c) \/ Perish(c) PROVE VerdictsMatchResults'
  BY <1>1, RestOfRowsVerdicts DEF Boot, Start, Perish, Crash, Die, rows, world, left
<1>2. ASSUME NEW e \in Experiments, Work(e) PROVE VerdictsMatchResults'
  BY <1>2, WorkVerdicts
<1>4. ASSUME NEW e \in Experiments, Stray(e) PROVE VerdictsMatchResults'
  <2>1. e \in faulted /\ UNCHANGED <<status, error, faulted>>
    BY <1>4 DEF Stray, MissionInv, PlaceInv, StraysAreSpent, vars, rows
  <2>2. \A f \in Experiments \ {e} : envelope'[f] = envelope[f]
    BY <1>4 DEF Stray, MissionInv, MissionTypeOK
  <2> QED BY <2>1, <2>2 DEF MissionInv, PlaceInv, VerdictsMatchResults
<1>5. ASSUME NEW c \in Controllers, Fault(c) PROVE VerdictsMatchResults'
  <2>1. PICK k \in claims[c] : /\ \E r \in BOOLEAN : Fail(c, k, r)
                              /\ faulted' = faulted \cup {k.id}
    BY <1>5, FaultCases
  <2>2. \A e \in Experiments \ {k.id} : status'[e] = status[e] /\ error'[e] = error[e]
    BY <2>1 DEF Fail, Settle, MissionInv, IInv, TypeOK
  <2>3. envelope' = envelope
    BY <1>5, FaultCases
  <2> QED BY <2>1, <2>2, <2>3 DEF MissionInv, PlaceInv, VerdictsMatchResults
<1>3. CASE \/ TickAtWork \/ TickInBatch \/ (\E e \in Experiments : WorkerExit(e))
           \/ RequestStop \/ Terminate \/ Deploy \/ UNCHANGED mvars
  <2>1. UNCHANGED <<status, error, envelope, faulted>>
    BY <1>3 DEF TickAtWork, TickInBatch, WorkerExit, RequestStop, Terminate, Deploy, mvars, vars,
                rows, left, world
  <2> QED BY <2>1 DEF MissionInv, PlaceInv, VerdictsMatchResults
<1> QED BY <1>1, <1>2, <1>3, <1>4, <1>5, ControllerVerdicts DEF MissionNext

-----------------------------------------------------------------------------
(* The inductive invariant, and what follows from it.                      *)

\* The initial states satisfy it.
LEMMA MissionInvInit == MissionInit => MissionInv
<1> SUFFICES ASSUME MissionInit PROVE MissionInv
  OBVIOUS
<1>1. IInv
  BY InvInit DEF MissionInit
<1>2. OwnTypes
  BY PhaseType, BecauseType DEF MissionInit, OwnTypes, Unset, Fresh
<1>3. MissionTypeOK
  BY <1>1, <1>2 DEF MissionTypeOK, OwnTypes, IInv
<1>4. PlaceInv
  BY QueueAssumption DEF MissionInit, Init, PlaceInv, PlaceKnown, LockIsPlace, ClaimsFitPlace,
     WorkersFitPlace, StopIsPlace, StraysAreSpent, VerdictsMatchResults, SpentOf, Unwasted, Fresh,
     Because, Writing
<1> QED BY <1>1, <1>3, <1>4 DEF MissionInv

\* Every step preserves it.
LEMMA MissionInvStep == MissionInv /\ [MissionNext]_mvars => MissionInv'
<1> SUFFICES ASSUME MissionInv, [MissionNext]_mvars PROVE MissionInv'
  OBVIOUS
<1>1. IInv'
  BY MissionUsesQueue, InvStep DEF MissionInv
<1>2. OwnTypes'
  BY OwnTypesStep DEF MissionInv, MissionTypeOK, OwnTypes
<1>3. MissionTypeOK'
  BY <1>1, <1>2 DEF MissionTypeOK, OwnTypes, IInv
<1>4. PlaceInv'
  BY PlacedStep, StopStep, StraysStep, VerdictsStep DEF PlaceInv, Placed
<1> QED BY <1>1, <1>3, <1>4 DEF MissionInv

\* The mission is always where its lock, its claims, its workers and its
\* phase say it is.
THEOREM MissionInvariance == MissionSpec => []MissionInv
BY MissionInvInit, MissionInvStep, PTL DEF MissionSpec

\* Every variable of the mission stays in its type.
THEOREM MissionTypeCorrect == MissionSpec => []MissionTypeOK
<1>1. MissionInv => MissionTypeOK
  BY DEF MissionInv
<1> QED BY <1>1, MissionInvariance, PTL

\* The controller uses the queue as ExperimentQueue says: every behaviour of
\* the mission, whatever its batches, crashes, signals and stops, is one of
\* the queue.
THEOREM MissionImplementsQueue == MissionSpec => ImplementsQueue
<1>1. MissionInit => Init
  BY DEF MissionInit
<1> QED BY <1>1, MissionUsesQueue, MissionInvariance, PTL DEF MissionSpec, ImplementsQueue, Spec

\* So RUNNING rows are the claims of the process that serves, ...
COROLLARY MissionCustody == MissionSpec => []Custody
BY MissionImplementsQueue, CustodyHolds, PTL DEF ImplementsQueue

\* ... no row is run more often than its specification allows, ...
COROLLARY MissionBudget == MissionSpec => []AttemptBudget
BY MissionImplementsQueue, BudgetHolds, PTL DEF ImplementsQueue

\* ... no two rows run together that share a pipeline or write the ledger, ...
COROLLARY MissionIsolation == MissionSpec => []BatchIsolation
BY MissionImplementsQueue, IsolationHolds, PTL DEF ImplementsQueue

\* ... no outcome is reopened, ...
COROLLARY MissionOutcomesAreFinal == MissionSpec => OutcomeIsFinal
BY MissionImplementsQueue, OutcomesAreFinal DEF ImplementsQueue

\* ... and the mission's retries, crashes and stops are accounted for as the
\* abstract ledger says.
COROLLARY MissionImplementsLedger == MissionSpec => ImplementsLedger
BY MissionImplementsQueue, Refinement DEF ImplementsQueue

\* Whoever works on an experiment is accounted for: a watched worker by the
\* claim it works for, and every process by an attempt charged to the row.
THEOREM WorkersClaimed == MissionSpec => []WorkersAreClaimed
<1>1. ASSUME MissionInv, NEW e \in Alive
      PROVE  /\ \E c \in Controllers : \E k \in claims[c] : k.id = e /\ Holds(k)
             /\ status[e] = "RUNNING"
  <2>1. PICK c \in Controllers : \E k \in claims[c] : k.id = e
    BY <1>1 DEF MissionInv, PlaceInv, WorkersFitPlace, Alive
  <2>2. PICK k \in claims[c] : k.id = e
    BY <2>1
  <2>3. claims[c] = {[id |-> f, token |-> token[f]] : f \in Running}
    BY <1>1, <2>2 DEF MissionInv, IInv, Custody, ClaimsAreServed
  <2>4. token[k.id] = k.token
    BY <2>2, <2>3
  <2> QED BY <1>1, <2>2, <2>4, HeldRow DEF MissionInv, Holds
<1>2. ASSUME MissionInv, NEW e \in Experiments
      PROVE  strays[e] + (IF e \in Alive THEN 1 ELSE 0) <= attempt[e]
  <2>1. strays[e] \in Nat /\ attempt[e] \in Nat /\ strays[e] <= SpentOf[e]
    BY <1>2 DEF MissionInv, MissionTypeOK, PlaceInv, StraysAreSpent, TypeOK
  <2>2. SpentOf[e] = IF Unwasted(e) THEN attempt[e] - 1 ELSE attempt[e]
    BY DEF SpentOf
  <2>3. e \in Alive => Unwasted(e)
    BY <1>1, <1>2 DEF Unwasted
  <2> QED BY <2>1, <2>2, <2>3
<1>3. MissionInv => WorkersAreClaimed
  BY <1>1, <1>2 DEF WorkersAreClaimed
<1> QED BY <1>3, MissionInvariance, PTL

\* A completed row has a result, and a row failed by its worker has none,
\* but for those one of whose runs the controller gave up.
THEOREM VerdictsMatch == MissionSpec => []VerdictsMatchResults
<1>1. MissionInv => VerdictsMatchResults
  BY DEF MissionInv, PlaceInv
<1> QED BY <1>1, MissionInvariance, PTL

\* A clean stop leaves no row RUNNING, no claim and no watched worker.
THEOREM StopLeaves == MissionSpec => []StopLeavesNothing
<1>1. MissionInv => StopLeavesNothing
  <2> SUFFICES ASSUME MissionInv, phase = "STOPPED_CLEANLY"
               PROVE  Running = {} /\ Alive = {} /\ \A c \in Controllers : claims[c] = {}
    BY DEF StopLeavesNothing
  <2>1. Running = {} /\ pc \in {"stopping", "down", "booting", "announcing"}
    BY DEF MissionInv, PlaceInv, StopIsPlace
  <2>2. Alive = {}
    BY <2>1 DEF MissionInv, PlaceInv, WorkersFitPlace, Here, Writing, Alive
  <2>3. ASSUME NEW c \in Controllers PROVE claims[c] = {}
    BY <2>1 DEF MissionInv, IInv, Custody, ClaimsAreServed
  <2> QED BY <2>1, <2>2, <2>3
<1> QED BY <1>1, MissionInvariance, PTL

-----------------------------------------------------------------------------
(* Published results.                                                      *)

\* A published result stays, and nobody is spawned to publish it again.
Kept(e) == envelope'[e] = "ok" /\ worker'[e] # "alive"

\* A step of the process that is up keeps published results.
LEMMA ControllerKeeps ==
  ASSUME MissionInv, NEW c \in Controllers, Controller(c),
         NEW e \in Experiments, envelope[e] = "ok", worker[e] # "alive"
  PROVE  Kept(e)
<1>1. CASE Launch(c) \/ SpawnBatch(c)
  BY <1>1 DEF Launch, SpawnBatch, Spawned, Kept
<1>2. CASE Interrupt \/ Unclaim(c) \/ Halt(c) \/ SettleOne(c) \/ InterruptBatch
  BY <1>2 DEF Interrupt, Unclaim, Halt, SettleOne, InterruptBatch, NoWorkers, Kept
<1>3. CASE Collect(c)
  <2>1. PICK k \in claims[c] : worker' = [worker EXCEPT ![k.id] = "none"]
    BY <1>3, CollectCases
  <2>2. worker \in [Experiments -> {"none", "alive", "published", "dead", "killed"}]
    BY DEF MissionInv, MissionTypeOK
  <2> QED BY <1>3, <2>1, <2>2 DEF Collect, Kept
<1>4. CASE Initialize(c)
  BY <1>4 DEF Initialize, ReadPrevious, Announce, Recover, RestoreBlock, Resume, world, Kept
<1>5. CASE RunStep(c)
  <2>1. envelope' = envelope /\ worker' = worker
    BY <1>5 DEF RunStep, CheckStop, Leave, Tick, UpdateForward, SkipUpdate, StayBlocked, Refuse,
                Dispatch, Plan, FollowUp, RouteToBlock, Lift, Reconciled, Conclude, PublishPhase,
                PublishBlocker, world
  <2> QED BY <2>1 DEF Kept
<1>6. CASE \/ Reject(c) \/ Admit \/ WorkerGone \/ VetReject(c) \/ VetAccept(c) \/ Vetted(c)
           \/ BatchOver \/ Unwind(c) \/ Collected(c)
  BY <1>6 DEF Reject, Admit, WorkerGone, VetReject, VetAccept, Vetted, BatchOver, Unwind,
              Collected, world, Kept
<1> QED BY <1>1, <1>2, <1>3, <1>4, <1>5, <1>6 DEF Controller, RunOne, RunBatch

\* Every step keeps published results.
LEMMA EveryStepKeeps ==
  MissionInv /\ [MissionNext]_mvars =>
    \A e \in Experiments : envelope[e] = "ok" /\ worker[e] # "alive" /\ strays[e] = 0 => Kept(e)
<1> SUFFICES ASSUME MissionInv, [MissionNext]_mvars, NEW e \in Experiments,
                    envelope[e] = "ok", worker[e] # "alive", strays[e] = 0
             PROVE  Kept(e)
  OBVIOUS
<1>0. /\ envelope \in [Experiments -> {"none", "ok", "failed"}]
      /\ worker \in [Experiments -> {"none", "alive", "published", "dead", "killed"}]
  BY DEF MissionInv, MissionTypeOK
<1>1. ASSUME NEW c \in Controllers, Boot(c) \/ Perish(c) PROVE Kept(e)
  BY <1>1 DEF Boot, Perish, NoWorkers, world, Kept
<1>2. ASSUME NEW f \in Experiments, Work(f) \/ WorkerExit(f) PROVE Kept(e)
  BY <1>0, <1>2 DEF Work, WorkerExit, Kept
<1>3. CASE TickAtWork \/ TickInBatch \/ RequestStop \/ Terminate \/ Deploy \/ UNCHANGED mvars
  BY <1>0, <1>3 DEF TickAtWork, TickInBatch, RequestStop, Terminate, Deploy, mvars, world, Kept
<1>4. ASSUME NEW f \in Experiments, Stray(f) PROVE Kept(e)
  <2>1. f # e
    BY <1>4 DEF Stray
  <2> QED BY <1>0, <1>4, <2>1 DEF Stray, Kept
<1>5. ASSUME NEW c \in Controllers, Fault(c) PROVE Kept(e)
  BY <1>5, FaultCases DEF NoWorkers, Kept
<1> QED BY <1>1, <1>2, <1>3, <1>4, <1>5, ControllerKeeps DEF MissionNext

\* Work whose result is published is never done again, across crashes,
\* stops, faults and retries, unless a stray is at it.
THEOREM NoRepetition == MissionSpec => NoWorkRepeated
<1>1. MissionInv /\ [MissionNext]_mvars =>
        [\A e \in Experiments : KeepsResult(e)]_mvars
  BY EveryStepKeeps DEF Kept, KeepsResult
<1> QED BY <1>1, MissionInvariance, PTL DEF MissionSpec, NoWorkRepeated

\* Workers, verdicts, stops and finished work, together: what the run of
\* batches checks.
THEOREM MissionSafe == MissionSpec => MissionIsSafe
BY WorkersClaimed, VerdictsMatch, StopLeaves, NoRepetition, PTL DEF MissionIsSafe, NoWorkRepeated

-----------------------------------------------------------------------------
(* A single worker: blocks and stops.                                      *)

\* On the single path a step leads on along the path or back to the loop.
LEMMA RunOneLeads ==
  ASSUME MissionInv, NEW c \in Controllers, owner = c, RunOne(c)
  PROVE  Here' \in Alone \cup Solo
<1>1. CASE Reject(c) \/ Unclaim(c) \/ Halt(c)
  BY <1>1 DEF Reject, Unclaim, Halt, Publish, At, Here, Alone, Writing
<1>2. CASE Admit \/ Launch(c) \/ WorkerGone \/ Interrupt
  BY <1>2 DEF Admit, Launch, WorkerGone, Interrupt, At, Here, Solo, Writing
<1>3. CASE SettleOne(c)
  BY <1>3 DEF SettleOne, Failed, Publish, At, Here, Alone, Writing
<1> QED BY <1>1, <1>2, <1>3 DEF RunOne

\* The three facts of SingleInv next to the place.
UnderWork ==
  pc \in {"checking", "launching", "working", "releasing", "settling"} => phase \notin Blocked
LiftIsDue ==
  pc = "publishing" /\ phase \in Blocked /\ pending.phase \notin Blocked =>
    \/ blocker.why \in {"failed", "routed", "feed", "data"}
    \/ phase # "INTEGRITY_BLOCKED" /\ Forwarded /\ pending.next = "deciding"
KillIsKnown ==
  \A e \in Experiments : worker[e] = "killed" =>
    shutdown /\ Here \in {"working", "releasing", "halting"}

\* SingleInv is the place and these three.
LEMMA SingleParts == SingleInv <=> Here \notin Many /\ UnderWork /\ LiftIsDue /\ KillIsKnown
BY DEF SingleInv, UnderWork, LiftIsDue, KillIsKnown

\* Start-up and stop keep them: nothing is worked on.
LEMMA ComeAndGoSingle ==
  ASSUME MissionInv, NEW c \in Controllers,
         Boot(c) \/ Perish(c)
         \/ (owner = c /\ (ReadPrevious \/ Announce \/ Recover(c) \/ Leave(c)))
  PROVE  SingleInv'
<1>1. pc' \in {"booting", "announcing", "scanning", "recovering", "reconciling", "down"}
  BY DEF Boot, Perish, ReadPrevious, Announce, Recover, Leave, At
<1>2. Placed'
  BY ComeAndGoPlaced
<1>3. \A e \in Experiments : worker'[e] = "none"
  BY <1>1, <1>2 DEF Placed, WorkersFitPlace, Here, Writing
<1> QED BY <1>1, <1>3 DEF SingleInv, Here, Many, Writing

\* A forward update that publishes a phase that is not blocked is in the
\* queue by then.
LEMMA UpdateIsQueued ==
  ASSUME MissionInv, NEW c \in Controllers, UpdateForward(c), pending'.phase \notin Blocked
  PROVE  Forwarded'
<1>1. CASE Forwarded /\ UNCHANGED vars
  BY <1>1 DEF Forwarded, vars, rows
<1>2. CASE \E e \in Forward : Enqueue(c, e)
  <2>1. PICK e \in Forward : Enqueue(c, e)
    BY <1>2
  <2>2. e \in Experiments /\ DOMAIN status = Experiments
    BY ForwardAssumption DEF MissionInv, IInv, TypeOK
  <2>3. status'[e] = "QUEUED"
    BY <2>1, <2>2 DEF Enqueue
  <2> QED BY <2>3 DEF Forwarded
<1> QED BY <1>1, <1>2 DEF UpdateForward, Publish, Blocked

\* The loop keeps them: a phase that is not blocked is written over a block
\* by the lifting of it and by a forward update alone.
LEMMA LoopSingle ==
  ASSUME MissionInv, NEW c \in Controllers, owner = c,
         \/ CheckStop \/ Tick \/ StayBlocked \/ Refuse \/ Plan(c) \/ FollowUp(c)
         \/ RouteToBlock \/ Lift \/ Reconciled \/ Conclude \/ RestoreBlock \/ Resume
         \/ UpdateForward(c) \/ SkipUpdate
  PROVE  SingleInv'
<1>1. /\ pc \in Alone /\ Here' \in Alone /\ pc' \in Alone \cup Writing
      /\ UNCHANGED <<owner, stage, claims, worker>>
  BY LoopArrives
<1>2. \A e \in Experiments : worker'[e] = "none"
  BY <1>1, NothingRuns
<1>3. Here' \notin Many /\ UnderWork'
  BY <1>1 DEF Alone, Many, Writing, UnderWork
<1>4. LiftIsDue'
  <2>1. CASE CheckStop \/ StayBlocked \/ FollowUp(c) \/ Reconciled
    <3>1. pc' \in Alone
      BY <2>1 DEF CheckStop, StayBlocked, FollowUp, Reconciled, Reconciling, AfterReconciling, At,
                  Alone
    <3> QED BY <3>1 DEF LiftIsDue, Alone
  <2>2. CASE Tick \/ Refuse \/ RouteToBlock \/ RestoreBlock
    BY <2>2 DEF Tick, Refuse, RouteToBlock, RestoreBlock, Publish, At, LiftIsDue, Blocked
  <2>3. CASE Plan(c) \/ Conclude \/ Resume
    BY <2>3 DEF Plan, Conclude, Resume, Publish, At, LiftIsDue, Blocked, kv
  <2>4. CASE Lift
    <3>1. phase' = phase /\ blocker' = blocker
      BY <2>4 DEF Lift, kv
    <3> QED BY <2>4, <3>1 DEF Lift, LiftIsDue
  <2>5. CASE SkipUpdate
    BY <2>5 DEF SkipUpdate, At, LiftIsDue
  <2>6. CASE UpdateForward(c)
    <3>1. phase' = phase /\ blocker' = blocker
      BY <2>6 DEF UpdateForward, kv
    <3>2. pending'.phase \notin Blocked =>
            Forwarded' /\ (phase = "INTEGRITY_BLOCKED" => blocker.why = "data")
      BY <2>6, UpdateIsQueued DEF UpdateForward, Feedable
    <3>3. pending'.next = "deciding"
      BY <2>6 DEF UpdateForward, Publish
    <3> QED BY <3>1, <3>2, <3>3 DEF LiftIsDue
  <2> QED BY <2>1, <2>2, <2>3, <2>4, <2>5, <2>6
<1> QED BY <1>2, <1>3, <1>4 DEF SingleInv, UnderWork, LiftIsDue

\* Working on one row keeps them: the stop is looked for before a result is
\* read, so a row whose worker was killed is not settled.
LEMMA RunOneSingle ==
  ASSUME MissionInv, SingleInv, NEW c \in Controllers, owner = c, RunOne(c)
  PROVE  SingleInv'
<1>0. /\ UnderWork /\ KillIsKnown /\ WorkersFitPlace
      /\ worker \in [Experiments -> {"none", "alive", "published", "dead", "killed"}]
  BY SingleParts DEF MissionInv, PlaceInv, MissionTypeOK
<1>1. Here' \notin Many
  BY RunOneLeads DEF Alone, Solo, Many
<1>2. CASE Reject(c) \/ Unclaim(c) \/ Halt(c)
  <2>1. pc' = "publishing" /\ phase' = phase /\ (pc = "releasing" \/ pending'.phase \in Blocked)
    BY <1>2 DEF Reject, Unclaim, Halt, Publish, At, Blocked, kv
  <2>2. \A e \in Experiments : worker'[e] # "killed"
    BY <1>0, <1>2 DEF Reject, Unclaim, Halt, NoWorkers, Publish, At, KillIsKnown, Here,
       Writing, world
  <2> QED BY <1>0, <1>1, <2>1, <2>2 DEF SingleInv, UnderWork
<1>3. CASE Admit
  <2>1. pc = "checking" /\ pc' = "launching" /\ worker' = worker /\ phase' \notin Blocked
    BY <1>3 DEF Admit, At, Blocked, world
  <2> QED BY <1>0, <1>1, <2>1 DEF SingleInv, KillIsKnown, Here, Writing
<1>4. CASE Launch(c)
  <2>1. pc = "launching" /\ pc' \in {"working", "settling"} /\ phase' = phase
    BY <1>4 DEF Launch, At, kv
  <2>2. \A e \in Experiments : worker'[e] # "killed"
    BY <1>4 DEF Launch, Spawned
  <2> QED BY <1>0, <1>1, <2>1, <2>2 DEF SingleInv, UnderWork
<1>5. CASE WorkerGone
  <2>1. /\ pc = "working" /\ UNCHANGED <<worker, phase, shutdown>>
        /\ pc' = IF shutdown \/ stopFile THEN "releasing" ELSE "settling"
    BY <1>5 DEF WorkerGone, StopAsked, At, kv, memory, world
  <2> QED BY <1>0, <1>1, <2>1 DEF SingleInv, UnderWork, KillIsKnown, Here, Writing
<1>6. CASE Interrupt
  <2>1. pc = "working" /\ pc' = "releasing" /\ phase' = phase
    BY <1>6 DEF Interrupt, At, kv
  <2>2. \A e \in Experiments : worker'[e] # "killed"
    BY <1>6 DEF Interrupt, NoWorkers
  <2> QED BY <1>0, <1>1, <2>1, <2>2 DEF SingleInv, UnderWork
<1>7. CASE SettleOne(c)
  <2>1. pc = "settling" /\ pc' \in {"publishing", "reconciling"} /\ phase' = phase
    BY <1>7 DEF SettleOne, Failed, Publish, At, kv
  <2>2. \A e \in Experiments : worker'[e] # "killed"
    BY <1>7 DEF SettleOne, NoWorkers
  <2> QED BY <1>0, <1>1, <2>1, <2>2 DEF SingleInv, UnderWork
<1> QED BY <1>2, <1>3, <1>4, <1>5, <1>6, <1>7 DEF RunOne

\* A fault of the controller keeps them: it gives the run up under a phase
\* that is not blocked, and leaves it with no worker.
LEMMA FaultSingle ==
  ASSUME MissionInv, SingleInv, NEW c \in Controllers, owner = c, Fault(c)
  PROVE  SingleInv'
<1>1. phase' = phase /\ phase \notin Blocked
  BY FaultCases DEF SingleInv, kv
<1>2. pc' = "publishing" /\ Here' \in Alone
  BY FaultCases DEF Here, Writing, Alone
<1>3. \A e \in Experiments : worker'[e] # "killed"
  BY FaultCases DEF NoWorkers
<1> QED BY <1>1, <1>2, <1>3 DEF SingleInv, Alone, Many

\* Writing a pair keeps them: it leads to no place where a row is worked on.
LEMMA WriteSingle ==
  ASSUME MissionInv, SingleInv, PublishPhase \/ PublishBlocker
  PROVE  SingleInv'
<1>1. pc \in Writing /\ Here' = Here /\ UNCHANGED <<worker, shutdown>>
  BY DEF PublishPhase, PublishBlocker, MissionInv, PlaceInv, PlaceKnown, At, Here, Writing, Alone,
         memory, world
<1>2. pc' \in Targets \cup {"labelling"}
  BY DEF PublishPhase, PublishBlocker, At, MissionInv, PlaceInv, PlaceKnown, Targets, Writing
<1> QED BY <1>1, <1>2 DEF SingleInv, Targets, Alone

\* Dispatching to the only worker keeps them.
LEMMA DispatchSingle ==
  ASSUME MissionInv, WorkerLimit = 1, NEW c \in Controllers, owner = c, Dispatch(c)
  PROVE  SingleInv'
<1>1. pc = "deciding" /\ pc' = "checking" /\ phase' \notin Blocked /\ worker' = worker
  BY DEF Dispatch, At, kv, world
<1>2. \A e \in Experiments : worker'[e] = "none"
  BY <1>1, NothingRuns DEF Alone
<1> QED BY <1>1, <1>2 DEF SingleInv, Here, Many, Writing

\* Workers, signals and the operator keep them: a signal that kills a worker
\* is known to the process.
LEMMA OutsideSingle ==
  ASSUME MissionInv, SingleInv,
         (\E e \in Experiments : Work(e) \/ WorkerExit(e) \/ Stray(e))
           \/ RequestStop \/ Terminate \/ Deploy \/ UNCHANGED mvars
  PROVE  SingleInv'
<1>0. /\ worker \in [Experiments -> {"none", "alive", "published", "dead", "killed"}]
      /\ WorkersFitPlace /\ Here \notin Many
  BY DEF MissionInv, PlaceInv, MissionTypeOK, SingleInv
<1>1. UNCHANGED <<phase, blocker, pc, pending, status>>
  BY DEF Work, WorkerExit, Stray, RequestStop, Terminate, Deploy, mvars, memory, kv, vars, rows
<1>2. ASSUME NEW e \in Experiments, worker'[e] = "killed"
      PROVE  shutdown' /\ Here \in {"working", "releasing", "halting"}
  <2>1. CASE worker[e] = "killed"
    <3>1. shutdown /\ Here \in {"working", "releasing", "halting"}
      BY <2>1 DEF SingleInv
    <3>2. shutdown'
      BY <3>1 DEF Work, WorkerExit, Stray, RequestStop, Terminate, Deploy, mvars, memory
    <3> QED BY <3>1, <3>2
  <2>2. CASE worker[e] # "killed"
    <3>1. Terminate /\ e \in Alive
      BY <1>0, <1>2, <2>2 DEF Work, WorkerExit, Stray, RequestStop, Terminate, Deploy, mvars, world,
                              Alive
    <3>2. Here \in {"working", "halting"}
      BY <1>0, <3>1 DEF WorkersFitPlace, Many, Alive
    <3> QED BY <3>1, <3>2 DEF Terminate
  <2> QED BY <2>1, <2>2
<1>3. Here' = Here /\ Forwarded' = Forwarded
  BY <1>1 DEF Here, Forwarded
<1> QED BY <1>1, <1>2, <1>3 DEF SingleInv

\* A failing heartbeat keeps them.
LEMMA TickSingle ==
  ASSUME MissionInv, SingleInv, TickAtWork \/ TickInBatch
  PROVE  SingleInv'
<1>1. pc # "running"
  BY DEF SingleInv, Here, Writing, Many
<1>2. /\ pc = "working" /\ pc' = "publishing" /\ pending'.next = "halting"
      /\ pending'.phase \in Blocked /\ UNCHANGED <<worker, shutdown>>
  BY <1>1 DEF TickAtWork, TickInBatch, Publish, At, Blocked, world
<1> QED BY <1>2 DEF SingleInv, Here, Writing, Many

\* Every step keeps them.
LEMMA SingleStep ==
  WorkerLimit = 1 /\ MissionInv /\ SingleInv /\ [MissionNext]_mvars => SingleInv'
<1> SUFFICES ASSUME WorkerLimit = 1, MissionInv, SingleInv, [MissionNext]_mvars PROVE SingleInv'
  OBVIOUS
<1>1. ASSUME NEW c \in Controllers, Controller(c) PROVE SingleInv'
  <2>1. owner = c
    BY <1>1 DEF Controller
  <2>2. ~RunBatch(c)
    BY <2>1, RunBatchSafe DEF SingleInv, Here, Many, Writing
  <2> QED
    BY <1>1, <2>1, <2>2, ComeAndGoSingle, LoopSingle, WriteSingle, DispatchSingle, RunOneSingle
       DEF Controller, Initialize, RunStep
<1>2. ASSUME NEW c \in Controllers, Boot(c) \/ Perish(c) PROVE SingleInv'
  BY <1>2, ComeAndGoSingle
<1>3. ASSUME NEW c \in Controllers, owner = c, Fault(c) PROVE SingleInv'
  BY <1>3, FaultSingle
<1> QED BY <1>1, <1>2, <1>3, TickSingle, OutsideSingle DEF MissionNext

\* With a single worker they hold in every reachable state.
THEOREM SingleInvariance ==
  ASSUME WorkerLimit = 1
  PROVE  MissionSpec => []SingleInv
<1>1. MissionInit => SingleInv
  BY DEF MissionInit, SingleInv, Here, Many, Writing
<1>2. MissionInv /\ SingleInv /\ [MissionNext]_mvars => SingleInv'
  BY SingleStep
<1> QED BY <1>1, <1>2, MissionInvariance, PTL DEF MissionSpec

\* BlockedIsAbsorbing, of one step.
Absorbed ==
  (phase \in Blocked) /\ phase' \notin Blocked \cup {"RECOVERING", "STOPPED_CLEANLY"} =>
    \/ blocker.why \in {"failed", "routed", "feed", "data"}
    \/ phase # "INTEGRITY_BLOCKED" /\ Forwarded /\ pending.next = "deciding"

\* Only five steps write the phase.
LEMMA BlockAbsorbs ==
  ASSUME MissionInv, SingleInv, NEW c \in Controllers, Controller(c)
  PROVE  Absorbed
<1>0. owner = c
  BY DEF Controller
<1>1. CASE PublishPhase
  BY <1>1 DEF PublishPhase, At, SingleInv, Absorbed
<1>2. CASE Admit
  BY <1>2 DEF Admit, At, SingleInv, Absorbed
<1>3. CASE Announce \/ CheckStop
  BY <1>3 DEF Announce, CheckStop, Absorbed
<1>4. CASE RunBatch(c)
  BY <1>0, <1>4, RunBatchSafe DEF SingleInv, Here, Many, Writing
<1>5. CASE \/ ReadPrevious \/ Recover(c) \/ RestoreBlock \/ Resume
           \/ Leave(c) \/ Tick \/ StayBlocked \/ Refuse \/ Dispatch(c) \/ Plan(c) \/ FollowUp(c)
           \/ RouteToBlock \/ Lift \/ Reconciled \/ Conclude \/ PublishBlocker
           \/ UpdateForward(c) \/ SkipUpdate
  BY <1>5 DEF ReadPrevious, Recover, RestoreBlock, Resume, Leave, Tick, StayBlocked, Refuse,
              Dispatch, Plan, FollowUp, RouteToBlock, Lift, Reconciled, Conclude,
              PublishBlocker, UpdateForward, SkipUpdate, kv, Absorbed
<1>6. CASE \/ Reject(c) \/ Launch(c) \/ WorkerGone \/ Interrupt \/ Unclaim(c) \/ Halt(c)
           \/ SettleOne(c)
  BY <1>6 DEF Reject, Launch, WorkerGone, Interrupt, Unclaim, Halt, SettleOne, kv, Absorbed
<1> QED
  BY <1>1, <1>2, <1>3, <1>4, <1>5, <1>6 DEF Controller, Initialize, RunStep, RunOne

\* With a single worker, a block is absorbing while the process runs, but
\* for the blocks of results and, once an update is in the queue, for the
\* engineering and experiment blocks.
THEOREM BlocksAbsorb ==
  ASSUME WorkerLimit = 1
  PROVE  MissionSpec => BlockedIsAbsorbing
<1>1. MissionInv /\ SingleInv /\ [MissionNext]_mvars => Absorbed
  <2> SUFFICES ASSUME MissionInv, SingleInv, [MissionNext]_mvars PROVE Absorbed
    OBVIOUS
  <2>1. ASSUME phase' = phase PROVE Absorbed
    BY <2>1 DEF Absorbed
  <2>2. ASSUME NEW c \in Controllers, Boot(c) \/ Perish(c) PROVE phase' = phase
    BY <2>2 DEF Boot, Perish, kv
  <2>3. ASSUME NEW c \in Controllers, Fault(c) PROVE phase' = phase
    BY <2>3, FaultCases DEF kv
  <2>4. CASE \/ TickAtWork \/ TickInBatch
             \/ (\E e \in Experiments : Work(e) \/ WorkerExit(e) \/ Stray(e))
             \/ RequestStop \/ Terminate \/ Deploy \/ UNCHANGED mvars
    BY <2>1, <2>4 DEF TickAtWork, TickInBatch, Work, WorkerExit, Stray, RequestStop, Terminate,
                      Deploy, mvars, kv
  <2> QED BY <2>1, <2>2, <2>3, <2>4, BlockAbsorbs DEF MissionNext
<1>2. MissionInv /\ SingleInv /\ [MissionNext]_mvars =>
        [(phase \in Blocked) /\ phase' \notin Blocked \cup {"RECOVERING", "STOPPED_CLEANLY"} =>
           \/ blocker.why \in {"failed", "routed", "feed", "data"}
           \/ phase # "INTEGRITY_BLOCKED" /\ Forwarded /\ pending.next = "deciding"]_mvars
  BY <1>1 DEF Absorbed
<1> QED BY <1>2, MissionInvariance, SingleInvariance, PTL DEF MissionSpec, BlockedIsAbsorbing

\* StopIsFree, of one row.
Freed(e) ==
  worker[e] = "killed" /\ pc # "working" /\ status[e] = "RUNNING" /\ status'[e] \in {"QUEUED", "FAILED"} =>
    status'[e] = "QUEUED" /\ attempt'[e] < attempt[e]

\* What a process does that may have a killed worker.
LEMMA StepsAtKill ==
  ASSUME NEW c \in Controllers, Controller(c),
         pc \in {"working", "releasing", "halting"} \cup Writing
  PROVE  \/ UNCHANGED vars
         \/ pc = "releasing" /\ \E k \in claims[c] : Release(c, k)
         \/ pc = "halting" /\ \E k \in claims[c] : Block(c, k, "guard")
<1>1. ~Initialize(c)
  BY DEF Initialize, ReadPrevious, Announce, Recover, RestoreBlock, Resume, Publish, At, Writing
<1>2. CASE RunStep(c)
  <2>1. ~(CheckStop \/ Leave(c) \/ Tick \/ StayBlocked \/ Refuse \/ Dispatch(c) \/ Plan(c))
    BY DEF CheckStop, Leave, Tick, StayBlocked, Refuse, Dispatch, Plan, Publish, At, Writing
  <2>2. ~(FollowUp(c) \/ RouteToBlock \/ Lift \/ Reconciled \/ Conclude)
    BY DEF FollowUp, RouteToBlock, Lift, Reconciled, Conclude, Reconciling, Publish, At, Writing
  <2>3. ~(UpdateForward(c) \/ SkipUpdate)
    BY DEF UpdateForward, SkipUpdate, Publish, At, Writing
  <2> QED BY <1>2, <2>1, <2>2, <2>3 DEF RunStep, PublishPhase, PublishBlocker
<1>3. CASE RunOne(c)
  <2>1. ~(Reject(c) \/ Admit \/ Launch(c) \/ SettleOne(c))
    BY DEF Reject, Admit, Launch, SettleOne, Failed, Publish, At, Writing
  <2> QED BY <1>3, <2>1 DEF RunOne, WorkerGone, Interrupt, Unclaim, Halt, Publish, At
<1>4. ~RunBatch(c)
  BY DEF RunBatch, VetReject, VetAccept, Vetted, SpawnBatch, BatchOver, InterruptBatch, Unwind,
         Collect, Collected, Publish, At, Writing
<1> QED BY <1>1, <1>2, <1>3, <1>4 DEF Controller

\* With a single worker, one that the stop signal kills costs no attempt,
\* but by a fault of the controller that watches it.
THEOREM StopsAreFree ==
  ASSUME WorkerLimit = 1
  PROVE  MissionSpec => StopIsFree
<1>1. MissionInv /\ SingleInv /\ [MissionNext]_mvars => \A e \in Experiments : Freed(e)
  <2> SUFFICES ASSUME MissionInv, SingleInv, [MissionNext]_mvars, NEW e \in Experiments,
                      worker[e] = "killed", pc # "working", status[e] = "RUNNING",
                      status'[e] \in {"QUEUED", "FAILED"}
               PROVE  status'[e] = "QUEUED" /\ attempt'[e] < attempt[e]
    BY DEF Freed
  <2>1. pc \in {"working", "releasing", "halting"} \cup Writing
    BY DEF SingleInv, Here
  <2>2. status' # status
    OBVIOUS
  <2>3. ASSUME NEW c \in Controllers PROVE ~Fault(c)
    BY <2>1, FaultCases DEF Writing
  <2>4. PICK c \in Controllers : Controller(c)
    BY <2>2, <2>3 DEF MissionNext, Boot, Start, Perish, Crash, Die, TickAtWork, TickInBatch, Work,
                      WorkerExit, Stray, RequestStop, Terminate, Deploy, mvars, vars, rows
  <2>5. PICK k \in claims[c] : Release(c, k) \/ Block(c, k, "guard")
    BY <2>1, <2>2, <2>4, StepsAtKill DEF vars, rows
  <2>6. k.id = e
    BY <2>5 DEF Release, Block, Settle, MissionInv, IInv, TypeOK
  <2>7. Release(c, k)
    BY <2>5, <2>6, SettledRow DEF Block, MissionInv
  <2> QED
    BY <2>6, <2>7, HeldRow, SettledRow DEF Release, MissionInv, IInv, TypeOK
<1>2. MissionInv /\ SingleInv /\ [MissionNext]_mvars =>
        [\A e \in Experiments :
           worker[e] = "killed" /\ pc # "working" /\
           status[e] = "RUNNING" /\ status'[e] \in {"QUEUED", "FAILED"} =>
             status'[e] = "QUEUED" /\ attempt'[e] < attempt[e]]_mvars
  BY <1>1 DEF Freed
<1> QED BY <1>2, MissionInvariance, SingleInvariance, PTL DEF MissionSpec, StopIsFree
=============================================================================
