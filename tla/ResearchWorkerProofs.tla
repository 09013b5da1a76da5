------------------------- MODULE ResearchWorkerProofs -------------------------
(***************************************************************************)
(* Safety of ResearchWorker for every set of jobs, number of attempts and  *)
(* number of changed inputs.  Nothing is used of the programs but what     *)
(* ProgramAssumption says of them.                                         *)
(***************************************************************************)
EXTENDS ResearchWorker, FiniteSetTheorems, TLAPS

-----------------------------------------------------------------------------
(* The program of the job.                                                 *)

\* What is assumed of the programs, said of the one that runs.
LEMMA ProgramFacts ==
  ASSUME job \in Jobs
  PROVE  /\ Program \in Seq([op : STRING, on : SUBSET STRING])
         /\ Len(Program) \in Nat
         /\ WrittenOnce(Program) /\ Guarded(Program, Unguarded(job))
         /\ \A r, q \in Steps("record") : r = q
         /\ job \notin Unfrozen => SelectionIsFrozen(Program) /\ RecordsOnce(Program)
         /\ job # "contract_map" => ReadsAreRecorded(Program)
         /\ job \in DOMAIN Route => DecidesWithin(Program, DOMAIN Route[job])
<1>1. PICK p : p = run_experiment[job]
  OBVIOUS
<1>2. /\ p \in Seq([op : STRING, on : SUBSET STRING])
      /\ WrittenOnce(p) /\ Guarded(p, Unguarded(job))
      /\ \A r, q \in StepsOf(p, "record") : r = q
      /\ job \notin Unfrozen => SelectionIsFrozen(p) /\ RecordsOnce(p)
      /\ job # "contract_map" => ReadsAreRecorded(p)
      /\ job \in DOMAIN Route => DecidesWithin(p, DOMAIN Route[job])
  BY <1>1, ProgramAssumption, Zenon
<1>3. Program = p /\ \A op : Steps(op) = StepsOf(p, op)
  BY <1>1 DEF Program, Steps
<1>4. Len(p) \in Nat
  BY <1>2
<1> QED
  BY <1>2, <1>3, <1>4, Zenon

\* A job keeps its program.
LEMMA SameProgram ==
  ASSUME job' = job
  PROVE  /\ Program' = Program /\ Reads' = Reads
         /\ \A op : Steps(op)' = Steps(op)
BY DEF Program, Steps, Reads

\* A shadow configuration is written, or the step leaves the files alone.
Configures ==
  /\ Doing("configure")
  /\ job' = job /\ attempt' = attempt /\ drifted' = drifted /\ stale' = stale
  /\ basis' = basis /\ rows' = rows /\ chosen' = chosen /\ looked' = looked
  /\ finding' = finding
  /\ \/ \E a \in On : Immutable(a, Content(basis, 0))
     \/ Advance /\ disk' = disk /\ meant' = meant

\* That is what ConfigureShadow does, whatever the answer.
LEMMA ConfiguresOrNot == ConfigureShadow => Configures
BY DEF Configures, ConfigureShadow, run, access, files

\* No step changes the job.
LEMMA SameJob ==
  ASSUME [WorkerNext]_vars
  PROVE  job' = job
<1> USE DEF Doing, Advance, Require, Refuse, run, files, access, answers
<1>1. CASE Begin
  BY <1>1 DEF Begin, Nothing
<1>2. CASE CheckFiles
  BY <1>2 DEF CheckFiles
<1>3. CASE UseFiles
  BY <1>3 DEF UseFiles
<1>4. CASE RecallFiles
  BY <1>4 DEF RecallFiles
<1>5. CASE KeepArtifact
  BY <1>5 DEF KeepArtifact, Immutable, With
<1>6. CASE StampArtifact
  BY <1>6 DEF StampArtifact, Immutable, With
<1>7. CASE PutArtifact
  BY <1>7 DEF PutArtifact, Immutable, With
<1>8. CASE MatchArtifacts
  BY <1>8 DEF MatchArtifacts
<1>9. CASE OverwriteArtifact
  BY <1>9 DEF OverwriteArtifact, With
<1>10. CASE RecordAccess
  BY <1>10 DEF RecordAccess
<1>11. CASE SelectCandidates
  BY <1>11 DEF SelectCandidates
<1>12. CASE ConfirmCandidates
  BY <1>12 DEF ConfirmCandidates
<1>13. CASE ProveData
  BY <1>13 DEF ProveData, Answer
<1>14. CASE ConfigureShadow
  <2>1. Configures
    BY <1>14, ConfiguresOrNot
  <2> QED
    BY <2>1 DEF Configures, Immutable
<1>15. CASE Conclude
  BY <1>15 DEF Conclude, Answer
<1>16. CASE Publish
  BY <1>16 DEF Publish
<1>17. CASE Retry
  BY <1>17 DEF Retry, Again
<1>18. CASE Tear
  BY <1>18 DEF Tear, Again, With
<1>19. CASE Drift
  BY <1>19 DEF Drift
<1>20. CASE UNCHANGED vars
  BY <1>20 DEF vars
<1> QED
  BY <1>1, <1>2, <1>3, <1>4, <1>5, <1>6, <1>7, <1>8, <1>9, <1>10,
     <1>11, <1>12, <1>13, <1>14, <1>15, <1>16, <1>17, <1>18, <1>19, <1>20
     DEF WorkerNext

\* Types, and where a job can be.
LEMMA TypeStep ==
  ASSUME WorkerInv, [WorkerNext]_vars
  PROVE  /\ WorkerTypeOK'
         /\ (outcome = "queued" \/ at > 0)'
         /\ (outcome = "published" => at > Len(Program))'
<1>a. /\ WorkerTypeOK /\ RowsCounted /\ Program' = Program /\ Len(Program) \in Nat
      /\ (outcome = "queued" \/ at > 0)
      /\ (outcome = "published" => at > Len(Program))
      /\ MaxAttempts \in Nat \ {0}
      /\ \A r, q \in Steps("record") : r = q
  BY SameJob, SameProgram, ProgramFacts, WorkerAssumption DEF WorkerInv, WorkerTypeOK
<1> USE DEF Doing, Advance, Require, Refuse, run, files, access, answers
<1>1. CASE Begin
  BY <1>1, <1>a DEF Begin, Nothing, WorkerTypeOK, Inputs
<1>2. CASE CheckFiles
  BY <1>2, <1>a DEF CheckFiles, WorkerTypeOK, Inputs
<1>3. CASE UseFiles
  BY <1>3, <1>a DEF UseFiles, WorkerTypeOK, Inputs
<1>4. CASE RecallFiles
  BY <1>4, <1>a DEF RecallFiles, WorkerTypeOK, Inputs
<1>5. CASE KeepArtifact
  BY <1>5, <1>a DEF KeepArtifact, Immutable, With, WorkerTypeOK, Inputs
<1>6. CASE StampArtifact
  BY <1>6, <1>a DEF StampArtifact, Immutable, With, WorkerTypeOK, Inputs
<1>7. CASE PutArtifact
  BY <1>7, <1>a DEF PutArtifact, Immutable, With, WorkerTypeOK, Inputs
<1>8. CASE MatchArtifacts
  BY <1>8, <1>a DEF MatchArtifacts, WorkerTypeOK, Inputs
<1>9. CASE OverwriteArtifact
  BY <1>9, <1>a DEF OverwriteArtifact, With, WorkerTypeOK, Inputs
<1>10. CASE RecordAccess
  <2>1. at \in Steps("record")
    BY <1>10, <1>a DEF RecordAccess, Steps, StepsOf, WorkerTypeOK
  <2>2. rows < attempt
    BY <1>a, <2>1 DEF RowsCounted, WorkerTypeOK, Steps, StepsOf
  <2> QED
    BY <1>10, <1>a, <2>2 DEF RecordAccess, WorkerTypeOK
<1>11. CASE SelectCandidates
  BY <1>11, <1>a DEF SelectCandidates, WorkerTypeOK, Inputs
<1>12. CASE ConfirmCandidates
  BY <1>12, <1>a DEF ConfirmCandidates, WorkerTypeOK, Inputs
<1>13. CASE ProveData
  BY <1>13, <1>a DEF ProveData, Answer, WorkerTypeOK, Inputs
<1>14. CASE ConfigureShadow
  <2>1. Configures
    BY <1>14, ConfiguresOrNot
  <2> QED
    BY <2>1, <1>a DEF Configures, Immutable, WorkerTypeOK, Inputs
<1>15. CASE Conclude
  BY <1>15, <1>a DEF Conclude, Answer, WorkerTypeOK, Inputs
<1>16. CASE Publish
  BY <1>16, <1>a DEF Publish, WorkerTypeOK, Inputs
<1>17. CASE Retry
  BY <1>17, <1>a DEF Retry, Again, WorkerTypeOK, Inputs
<1>18. CASE Tear
  BY <1>18, <1>a DEF Tear, Again, With, WorkerTypeOK, Inputs
<1>19. CASE Drift
  BY <1>19, <1>a DEF Drift, WorkerTypeOK, Inputs
<1>20. CASE UNCHANGED vars
  BY <1>20, <1>a DEF vars, WorkerTypeOK, Inputs
<1> QED
  BY <1>1, <1>2, <1>3, <1>4, <1>5, <1>6, <1>7, <1>8, <1>9, <1>10,
     <1>11, <1>12, <1>13, <1>14, <1>15, <1>16, <1>17, <1>18, <1>19, <1>20
     DEF WorkerNext

\* What a step leaves alone, and what the step at hand is.
LEMMA Context ==
  ASSUME WorkerInv, [WorkerNext]_vars
  PROVE  /\ job' = job /\ Program' = Program /\ Reads' = Reads
         /\ \A op : Steps(op)' = Steps(op)
         /\ at \in Nat /\ rows \in Nat /\ attempt \in Nat /\ Len(Program) \in Nat
         /\ \A op : Steps(op) \subseteq Nat \ {0}
         /\ \A op : Doing(op) => at \in Steps(op)
         /\ \A op, o : Doing(op) /\ at \in Steps(o) => o = op
<1>1. /\ job' = job /\ Program' = Program /\ Reads' = Reads
      /\ \A op : Steps(op)' = Steps(op)
  BY SameJob, SameProgram
<1>2. /\ at \in Nat /\ rows \in Nat /\ attempt \in Nat /\ Len(Program) \in Nat
      /\ at \in 1 .. Len(Program) \/ outcome = "queued" \/ at > Len(Program)
  BY ProgramFacts, WorkerAssumption DEF WorkerInv, WorkerTypeOK
<1>3. \A op : Steps(op) \subseteq Nat \ {0}
  BY <1>2 DEF Steps, StepsOf
<1>4. /\ \A op : Doing(op) => at \in Steps(op)
      /\ \A op, o : Doing(op) /\ at \in Steps(o) => o = op
  BY <1>2 DEF Steps, StepsOf, Doing
<1> QED
  BY <1>1, <1>2, <1>3, <1>4

\* What a step that writes an artifact does to the files.
Wrote(a, c) ==
  /\ DOMAIN disk' = DOMAIN disk \cup {a}
  /\ \A b \in DOMAIN disk : disk'[b] = disk[b]
  /\ a \notin DOMAIN disk => disk'[a] = c
  /\ \/ at' = at + 1 /\ outcome' = outcome /\ cause' = cause /\ disk'[a] = c
     \/ /\ at' = at /\ outcome' = "refused" /\ cause' = "divergent"
        /\ a \in DOMAIN disk /\ disk[a] # c

\* It writes the artifact, finds it as it should be, or refuses to go on.
LEMMA ImmutableWrites == ASSUME NEW a, NEW c, Immutable(a, c) PROVE Wrote(a, c)
BY DEF Wrote, With, Immutable, Require, Advance, Refuse

\* The rows of the ledger.
LEMMA RowsStep ==
  ASSUME WorkerInv, [WorkerNext]_vars
  PROVE  RowsCounted'
<1>a. RowsCounted /\ WorkerTypeOK
  BY DEF WorkerInv
<1>b. /\ job' = job /\ Program' = Program
      /\ \A op : Steps(op)' = Steps(op)
      /\ at \in Nat /\ rows \in Nat /\ attempt \in Nat /\ Len(Program) \in Nat
      /\ \A op : Steps(op) \subseteq Nat \ {0}
      /\ \A op : Doing(op) => at \in Steps(op)
      /\ \A op, o : Doing(op) /\ at \in Steps(o) => o = op
  BY Context
<1>c. /\ \A r, q \in Steps("record") : r = q
      /\ job \notin Unfrozen => \A r \in Steps("record") : "once" \in Program[r].on
  BY <1>a, ProgramFacts DEF WorkerTypeOK, RecordsOnce, Steps
<1> USE DEF Doing, Advance, Require, Refuse, run, files, access, answers
<1>1. CASE Begin
  BY <1>1, <1>a, <1>b, <1>c DEF Begin, Nothing, RowsCounted
<1>2. CASE CheckFiles
  BY <1>2, <1>a, <1>b, <1>c DEF CheckFiles, RowsCounted
<1>3. CASE UseFiles
  BY <1>3, <1>a, <1>b, <1>c DEF UseFiles, RowsCounted
<1>4. CASE RecallFiles
  BY <1>4, <1>a, <1>b, <1>c DEF RecallFiles, RowsCounted
<1>5. CASE KeepArtifact
  BY <1>5, <1>a, <1>b, <1>c DEF KeepArtifact, Immutable, With, RowsCounted
<1>6. CASE StampArtifact
  BY <1>6, <1>a, <1>b, <1>c DEF StampArtifact, Immutable, With, RowsCounted
<1>7. CASE PutArtifact
  BY <1>7, <1>a, <1>b, <1>c DEF PutArtifact, Immutable, With, RowsCounted
<1>8. CASE MatchArtifacts
  BY <1>8, <1>a, <1>b, <1>c DEF MatchArtifacts, RowsCounted
<1>9. CASE OverwriteArtifact
  BY <1>9, <1>a, <1>b, <1>c DEF OverwriteArtifact, With, RowsCounted
<1>10. CASE RecordAccess
  BY <1>10, <1>a, <1>b, <1>c DEF RecordAccess, On, RowsCounted
<1>11. CASE SelectCandidates
  BY <1>11, <1>a, <1>b, <1>c DEF SelectCandidates, RowsCounted
<1>12. CASE ConfirmCandidates
  BY <1>12, <1>a, <1>b, <1>c DEF ConfirmCandidates, RowsCounted
<1>13. CASE ProveData
  BY <1>13, <1>a, <1>b, <1>c DEF ProveData, Answer, RowsCounted
<1>14. CASE ConfigureShadow
  <2>1. Configures
    BY <1>14, ConfiguresOrNot
  <2> QED
    BY <2>1, <1>a, <1>b, <1>c DEF Configures, Immutable, RowsCounted
<1>15. CASE Conclude
  BY <1>15, <1>a, <1>b, <1>c DEF Conclude, Answer, RowsCounted
<1>16. CASE Publish
  BY <1>16, <1>a, <1>b, <1>c DEF Publish, RowsCounted
<1>17. CASE Retry
  BY <1>17, <1>a, <1>b, <1>c DEF Retry, Again, RowsCounted
<1>18. CASE Tear
  BY <1>18, <1>a, <1>b, <1>c DEF Tear, Again, With, RowsCounted
<1>19. CASE Drift
  BY <1>19, <1>a, <1>b, <1>c DEF Drift, RowsCounted
<1>20. CASE UNCHANGED vars
  BY <1>20, <1>a, <1>b, <1>c DEF vars, RowsCounted
<1> QED
  BY <1>1, <1>2, <1>3, <1>4, <1>5, <1>6, <1>7, <1>8, <1>9, <1>10,
     <1>11, <1>12, <1>13, <1>14, <1>15, <1>16, <1>17, <1>18, <1>19, <1>20
     DEF WorkerNext

\* What the attempt wrote is on disk.
LEMMA WholeStep ==
  ASSUME WorkerInv, [WorkerNext]_vars
  PROVE  WholeSoFar'
<1>a. WholeSoFar
  BY DEF WorkerInv
<1> USE DEF Doing, Advance, Require, Refuse, run, files, access, answers
<1>1. CASE Begin
  BY <1>1, <1>a DEF Begin, Nothing, WholeSoFar, Alive
<1>2. CASE CheckFiles
  BY <1>2, <1>a DEF CheckFiles, WholeSoFar, Alive
<1>3. CASE UseFiles
  BY <1>3, <1>a DEF UseFiles, WholeSoFar, Alive
<1>4. CASE RecallFiles
  BY <1>4, <1>a DEF RecallFiles, WholeSoFar, Alive
<1>5. CASE KeepArtifact
  BY <1>5, <1>a DEF KeepArtifact, Immutable, With, WholeSoFar, Alive
<1>6. CASE StampArtifact
  BY <1>6, <1>a DEF StampArtifact, Immutable, With, WholeSoFar, Alive
<1>7. CASE PutArtifact
  BY <1>7, <1>a DEF PutArtifact, Immutable, With, WholeSoFar, Alive
<1>8. CASE MatchArtifacts
  BY <1>8, <1>a DEF MatchArtifacts, WholeSoFar, Alive
<1>9. CASE OverwriteArtifact
  BY <1>9, <1>a DEF OverwriteArtifact, With, WholeSoFar, Alive
<1>10. CASE RecordAccess
  BY <1>10, <1>a DEF RecordAccess, WholeSoFar, Alive
<1>11. CASE SelectCandidates
  BY <1>11, <1>a DEF SelectCandidates, WholeSoFar, Alive
<1>12. CASE ConfirmCandidates
  BY <1>12, <1>a DEF ConfirmCandidates, WholeSoFar, Alive
<1>13. CASE ProveData
  BY <1>13, <1>a DEF ProveData, Answer, WholeSoFar, Alive
<1>14. CASE ConfigureShadow
  <2>1. Configures
    BY <1>14, ConfiguresOrNot
  <2>2. CASE \E a \in On : Immutable(a, Content(basis, 0))
    <3>1. PICK a \in On : Immutable(a, Content(basis, 0))
      BY <2>2
    <3>2. PICK c : c = Content(basis, 0)
      OBVIOUS
    <3> QED
      BY <3>1, <3>2, <1>a DEF Immutable, With, WholeSoFar, Alive
  <2>3. CASE Advance /\ disk' = disk /\ meant' = meant
    BY <2>3, <1>a DEF Advance, WholeSoFar, Alive
  <2> QED
    BY <2>1, <2>2, <2>3 DEF Configures
<1>15. CASE Conclude
  BY <1>15, <1>a DEF Conclude, Answer, WholeSoFar, Alive
<1>16. CASE Publish
  BY <1>16, <1>a DEF Publish, Alive, WholeSoFar, Alive
<1>17. CASE Retry
  BY <1>17, <1>a DEF Retry, Again, WholeSoFar, Alive
<1>18. CASE Tear
  BY <1>18, <1>a DEF Tear, Again, With, WholeSoFar, Alive
<1>19. CASE Drift
  BY <1>19, <1>a DEF Drift, WholeSoFar, Alive
<1>20. CASE UNCHANGED vars
  BY <1>20, <1>a DEF vars, WholeSoFar, Alive
<1> QED
  BY <1>1, <1>2, <1>3, <1>4, <1>5, <1>6, <1>7, <1>8, <1>9, <1>10,
     <1>11, <1>12, <1>13, <1>14, <1>15, <1>16, <1>17, <1>18, <1>19, <1>20
     DEF WorkerNext

\* What was compared is as specified, and all else is accounted for.
LEMMA ComparedStep ==
  ASSUME WorkerInv, [WorkerNext]_vars
  PROVE  Compared'
<1>a. Compared /\ WorkerTypeOK
  BY DEF WorkerInv
<1>b. /\ job' = job /\ Program' = Program
      /\ \A op : Steps(op)' = Steps(op)
      /\ at \in Nat /\ rows \in Nat /\ attempt \in Nat /\ Len(Program) \in Nat
      /\ \A op : Steps(op) \subseteq Nat \ {0}
      /\ \A op : Doing(op) => at \in Steps(op)
      /\ \A op, o : Doing(op) /\ at \in Steps(o) => o = op
  BY Context
<1> USE DEF Doing, Advance, Require, Refuse, run, files, access, answers
<1>1. CASE Begin
  BY <1>1, <1>a, <1>b DEF Begin, Nothing, Compared, Alive, WorkerTypeOK, On
<1>2. CASE CheckFiles
  BY <1>2, <1>a, <1>b DEF CheckFiles, Compared, Alive, WorkerTypeOK, On
<1>3. CASE UseFiles
  BY <1>3, <1>a, <1>b DEF UseFiles, Compared, Alive, WorkerTypeOK, On
<1>4. CASE RecallFiles
  BY <1>4, <1>a, <1>b DEF RecallFiles, Compared, Alive, WorkerTypeOK, On
<1>5. CASE KeepArtifact
  BY <1>5, <1>a, <1>b DEF KeepArtifact, Immutable, With, Compared, Alive, WorkerTypeOK, On
<1>6. CASE StampArtifact
  BY <1>6, <1>a, <1>b DEF StampArtifact, Immutable, With, Compared, Alive, WorkerTypeOK, On
<1>7. CASE PutArtifact
  BY <1>7, <1>a, <1>b DEF PutArtifact, Immutable, With, Compared, Alive, WorkerTypeOK, On
<1>8. CASE MatchArtifacts
  BY <1>8, <1>a, <1>b DEF MatchArtifacts, Compared, Alive, WorkerTypeOK, On
<1>9. CASE OverwriteArtifact
  BY <1>9, <1>a, <1>b DEF OverwriteArtifact, With, Compared, Alive, WorkerTypeOK, On
<1>10. CASE RecordAccess
  BY <1>10, <1>a, <1>b DEF RecordAccess, Compared, Alive, WorkerTypeOK, On
<1>11. CASE SelectCandidates
  BY <1>11, <1>a, <1>b DEF SelectCandidates, Compared, Alive, WorkerTypeOK, On
<1>12. CASE ConfirmCandidates
  BY <1>12, <1>a, <1>b DEF ConfirmCandidates, Compared, Alive, WorkerTypeOK, On
<1>13. CASE ProveData
  BY <1>13, <1>a, <1>b DEF ProveData, Answer, Compared, Alive, WorkerTypeOK, On
<1>14. CASE ConfigureShadow
  <2>1. Configures
    BY <1>14, ConfiguresOrNot
  <2> QED
    BY <2>1, <1>a, <1>b DEF Configures, Immutable, Compared, Alive, WorkerTypeOK, On
<1>15. CASE Conclude
  BY <1>15, <1>a, <1>b DEF Conclude, Answer, Compared, Alive, WorkerTypeOK, On
<1>16. CASE Publish
  BY <1>16, <1>a, <1>b DEF Publish, Alive, Compared, Alive, WorkerTypeOK, On
<1>17. CASE Retry
  BY <1>17, <1>a, <1>b DEF Retry, Again, Compared, Alive, WorkerTypeOK, On
<1>18. CASE Tear
  BY <1>18, <1>a, <1>b DEF Tear, Again, With, Compared, Alive, WorkerTypeOK, On
<1>19. CASE Drift
  BY <1>19, <1>a, <1>b DEF Drift, Compared, Alive, WorkerTypeOK, On
<1>20. CASE UNCHANGED vars
  BY <1>20, <1>a, <1>b DEF vars, Compared, Alive, WorkerTypeOK, On
<1> QED
  BY <1>1, <1>2, <1>3, <1>4, <1>5, <1>6, <1>7, <1>8, <1>9, <1>10,
     <1>11, <1>12, <1>13, <1>14, <1>15, <1>16, <1>17, <1>18, <1>19, <1>20
     DEF WorkerNext

\* The conclusion is one of those the program names.
LEMMA ConcludedStep ==
  ASSUME WorkerInv, [WorkerNext]_vars
  PROVE  Concluded'
<1>a. Concluded /\ WorkerTypeOK
  BY DEF WorkerInv
<1>b. /\ job' = job /\ Program' = Program
      /\ \A op : Steps(op)' = Steps(op)
      /\ at \in Nat /\ rows \in Nat /\ attempt \in Nat /\ Len(Program) \in Nat
      /\ \A op : Steps(op) \subseteq Nat \ {0}
      /\ \A op : Doing(op) => at \in Steps(op)
      /\ \A op, o : Doing(op) /\ at \in Steps(o) => o = op
  BY Context
<1> USE DEF Doing, Advance, Require, Refuse, run, files, access, answers
<1>1. CASE Begin
  BY <1>1, <1>a, <1>b DEF Begin, Nothing, Concluded, Alive, On
<1>2. CASE CheckFiles
  BY <1>2, <1>a, <1>b DEF CheckFiles, Concluded, Alive, On
<1>3. CASE UseFiles
  BY <1>3, <1>a, <1>b DEF UseFiles, Concluded, Alive, On
<1>4. CASE RecallFiles
  BY <1>4, <1>a, <1>b DEF RecallFiles, Concluded, Alive, On
<1>5. CASE KeepArtifact
  BY <1>5, <1>a, <1>b DEF KeepArtifact, Immutable, With, Concluded, Alive, On
<1>6. CASE StampArtifact
  BY <1>6, <1>a, <1>b DEF StampArtifact, Immutable, With, Concluded, Alive, On
<1>7. CASE PutArtifact
  BY <1>7, <1>a, <1>b DEF PutArtifact, Immutable, With, Concluded, Alive, On
<1>8. CASE MatchArtifacts
  BY <1>8, <1>a, <1>b DEF MatchArtifacts, Concluded, Alive, On
<1>9. CASE OverwriteArtifact
  BY <1>9, <1>a, <1>b DEF OverwriteArtifact, With, Concluded, Alive, On
<1>10. CASE RecordAccess
  BY <1>10, <1>a, <1>b DEF RecordAccess, Concluded, Alive, On
<1>11. CASE SelectCandidates
  BY <1>11, <1>a, <1>b DEF SelectCandidates, Concluded, Alive, On
<1>12. CASE ConfirmCandidates
  BY <1>12, <1>a, <1>b DEF ConfirmCandidates, Concluded, Alive, On
<1>13. CASE ProveData
  BY <1>13, <1>a, <1>b DEF ProveData, Answer, Concluded, Alive, On
<1>14. CASE ConfigureShadow
  <2>1. Configures
    BY <1>14, ConfiguresOrNot
  <2> QED
    BY <2>1, <1>a, <1>b DEF Configures, Immutable, Concluded, Alive, On
<1>15. CASE Conclude
  BY <1>15, <1>a, <1>b DEF Conclude, Answer, Concluded, Alive, On
<1>16. CASE Publish
  BY <1>16, <1>a, <1>b DEF Publish, Alive, Concluded, Alive, On
<1>17. CASE Retry
  BY <1>17, <1>a, <1>b DEF Retry, Again, Concluded, Alive, On
<1>18. CASE Tear
  BY <1>18, <1>a, <1>b DEF Tear, Again, With, Concluded, Alive, On
<1>19. CASE Drift
  BY <1>19, <1>a, <1>b DEF Drift, Concluded, Alive, On
<1>20. CASE UNCHANGED vars
  BY <1>20, <1>a, <1>b DEF vars, Concluded, Alive, On
<1> QED
  BY <1>1, <1>2, <1>3, <1>4, <1>5, <1>6, <1>7, <1>8, <1>9, <1>10,
     <1>11, <1>12, <1>13, <1>14, <1>15, <1>16, <1>17, <1>18, <1>19, <1>20
     DEF WorkerNext

\* At the first attempt the files are its own.
LEMMA OwnFilesStep ==
  ASSUME WorkerInv, [WorkerNext]_vars
  PROVE  OwnFiles'
<1>a. OwnFiles /\ WorkerTypeOK
  BY DEF WorkerInv
<1>b. /\ job' = job /\ Program' = Program
      /\ \A op : Steps(op)' = Steps(op)
      /\ at \in Nat /\ rows \in Nat /\ attempt \in Nat /\ Len(Program) \in Nat
      /\ \A op : Steps(op) \subseteq Nat \ {0}
      /\ \A op : Doing(op) => at \in Steps(op)
      /\ \A op, o : Doing(op) /\ at \in Steps(o) => o = op
  BY Context
<1>c. /\ \A i \in Writers(Program) : i \in Nat \ {0}
      /\ \A op \in {"keep", "stamp", "put", "configure", "overwrite"} :
           Doing(op) => at \in Writers(Program)
  BY <1>b DEF Writers, Steps, StepsOf
<1> USE DEF Doing, Advance, Require, Refuse, run, files, access, answers
<1>1. CASE Begin
  BY <1>1, <1>a, <1>b, <1>c DEF Begin, Nothing, OwnFiles, On, WorkerTypeOK
<1>2. CASE CheckFiles
  BY <1>2, <1>a, <1>b, <1>c DEF CheckFiles, OwnFiles, On, WorkerTypeOK
<1>3. CASE UseFiles
  BY <1>3, <1>a, <1>b, <1>c DEF UseFiles, OwnFiles, On, WorkerTypeOK
<1>4. CASE RecallFiles
  BY <1>4, <1>a, <1>b, <1>c DEF RecallFiles, OwnFiles, On, WorkerTypeOK
<1>5. CASE KeepArtifact
  <2>1. PICK a \in On : Immutable(a, Content(basis, 0))
    BY <1>5 DEF KeepArtifact
  <2>2. outcome = "running" /\ attempt' = attempt /\ at \in Writers(Program)
    BY <1>5, <1>c DEF KeepArtifact
  <2>3. Wrote(a, Content(basis, 0))
    BY <2>1, ImmutableWrites
  <2>4. /\ DOMAIN disk' = DOMAIN disk \cup {a} /\ outcome' # "queued"
        /\ at' = at + 1 \/ (at' = at /\ a \in DOMAIN disk)
    BY <2>2, <2>3 DEF Wrote
  <2> QED
    BY <2>2, <2>4, <1>a, <1>b, <1>c DEF OwnFiles, On
<1>6. CASE StampArtifact
  <2>1. PICK a \in On : Immutable(a, Content(basis, attempt))
    BY <1>6 DEF StampArtifact
  <2>2. outcome = "running" /\ attempt' = attempt /\ at \in Writers(Program)
    BY <1>6, <1>c DEF StampArtifact
  <2>3. Wrote(a, Content(basis, attempt))
    BY <2>1, ImmutableWrites
  <2>4. /\ DOMAIN disk' = DOMAIN disk \cup {a} /\ outcome' # "queued"
        /\ at' = at + 1 \/ (at' = at /\ a \in DOMAIN disk)
    BY <2>2, <2>3 DEF Wrote
  <2> QED
    BY <2>2, <2>4, <1>a, <1>b, <1>c DEF OwnFiles, On
<1>7. CASE PutArtifact
  <2>1. PICK a \in On : Immutable(a, Content(basis, 0))
    BY <1>7 DEF PutArtifact
  <2>2. outcome = "running" /\ attempt' = attempt /\ at \in Writers(Program)
    BY <1>7, <1>c DEF PutArtifact
  <2>3. Wrote(a, Content(basis, 0))
    BY <2>1, ImmutableWrites
  <2>4. /\ DOMAIN disk' = DOMAIN disk \cup {a} /\ outcome' # "queued"
        /\ at' = at + 1 \/ (at' = at /\ a \in DOMAIN disk)
    BY <2>2, <2>3 DEF Wrote
  <2> QED
    BY <2>2, <2>4, <1>a, <1>b, <1>c DEF OwnFiles, On
<1>8. CASE MatchArtifacts
  BY <1>8, <1>a, <1>b, <1>c DEF MatchArtifacts, OwnFiles, On, WorkerTypeOK
<1>9. CASE OverwriteArtifact
  <2>1. PICK a \in On : disk' = With(disk, a, Content(basis, 0))
    BY <1>9 DEF OverwriteArtifact
  <2>2. /\ outcome = "running" /\ attempt' = attempt /\ at \in Writers(Program)
        /\ at' = at + 1 /\ outcome' = outcome
    BY <1>9, <1>c DEF OverwriteArtifact
  <2>3. DOMAIN disk' = DOMAIN disk \cup {a}
    BY <2>1 DEF With
  <2> QED
    BY <2>1, <2>2, <2>3, <1>a, <1>b, <1>c DEF OwnFiles, On
<1>10. CASE RecordAccess
  BY <1>10, <1>a, <1>b, <1>c DEF RecordAccess, OwnFiles, On, WorkerTypeOK
<1>11. CASE SelectCandidates
  BY <1>11, <1>a, <1>b, <1>c DEF SelectCandidates, OwnFiles, On, WorkerTypeOK
<1>12. CASE ConfirmCandidates
  BY <1>12, <1>a, <1>b, <1>c DEF ConfirmCandidates, OwnFiles, On, WorkerTypeOK
<1>13. CASE ProveData
  BY <1>13, <1>a, <1>b, <1>c DEF ProveData, Answer, OwnFiles, On, WorkerTypeOK
<1>14. CASE ConfigureShadow
  <2>1. outcome = "running" /\ attempt' = attempt /\ at \in Writers(Program)
    BY <1>14, <1>c, ConfiguresOrNot DEF Configures
  <2>2. CASE Advance /\ disk' = disk /\ meant' = meant
    BY <2>1, <2>2, <1>a, <1>b, <1>c DEF OwnFiles
  <2>3. CASE \E a \in On : Immutable(a, Content(basis, 0))
    <3>1. PICK a \in On : Immutable(a, Content(basis, 0))
      BY <2>3
    <3>2. Wrote(a, Content(basis, 0))
      BY <3>1, ImmutableWrites
    <3>3. /\ DOMAIN disk' = DOMAIN disk \cup {a} /\ outcome' # "queued"
          /\ at' = at + 1 \/ (at' = at /\ a \in DOMAIN disk)
      BY <2>1, <3>2 DEF Wrote
    <3> QED
      BY <2>1, <3>3, <1>a, <1>b, <1>c DEF OwnFiles, On
  <2> QED
    BY <1>14, <2>2, <2>3, ConfiguresOrNot DEF Configures
<1>15. CASE Conclude
  BY <1>15, <1>a, <1>b, <1>c DEF Conclude, Answer, OwnFiles, On, WorkerTypeOK
<1>16. CASE Publish
  BY <1>16, <1>a, <1>b, <1>c DEF Publish, Alive, OwnFiles, On, WorkerTypeOK
<1>17. CASE Retry
  BY <1>17, <1>a, <1>b, <1>c DEF Retry, Again, OwnFiles, On, WorkerTypeOK
<1>18. CASE Tear
  BY <1>18, <1>a, <1>b, <1>c DEF Tear, Again, With, OwnFiles, On, WorkerTypeOK
<1>19. CASE Drift
  BY <1>19, <1>a, <1>b, <1>c DEF Drift, OwnFiles, On, WorkerTypeOK
<1>20. CASE UNCHANGED vars
  BY <1>20, <1>a, <1>b, <1>c DEF vars, OwnFiles, On, WorkerTypeOK
<1> QED
  BY <1>1, <1>2, <1>3, <1>4, <1>5, <1>6, <1>7, <1>8, <1>9, <1>10,
     <1>11, <1>12, <1>13, <1>14, <1>15, <1>16, <1>17, <1>18, <1>19, <1>20
     DEF WorkerNext

\* One result while nothing has drifted.
LEMMA OneResultStep ==
  ASSUME WorkerInv, [WorkerNext]_vars
  PROVE  OneResult'
<1>a. OneResult /\ WorkerTypeOK
  BY DEF WorkerInv
<1>b. /\ job' = job /\ Program' = Program
      /\ \A op : Steps(op)' = Steps(op)
      /\ at \in Nat /\ rows \in Nat /\ attempt \in Nat /\ Len(Program) \in Nat
      /\ \A op : Steps(op) \subseteq Nat \ {0}
      /\ \A op : Doing(op) => at \in Steps(op)
      /\ \A op, o : Doing(op) /\ at \in Steps(o) => o = op
  BY Context
<1> USE DEF Doing, Advance, Require, Refuse, run, files, access, answers
<1>1. CASE Begin
  BY <1>1, <1>a, <1>b DEF Begin, Nothing, OneResult, WorkerTypeOK, On
<1>2. CASE CheckFiles
  BY <1>2, <1>a, <1>b DEF CheckFiles, OneResult, WorkerTypeOK, On
<1>3. CASE UseFiles
  BY <1>3, <1>a, <1>b DEF UseFiles, OneResult, WorkerTypeOK, On
<1>4. CASE RecallFiles
  BY <1>4, <1>a, <1>b DEF RecallFiles, OneResult, WorkerTypeOK, On
<1>5. CASE KeepArtifact
  <2>1. PICK a \in On : Immutable(a, Content(basis, 0))
    BY <1>5 DEF KeepArtifact
  <2>2. /\ Doing("keep") /\ outcome = "running" /\ job' = job /\ attempt' = attempt
        /\ drifted' = drifted /\ stale' = stale /\ basis' = basis
        /\ chosen' = chosen /\ looked' = looked
    BY <1>5 DEF KeepArtifact
  <2>3. Wrote(a, Content(basis, 0))
    BY <2>1, ImmutableWrites
  <2> QED
    BY <2>2, <2>3, <1>a, <1>b DEF Wrote, OneResult
<1>6. CASE StampArtifact
  <2>1. PICK a \in On : Immutable(a, Content(basis, attempt))
    BY <1>6 DEF StampArtifact
  <2>2. /\ Doing("stamp") /\ outcome = "running" /\ job' = job /\ attempt' = attempt
        /\ drifted' = drifted /\ stale' = stale /\ basis' = basis
        /\ chosen' = chosen /\ looked' = looked
    BY <1>6 DEF StampArtifact
  <2>3. Wrote(a, Content(basis, attempt))
    BY <2>1, ImmutableWrites
  <2> QED
    BY <2>2, <2>3, <1>a, <1>b DEF Wrote, OneResult
<1>7. CASE PutArtifact
  <2>1. PICK a \in On : Immutable(a, Content(basis, 0))
    BY <1>7 DEF PutArtifact
  <2>2. /\ Doing("put") /\ outcome = "running" /\ job' = job /\ attempt' = attempt
        /\ drifted' = drifted /\ stale' = stale /\ basis' = basis
        /\ chosen' = chosen /\ looked' = looked
    BY <1>7 DEF PutArtifact
  <2>3. Wrote(a, Content(basis, 0))
    BY <2>1, ImmutableWrites
  <2> QED
    BY <2>2, <2>3, <1>a, <1>b DEF Wrote, OneResult
<1>8. CASE MatchArtifacts
  BY <1>8, <1>a, <1>b DEF MatchArtifacts, OneResult, WorkerTypeOK, On
<1>9. CASE OverwriteArtifact
  <2>1. PICK a \in On : disk' = With(disk, a, Content(basis, 0))
    BY <1>9 DEF OverwriteArtifact
  <2>2. /\ Doing("overwrite") /\ outcome = "running" /\ job' = job /\ attempt' = attempt
        /\ drifted' = drifted /\ stale' = stale /\ basis' = basis
        /\ chosen' = chosen /\ looked' = looked
        /\ at' = at + 1 /\ outcome' = outcome /\ cause' = cause
    BY <1>9 DEF OverwriteArtifact
  <2>3. /\ DOMAIN disk' = DOMAIN disk \cup {a} /\ disk'[a] = Content(basis, 0)
        /\ \A b \in DOMAIN disk : b # a => disk'[b] = disk[b]
    BY <2>1 DEF With
  <2> QED
    BY <2>2, <2>3, <1>a, <1>b DEF OneResult
<1>10. CASE RecordAccess
  BY <1>10, <1>a, <1>b DEF RecordAccess, OneResult, WorkerTypeOK, On
<1>11. CASE SelectCandidates
  BY <1>11, <1>a, <1>b DEF SelectCandidates, OneResult, WorkerTypeOK, On
<1>12. CASE ConfirmCandidates
  BY <1>12, <1>a, <1>b DEF ConfirmCandidates, OneResult, WorkerTypeOK, On
<1>13. CASE ProveData
  BY <1>13, <1>a, <1>b DEF ProveData, Answer, OneResult, WorkerTypeOK, On
<1>14. CASE ConfigureShadow
  <2>1. /\ Doing("configure") /\ outcome = "running" /\ job' = job /\ attempt' = attempt
        /\ drifted' = drifted /\ stale' = stale /\ basis' = basis
        /\ chosen' = chosen /\ looked' = looked
    BY <1>14, ConfiguresOrNot DEF Configures
  <2>2. CASE Advance /\ disk' = disk /\ meant' = meant
    BY <2>1, <2>2, <1>a, <1>b DEF OneResult
  <2>3. CASE \E a \in On : Immutable(a, Content(basis, 0))
    <3>1. PICK a \in On : Immutable(a, Content(basis, 0))
      BY <2>3
    <3>2. Wrote(a, Content(basis, 0))
      BY <3>1, ImmutableWrites
    <3> QED
      BY <2>1, <3>2, <1>a, <1>b DEF Wrote, OneResult
  <2> QED
    BY <1>14, <2>2, <2>3, ConfiguresOrNot DEF Configures
<1>15. CASE Conclude
  BY <1>15, <1>a, <1>b DEF Conclude, Answer, OneResult, WorkerTypeOK, On
<1>16. CASE Publish
  BY <1>16, <1>a, <1>b DEF Publish, Alive, OneResult, WorkerTypeOK, On
<1>17. CASE Retry
  BY <1>17, <1>a, <1>b DEF Retry, Again, OneResult, WorkerTypeOK, On
<1>18. CASE Tear
  BY <1>18, <1>a, <1>b DEF Tear, Again, With, OneResult, WorkerTypeOK, On
<1>19. CASE Drift
  BY <1>19, <1>a, <1>b DEF Drift, OneResult, WorkerTypeOK, On
<1>20. CASE UNCHANGED vars
  BY <1>20, <1>a, <1>b DEF vars, OneResult, WorkerTypeOK, On
<1> QED
  BY <1>1, <1>2, <1>3, <1>4, <1>5, <1>6, <1>7, <1>8, <1>9, <1>10,
     <1>11, <1>12, <1>13, <1>14, <1>15, <1>16, <1>17, <1>18, <1>19, <1>20
     DEF WorkerNext

\* A file that is not as it should be is torn, or an earlier attempt left it,
\* in a job whose results may differ.
LEMMA WhyDivergent ==
  ASSUME WorkerInv, NEW a \in DOMAIN disk, disk[a] # Content(basis, 0), drifted = {},
         NEW k \in Writers(Program) \cup Steps("match"), k = at, a \in Program[k].on,
         Program[k].op # "overwrite"
  PROVE  disk[a] = Torn \/ (attempt > 1 /\ Steps("stamp") \cup Steps("recall") # {})
<1>1. OneResult /\ OwnFiles /\ attempt \in Nat \ {0} /\ WrittenOnce(Program)
  BY ProgramFacts, WorkerAssumption DEF WorkerInv, WorkerTypeOK
<1>2. attempt # 1
  BY <1>1 DEF OwnFiles, WrittenOnce, Steps
<1> QED
  BY <1>1, <1>2 DEF OneResult

\* Only the data, a torn file or a predecessor can make a job fail.
LEMMA RetryStep ==
  ASSUME WorkerInv, [WorkerNext]_vars
  PROVE  RetryIsFree'
<1>a. RetryIsFree /\ OwnFiles /\ WorkerTypeOK
  BY DEF WorkerInv
<1>b. /\ job' = job /\ Program' = Program
      /\ \A op : Steps(op)' = Steps(op)
      /\ at \in Nat /\ rows \in Nat /\ attempt \in Nat /\ Len(Program) \in Nat
      /\ \A op : Steps(op) \subseteq Nat \ {0}
      /\ \A op : Doing(op) => at \in Steps(op)
      /\ \A op, o : Doing(op) /\ at \in Steps(o) => o = op
  BY Context
<1>c. /\ \A i \in Writers(Program) : i \in Nat \ {0}
      /\ \A op \in {"keep", "stamp", "put", "configure", "overwrite"} :
           Doing(op) => at \in Writers(Program)
  BY <1>b DEF Writers, Steps, StepsOf
<1>d. WrittenOnce(Program)
  BY <1>a, ProgramFacts DEF WorkerTypeOK
<1> USE DEF Doing, Advance, Require, Refuse, run, files, access, answers
<1>1. CASE Begin
  BY <1>1, <1>a, <1>b DEF Begin, Nothing, RetryIsFree, WorkerTypeOK, On
<1>2. CASE CheckFiles
  BY <1>2, <1>a, <1>b DEF CheckFiles, RetryIsFree, WorkerTypeOK, On
<1>3. CASE UseFiles
  BY <1>3, <1>a, <1>b DEF UseFiles, RetryIsFree, WorkerTypeOK, On
<1>4. CASE RecallFiles
  BY <1>4, <1>a, <1>b DEF RecallFiles, RetryIsFree, WorkerTypeOK, On
<1>5. CASE KeepArtifact
  <2>1. PICK a \in On : Immutable(a, Content(basis, 0))
    BY <1>5 DEF KeepArtifact
  <2>2. /\ Doing("keep") /\ outcome = "running" /\ job' = job /\ attempt' = attempt
        /\ drifted' = drifted /\ stale' = stale /\ basis' = basis
        /\ chosen' = chosen /\ looked' = looked
    BY <1>5 DEF KeepArtifact
  <2>3. Wrote(a, Content(basis, 0))
    BY <2>1, ImmutableWrites
  <2>4. at \in Writers(Program) /\ a \in Program[at].on /\ Program[at].op # "overwrite"
    BY <2>2, <1>c DEF On
  <2>5. a \in DOMAIN disk /\ disk[a] # Content(basis, 0) /\ drifted = {} =>
          disk[a] = Torn \/ (attempt > 1 /\ Steps("stamp") \cup Steps("recall") # {})
    BY <2>4, WhyDivergent
  <2> QED
    BY <2>2, <2>3, <2>5, <1>b DEF Wrote, RetryIsFree
<1>6. CASE StampArtifact
  <2>1. PICK a \in On : Immutable(a, Content(basis, attempt))
    BY <1>6 DEF StampArtifact
  <2>2. /\ Doing("stamp") /\ outcome = "running" /\ job' = job /\ attempt' = attempt
        /\ drifted' = drifted /\ stale' = stale /\ basis' = basis
        /\ chosen' = chosen /\ looked' = looked
    BY <1>6 DEF StampArtifact
  <2>3. Wrote(a, Content(basis, attempt))
    BY <2>1, ImmutableWrites
  <2>4. attempt # 1 \/ a \notin DOMAIN disk
    BY <2>2, <1>a, <1>b, <1>c, <1>d DEF OwnFiles, WrittenOnce, On
  <2>5. Steps("stamp")' \cup Steps("recall")' # {} /\ (attempt # 1 => attempt' > 1)
    BY <2>2, <1>a, <1>b, WorkerAssumption DEF WorkerTypeOK
  <2> QED
    BY <2>2, <2>3, <2>4, <2>5 DEF Wrote, RetryIsFree
<1>7. CASE PutArtifact
  <2>1. PICK a \in On : Immutable(a, Content(basis, 0))
    BY <1>7 DEF PutArtifact
  <2>2. /\ Doing("put") /\ outcome = "running" /\ job' = job /\ attempt' = attempt
        /\ drifted' = drifted /\ stale' = stale /\ basis' = basis
        /\ chosen' = chosen /\ looked' = looked
    BY <1>7 DEF PutArtifact
  <2>3. Wrote(a, Content(basis, 0))
    BY <2>1, ImmutableWrites
  <2>4. at \in Writers(Program) /\ a \in Program[at].on /\ Program[at].op # "overwrite"
    BY <2>2, <1>c DEF On
  <2>5. a \in DOMAIN disk /\ disk[a] # Content(basis, 0) /\ drifted = {} =>
          disk[a] = Torn \/ (attempt > 1 /\ Steps("stamp") \cup Steps("recall") # {})
    BY <2>4, WhyDivergent
  <2> QED
    BY <2>2, <2>3, <2>5, <1>b DEF Wrote, RetryIsFree
<1>8. CASE MatchArtifacts
  <2>1. /\ outcome = "running" /\ job' = job /\ attempt' = attempt /\ disk' = disk
        /\ drifted' = drifted /\ at \in Steps("match") /\ Program[at].op = "match"
        /\ (outcome' = outcome
            \/ \E a \in On \cap DOMAIN disk : disk[a] # Content(basis, 0))
    BY <1>8, <1>b DEF MatchArtifacts
  <2>2. CASE outcome' = outcome
    BY <2>1, <2>2 DEF RetryIsFree
  <2>3. ASSUME NEW a \in On \cap DOMAIN disk, disk[a] # Content(basis, 0), drifted = {}
        PROVE  disk[a] = Torn \/ (attempt > 1 /\ Steps("stamp") \cup Steps("recall") # {})
    BY <2>1, <2>3, WhyDivergent DEF On
  <2> QED
    BY <2>1, <2>2, <2>3, <1>b DEF RetryIsFree
<1>9. CASE OverwriteArtifact
  BY <1>9, <1>a, <1>b DEF OverwriteArtifact, With, RetryIsFree, WorkerTypeOK, On
<1>10. CASE RecordAccess
  BY <1>10, <1>a, <1>b DEF RecordAccess, RetryIsFree, WorkerTypeOK, On
<1>11. CASE SelectCandidates
  BY <1>11, <1>a, <1>b DEF SelectCandidates, RetryIsFree, WorkerTypeOK, On
<1>12. CASE ConfirmCandidates
  BY <1>12, <1>a, <1>b DEF ConfirmCandidates, RetryIsFree, WorkerTypeOK, On
<1>13. CASE ProveData
  BY <1>13, <1>a, <1>b DEF ProveData, Answer, RetryIsFree, WorkerTypeOK, On
<1>14. CASE ConfigureShadow
  <2>1. /\ Doing("configure") /\ outcome = "running" /\ job' = job /\ attempt' = attempt
        /\ drifted' = drifted /\ stale' = stale /\ basis' = basis
        /\ chosen' = chosen /\ looked' = looked
    BY <1>14, ConfiguresOrNot DEF Configures
  <2>2. CASE Advance /\ disk' = disk /\ meant' = meant
    BY <2>1, <2>2 DEF RetryIsFree
  <2>3. CASE \E a \in On : Immutable(a, Content(basis, 0))
    <3>1. PICK a \in On : Immutable(a, Content(basis, 0))
      BY <2>3
    <3>2. Wrote(a, Content(basis, 0))
      BY <3>1, ImmutableWrites
    <3>3. at \in Writers(Program) /\ a \in Program[at].on /\ Program[at].op # "overwrite"
      BY <2>1, <1>c DEF On
    <3>4. a \in DOMAIN disk /\ disk[a] # Content(basis, 0) /\ drifted = {} =>
            disk[a] = Torn \/ (attempt > 1 /\ Steps("stamp") \cup Steps("recall") # {})
      BY <3>3, WhyDivergent
    <3> QED
      BY <2>1, <3>2, <3>4, <1>b DEF Wrote, RetryIsFree
  <2> QED
    BY <1>14, <2>2, <2>3, ConfiguresOrNot DEF Configures
<1>15. CASE Conclude
  BY <1>15, <1>a, <1>b DEF Conclude, Answer, RetryIsFree, WorkerTypeOK, On
<1>16. CASE Publish
  BY <1>16, <1>a, <1>b DEF Publish, Alive, RetryIsFree, WorkerTypeOK, On
<1>17. CASE Retry
  BY <1>17, <1>a, <1>b DEF Retry, Again, RetryIsFree, WorkerTypeOK, On
<1>18. CASE Tear
  BY <1>18, <1>a, <1>b DEF Tear, Again, With, RetryIsFree, WorkerTypeOK, On
<1>19. CASE Drift
  BY <1>19, <1>a, <1>b DEF Drift, RetryIsFree, WorkerTypeOK, On
<1>20. CASE UNCHANGED vars
  BY <1>20, <1>a, <1>b DEF vars, RetryIsFree, WorkerTypeOK, On
<1> QED
  BY <1>1, <1>2, <1>3, <1>4, <1>5, <1>6, <1>7, <1>8, <1>9, <1>10,
     <1>11, <1>12, <1>13, <1>14, <1>15, <1>16, <1>17, <1>18, <1>19, <1>20
     DEF WorkerNext

\* What was chosen is held in its file, before anything is looked at.
LEMMA HeldStep ==
  ASSUME WorkerInv, [WorkerNext]_vars,
         NEW s \in Steps("select"), NEW f \in Steps("keep") \cup Steps("put"),
         Freezes(Program, s, f), HeldBy(s, f)
  PROVE  HeldBy(s, f)'
<1>a. HeldBy(s, f) /\ WorkerTypeOK
  BY DEF WorkerInv
<1>b. /\ job' = job /\ Program' = Program
      /\ \A op : Steps(op)' = Steps(op)
      /\ at \in Nat /\ rows \in Nat /\ attempt \in Nat /\ Len(Program) \in Nat
      /\ \A op : Steps(op) \subseteq Nat \ {0}
      /\ \A op : Doing(op) => at \in Steps(op)
      /\ \A op, o : Doing(op) /\ at \in Steps(o) => o = op
  BY Context
<1>c. /\ s \in Nat \ {0} /\ f \in Nat \ {0} /\ s < f
      /\ \A i \in Steps("select") : i <= s
      /\ \A i \in Steps("confirm") : f < i
      /\ Doing("use") \/ Doing("recall") => at < s \/ f < at
      /\ at = s => Program[at].op = "select"
      /\ at = f => Program[at].op \in {"keep", "put"}
  <2>1. /\ s \in Nat \ {0} /\ f \in Nat \ {0} /\ s < f
        /\ \A i \in Steps("select") : i <= s
        /\ \A i \in Steps("confirm") : f < i
        /\ Program[s].op = "select" /\ Program[f].op \in {"keep", "put"}
    BY <1>b DEF Freezes, Steps, StepsOf
  <2> QED
    BY <1>b, <2>1 DEF Freezes, Doing
<1>d. PICK x : Program[f].on = {x}
  <2>1. Program[f].on # {} /\ \A a, b \in Program[f].on : a = b
    BY DEF Freezes
  <2> QED
    BY <2>1
<1> USE DEF Doing, Advance, Require, Refuse, run, files, access, answers
<1>1. CASE Begin
  BY <1>1, <1>a, <1>b, <1>c, <1>d DEF Begin, Nothing, HeldBy
<1>2. CASE CheckFiles
  BY <1>2, <1>a, <1>b, <1>c, <1>d DEF CheckFiles, HeldBy
<1>3. CASE UseFiles
  BY <1>3, <1>a, <1>b, <1>c, <1>d DEF UseFiles, HeldBy
<1>4. CASE RecallFiles
  BY <1>4, <1>a, <1>b, <1>c, <1>d DEF RecallFiles, HeldBy
<1>5. CASE KeepArtifact
  <2>1. PICK a \in On : Immutable(a, Content(basis, 0))
    BY <1>5 DEF KeepArtifact
  <2>2. /\ Doing("keep") /\ outcome = "running" /\ job' = job /\ attempt' = attempt
        /\ drifted' = drifted /\ stale' = stale /\ basis' = basis
        /\ chosen' = chosen /\ looked' = looked
    BY <1>5 DEF KeepArtifact
  <2>3. Wrote(a, Content(basis, 0))
    BY <2>1, ImmutableWrites
  <2>4. at \in Nat /\ (f < at' => f < at \/ at = f)
    BY <2>3, <1>b, <1>c DEF Wrote
  <2>5. a \in Program[at].on
    BY DEF On
  <2>6. at = f => a = x /\ basis = chosen
    BY <2>2, <2>5, <1>a, <1>b, <1>c, <1>d DEF HeldBy
  <2> QED
    BY <2>2, <2>3, <2>4, <2>6, <1>a, <1>b, <1>c, <1>d DEF Wrote, HeldBy
<1>6. CASE StampArtifact
  <2>1. PICK a \in On : Immutable(a, Content(basis, attempt))
    BY <1>6 DEF StampArtifact
  <2>2. /\ Doing("stamp") /\ outcome = "running" /\ job' = job /\ attempt' = attempt
        /\ drifted' = drifted /\ stale' = stale /\ basis' = basis
        /\ chosen' = chosen /\ looked' = looked
    BY <1>6 DEF StampArtifact
  <2>3. Wrote(a, Content(basis, attempt))
    BY <2>1, ImmutableWrites
  <2> QED
    BY <2>2, <2>3, <1>a, <1>b, <1>c, <1>d DEF Wrote, HeldBy
<1>7. CASE PutArtifact
  <2>1. PICK a \in On : Immutable(a, Content(basis, 0))
    BY <1>7 DEF PutArtifact
  <2>2. /\ Doing("put") /\ outcome = "running" /\ job' = job /\ attempt' = attempt
        /\ drifted' = drifted /\ stale' = stale /\ basis' = basis
        /\ chosen' = chosen /\ looked' = looked
    BY <1>7 DEF PutArtifact
  <2>3. Wrote(a, Content(basis, 0))
    BY <2>1, ImmutableWrites
  <2>4. at \in Nat /\ (f < at' => f < at \/ at = f)
    BY <2>3, <1>b, <1>c DEF Wrote
  <2>5. a \in Program[at].on
    BY DEF On
  <2>6. at = f => a = x /\ basis = chosen
    BY <2>2, <2>5, <1>a, <1>b, <1>c, <1>d DEF HeldBy
  <2> QED
    BY <2>2, <2>3, <2>4, <2>6, <1>a, <1>b, <1>c, <1>d DEF Wrote, HeldBy
<1>8. CASE MatchArtifacts
  BY <1>8, <1>a, <1>b, <1>c, <1>d DEF MatchArtifacts, HeldBy
<1>9. CASE OverwriteArtifact
  <2>1. PICK a \in On : disk' = With(disk, a, Content(basis, 0))
    BY <1>9 DEF OverwriteArtifact
  <2>2. /\ Doing("overwrite") /\ outcome = "running" /\ job' = job /\ attempt' = attempt
        /\ drifted' = drifted /\ stale' = stale /\ basis' = basis
        /\ chosen' = chosen /\ looked' = looked
        /\ at' = at + 1 /\ outcome' = outcome /\ cause' = cause
    BY <1>9 DEF OverwriteArtifact
  <2>3. /\ DOMAIN disk' = DOMAIN disk \cup {a} /\ disk'[a] = Content(basis, 0)
        /\ \A b \in DOMAIN disk : b # a => disk'[b] = disk[b]
    BY <2>1 DEF With
  <2>4. a # x
    BY <2>2, <1>b, <1>c, <1>d DEF Freezes, On, Steps
  <2> QED
    BY <2>2, <2>3, <2>4, <1>a, <1>b, <1>c, <1>d DEF HeldBy
<1>10. CASE RecordAccess
  BY <1>10, <1>a, <1>b, <1>c, <1>d DEF RecordAccess, HeldBy
<1>11. CASE SelectCandidates
  BY <1>11, <1>a, <1>b, <1>c, <1>d DEF SelectCandidates, HeldBy
<1>12. CASE ConfirmCandidates
  BY <1>12, <1>a, <1>b, <1>c, <1>d DEF ConfirmCandidates, HeldBy
<1>13. CASE ProveData
  BY <1>13, <1>a, <1>b, <1>c, <1>d DEF ProveData, Answer, HeldBy
<1>14. CASE ConfigureShadow
  <2>1. /\ Doing("configure") /\ outcome = "running" /\ job' = job /\ attempt' = attempt
        /\ drifted' = drifted /\ stale' = stale /\ basis' = basis
        /\ chosen' = chosen /\ looked' = looked
    BY <1>14, ConfiguresOrNot DEF Configures
  <2>2. CASE Advance /\ disk' = disk /\ meant' = meant
    BY <2>1, <2>2, <1>a, <1>b, <1>c, <1>d DEF HeldBy
  <2>3. CASE \E a \in On : Immutable(a, Content(basis, 0))
    <3>1. PICK a \in On : Immutable(a, Content(basis, 0))
      BY <2>3
    <3>2. Wrote(a, Content(basis, 0))
      BY <3>1, ImmutableWrites
    <3> QED
      BY <2>1, <3>2, <1>a, <1>b, <1>c, <1>d DEF Wrote, HeldBy
  <2> QED
    BY <1>14, <2>2, <2>3, ConfiguresOrNot DEF Configures
<1>15. CASE Conclude
  BY <1>15, <1>a, <1>b, <1>c, <1>d DEF Conclude, Answer, HeldBy
<1>16. CASE Publish
  BY <1>16, <1>a, <1>b, <1>c, <1>d DEF Publish, Alive, HeldBy
<1>17. CASE Retry
  BY <1>17, <1>a, <1>b, <1>c, <1>d DEF Retry, Again, HeldBy
<1>18. CASE Tear
  <2>1. PICK a \in On : /\ Doing("overwrite") \/ a \notin DOMAIN disk
                       /\ disk' = With(disk, a, Torn)
    BY <1>18 DEF Tear
  <2>2. outcome' = "queued" /\ looked' = looked
    BY <1>18 DEF Tear, Again
  <2>3. x \in DOMAIN disk => a # x
    BY <2>1, <1>b, <1>d DEF Freezes, On, Steps
  <2>4. x \in DOMAIN disk => x \in DOMAIN disk' /\ disk'[x] = disk[x]
    BY <2>1, <2>3 DEF With
  <2> QED
    BY <2>2, <2>4, <1>a, <1>b, <1>d DEF HeldBy
<1>19. CASE Drift
  BY <1>19, <1>a, <1>b, <1>c, <1>d DEF Drift, HeldBy
<1>20. CASE UNCHANGED vars
  BY <1>20, <1>a, <1>b, <1>c, <1>d DEF vars, HeldBy
<1> QED
  BY <1>1, <1>2, <1>3, <1>4, <1>5, <1>6, <1>7, <1>8, <1>9, <1>10,
     <1>11, <1>12, <1>13, <1>14, <1>15, <1>16, <1>17, <1>18, <1>19, <1>20
     DEF WorkerNext

\* The selection is frozen before the first look, or there is nothing to freeze.
LEMMA SelectionStep ==
  ASSUME WorkerInv, [WorkerNext]_vars
  PROVE  SelectionHeld'
<1>a. /\ SelectionHeld /\ job' = job /\ Program' = Program
      /\ \A op : Steps(op)' = Steps(op)
      /\ \A op : Doing(op) => at \in Steps(op)
  BY Context DEF WorkerInv
<1>1. CASE job \in Unfrozen
  BY <1>1, <1>a DEF SelectionHeld
<1>2. CASE Steps("confirm") = {} /\ looked = {}
  <2>1. looked' = looked
    <3>1. CASE ConfirmCandidates
      BY <3>1, <1>2, <1>a DEF ConfirmCandidates
    <3>2. CASE ConfigureShadow
      BY <3>2, ConfiguresOrNot DEF Configures
    <3> QED
      BY <3>1, <3>2 DEF WorkerNext, vars, access, Begin, CheckFiles, UseFiles, RecallFiles,
         KeepArtifact, StampArtifact, PutArtifact, MatchArtifacts, OverwriteArtifact,
         RecordAccess, SelectCandidates, ProveData, Conclude, Publish, Retry, Tear, Again,
         Drift
  <2> QED
    BY <1>2, <2>1, <1>a DEF SelectionHeld
<1>3. CASE Steps("select") = {} /\ chosen = {} /\ looked \subseteq {{}}
  <2>1. chosen' = {} /\ looked' \subseteq {{}}
    <3>1. CASE SelectCandidates
      BY <3>1, <1>3, <1>a DEF SelectCandidates
    <3>2. CASE ConfigureShadow
      BY <3>2, <1>3, ConfiguresOrNot DEF Configures
    <3> QED
      BY <1>3, <3>1, <3>2 DEF WorkerNext, vars, access, Begin, CheckFiles, UseFiles,
         RecallFiles, KeepArtifact, StampArtifact, PutArtifact, MatchArtifacts,
         OverwriteArtifact, RecordAccess, ConfirmCandidates, ProveData, Conclude, Publish,
         Retry, Tear, Again, Drift
  <2> QED
    BY <1>3, <2>1, <1>a DEF SelectionHeld
<1>4. ASSUME NEW s \in Steps("select"), NEW f \in Steps("keep") \cup Steps("put"),
             Freezes(Program, s, f), HeldBy(s, f)
      PROVE  SelectionHeld'
  <2>1. HeldBy(s, f)'
    BY <1>4, HeldStep
  <2>2. Freezes(Program, s, f)'
    BY <1>4, <1>a DEF Freezes
  <2> QED
    BY <2>1, <2>2, <1>a DEF SelectionHeld
<1> QED
  BY <1>1, <1>2, <1>3, <1>4, <1>a DEF SelectionHeld

-----------------------------------------------------------------------------
(* The theorems.                                                           *)

\* The invariant holds at the start.
LEMMA InvInit == WorkerInit => WorkerInv
<1> SUFFICES ASSUME WorkerInit PROVE WorkerInv
  OBVIOUS
<1>1. /\ Len(Program) \in Nat /\ job \in Jobs
      /\ job \notin Unfrozen => SelectionIsFrozen(Program)
  BY ProgramFacts DEF WorkerInit
<1>2. \A op : Steps(op) \subseteq Nat \ {0}
  BY <1>1 DEF Steps, StepsOf
<1>3. WorkerTypeOK
  BY <1>1, WorkerAssumption DEF WorkerInit, WorkerTypeOK
<1>4. SelectionHeld
  BY <1>1, <1>2 DEF WorkerInit, SelectionHeld, HeldBy, SelectionIsFrozen, Steps
<1>5. OneResult /\ OwnFiles /\ RetryIsFree /\ WholeSoFar
  BY DEF WorkerInit, Nothing, OneResult, OwnFiles, RetryIsFree, WholeSoFar, Alive
<1>6. RowsCounted
  BY <1>2 DEF WorkerInit, RowsCounted
<1>7. Compared /\ Concluded
  BY DEF WorkerInit, Compared, Concluded, Alive
<1> QED
  BY <1>3, <1>4, <1>5, <1>6, <1>7 DEF WorkerInv, WorkerInit

\* Every step keeps it.
LEMMA InvStep == WorkerInv /\ [WorkerNext]_vars => WorkerInv'
BY TypeStep, RowsStep, WholeStep, ComparedStep, ConcludedStep, OwnFilesStep,
   OneResultStep, RetryStep, SelectionStep
   DEF WorkerInv

(***************************************************************************)
(* The inductive invariant: where the selection is held, what the files    *)
(* contain, which inputs were compared, however often a job begins again.  *)
(***************************************************************************)
THEOREM WorkerInvariance == WorkerSpec => []WorkerInv
BY InvInit, InvStep, PTL DEF WorkerSpec

\* Types: a job stays within its program, its attempts and its ledger rows.
THEOREM WorkerTypeCorrect == WorkerSpec => []WorkerTypeOK
<1>1. WorkerInv => WorkerTypeOK
  BY DEF WorkerInv
<1> QED
  BY <1>1, WorkerInvariance, PTL

\* The confirmation data of 2024 are looked at for one selection at most,
\* however often an attempt dies and whatever changes before the next.
THEOREM LooksOnce == WorkerSpec => []OneSelection
<1>1. ASSUME WorkerInv, job \notin Unfrozen PROVE \E S : looked \subseteq {S}
  <2>1. CASE looked \subseteq {{}}
    BY <2>1
  <2>2. ASSUME NEW s, NEW f, Freezes(Program, s, f), HeldBy(s, f)
        PROVE  \E S : looked \subseteq {S}
    <3>1. PICK a \in Program[f].on : TRUE
      BY <2>2 DEF Freezes
    <3>2. \A S \in looked : disk[a] = Content(S, 0)
      BY <2>2, <3>1 DEF HeldBy
    <3>3. looked \subseteq {disk[a].of}
      <4>1. \A S : Content(S, 0).of = S
        BY DEF Content
      <4> QED
        BY <3>2, <4>1
    <3> QED
      BY <3>3
  <2> QED
    BY <1>1, <2>1, <2>2 DEF WorkerInv, SelectionHeld
<1>2. WorkerInv => OneSelection
  <2> SUFFICES ASSUME WorkerInv, job \notin Unfrozen PROVE Cardinality(looked) <= 1
    BY DEF OneSelection
  <2>1. PICK S : looked \subseteq {S}
    BY <1>1
  <2>2. looked = {} \/ looked = {S}
    BY <2>1
  <2>3. Cardinality({}) = 0 /\ Cardinality({S}) = 1
    BY FS_EmptySet, FS_Singleton
  <2> QED
    BY <2>2, <2>3
<1> QED
  BY <1>2, WorkerInvariance, PTL

\* An interruption makes no job fail, but for what is torn, timed or recalled.
THEOREM RetryCostsNothing == WorkerSpec => []RetryIsFree
<1>1. WorkerInv => RetryIsFree
  BY DEF WorkerInv
<1> QED
  BY <1>1, WorkerInvariance, PTL

\* What is published is recorded, whole, fresh and known to the controller.
THEOREM PublishedIsEvidence == WorkerSpec => []EvidenceHolds
<1>1. ASSUME WorkerInv PROVE EvidenceHolds
  <2>1. /\ Len(Program) \in Nat /\ Guarded(Program, Unguarded(job))
        /\ job # "contract_map" => ReadsAreRecorded(Program)
        /\ job \in DOMAIN Route => DecidesWithin(Program, DOMAIN Route[job])
        /\ at \in Nat /\ \A op : Steps(op) \subseteq 1 .. Len(Program)
    BY <1>1, ProgramFacts DEF WorkerInv, WorkerTypeOK, Steps, StepsOf
  <2>2. Recorded
    <3>1. /\ \A r \in Steps("record") : r < at => rows > 0
          /\ job \notin Unfrozen => rows <= 1
      BY <1>1 DEF WorkerInv, RowsCounted
    <3>2. job # "contract_map" =>
            \A i \in Reads : i \in Nat /\ \E r \in Steps("record") : r \in Nat /\ r < i
      BY <2>1 DEF ReadsAreRecorded, ReadsOf, Reads, Steps, StepsOf
    <3> QED
      BY <2>1, <3>1, <3>2 DEF Recorded
  <2> SUFFICES ASSUME outcome = "published" PROVE Whole /\ Fresh /\ Routable
    BY <2>2 DEF EvidenceHolds
  <2>3. Whole
    BY <1>1 DEF WorkerInv, WholeSoFar, Whole, Alive
  <2>4. \A op : \A i \in Steps(op) : i < at
    BY <1>1, <2>1 DEF WorkerInv
  <2>5. Fresh
    <3>1. /\ stale \subseteq Inputs
          /\ \A c \in Steps("check") : Program[c].on \cap stale = {}
          /\ \A x \in basis :
               x = "code" \/ \E i \in Steps("use") \cup Steps("recall") : x \in Program[i].on
      BY <1>1, <2>4 DEF WorkerInv, WorkerTypeOK, Compared, Alive
    <3> QED
      BY <2>1, <3>1 DEF Fresh, Guarded, Steps
  <2>6. Routable
    BY <1>1, <2>1, <2>4 DEF WorkerInv, Concluded, Alive, Routable, DecidesWithin, Steps
  <2> QED
    BY <2>3, <2>5, <2>6
<1> QED
  BY <1>1, WorkerInvariance, PTL
=============================================================================
