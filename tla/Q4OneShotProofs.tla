--------------------------- MODULE Q4OneShotProofs ---------------------------
(***************************************************************************)
(* Safety of Q4OneShot for every set of cohorts, commits and operators.    *)
(***************************************************************************)
EXTENDS Q4OneShot, FiniteSetTheorems, TLAPS

-----------------------------------------------------------------------------
(* The ledger.                                                             *)

\* What appending a transaction's row once does to the ledger.
LEMMA Appended ==
  ASSUME ledger \in Seq(Row), NEW m \in Cohorts, NEW b \in {"result", "failure"},
         AppendOnce(m, b), RowsAreSingle
  PROVE  /\ ledger' \in Seq(Row)
         /\ \A i \in DOMAIN ledger : i \in DOMAIN ledger' /\ ledger'[i] = ledger[i]
         /\ \A n \in Cohorts \ {m} : RowsOf(n)' = RowsOf(n)
         /\ RowsOf(m) # {} => RowsOf(m)' = RowsOf(m)
         /\ RowsOf(m) = {} => \E i \in RowsOf(m)' : ledger'[i].bundle = b
         /\ RowsOf(m)' # {}
         /\ \A i, j \in DOMAIN ledger' : ledger'[i].cohort = ledger'[j].cohort => i = j
         /\ \A i \in DOMAIN ledger' : ledger'[i].cohort = m \/ i \in DOMAIN ledger
<1> DEFINE new == [cohort |-> m, bundle |-> b]
<1>1. CASE RowsOf(m) # {}
  <2>1. ledger' = ledger
    BY <1>1 DEF AppendOnce
  <2> QED BY <1>1, <2>1 DEF RowsOf, RowsAreSingle
<1>2. CASE RowsOf(m) = {}
  <2>1. new \in Row
    BY DEF Row
  <2>2. ledger' = Append(ledger, new)
    BY <1>2 DEF AppendOnce
  <2>3. /\ Len(ledger) \in Nat /\ DOMAIN ledger = 1 .. Len(ledger)
        /\ DOMAIN ledger' = 1 .. Len(ledger) + 1
        /\ \A i \in 1 .. Len(ledger) : ledger'[i] = ledger[i]
        /\ ledger'[Len(ledger) + 1] = new
        /\ ledger' \in Seq(Row)
    BY <2>1, <2>2
  <2>4. \A i \in 1 .. Len(ledger) : ledger[i].cohort # m
    BY <1>2, <2>3 DEF RowsOf
  <2>5. new.cohort = m /\ new.bundle = b
    OBVIOUS
  <2> HIDE DEF new
  <2>6. \A n \in Cohorts \ {m} : RowsOf(n)' = RowsOf(n)
    BY <2>3, <2>5 DEF RowsOf
  <2>7. Len(ledger) + 1 \in RowsOf(m)'
    BY <2>3, <2>5 DEF RowsOf
  <2>8. \A i, j \in DOMAIN ledger' : ledger'[i].cohort = ledger'[j].cohort => i = j
    BY <2>3, <2>4, <2>5 DEF RowsAreSingle
  <2>9. \A i \in DOMAIN ledger' : ledger'[i].cohort = m \/ i \in DOMAIN ledger
    BY <2>3, <2>5
  <2> QED BY <1>2, <2>3, <2>5, <2>6, <2>7, <2>8, <2>9
<1> QED BY <1>1, <1>2

\* A transaction has at most one row.
LEMMA OneRow ==
  ASSUME RowsAreSingle, NEW m
  PROVE  Cardinality(RowsOf(m)) <= 1
<1>1. CASE RowsOf(m) = {}
  BY <1>1, FS_EmptySet
<1>2. CASE RowsOf(m) # {}
  <2>1. PICK i \in RowsOf(m) : TRUE
    BY <1>2
  <2>2. RowsOf(m) = {i}
    BY <2>1 DEF RowsOf, RowsAreSingle
  <2>3. Cardinality({i}) = 1
    BY FS_Singleton
  <2> QED BY <2>2, <2>3
<1> QED BY <1>1, <1>2

\* The rows of a transaction are rows of the ledger that name it.
LEMMA LedgerRows ==
  ASSUME Q4TypeOK, NEW m
  PROVE  \A i \in RowsOf(m) : ledger[i] \in Row /\ ledger[i].cohort = m
<1>1. ledger \in Seq(Row)
  BY DEF Q4TypeOK
<1>2. \A i \in DOMAIN ledger : ledger[i] \in Row
  BY <1>1
<1> QED BY <1>2 DEF RowsOf

\* The record of a transaction is its row.
LEMMA RecordIsRow ==
  ASSUME RowsAreSingle, NEW m, NEW i \in RowsOf(m)
  PROVE  RecordOf(m) = ledger[i]
BY DEF RecordOf, RowsOf, RowsAreSingle

-----------------------------------------------------------------------------
(* Steps that only move the controller or a capability.                    *)

\* The part of the invariant that speaks of transactions alone.
Transactions == RowsAreSingle /\ ClosuresAreBacked /\ CommittedIsWhole

\* Nothing that a transaction wrote changes.
Unwritten == UNCHANGED <<consumption, opened, closure, bundles, ledger>>

\* Then what is known of transactions stays known.
LEMMA TransactionsStay ==
  ASSUME Transactions, Unwritten
  PROVE  Transactions'
<1>1. RowsAreSingle'
  BY DEF Transactions, Unwritten, RowsAreSingle
<1>2. ClosuresAreBacked'
  BY DEF Transactions, Unwritten, ClosuresAreBacked, Closed, RowsOf
<1>3. CommittedIsWhole'
  BY DEF Transactions, Unwritten, CommittedIsWhole
<1> QED BY <1>1, <1>2, <1>3 DEF Transactions

\* And so does what is known of a runner that stays where it is.
LEMMA ProgressStays ==
  ASSUME NEW r \in Runners, Progress(r), Unwritten, authorization \subseteq authorization',
         at'[r] = at[r], cohort'[r] = cohort[r]
  PROVE  Progress(r)'
<1>1. RowsOf(cohort[r])' = RowsOf(cohort[r])
  BY DEF Unwritten, RowsOf
<1> QED BY <1>1 DEF Progress, Unwritten, Attempting

\* A runner that is idle or ready for a known cohort is where it may be.
LEMMA ProgressAtRest ==
  ASSUME NEW r \in Runners, at'[r] = "idle" \/ (at'[r] = "ready" /\ cohort'[r] \in Cohorts)
  PROVE  Progress(r)'
BY DEF Progress, Attempting

\* A known runner needs no proof of its cohort.
LEMMA RunnersKnown ==
  /\ Child \in Runners /\ Operators \subseteq Runners
  /\ \A r \in Runners : r = Child \/ r \in Operators
BY DEF Runners

\* The controller, deployments and people that issue keep the invariant.
LEMMA MissionKeeps ==
  ASSUME Q4Inv, Mission \/ ByHand
  PROVE  /\ Unwritten
         /\ authorization \subseteq authorization'
         /\ \A r \in Runners : \/ at'[r] = at[r] /\ cohort'[r] = cohort[r]
                               \/ at'[r] = "idle"
                               \/ at'[r] = "ready" /\ cohort'[r] \in Cohorts
         /\ Q4TypeOK'
<1>0. Q4TypeOK
  BY DEF Q4Inv
<1>1. ASSUME NEW m \in Cohorts,
             Revoke(m) \/ Route(m) \/ EnqueueOneShot(m) \/ Claim(m) \/ Reject(m)
      PROVE  /\ Unwritten /\ authorization \subseteq authorization' /\ Q4TypeOK'
             /\ UNCHANGED <<at, cohort>>
  <2>1. CASE Revoke(m)
    BY <1>0, <2>1 DEF Revoke, Revocable, Unwritten, Q4TypeOK, outputs, runners, controller
  <2>2. CASE Route(m)
    BY <1>0, <2>2 DEF Route, Issue, Unwritten, Q4TypeOK, outputs, runners
  <2>3. CASE EnqueueOneShot(m) \/ Claim(m)
    BY <1>0, <2>3 DEF EnqueueOneShot, Claim, Unwritten, Q4TypeOK, files, outputs, runners
  <2>4. CASE Reject(m)
    BY <1>0, <2>4 DEF Reject, Finish, Unwritten, Q4TypeOK, files, outputs, runners
  <2> QED BY <1>1, <2>1, <2>2, <2>3, <2>4
<1>2. ASSUME NEW m \in Cohorts, Launch(m) \/ Settle(m)
      PROVE  /\ Unwritten /\ authorization' = authorization /\ Q4TypeOK'
             /\ \A r \in Runners : \/ at'[r] = at[r] /\ cohort'[r] = cohort[r]
                                   \/ at'[r] = "idle"
                                   \/ at'[r] = "ready" /\ cohort'[r] \in Cohorts
  <2>1. CASE Launch(m)
    BY <1>0, <2>1 DEF Launch, Unwritten, Q4TypeOK, files, outputs, controller
  <2>2. CASE Settle(m)
    BY <1>0, <2>2, RunnersKnown DEF Settle, Finish, Unwritten, Q4TypeOK, files, outputs
  <2> QED BY <1>2, <2>1, <2>2
<1>3. ASSUME NEW clean \in BOOLEAN, Down(clean)
      PROVE  /\ Unwritten /\ authorization' = authorization /\ Q4TypeOK'
             /\ \A r \in Runners :
               (at'[r] = at[r] /\ cohort'[r] = cohort[r]) \/ at'[r] = "idle"
  BY <1>0, <1>3 DEF Down, Unwritten, Q4TypeOK, files, outputs
<1>4. CASE StartUp
  BY <1>0, <1>4 DEF StartUp, Unwritten, Q4TypeOK, files, outputs, runners
<1>5. ASSUME NEW c \in Commits, Deploy(c)
      PROVE  Unwritten /\ authorization' = authorization /\ UNCHANGED <<at, cohort>> /\ Q4TypeOK'
  BY <1>0, <1>5 DEF Deploy, Unwritten, Q4TypeOK, files, outputs, runners
<1>6. ASSUME NEW m \in Cohorts, IssueByHand(m)
      PROVE  /\ Unwritten /\ authorization \subseteq authorization' /\ Q4TypeOK'
             /\ UNCHANGED <<at, cohort>>
  BY <1>0, <1>6 DEF IssueByHand, Issue, Unwritten, Q4TypeOK, outputs, runners
<1>7. ASSUME NEW m \in Cohorts, NEW r \in Operators, RunByHand(r, m)
      PROVE  /\ Unwritten /\ authorization' = authorization /\ Q4TypeOK'
             /\ \A s \in Runners : \/ at'[s] = at[s] /\ cohort'[s] = cohort[s]
                                   \/ at'[s] = "ready" /\ cohort'[s] \in Cohorts
  BY <1>0, <1>7, RunnersKnown DEF RunByHand, Goto, Unwritten, Q4TypeOK, files, outputs, controller
<1> QED
  BY <1>1, <1>2, <1>3, <1>4, <1>5, <1>6, <1>7 DEF Mission, ByHand, runners

\* And what transactions and runners rest on stays with it.
LEMMA MissionKeepsRunners ==
  ASSUME Q4Inv, Mission \/ ByHand
  PROVE  SingleUse' /\ Transactions' /\ \A r \in Runners : Progress(r)'
<1>1. SingleUse'
  <2>1. ASSUME NEW r \in Runners, Attempting(r)'
        PROVE  Attempting(r) /\ cohort'[r] = cohort[r]
    BY <2>1, MissionKeeps DEF Attempting
  <2> QED BY <2>1 DEF SingleUse, Q4Inv
<1>2. Transactions'
  BY MissionKeeps, TransactionsStay DEF Q4Inv, Transactions
<1>3. ASSUME NEW r \in Runners PROVE Progress(r)'
  <2>1. CASE at'[r] = at[r] /\ cohort'[r] = cohort[r]
    BY <2>1, MissionKeeps, ProgressStays DEF Q4Inv
  <2>2. CASE at'[r] = "idle" \/ (at'[r] = "ready" /\ cohort'[r] \in Cohorts)
    BY <2>2, ProgressAtRest
  <2> QED BY <2>1, <2>2, MissionKeeps
<1> QED BY <1>1, <1>2, <1>3

\* The worker of the controller is started, and its commit replaced, only
\* when it may be.
LEMMA MissionKeepsChild ==
  ASSUME Q4Inv, Mission \/ ByHand
  PROVE  ChildIsUp'
<1>0. Q4TypeOK /\ ChildIsUp
  BY DEF Q4Inv
<1>1. ASSUME NEW m \in Cohorts,
             Revoke(m) \/ Route(m) \/ EnqueueOneShot(m) \/ Claim(m) \/ Reject(m)
      PROVE  UNCHANGED <<at, cohort, head, up>>
  BY <1>1 DEF Revoke, Route, Issue, EnqueueOneShot, Claim, Reject, Finish, runners, controller
<1>2. ASSUME NEW m \in Cohorts, Launch(m)
      PROVE  at'[Child] = "ready" /\ up'
  BY <1>0, <1>2, RunnersKnown DEF Launch, Q4TypeOK, controller
<1>3. ASSUME NEW m \in Cohorts, Settle(m)
      PROVE  at'[Child] = "idle"
  BY <1>3 DEF Settle, Finish
<1>4. ASSUME NEW clean \in BOOLEAN, Down(clean)
      PROVE  at'[Child] = "idle"
  BY <1>0, <1>4, RunnersKnown DEF Down, Q4TypeOK
<1>5. CASE StartUp
  BY <1>0, <1>5 DEF StartUp, runners, ChildIsUp
<1>6. ASSUME NEW c \in Commits, Deploy(c)
      PROVE  at'[Child] = "idle"
  BY <1>0, <1>6 DEF Deploy, runners, ChildIsUp
<1>7. ASSUME NEW m \in Cohorts, IssueByHand(m)
      PROVE  UNCHANGED <<at, cohort, head, up>>
  BY <1>7 DEF IssueByHand, Issue, runners
<1>8. ASSUME NEW m \in Cohorts, NEW r \in Operators, RunByHand(r, m)
      PROVE  at'[Child] = at[Child] /\ cohort'[Child] = cohort[Child] /\ UNCHANGED <<head, up>>
  <2>1. r # Child
    BY Q4Assumption
  <2> QED BY <1>0, <1>8, <2>1, RunnersKnown DEF RunByHand, Goto, Q4TypeOK, controller
<1> QED
  BY <1>0, <1>1, <1>2, <1>3, <1>4, <1>5, <1>6, <1>7, <1>8 DEF Mission, ByHand, ChildIsUp

\* Without work by hand, the controller launches the cohort that was consumed
\* or the first one, and revokes only what its commit has left behind.
LEMMA MissionKeepsAlone ==
  ASSUME Q4Inv, Mission \/ ByHand, ByController'
  PROVE  Alone'
<1>0. Q4TypeOK /\ ChildIsUp
  BY DEF Q4Inv
<1>a. past \subseteq past' /\ ByController /\ Alone
  <2>1. past \subseteq past'
    BY DEF Mission, ByHand, Revoke, Route, EnqueueOneShot, Claim, Reject, Launch, Settle, Finish,
           Down, StartUp, Deploy, IssueByHand, RunByHand
  <2> QED BY <2>1 DEF ByController, Q4Inv
<1>b. Mission
  <2>1. ASSUME NEW m \in Cohorts PROVE ~IssueByHand(m)
    BY DEF IssueByHand, ByController
  <2>2. ASSUME NEW m \in Cohorts, NEW r \in Operators PROVE ~RunByHand(r, m)
    BY DEF RunByHand, ByController
  <2> QED BY <2>1, <2>2 DEF ByHand
<1>1. ASSUME NEW m \in Cohorts, Revoke(m)
      PROVE  Alone'
  <2>1. Commit[m] # head /\ m \notin opened
    BY <1>1, Q4Assumption DEF Revoke, Revocable
  <2> QED BY <1>0, <1>1, <1>a, <2>1 DEF Revoke, Alone, runners, outputs, controller
<1>2. ASSUME NEW m \in Cohorts, Route(m)
      PROVE  Alone'
  BY <1>0, <1>2, <1>a DEF Route, Issue, Alone, runners, outputs
<1>3. ASSUME NEW m \in Cohorts, EnqueueOneShot(m) \/ Claim(m) \/ Reject(m)
      PROVE  Alone'
  BY <1>3, <1>a DEF EnqueueOneShot, Claim, Reject, Finish, Alone, runners, files
<1>4. ASSUME NEW m \in Cohorts, Launch(m)
      PROVE  Alone'
  <2>1. consumption = {}
    <3>1. Passes /\ AccessCount = 0
      BY <1>4 DEF Launch, Usable
    <3> QED BY <3>1 DEF Passes
  <2>2. \A r \in Operators : at'[r] = "idle"
    BY <1>0, <1>4, <1>a, Q4Assumption, RunnersKnown DEF Launch, Alone, Q4TypeOK
  <2> QED BY <1>4, <1>a, <2>1, <2>2 DEF Launch, Alone, files, controller
<1>5. ASSUME NEW m \in Cohorts, Settle(m)
      PROVE  Alone'
  BY <1>5, <1>a DEF Settle, Finish, Alone, files
<1>6. ASSUME NEW clean \in BOOLEAN, Down(clean)
      PROVE  Alone'
  <2>1. at'[Child] = "idle" /\ \A r \in Operators : at'[r] = "idle"
    BY <1>0, <1>6, <1>a, RunnersKnown DEF Down, Alone, Q4TypeOK
  <2> QED BY <1>6, <1>a, <2>1 DEF Down, Alone, files
<1>7. CASE StartUp
  BY <1>7, <1>a DEF StartUp, Alone, files, runners
<1>8. ASSUME NEW c \in Commits, Deploy(c)
      PROVE  Alone'
  <2>1. /\ UNCHANGED <<at, cohort, authorization, revocation, consumption, opened>>
        /\ head' = c /\ head \in past' /\ at[Child] = "idle"
    BY <1>0, <1>8 DEF Deploy, runners, files, ChildIsUp
  <2>2. \A m \in authorization : Commit[m] \in past' \cup {head'}
    BY <1>a, <2>1 DEF Alone
  <2>3. ASSUME "rolled back" \notin past', NEW m \in revocation
        PROVE  Commit[m] # c /\ m \notin opened
    <3>1. "rolled back" \notin past /\ c \notin past /\ c # head
      BY <1>8, <1>a, <2>3 DEF Deploy
    <3> QED BY <1>0, <1>a, <3>1 DEF Alone, Q4TypeOK
  <2> QED BY <1>a, <2>1, <2>2, <2>3 DEF Alone
<1> QED
  BY <1>b, <1>1, <1>2, <1>3, <1>4, <1>5, <1>6, <1>7, <1>8 DEF Mission

-----------------------------------------------------------------------------
(* The steps of an attempt.                                                *)

Steps == {"idle", "ready", "consuming", "staging", "opening", "evaluating", "counting",
          "committing", "receipting", "recounting", "reviewing"}

\* What is written only grows, and at the cohort of a runner that is under
\* way nothing is written by another one.
WrittenOnly(m) ==
  /\ UNCHANGED authorization
  /\ consumption \subseteq consumption' /\ bundles \subseteq bundles'
  /\ \A n \in Cohorts \ {m} :
       /\ n \in opened' <=> n \in opened
       /\ closure'[n] = closure[n]
       /\ RowsOf(n)' = RowsOf(n)
  /\ \A n \in Cohorts : \A i \in RowsOf(n) : ledger'[i] = ledger[i]

\* The other runners keep their footing.
LEMMA OthersStay ==
  ASSUME Q4Inv, NEW r \in Runners, cohort[r] \in Cohorts, WrittenOnly(cohort[r]),
         UNCHANGED cohort, NEW s \in Runners, at'[s] = at[s],
         Attempting(s) => cohort[s] # cohort[r]
  PROVE  Progress(s)'
<1>1. Progress(s)
  BY DEF Q4Inv
<1>2. CASE Attempting(s)
  <2>1. cohort[s] \in Cohorts \ {cohort[r]}
    BY <1>1, <1>2 DEF Progress, Attempting
  <2>2. /\ RowsOf(cohort[s])' = RowsOf(cohort[s])
        /\ \A i \in RowsOf(cohort[s]) : ledger'[i] = ledger[i]
        /\ cohort[s] \in opened' <=> cohort[s] \in opened
        /\ closure'[cohort[s]] = closure[cohort[s]]
    BY <2>1 DEF WrittenOnly
  <2> QED BY <1>1, <2>2 DEF Progress, WrittenOnly, Attempting
<1>3. CASE ~Attempting(s)
  BY <1>1, <1>3 DEF Progress, Attempting, WrittenOnly
<1> QED BY <1>2, <1>3

\* A runner that is under way is the only one at its cohort, and a step that
\* leaves it under way or at rest lets no second one in.
LEMMA StaysSingle ==
  ASSUME Q4Inv, NEW r \in Runners, UNCHANGED cohort, \A s \in Runners \ {r} : at'[s] = at[s],
         Attempting(r)' => Attempting(r)
  PROVE  SingleUse'
BY DEF Q4Inv, SingleUse, Attempting

\* The commit that the worker of the controller runs on stays deployed.
LEMMA ChildStays ==
  ASSUME Q4Inv, NEW r \in Runners, UNCHANGED <<cohort, controller>>, at[r] # "idle",
         \A s \in Runners \ {r} : at'[s] = at[s],
         at[r] = "ready" => at'[r] = "idle" \/ Commit[cohort[r]] = head
  PROVE  ChildIsUp'
BY RunnersKnown DEF Q4Inv, ChildIsUp, controller

\* If it is the controller's, so is what it consumes.
LEMMA AloneStays ==
  ASSUME Q4Inv, NEW r \in Runners, UNCHANGED <<cohort, controller, past, authorization,
     revocation>>,
         at[r] # "idle", \A s \in Runners \ {r} : at'[s] = at[s], ByController',
         consumption' \subseteq consumption \cup {cohort[r]},
         \A m \in revocation : m \in opened' => m \in opened
                                \/ (m = cohort[r] /\ at[r] \notin {"idle", "ready"})
  PROVE  Alone'
<1>1. ByController /\ Alone /\ ChildIsUp /\ UNCHANGED head
  BY DEF ByController, Q4Inv, controller
<1>2. r = Child
  BY <1>1, RunnersKnown DEF Alone
<1>3. \A s \in Operators : at'[s] = "idle"
  BY <1>1, <1>2, RunnersKnown, Q4Assumption DEF Alone
<1>4. "rolled back" \notin past => \A m \in revocation : m \notin opened'
  BY <1>1, <1>2 DEF Alone, ChildIsUp
<1>5. consumption' \subseteq {cohort[Child]}
  BY <1>1, <1>2 DEF Alone
<1>6. \A m \in authorization : Commit[m] \in past \cup {head}
  BY <1>1 DEF Alone
<1>7. \A m \in revocation : "rolled back" \notin past => Commit[m] # head
  BY <1>1 DEF Alone
<1> QED BY <1>1, <1>3, <1>4, <1>5, <1>6, <1>7 DEF Alone

\* So an attempt's step keeps the invariant if it keeps the runner's own
\* footing, the types and what is known of transactions.
LEMMA Composed ==
  ASSUME Q4Inv, NEW r \in Runners, at[r] # "idle", \A s \in Runners \ {r} : at'[s] = at[s],
         UNCHANGED <<cohort, controller, past, authorization, revocation>>,
         Unwritten \/ (WrittenOnly(cohort[r]) /\ (Attempting(r) \/ cohort[r] \notin consumption)),
         at[r] = "ready" => at'[r] = "idle" \/ Commit[cohort[r]] = head,
         consumption' \subseteq consumption \cup {cohort[r]},
         opened' = opened \/ (opened' = opened \cup {cohort[r]} /\ Attempting(r)),
         Attempting(r)' => Attempting(r) \/ cohort[r] \notin consumption,
         Q4TypeOK', Transactions', Progress(r)'
  PROVE  Q4Inv'
<1>1. cohort[r] \in Cohorts
  BY DEF Q4Inv, Progress
<1>2. ASSUME NEW s \in Runners \ {r}, Attempting(r) \/ cohort[r] \notin consumption, Attempting(s)
      PROVE  cohort[s] # cohort[r]
  BY <1>2 DEF Q4Inv, SingleUse, Progress
<1>3. SingleUse'
  <2>1. ASSUME NEW s \in Runners \ {r}, Attempting(s)', Attempting(r)'
        PROVE  cohort[s] # cohort[r]
    BY <1>2, <2>1 DEF Attempting
  <2> QED BY <2>1 DEF Q4Inv, SingleUse, Attempting
<1>4. ASSUME NEW s \in Runners \ {r}
      PROVE  Progress(s)'
  <2>1. CASE Unwritten
    BY <2>1, ProgressStays DEF Q4Inv
  <2>2. CASE WrittenOnly(cohort[r]) /\ (Attempting(r) \/ cohort[r] \notin consumption)
    BY <1>1, <1>2, <2>2, OthersStay
  <2> QED BY <2>1, <2>2
<1>5. ChildIsUp'
  BY ChildStays
<1>6. ByController' => Alone'
  <2>1. \A m \in revocation : m \in opened' => m \in opened
                                \/ (m = cohort[r] /\ at[r] \notin {"idle", "ready"})
    BY DEF Attempting
  <2> QED BY <2>1, AloneStays
<1> QED BY <1>3, <1>4, <1>5, <1>6 DEF Q4Inv, Transactions

\* The check at the start, and the exclusive creation of the consumption.
LEMMA BeginKeeps ==
  ASSUME Q4Inv, NEW r \in Runners, Begin(r)
  PROVE  Q4Inv'
<1>1. Q4TypeOK /\ Transactions /\ Progress(r)
  BY DEF Q4Inv, Transactions
<1>2. /\ Unwritten /\ UNCHANGED <<cohort, controller, past, authorization, revocation>>
      /\ UNCHANGED <<row, up, head, staging>>
  BY DEF Begin, Unwritten, files, outputs, controller
<1>3. /\ at' \in [Runners -> Steps] /\ at[r] = "ready"
      /\ \A s \in Runners \ {r} : at'[s] = at[s]
      /\ \/ at'[r] = "idle"
         \/ at'[r] = "consuming" /\ Usable(cohort[r]) /\ Commit[cohort[r]] = head
  BY <1>1 DEF Begin, Goto, Q4TypeOK, Steps
<1>4. Q4TypeOK'
  BY <1>1, <1>2, <1>3 DEF Q4TypeOK, Steps, Unwritten
<1>5. Transactions'
  BY <1>1, <1>2, TransactionsStay
<1>6. Progress(r)'
  BY <1>1, <1>2, <1>3 DEF Progress, Usable, Attempting
<1>7. ~Attempting(r)' /\ opened' = opened /\ consumption' = consumption
  BY <1>2, <1>3 DEF Attempting, Unwritten
<1> QED BY <1>2, <1>3, <1>4, <1>5, <1>6, <1>7, Composed

LEMMA ConsumeKeeps ==
  ASSUME Q4Inv, NEW r \in Runners, Consume(r)
  PROVE  Q4Inv'
<1>1. Q4TypeOK /\ Transactions /\ Progress(r)
  BY DEF Q4Inv, Transactions
<1>2. /\ UNCHANGED <<cohort, controller, past, authorization, revocation, opened, closure>>
      /\ UNCHANGED <<row, up, head, staging, bundles, ledger>>
      /\ consumption' = consumption \cup {cohort[r]}
  BY DEF Consume, outputs, controller
<1>3. /\ at' \in [Runners -> Steps] /\ at[r] = "consuming" /\ ~Attempting(r)
      /\ \A s \in Runners \ {r} : at'[s] = at[s]
      /\ \/ at'[r] = "idle" /\ cohort[r] \in consumption
         \/ at'[r] = "staging" /\ cohort[r] \notin consumption
  BY <1>1 DEF Consume, Goto, Q4TypeOK, Steps, Attempting
<1>4. cohort[r] \in authorization /\ cohort[r] \in Cohorts
  BY <1>1, <1>3 DEF Progress
<1>5. Q4TypeOK'
  BY <1>1, <1>2, <1>3, <1>4 DEF Q4TypeOK, Steps
<1>6. Transactions'
  <2>1. RowsAreSingle' /\ CommittedIsWhole'
    BY <1>1, <1>2 DEF Transactions, RowsAreSingle, CommittedIsWhole
  <2>2. ClosuresAreBacked'
    BY <1>1, <1>2 DEF Transactions, ClosuresAreBacked, Closed, RowsOf
  <2> QED BY <2>1, <2>2 DEF Transactions
<1>7. Progress(r)'
  <2>1. CASE at'[r] = "idle"
    BY <2>1, ProgressAtRest
  <2>2. CASE at'[r] = "staging" /\ cohort[r] \notin consumption
    <3>1. closure[cohort[r]] = NoClosure
      BY <1>1, <1>4, <2>2 DEF Transactions, ClosuresAreBacked, Closed
    <3>2. RowsOf(cohort[r])' = {} /\ cohort[r] \notin opened
      BY <1>1, <1>2, <2>2 DEF Transactions, RowsAreSingle, RowsOf, Q4TypeOK
    <3> QED BY <1>2, <1>4, <2>2, <3>1, <3>2 DEF Progress
  <2> QED BY <1>3, <2>1, <2>2
<1>8. Unwritten \/ (WrittenOnly(cohort[r]) /\ (Attempting(r) \/ cohort[r] \notin consumption))
  <2>1. CASE cohort[r] \in consumption
    <3>1. consumption' = consumption
      BY <1>2, <2>1
    <3> QED BY <1>2, <3>1 DEF Unwritten
  <2>2. CASE cohort[r] \notin consumption
    BY <1>2, <2>2 DEF WrittenOnly, RowsOf
  <2> QED BY <2>1, <2>2
<1>9. Attempting(r)' => cohort[r] \notin consumption
  BY <1>3 DEF Attempting
<1> QED BY <1>2, <1>3, <1>5, <1>6, <1>7, <1>8, <1>9, Composed

\* A kill, an exception and the staging directory: no transaction is written.
LEMMA QuietKeeps ==
  ASSUME Q4Inv, NEW r \in Runners, Abort(r) \/ Except(r) \/ Stage(r)
  PROVE  Q4Inv'
<1>1. Q4TypeOK /\ Transactions /\ Progress(r) /\ cohort[r] \in Cohorts /\ at[r] # "idle"
  BY DEF Q4Inv, Transactions, Abort, Except, Stage, Goto, Progress
<1>2. /\ Unwritten /\ UNCHANGED <<cohort, controller, past, authorization, revocation>>
      /\ UNCHANGED <<row, up, head>> /\ staging' \subseteq Cohorts
  BY <1>1 DEF Abort, Except, Stage, Unwritten, files, outputs, controller, Q4TypeOK
<1>3. /\ at' \in [Runners -> Steps] /\ \A s \in Runners \ {r} : at'[s] = at[s]
      /\ \/ at'[r] = "idle"
         \/ at[r] = "staging" /\ at'[r] = "opening"
         \/ at[r] \in {"staging", "opening"} /\ at'[r] = "reviewing"
         \/ at[r] \in {"evaluating", "counting", "committing"} /\ at'[r] = "receipting"
  BY <1>1 DEF Abort, Except, Stage, Goto, Q4TypeOK, Steps
<1>4. Q4TypeOK'
  BY <1>1, <1>2, <1>3 DEF Q4TypeOK, Steps, Unwritten
<1>5. Transactions'
  BY <1>1, <1>2, TransactionsStay
<1>6. Progress(r)'
  BY <1>1, <1>2, <1>3 DEF Progress, Attempting, Unwritten, RowsOf
<1>7. /\ Attempting(r)' => Attempting(r)
      /\ at[r] = "ready" => at'[r] = "idle"
      /\ opened' = opened /\ consumption' = consumption
  BY <1>2, <1>3 DEF Attempting, Unwritten
<1> QED BY <1>1, <1>2, <1>3, <1>4, <1>5, <1>6, <1>7, Composed

\* The opening, which no one has made before.
LEMMA OpenKeeps ==
  ASSUME Q4Inv, NEW r \in Runners, Open(r)
  PROVE  Q4Inv'
<1>1. Q4TypeOK /\ Transactions /\ Progress(r) /\ cohort[r] \in Cohorts
  BY DEF Q4Inv, Transactions, Open, Goto, Progress
<1>2. /\ UNCHANGED <<cohort, controller, past, authorization, revocation, consumption, closure>>
      /\ UNCHANGED <<row, up, head, staging, bundles, ledger>>
      /\ opened' = opened \cup {cohort[r]}
  BY DEF Open, outputs, controller
<1>3. /\ at' \in [Runners -> Steps] /\ \A s \in Runners \ {r} : at'[s] = at[s]
      /\ at[r] = "opening" /\ at'[r] = "evaluating" /\ Attempting(r) /\ Attempting(r)'
  BY <1>1 DEF Open, Goto, Q4TypeOK, Steps, Attempting
<1>4. cohort[r] \in consumption /\ cohort[r] \notin Closed
  BY <1>1, <1>3 DEF Progress, Closed
<1>5. Q4TypeOK'
  BY <1>1, <1>2, <1>3, <1>4 DEF Q4TypeOK, Steps
<1>6. Transactions'
  <2>1. RowsAreSingle' /\ CommittedIsWhole'
    BY <1>1, <1>2 DEF Transactions, RowsAreSingle, CommittedIsWhole
  <2>2. ClosuresAreBacked'
    BY <1>1, <1>2, <1>4 DEF Transactions, ClosuresAreBacked, Closed, RowsOf
  <2> QED BY <2>1, <2>2 DEF Transactions
<1>7. Progress(r)'
  BY <1>1, <1>2, <1>3 DEF Progress, Attempting, RowsOf
<1>8. WrittenOnly(cohort[r])
  BY <1>2 DEF WrittenOnly, RowsOf
<1> QED BY <1>2, <1>3, <1>5, <1>6, <1>7, <1>8, Composed

\* The bundle, of a result or of a failure.
LEMMA BundleKeeps ==
  ASSUME Q4Inv, NEW r \in Runners, Publish(r) \/ Receipt(r)
  PROVE  Q4Inv'
<1>1. Q4TypeOK /\ Transactions /\ Progress(r) /\ cohort[r] \in Cohorts
  BY DEF Q4Inv, Transactions, Publish, Receipt, Goto, Progress
<1>2. /\ UNCHANGED <<cohort, controller, past, authorization, revocation, consumption, closure>>
      /\ UNCHANGED <<row, up, head, opened, ledger>>
      /\ staging' \subseteq Cohorts
  BY <1>1 DEF Publish, Receipt, files, controller, Q4TypeOK
<1>3. /\ at' \in [Runners -> Steps] /\ \A s \in Runners \ {r} : at'[s] = at[s]
      /\ \/ /\ at[r] = "evaluating" /\ at'[r] = "counting"
            /\ bundles' = bundles \cup {<<cohort[r], "result">>}
         \/ /\ at[r] = "receipting" /\ at'[r] = "recounting"
            /\ bundles' = bundles \cup {<<cohort[r], "failure">>}
  BY <1>1 DEF Publish, Receipt, Goto, Q4TypeOK, Steps
<1>4. Attempting(r) /\ Attempting(r)' /\ bundles \subseteq bundles'
  BY <1>3 DEF Attempting
<1>5. Q4TypeOK'
  <2>1. bundles' \subseteq Cohorts \X {"result", "failure"}
    <3>1. bundles \subseteq Cohorts \X {"result", "failure"}
      BY <1>1 DEF Q4TypeOK
    <3>2. PICK b \in {"result", "failure"} : bundles' = bundles \cup {<<cohort[r], b>>}
      BY <1>3
    <3>3. <<cohort[r], b>> \in Cohorts \X {"result", "failure"}
      BY <1>1
    <3> QED BY <3>1, <3>2, <3>3
  <2> QED BY <1>1, <1>2, <1>3, <2>1 DEF Q4TypeOK, Steps
<1>6. Transactions'
  <2>1. RowsAreSingle' /\ CommittedIsWhole'
    BY <1>1, <1>2, <1>4 DEF Transactions, RowsAreSingle, CommittedIsWhole
  <2>2. ClosuresAreBacked'
    BY <1>1, <1>2, <1>4 DEF Transactions, ClosuresAreBacked, Closed, RowsOf
  <2> QED BY <2>1, <2>2 DEF Transactions
<1>7. Progress(r)'
  BY <1>1, <1>2, <1>3 DEF Progress, Attempting, RowsOf
<1>8. WrittenOnly(cohort[r])
  BY <1>2, <1>4 DEF WrittenOnly, RowsOf
<1>9. at[r] \notin {"idle", "ready"}
  BY <1>3
<1> QED BY <1>2, <1>3, <1>4, <1>5, <1>6, <1>7, <1>8, <1>9, Composed

\* The row of the ledger.
LEMMA CountKeeps ==
  ASSUME Q4Inv, NEW r \in Runners, Count(r) \/ Recount(r)
  PROVE  Q4Inv'
<1>1. Q4TypeOK /\ Transactions /\ Progress(r) /\ cohort[r] \in Cohorts
  BY DEF Q4Inv, Transactions, Count, Recount, Goto, Progress
<1>2. /\ UNCHANGED <<cohort, controller, past, authorization, revocation, consumption, closure>>
      /\ UNCHANGED <<row, up, head, opened, staging, bundles>>
  BY DEF Count, Recount, files, controller
<1>3. /\ at' \in [Runners -> Steps] /\ \A s \in Runners \ {r} : at'[s] = at[s]
      /\ \/ /\ at[r] = "counting" /\ at'[r] = "committing"
            /\ AppendOnce(cohort[r], "result")
         \/ /\ at[r] = "recounting" /\ at'[r] = "reviewing"
            /\ AppendOnce(cohort[r], "failure")
  BY <1>1 DEF Count, Recount, Goto, Q4TypeOK, Steps
<1>4. /\ Attempting(r) /\ Attempting(r)' /\ cohort[r] \in consumption
      /\ closure[cohort[r]] = NoClosure /\ at[r] \notin {"idle", "ready"}
  BY <1>1, <1>3 DEF Attempting, Progress
<1> PICK m \in Cohorts : m = cohort[r]
  BY <1>1
<1>a. ledger \in Seq(Row) /\ RowsAreSingle
  BY <1>1 DEF Q4TypeOK, Transactions
<1>b. AppendOnce(m, "result") \/ AppendOnce(m, "failure")
  BY <1>3
<1>5. /\ ledger' \in Seq(Row)
      /\ \A i \in DOMAIN ledger : i \in DOMAIN ledger' /\ ledger'[i] = ledger[i]
      /\ \A n \in Cohorts \ {m} : RowsOf(n)' = RowsOf(n)
      /\ RowsOf(m)' # {}
      /\ \A i, j \in DOMAIN ledger' : ledger'[i].cohort = ledger'[j].cohort => i = j
      /\ \A i \in DOMAIN ledger' : ledger'[i].cohort = m \/ i \in DOMAIN ledger
  <2>1. CASE AppendOnce(m, "result")
    BY <1>a, <2>1, Appended
  <2>2. CASE AppendOnce(m, "failure")
    BY <1>a, <2>2, Appended
  <2> QED BY <1>b, <2>1, <2>2
<1>6. Q4TypeOK'
  BY <1>1, <1>2, <1>3, <1>5 DEF Q4TypeOK, Steps
<1>7. Transactions'
  <2>1. RowsAreSingle'
    BY <1>1, <1>2, <1>4, <1>5 DEF Transactions, RowsAreSingle
  <2>2. CommittedIsWhole'
    BY <1>1, <1>2 DEF Transactions, CommittedIsWhole
  <2>3. \A n \in Cohorts : \A i \in RowsOf(n) : i \in RowsOf(n)' /\ ledger'[i] = ledger[i]
    BY <1>5 DEF RowsOf
  <2>4. ClosuresAreBacked'
    BY <1>1, <1>2, <2>3 DEF Transactions, ClosuresAreBacked, Closed
  <2> QED BY <2>1, <2>2, <2>4 DEF Transactions
<1>8. Progress(r)'
  <2>1. CASE at[r] = "counting" /\ at'[r] = "committing" /\ AppendOnce(m, "result")
    <3>1. RowsOf(m) = {}
      BY <1>1, <2>1 DEF Progress
    <3>2. \E i \in RowsOf(m)' : ledger'[i].bundle = "result"
      BY <1>a, <2>1, <3>1, Appended
    <3>3. (\E i \in RowsOf(cohort[r]) : ledger[i].bundle = "result")'
      BY <1>2, <3>2 DEF RowsOf
    <3> QED BY <1>1, <1>2, <1>4, <2>1, <3>3 DEF Progress
  <2>2. CASE at[r] = "recounting" /\ at'[r] = "reviewing"
    <3>1. (RowsOf(cohort[r]) # {})'
      BY <1>2, <1>5 DEF RowsOf
    <3> QED BY <1>1, <1>2, <1>4, <2>2, <3>1 DEF Progress
  <2> QED BY <1>3, <2>1, <2>2
<1>9. WrittenOnly(cohort[r])
  BY <1>2, <1>5 DEF WrittenOnly, RowsOf
<1> QED BY <1>2, <1>3, <1>4, <1>6, <1>8, <1>7, <1>9, Composed

\* The closure, of a commit or of a review.
LEMMA CloseKeeps ==
  ASSUME Q4Inv, NEW r \in Runners, CommitResult(r) \/ Review(r)
  PROVE  Q4Inv'
<1>1. Q4TypeOK /\ Transactions /\ Progress(r) /\ cohort[r] \in Cohorts
  BY DEF Q4Inv, Transactions, CommitResult, Review, Close, Goto, Progress
<1> PICK m \in Cohorts : m = cohort[r]
  BY <1>1
<1> DEFINE bundle == IF at[r] = "committing" THEN "result"
                     ELSE IF <<m, "failure">> \in bundles THEN "failure" ELSE "none"
           status == IF at[r] = "committing" THEN "COMMITTED" ELSE "Q4_REVIEW_REQUIRED"
           new == [status |-> status, bundle |-> bundle, record |-> RecordOf(m)]
<1>2. /\ UNCHANGED <<cohort, controller, past, authorization, revocation, consumption, opened>>
      /\ UNCHANGED <<row, up, head, staging, bundles, ledger>>
  BY DEF CommitResult, Review, Close, outputs, controller
<1>3. /\ at' \in [Runners -> Steps] /\ \A s \in Runners \ {r} : at'[s] = at[s]
      /\ at[r] \in {"committing", "reviewing"} /\ at'[r] = "idle"
      /\ Attempting(r) /\ ~Attempting(r)'
  BY <1>1 DEF CommitResult, Review, Close, Goto, Q4TypeOK, Steps, Attempting
<1>4. closure' = [closure EXCEPT ![m] = new]
  BY DEF CommitResult, Review, Close, Goto
<1>5. RowsAreSingle /\ m \in consumption /\ RecordOf(m) \in Row \cup {NoCohort}
  <2>1. RowsAreSingle /\ m \in consumption
    BY <1>1, <1>3 DEF Transactions, Progress
  <2>2. \A i \in RowsOf(m) : ledger[i] \in Row
    BY <1>1, LedgerRows
  <2> QED BY <2>1, <2>2 DEF RecordOf
<1>6. Q4TypeOK'
  <2>1. new \in Closure
    BY <1>5 DEF Closure
  <2>2. closure' \in [Cohorts -> Closure \cup {NoClosure}]
    BY <1>1, <1>4, <2>1 DEF Q4TypeOK
  <2> QED BY <1>1, <1>2, <1>3, <2>2 DEF Q4TypeOK, Steps
<1>7. /\ closure'[m] = new /\ \A n \in Cohorts \ {m} : closure'[n] = closure[n]
      /\ new.status = status /\ new.bundle = bundle /\ new.record = RecordOf(m)
  BY <1>1, <1>4 DEF Q4TypeOK
<1>8. ASSUME m \in opened
      PROVE  (\E i \in RowsOf(m) : ledger[i] = new.record) /\ <<m, new.bundle>> \in bundles
  <2>1. PICK i \in RowsOf(m) : TRUE
    BY <1>1, <1>3, <1>8 DEF Progress
  <2>2. RecordOf(m) = ledger[i]
    BY <1>5, <2>1, RecordIsRow
  <2>3. <<m, bundle>> \in bundles
    BY <1>1, <1>3, <1>8 DEF Progress
  <2> QED BY <1>7, <2>2, <2>3
<1>9. ASSUME status = "COMMITTED"
      PROVE  /\ m \in opened /\ <<m, "result">> \in bundles /\ bundle = "result"
             /\ RecordOf(m) = [cohort |-> m, bundle |-> "result"]
  <2>1. at[r] = "committing"
    BY <1>9
  <2>2. PICK i \in RowsOf(m) : ledger[i].bundle = "result"
    BY <1>1, <2>1 DEF Progress
  <2>3. ledger[i] = [cohort |-> m, bundle |-> "result"]
    <3>1. ledger[i] \in Row /\ ledger[i].cohort = m
      BY <1>1, <2>2, LedgerRows
    <3> QED BY <2>2, <3>1 DEF Row
  <2>4. RecordOf(m) = ledger[i]
    BY <1>5, <2>2, RecordIsRow
  <2> QED BY <1>1, <2>1, <2>3, <2>4 DEF Progress
<1> HIDE DEF new, status, bundle
<1>10. Transactions'
  <2>1. RowsAreSingle'
    BY <1>2, <1>5 DEF RowsAreSingle
  <2>2. CommittedIsWhole'
    BY <1>1, <1>2, <1>7, <1>9 DEF Transactions, CommittedIsWhole
  <2>3. ClosuresAreBacked'
    BY <1>1, <1>2, <1>5, <1>7, <1>8 DEF Transactions, ClosuresAreBacked, Closed, RowsOf
  <2> QED BY <2>1, <2>2, <2>3 DEF Transactions
<1>11. Progress(r)'
  BY <1>3, ProgressAtRest
<1>12. WrittenOnly(cohort[r])
  BY <1>2, <1>7 DEF WrittenOnly, RowsOf
<1>13. at[r] \notin {"idle", "ready"}
  BY <1>3
<1> QED BY <1>2, <1>3, <1>6, <1>10, <1>11, <1>12, <1>13, Composed

-----------------------------------------------------------------------------
(* The invariant.                                                          *)

\* Nothing is written at first.
LEMMA Q4InvInit == Q4Init => Q4Inv
<1> SUFFICES ASSUME Q4Init PROVE Q4Inv
  OBVIOUS
<1>1. Q4TypeOK
  BY DEF Q4Init, Q4TypeOK
<1>2. SingleUse /\ \A r \in Runners : Progress(r)
  BY DEF Q4Init, SingleUse, Progress, Attempting
<1>3. RowsAreSingle /\ ClosuresAreBacked /\ CommittedIsWhole
  BY DEF Q4Init, RowsAreSingle, ClosuresAreBacked, Closed, CommittedIsWhole
<1>4. ChildIsUp /\ Alone
  BY RunnersKnown DEF Q4Init, ChildIsUp, Alone
<1> QED BY <1>1, <1>2, <1>3, <1>4 DEF Q4Inv

\* Every step keeps the invariant.
LEMMA Q4InvStep == Q4Inv /\ [Q4Next]_q4vars => Q4Inv'
<1> SUFFICES ASSUME Q4Inv, [Q4Next]_q4vars PROVE Q4Inv'
  OBVIOUS
<1>1. CASE Mission \/ ByHand
  BY <1>1, MissionKeeps, MissionKeepsRunners, MissionKeepsChild, MissionKeepsAlone
     DEF Q4Inv, Transactions
<1>2. ASSUME NEW r \in Runners, Attempt(r) PROVE Q4Inv'
  BY <1>2, BeginKeeps, ConsumeKeeps, QuietKeeps, OpenKeeps, BundleKeeps, CountKeeps, CloseKeeps
     DEF Attempt
<1>3. CASE UNCHANGED q4vars
  <2>1. Q4TypeOK'
    BY <1>3 DEF q4vars, files, outputs, runners, controller, Q4Inv, Q4TypeOK
  <2>2. Unwritten /\ UNCHANGED <<authorization, revocation, at, cohort, up, head, past>>
    BY <1>3 DEF q4vars, files, outputs, runners, controller, Unwritten
  <2>3. Transactions' /\ \A r \in Runners : Progress(r)'
    BY <2>2, TransactionsStay, ProgressStays DEF Q4Inv, Transactions
  <2>4. SingleUse' /\ ChildIsUp'
    BY <2>2 DEF Q4Inv, SingleUse, Attempting, ChildIsUp
  <2>5. ByController' => Alone'
    BY <2>2 DEF Q4Inv, ByController, Alone, Unwritten
  <2> QED BY <2>1, <2>3, <2>4, <2>5 DEF Q4Inv, Transactions
<1> QED BY <1>1, <1>2, <1>3 DEF Q4Next

\* The invariant holds of every behaviour, for every set of cohorts, commits
\* and people at the command line.
THEOREM Q4Invariance == Q4Spec => []Q4Inv
BY Q4InvInit, Q4InvStep, PTL DEF Q4Spec

-----------------------------------------------------------------------------
(* What it gives.                                                          *)

\* Types, and the order in which the files of a transaction appear.
COROLLARY Q4TypeCorrect == Q4Spec => []Q4TypeOK
<1>1. Q4Inv => Q4TypeOK
  BY DEF Q4Inv
<1> QED BY <1>1, Q4Invariance, PTL

\* A capability has one user between its consumption and its closure, though
\* the controller's worker and people may hold it together.
COROLLARY OneUser == Q4Spec => []SingleUse
<1>1. Q4Inv => SingleUse
  BY DEF Q4Inv
<1> QED BY <1>1, Q4Invariance, PTL

\* What is committed is whole: opened, in place, counted and named alike.
COROLLARY CommitsAreWhole == Q4Spec => []CommittedIsWhole
<1>1. Q4Inv => CommittedIsWhole
  BY DEF Q4Inv
<1> QED BY <1>1, Q4Invariance, PTL

\* An access is counted once, and never closed uncounted.
THEOREM CountsAreSingle == Q4Spec => []CountedOnce
<1>1. ASSUME Q4Inv, NEW m \in Cohorts
      PROVE  /\ Cardinality(RowsOf(m)) <= 1
             /\ m \in opened /\ closure[m] # NoClosure => RowsOf(m) # {}
  <2>1. Cardinality(RowsOf(m)) <= 1
    BY <1>1, OneRow DEF Q4Inv
  <2> QED BY <1>1, <2>1 DEF Q4Inv, ClosuresAreBacked, Closed
<1>2. Q4Inv => CountedOnce
  BY <1>1 DEF CountedOnce
<1> QED BY <1>2, Q4Invariance, PTL

\* The mission opens the holdout for one cohort, however often its processes
\* crash, its code is replaced and its capabilities are issued again.
THEOREM OpenedOnce == Q4Spec => []MissionOpensOnce
<1>1. Q4Inv => MissionOpensOnce
  BY DEF Q4Inv, Q4TypeOK, Alone, MissionOpensOnce
<1> QED BY <1>1, Q4Invariance, PTL

\* A revoked capability opens nothing until the code is rolled back.
THEOREM RevokedIsSealed == Q4Spec => []RevokedStaysSealed
<1>1. Q4Inv => RevokedStaysSealed
  BY DEF Q4Inv, Alone, RevokedStaysSealed
<1> QED BY <1>1, Q4Invariance, PTL

\* A closed transaction of the mission that opened the data is one that the
\* governance audit accepts, so the mission can start again after it.
THEOREM ClosedPasses == Q4Spec => []ClosedIsReviewable
<1>1. ASSUME Q4Inv, ByController, NEW m \in opened, closure[m] # NoClosure
      PROVE  Passes
  <2>1. Q4TypeOK /\ Alone /\ RowsAreSingle /\ ClosuresAreBacked
    BY <1>1 DEF Q4Inv
  <2>2. consumption = {m} /\ m \in Cohorts /\ m \in Closed
    <3>1. m \in consumption /\ m \in Cohorts
      BY <2>1 DEF Q4TypeOK
    <3>2. \A n \in consumption : n = m
      BY <2>1, <3>1 DEF Alone
    <3> QED BY <1>1, <3>1, <3>2 DEF Closed
  <2>3. Closed = {m}
    BY <2>1, <2>2 DEF ClosuresAreBacked
  <2>4. PICK i \in RowsOf(m) : ledger[i] = closure[m].record
    BY <1>1, <2>1, <2>2 DEF ClosuresAreBacked
  <2>5. <<m, closure[m].bundle>> \in bundles
    BY <1>1, <2>1, <2>2 DEF ClosuresAreBacked
  <2>6. ledger \in Seq(Row) /\ Len(ledger) \in Nat /\ DOMAIN ledger = 1 .. Len(ledger)
    <3>1. ledger \in Seq(Row)
      BY <2>1 DEF Q4TypeOK
    <3> QED BY <3>1
  <2>7. \A j \in 1 .. Len(ledger) : ledger[j].cohort = m
    BY <2>1, <2>2, <2>6 DEF RowsAreSingle
  <2>8. \A j, k \in 1 .. Len(ledger) : j = k
    BY <2>1, <2>6, <2>7 DEF RowsAreSingle
  <2>9. i \in 1 .. Len(ledger)
    BY <2>4, <2>6 DEF RowsOf
  <2>10. Len(ledger) = 1 /\ i = 1
    BY <2>6, <2>8, <2>9
  <2> QED BY <2>2, <2>3, <2>4, <2>5, <2>7, <2>10 DEF Passes, AccessCount
<1>2. Q4Inv => ClosedIsReviewable
  BY <1>1 DEF ClosedIsReviewable
<1> QED BY <1>2, Q4Invariance, PTL
=============================================================================
