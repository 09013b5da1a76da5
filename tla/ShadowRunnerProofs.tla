-------------------------- MODULE ShadowRunnerProofs --------------------------
(***************************************************************************)
(* Safety of ShadowRunner for every set of signals and every guard         *)
(* specification.  Net, the sum over the window, is never unfolded: what   *)
(* is proved holds whatever the guard computes from the trades.            *)
(***************************************************************************)
EXTENDS ShadowRunner, SequenceTheorems, TLAPS

-----------------------------------------------------------------------------
(* Evidence: completed trades, each once, in the order of completion.      *)

Evidence(trades) ==
  /\ trades \in Seq(Trades)
  /\ \A i, j \in DOMAIN trades :
       i < j => trades[i].id # trades[j].id /\ trades[i].at <= trades[j].at

\* A trade has a time.
LEMMA TradeTimed == \A t \in Trades : t.at \in Int /\ t.id \in Signals
BY GuardAssumption DEF Trades

\* What was there before an append is a subsequence of what is there after.
LEMMA SubSeqOfAppend ==
  ASSUME NEW S, NEW s \in Seq(S), NEW e \in S
  PROVE  SubSeq(Append(s, e), 1, Len(s)) = s
<1> DEFINE n == Len(s)
           before == SubSeq(Append(s, e), 1, n)
<1>1. /\ n \in Nat /\ Append(s, e) \in Seq(S) /\ Len(Append(s, e)) = n + 1
      /\ \A i \in 1 .. n : Append(s, e)[i] = s[i]
  BY AppendProperties
<1>2. /\ before \in Seq(S) /\ Len(before) = n
      /\ \A i \in 1 .. n : before[i] = s[i]
  BY <1>1, SubSeqProperties
<1> QED BY <1>1, <1>2, SeqEqual

\* Adding a trade that may be recorded keeps it evidence.
LEMMA EvidenceGrows ==
  ASSUME NEW trades, Evidence(trades), NEW t \in Trades,
         \A i \in DOMAIN trades : trades[i].id # t.id,
         trades # <<>> => t.at >= Last(trades).at
  PROVE  LET more == Append(trades, t)
         IN  /\ Evidence(more) /\ IsPrefix(trades, more)
             /\ \E i \in DOMAIN more : more[i].id = t.id
<1> DEFINE more == Append(trades, t)
           n == Len(trades)
<1>1. trades \in Seq(Trades)
  BY DEF Evidence
<1>2. /\ more \in Seq(Trades) /\ Len(more) = n + 1 /\ n \in Nat
      /\ DOMAIN trades = 1 .. n /\ DOMAIN more = 1 .. n + 1
      /\ \A i \in 1 .. n : more[i] = trades[i]
      /\ more[n + 1] = t
  BY <1>1, AppendProperties
<1>3. \A i \in 1 .. n : trades[i] \in Trades /\ trades[i].at \in Int
  BY <1>1, <1>2, TradeTimed
<1>4. \A i \in 1 .. n : trades[i].at <= t.at
  <2>1. ASSUME NEW i \in 1 .. n PROVE trades[i].at <= t.at
    <3>1. trades # <<>> /\ n \in 1 .. n
      BY <1>1, <1>2, <2>1
    <3>2. trades[n].at <= t.at
      BY <1>3, <3>1, TradeTimed DEF Last
    <3>3. trades[i].at <= trades[n].at
      BY <1>2, <1>3, <2>1, <3>1 DEF Evidence
    <3> QED BY <1>3, <2>1, <3>1, <3>2, <3>3, TradeTimed
  <2> QED BY <2>1
<1> HIDE DEF more
<1>5. Evidence(more)
  <2>1. ASSUME NEW i \in 1 .. n + 1, NEW j \in 1 .. n + 1, i < j
        PROVE  more[i].id # more[j].id /\ more[i].at <= more[j].at
    <3>1. CASE j = n + 1
      <4>1. i \in 1 .. n
        BY <1>2, <2>1, <3>1
      <4> QED BY <1>2, <1>4, <3>1, <4>1
    <3>2. CASE j # n + 1
      <4>1. i \in 1 .. n /\ j \in 1 .. n
        BY <1>2, <2>1, <3>2
      <4> QED BY <1>2, <2>1, <4>1 DEF Evidence
    <3> QED BY <3>1, <3>2
  <2> QED BY <1>2, <2>1 DEF Evidence
<1>6. IsPrefix(trades, more)
  <2>1. SubSeq(trades, 1, n) = trades
    BY <1>1, SubSeqFull
  <2>2. SubSeq(more, 1, n) = trades
    BY <1>1, <1>2, SubSeqOfAppend DEF more
  <2> QED BY <1>2, <2>1, <2>2 DEF IsPrefix
<1>7. \E i \in DOMAIN more : more[i].id = t.id
  BY <1>2
<1> QED BY <1>5, <1>6, <1>7 DEF more

\* What an admission rests on lies before the decision: the last trade does,
\* and no earlier one is later.
LEMMA LastIsLatest ==
  ASSUME NEW trades, Evidence(trades), NEW at \in Int,
         trades # <<>> => Last(trades).at < at
  PROVE  \A i \in DOMAIN trades : trades[i].at < at
<1> DEFINE n == Len(trades)
<1>1. trades \in Seq(Trades)
  BY DEF Evidence
<1>2. n \in Nat /\ DOMAIN trades = 1 .. n
  BY <1>1
<1>3. \A i \in 1 .. n : trades[i].at \in Int
  BY <1>1, <1>2, TradeTimed
<1>4. ASSUME NEW i \in 1 .. n PROVE trades[i].at < at
  <2>1. trades # <<>> /\ n \in 1 .. n
    BY <1>1, <1>2, <1>4
  <2>2. trades[n].at < at
    BY <2>1 DEF Last
  <2>3. trades[i].at <= trades[n].at
    BY <1>2, <1>3, <1>4, <2>1 DEF Evidence
  <2> QED BY <1>3, <1>4, <2>1, <2>2, <2>3
<1> QED BY <1>2, <1>4

\* The trades on disk are evidence: what ShadowTypeOK says of them.
LEMMA TypedEvidence == ShadowTypeOK => Evidence(disk.trades)
BY DEF ShadowTypeOK, Evidence

\* Nothing is before everything.
LEMMA GenesisIsEvidence == Evidence(<<>>)
<1>1. <<>> \in Seq(Trades) /\ Len(<<>>) = 0
  OBVIOUS
<1>2. DOMAIN <<>> = {}
  OBVIOUS
<1> QED BY <1>1, <1>2 DEF Evidence

-----------------------------------------------------------------------------
(* The inductive invariant, one lemma for each action.                     *)

\* The first start finds a runner that is down, and no evidence.
LEMMA ShadowInvInit == ShadowInit => ShadowInv
<1> SUFFICES ASSUME ShadowInit PROVE ShadowInv
  OBVIOUS
<1> USE DEF ShadowInit, State, Unverified, Idle
<1>1. disk.trades = <<>> /\ guard.trades = <<>> /\ disk.kind = "missing"
  OBVIOUS
<1>2. ShadowTypeOK
  BY <1>1, GenesisIsEvidence DEF ShadowTypeOK, Evidence
<1> QED BY <1>1, <1>2 DEF ShadowInv

\* A start creates the state or takes over what is valid of it.
LEMMA StartKeeps == ShadowInv /\ Start => ShadowInv'
<1> SUFFICES ASSUME ShadowInv, Start PROVE ShadowInv'
  OBVIOUS
<1> USE DEF Start, Restored, Genesis, Verified, Unverified, State, Job
<1>1. disk'.trades \in Seq(Trades) /\ guard'.trades \in Seq(Trades) /\ Evidence(disk'.trades)
  BY GenesisIsEvidence, TypedEvidence DEF ShadowInv, ShadowTypeOK, Evidence
<1>2. ShadowTypeOK'
  BY <1>1 DEF ShadowInv, ShadowTypeOK, Evidence
<1>3. guard'.verified => disk'.kind = "valid" /\ guard'.trades = disk'.trades
  OBVIOUS
<1>4. /\ job'.step \in {"genesis", "started"} /\ up'
      /\ job' \in [step : {"genesis", "started"}, signal : {"none"}, allowed : BOOLEAN]
  <2>1. PICK step \in {"genesis", "started"} : job' = Job(step, "none", FALSE)
    OBVIOUS
  <2>2. up'
    OBVIOUS
  <2> HIDE DEF Start, Restored, Genesis, Verified, Unverified, State
  <2> QED BY <2>1, <2>2
<1> QED BY <1>2, <1>3, <1>4 DEF ShadowInv

\* An audit leaves the guard or takes it away.
LEMMA AuditedGuard ==
  ASSUME ShadowInv, Audited
  PROVE  guard' \in {guard, Unverified} /\ guard'.trades \in Seq(Trades)
<1>1. guard' \in {guard, Unverified}
  BY DEF Audited
<1>2. Unverified.trades = <<>> /\ <<>> \in Seq(Trades)
  BY EmptySeq DEF Unverified
<1>3. guard.trades \in Seq(Trades)
  BY DEF ShadowInv, ShadowTypeOK
<1> QED BY <1>1, <1>2, <1>3

\* The record of a start, and that of a decision, may take the guard away.
LEMMA AuditStartKeeps == ShadowInv /\ AuditStart => ShadowInv'
<1> SUFFICES ASSUME ShadowInv, AuditStart PROVE ShadowInv'
  OBVIOUS
<1> USE DEF AuditStart, Audited, Unverified, Idle, storage
<1>0. guard'.trades \in Seq(Trades)
  BY AuditedGuard
<1>1. ShadowTypeOK'
  BY <1>0 DEF ShadowInv, ShadowTypeOK
<1> QED BY <1>1 DEF ShadowInv

\* The marker closes the genesis.
LEMMA WriteMarkerKeeps == ShadowInv /\ WriteMarker => ShadowInv'
<1> SUFFICES ASSUME ShadowInv, WriteMarker PROVE ShadowInv'
  OBVIOUS
<1> USE DEF WriteMarker, Idle, memory
<1>1. ShadowTypeOK'
  BY DEF ShadowInv, ShadowTypeOK
<1> QED BY <1>1 DEF ShadowInv

\* A decision is taken on what the guard holds, which is what is on disk.
LEMMA DecideKeeps == ShadowInv /\ Decide => ShadowInv'
<1> SUFFICES ASSUME ShadowInv, Decide PROVE ShadowInv'
  OBVIOUS
<1>1. PICK s \in Signals : job' = Job("deciding", s, Evaluate(DecisionAt[s]))
  BY DEF Decide
<1>2. UNCHANGED <<up, guard, bus, open, done, disk, marker, chain, audited>> /\ job.step = "idle"
  BY DEF Decide, memory, storage, Idle
<1>3. ShadowTypeOK'
  BY <1>2 DEF ShadowInv, ShadowTypeOK
<1>4. Evaluate(DecisionAt[s]) => LooksBack(s)
  <2> SUFFICES ASSUME Evaluate(DecisionAt[s]) PROVE LooksBack(s)
    OBVIOUS
  <2>1. disk.kind = "valid" /\ guard.trades = disk.trades
    BY <1>2 DEF ShadowInv, Evaluate
  <2>2. Evidence(disk.trades) /\ DecisionAt[s] \in Int
    BY TypedEvidence, GuardAssumption DEF ShadowInv
  <2>3. \A i \in DOMAIN disk.trades : disk.trades[i].at < DecisionAt[s]
    BY <2>1, <2>2, LastIsLatest DEF Evaluate
  <2>4. Len(disk.trades) \in Nat /\ Warmup \in Nat
    BY GuardAssumption DEF ShadowInv, ShadowTypeOK
  <2> QED BY <2>1, <2>3, <2>4 DEF Evaluate, LooksBack
<1>5. LooksBack(s)' <=> LooksBack(s)
  BY <1>2 DEF LooksBack
<1>6. Evaluate(DecisionAt[s]) \in BOOLEAN
  BY DEF Evaluate
<1>7. /\ job'.step = "deciding" /\ job'.signal = s
      /\ job'.allowed => LooksBack(s)'
      /\ job' \in [step : {"deciding"}, signal : Signals, allowed : BOOLEAN]
  BY <1>1, <1>4, <1>5, <1>6 DEF Job
<1>8. guard'.verified => disk'.kind = "valid" /\ guard'.trades = disk'.trades
  BY <1>2 DEF ShadowInv
<1>9. up'
  BY <1>2 DEF Decide
<1> QED BY <1>3, <1>7, <1>8, <1>9 DEF ShadowInv

\* Between decision and publication nothing of the evidence changes.
LEMMA AuditDecisionKeeps == ShadowInv /\ AuditDecision => ShadowInv'
<1> SUFFICES ASSUME ShadowInv, AuditDecision PROVE ShadowInv'
  OBVIOUS
<1> USE DEF AuditDecision, Audited, Unverified, Idle, storage
<1>0. guard'.trades \in Seq(Trades)
  BY AuditedGuard
<1>1. ShadowTypeOK'
  BY <1>0 DEF ShadowInv, ShadowTypeOK
<1>2. job'.step = "publishing" => job'.allowed /\ job'.signal = job.signal
                                  /\ LooksBack(job.signal)
  BY DEF ShadowInv
<1> QED BY <1>1, <1>2 DEF ShadowInv, LooksBack

\* A signal that is filled is one of the strategy's.
LEMMA FillKeeps == ShadowInv /\ Fill => ShadowInv'
<1> SUFFICES ASSUME ShadowInv, Fill PROVE ShadowInv'
  OBVIOUS
<1> USE DEF Fill, Idle, storage
<1>1. bus' \subseteq Signals /\ open' \subseteq Signals
  BY DEF ShadowInv, ShadowTypeOK
<1>2. ShadowTypeOK'
  BY <1>1 DEF ShadowInv, ShadowTypeOK
<1> QED BY <1>2 DEF ShadowInv

\* What is persisted is evidence again, one trade ahead of the memory.
LEMMA PersistKeeps == ShadowInv /\ Persist => ShadowInv'
<1> SUFFICES ASSUME ShadowInv, Persist PROVE ShadowInv'
  OBVIOUS
<1>1. PICK s \in open, t \in Trades :
        /\ Completion(s, t)
        /\ disk' = State("valid", Append(guard.trades, t))
        /\ job' = Job("adopting", s, FALSE)
        /\ UNCHANGED <<up, memory, marker, chain, audited>>
  BY DEF Persist
<1>2. UNCHANGED <<up, guard, bus, open, done, marker, chain, audited>>
  BY <1>1 DEF memory
<1>3. guard.verified /\ guard.trades = disk.trades /\ Evidence(guard.trades)
  BY <1>1, TypedEvidence DEF ShadowInv, Completion, Idle
<1>4. Evidence(Append(guard.trades, t))
  BY <1>1, <1>3, EvidenceGrows DEF Completion, Recordable
<1>5. disk'.kind = "valid" /\ disk'.trades = Append(guard.trades, t)
  BY <1>1 DEF State
<1>6. ShadowTypeOK'
  BY <1>2, <1>4, <1>5 DEF ShadowInv, ShadowTypeOK, Evidence
<1>7. s \in Signals /\ t.id = s /\ up
  BY <1>1 DEF ShadowInv, ShadowTypeOK, Completion
<1>8. /\ job'.step = "adopting" /\ job'.signal = s /\ ~job'.allowed
      /\ job' \in [step : {"adopting"}, signal : Signals, allowed : BOOLEAN]
  BY <1>1, <1>7 DEF Job
<1> QED BY <1>2, <1>3, <1>5, <1>6, <1>7, <1>8 DEF ShadowInv

\* The memory takes over what has been persisted.
LEMMA AdoptKeeps == ShadowInv /\ Adopt => ShadowInv'
<1> SUFFICES ASSUME ShadowInv, Adopt PROVE ShadowInv'
  OBVIOUS
<1> USE DEF Adopt, Verified, storage
<1>1. job.step = "adopting" /\ job.signal \in Signals /\ guard.verified /\ up
  BY DEF ShadowInv
<1>2. PICK t \in Trades : t.id = job.signal /\ disk.trades = Append(guard.trades, t)
  BY <1>1 DEF ShadowInv
<1>3. /\ DOMAIN disk.trades = 1 .. Len(guard.trades) + 1
      /\ disk.trades[Len(guard.trades) + 1] = t /\ Len(guard.trades) \in Nat
  BY <1>2, AppendProperties DEF ShadowInv, ShadowTypeOK
<1>4. \E i \in DOMAIN disk.trades : disk.trades[i].id = job.signal
  BY SMTT(30), <1>2, <1>3
<1>5. ShadowTypeOK'
  BY <1>1 DEF ShadowInv, ShadowTypeOK
<1>6. /\ job'.step = "completing" /\ job'.signal = job.signal
      /\ job' \in [step : {"completing"}, signal : Signals, allowed : BOOLEAN]
  BY <1>1 DEF ShadowInv
<1>7. guard'.verified /\ guard'.trades = disk'.trades /\ disk'.kind = "valid" /\ up'
  BY <1>1 DEF ShadowInv
<1> QED BY <1>1, <1>4, <1>5, <1>6, <1>7 DEF ShadowInv

\* The record of a completion.
LEMMA AuditCompletionKeeps == ShadowInv /\ AuditCompletion => ShadowInv'
<1> SUFFICES ASSUME ShadowInv, AuditCompletion PROVE ShadowInv'
  OBVIOUS
<1> USE DEF AuditCompletion, Audited, Unverified, Idle
<1>0. guard'.trades \in Seq(Trades)
  BY AuditedGuard
<1>1. audited' \subseteq Signals
  BY DEF ShadowInv, ShadowTypeOK
<1>2. ShadowTypeOK'
  BY <1>0, <1>1 DEF ShadowInv, ShadowTypeOK
<1> QED BY <1>2 DEF ShadowInv

\* A crash leaves the disk alone.
LEMMA CrashKeeps == ShadowInv /\ Crash => ShadowInv'
<1> SUFFICES ASSUME ShadowInv, Crash PROVE ShadowInv'
  OBVIOUS
<1> USE DEF Crash, Unverified, Idle
<1>1. ShadowTypeOK'
  BY DEF ShadowInv, ShadowTypeOK
<1> QED BY <1>1 DEF ShadowInv

\* Damage befalls a file nobody has open.
LEMMA DamageKeeps == ShadowInv /\ Damage => ShadowInv'
<1> SUFFICES ASSUME ShadowInv, Damage PROVE ShadowInv'
  OBVIOUS
<1>1. /\ disk'.kind \in {"missing", "invalid"} /\ disk'.trades = disk.trades
      /\ UNCHANGED <<up, guard, bus, open, done, marker, chain, audited, job>> /\ ~up
  BY DEF Damage, State, memory
<1>2. ShadowTypeOK'
  BY <1>1 DEF ShadowInv, ShadowTypeOK
<1> QED BY <1>1, <1>2 DEF ShadowInv, Unverified

\* Every step keeps the invariant.
LEMMA ShadowInvStep == ShadowInv /\ [ShadowNext]_shadowvars => ShadowInv'
<1> SUFFICES ASSUME ShadowInv, [ShadowNext]_shadowvars PROVE ShadowInv'
  OBVIOUS
<1>1. CASE UNCHANGED shadowvars
  BY <1>1 DEF ShadowInv, ShadowTypeOK, LooksBack, shadowvars, memory, storage
<1>2. CASE PersistFails
  BY <1>2 DEF PersistFails, ShadowInv, ShadowTypeOK, LooksBack, shadowvars, memory, storage
<1> QED
  BY <1>1, <1>2, StartKeeps, AuditStartKeeps, WriteMarkerKeeps, DecideKeeps, AuditDecisionKeeps,
     FillKeeps, PersistKeeps, AdoptKeeps, AuditCompletionKeeps, CrashKeeps, DamageKeeps
     DEF ShadowNext

-----------------------------------------------------------------------------
(* The theorems.                                                           *)

\* A runner that is up and verified holds what is on disk, and a decision to
\* fill rests on it, through crashes, restarts, torn audits and lost files.
THEOREM ShadowInvariance == ShadowSpec => []ShadowInv
BY ShadowInvInit, ShadowInvStep, PTL DEF ShadowSpec

\* The trades on disk stay in order, each named once (_append_completed).
THEOREM ShadowTypeCorrect == ShadowSpec => []ShadowTypeOK
<1>1. ShadowInv => ShadowTypeOK
  BY DEF ShadowInv
<1> QED BY <1>1, ShadowInvariance, PTL

\* Only Fill opens a fill, and the decision it acts on still rests on disk.
THEOREM FillsRestOnEvidence == ShadowSpec => FillsLookBack
<1>1. ASSUME ShadowInv, [ShadowNext]_shadowvars
      PROVE  [\A s \in open' \ open : LooksBack(s)]_shadowvars
  <2>1. CASE Fill
    BY <1>1, <2>1 DEF Fill, ShadowInv
  <2>2. CASE Adopt \/ Crash
    BY <2>2 DEF Adopt, Crash
  <2>3. CASE UNCHANGED shadowvars \/ PersistFails
    BY <2>3 DEF PersistFails
  <2>4. CASE Start \/ AuditStart \/ WriteMarker \/ Decide \/ AuditDecision \/ Persist
             \/ AuditCompletion \/ Damage
    BY <2>4 DEF Start, AuditStart, WriteMarker, Decide, AuditDecision, Persist, AuditCompletion,
                Damage, memory
  <2> QED BY <1>1, <2>1, <2>2, <2>3, <2>4 DEF ShadowNext
<1> QED BY <1>1, ShadowInvariance, PTL DEF ShadowSpec, FillsLookBack

\* Persist appends to what is on disk, and only a genesis empties it: no
\* evidence is lost once the marker stands.
THEOREM EvidenceIsKept == ShadowSpec => EvidenceOnlyGrows
<1>1. ASSUME ShadowInv PROVE IsPrefix(disk.trades, disk.trades)
  <2>1. disk.trades \in Seq(Trades)
    BY <1>1 DEF ShadowInv, ShadowTypeOK
  <2> QED BY <2>1, SubSeqFull DEF IsPrefix
<1>2. ASSUME ShadowInv, [ShadowNext]_shadowvars, marker
      PROVE  IsPrefix(disk.trades, disk'.trades)
  <2>1. CASE Persist
    <3>1. PICK s \in open, t \in Trades :
            Completion(s, t) /\ disk' = State("valid", Append(guard.trades, t))
      BY <2>1 DEF Persist
    <3>2. guard.trades = disk.trades /\ Evidence(disk.trades)
      BY <1>2, <3>1, TypedEvidence DEF ShadowInv, Completion, Idle
    <3>3. IsPrefix(guard.trades, Append(guard.trades, t))
      BY <3>1, <3>2, EvidenceGrows DEF Completion, Recordable
    <3> QED BY <3>1, <3>2, <3>3 DEF State
  <2>2. CASE Damage \/ Start
    <3>1. CASE Damage
      BY <1>1, <1>2, <3>1 DEF Damage, State
    <3>2. CASE Start
      BY <1>1, <1>2, <3>2 DEF Start, Genesis
    <3> QED BY <2>2, <3>1, <3>2
  <2>3. CASE UNCHANGED disk
    BY <1>1, <1>2, <2>3
  <2>4. ShadowNext /\ ~Persist /\ ~Damage /\ ~Start => UNCHANGED disk
    BY DEF ShadowNext, AuditStart, WriteMarker, Decide, AuditDecision, Fill, PersistFails, Adopt,
           AuditCompletion, Crash, storage, shadowvars
  <2> QED BY <1>2, <2>1, <2>2, <2>3, <2>4 DEF shadowvars, storage
<1> QED BY <1>2, ShadowInvariance, PTL DEF ShadowSpec, EvidenceOnlyGrows

\* The state file precedes its audit line.
THEOREM AuditFollowsState == ShadowSpec => AuditedIsPersisted
<1>1. ASSUME ShadowInv, [ShadowNext]_shadowvars
      PROVE  [\A s \in audited' \ audited :
                \E i \in DOMAIN disk.trades : disk.trades[i].id = s]_shadowvars
  <2>1. CASE AuditCompletion
    BY <1>1, <2>1 DEF AuditCompletion, ShadowInv
  <2>2. ShadowNext /\ ~AuditCompletion => UNCHANGED audited
    BY DEF ShadowNext, Start, AuditStart, WriteMarker, Decide, AuditDecision, Fill, Persist,
           PersistFails, Adopt, Crash, Damage, storage, shadowvars
  <2> QED BY <1>1, <2>1, <2>2 DEF shadowvars, storage
<1> QED BY <1>1, ShadowInvariance, PTL DEF ShadowSpec, AuditedIsPersisted
=============================================================================
