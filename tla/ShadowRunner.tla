---------------------------- MODULE ShadowRunner ----------------------------
(***************************************************************************)
(* The shadow runner of one guarded candidate (hydra/shadow/runner.py) and *)
(* the command that starts it (scripts/run_shadow_portfolio.py).  A signal *)
(* is admitted by the prior-trade guard (prior_trade_guard.py), published  *)
(* once (signal_bus.py), checked for risk (risk_guard.py) and filled       *)
(* virtually; a completed fill becomes evidence for later decisions only.  *)
(*                                                                         *)
(* The guard's state is replaced atomically on disk, then in memory, then  *)
(* recorded in a chained audit file.  Signal bus, open fills and completed *)
(* fills are in memory alone.  A crash strikes between any two writes and  *)
(* may tear the audit line it interrupts; the state file may be damaged or *)
(* lost.  Prices, costs and the texts of the audit are left out.           *)
(***************************************************************************)
EXTENDS Integers, FiniteSets, SequencesExt

CONSTANTS
  Signals,         \* signals the strategy may send, in any order and again
  DecisionAt,      \* decision time of each
  Times, Pnl,      \* completion times and results of virtual trades
  Window, MinPrior, Warmup, Threshold   \* the frozen guard specification

ASSUME GuardAssumption ==
  /\ Window \in Nat \ {0} /\ MinPrior \in 1..Window /\ Warmup \in Nat /\ Warmup >= MinPrior
  /\ DecisionAt \in [Signals -> Times] /\ Times \subseteq Int /\ Pnl \subseteq Int

VARIABLES
  up, guard,       \* the process, and its guard: verified or not, completed trades
  disk, marker,    \* the guard's state file, and the marker of its genesis
  chain, audited,  \* the audit file: whole or not, the completions it records
  bus, open, done, \* signals published; fills open and completed
  job              \* what the runner is in the middle of

memory == <<guard, bus, open, done>>
storage == <<disk, marker, chain, audited>>
shadowvars == <<up, memory, storage, job>>

Idle == [step |-> "idle", signal |-> "none", allowed |-> FALSE]
Job(step, s, allowed) == [step |-> step, signal |-> s, allowed |-> allowed]
Verified(trades) == [verified |-> TRUE, trades |-> trades]
Unverified == [verified |-> FALSE, trades |-> <<>>]
State(kind, trades) == [kind |-> kind, trades |-> trades]

ShadowInit ==
  /\ up = FALSE /\ guard = Unverified
  /\ disk = State("missing", <<>>) /\ marker = FALSE
  /\ chain = TRUE /\ audited = {}
  /\ bus = {} /\ open = {} /\ done = {}
  /\ job = Idle

-----------------------------------------------------------------------------
(* The guard.                                                              *)

Prior(trades) ==
  SubSeq(trades, IF Len(trades) > Window THEN Len(trades) - Window + 1 ELSE 1, Len(trades))
Net(trades) == FoldLeft(LAMBDA sum, t : sum + t.pnl, 0, Prior(trades))

\* MUTANT of Evaluate: the time of the last completed trade is not looked at.
EvaluateUntimed(at) ==
  /\ guard.verified
  /\ \/ Len(guard.trades) < Warmup
     \/ Len(Prior(guard.trades)) >= MinPrior /\ Net(guard.trades) >= Threshold

\* PriorTradeGuard.evaluate.  A trade completed after the decision raises,
\* which the runner takes for a refusal, as one completed at the decision.
Evaluate(at) ==
  /\ guard.verified
  /\ guard.trades # <<>> => Last(guard.trades).at < at
  /\ \/ Len(guard.trades) < Warmup
     \/ Len(Prior(guard.trades)) >= MinPrior /\ Net(guard.trades) >= Threshold

\* _append_completed: each trade once, in the order of completion.
Recordable(t) ==
  /\ \A i \in DOMAIN guard.trades : guard.trades[i].id # t.id
  /\ guard.trades # <<>> => t.at >= Last(guard.trades).at

-----------------------------------------------------------------------------
(* The start: _configure_prior_trade_guard and the command around it.      *)

\* MUTANT of Restored: a rejected state file is taken for a fresh start.
RestoredAfresh == IF disk.kind = "valid" THEN Verified(disk.trades) ELSE Verified(<<>>)

Restored == IF disk.kind = "valid" THEN Verified(disk.trades) ELSE Unverified

\* The first start makes an empty state; what is missing later stays so.
Genesis == disk.kind = "missing" /\ ~marker

Start ==
  /\ ~up /\ up' = TRUE
  /\ IF Genesis
     THEN /\ disk' = State("valid", <<>>) /\ guard' = Verified(<<>>)
          /\ job' = Job("genesis", "none", FALSE)
     ELSE /\ guard' = Restored /\ job' = Job("started", "none", FALSE)
          /\ UNCHANGED disk
  /\ UNCHANGED <<marker, chain, audited, bus, open, done>>

\* _audit_guard_event: a chain that is broken takes the guard away.
Audited == IF chain THEN UNCHANGED guard ELSE guard' = Unverified

AuditStart ==
  /\ job.step \in {"genesis", "started"}
  /\ Audited
  /\ job' = IF job.step = "genesis" THEN [job EXCEPT !.step = "marking"] ELSE Idle
  /\ UNCHANGED <<up, bus, open, done, storage>>

WriteMarker ==
  /\ job.step = "marking" /\ job' = Idle
  /\ marker' = TRUE
  /\ UNCHANGED <<up, memory, disk, chain, audited>>

-----------------------------------------------------------------------------
(* process: a signal, sent once or again.                                  *)

Decide ==
  /\ up /\ job = Idle
  /\ \E s \in Signals : job' = Job("deciding", s, Evaluate(DecisionAt[s]))
  /\ UNCHANGED <<up, memory, storage>>

\* The decision stands, even if its audit finds the chain broken.
AuditDecision ==
  /\ job.step = "deciding"
  /\ Audited
  /\ job' = IF job.allowed THEN [job EXCEPT !.step = "publishing"] ELSE Idle
  /\ UNCHANGED <<up, bus, open, done, storage>>

\* The risk guard's limits are inputs of the call.
Fill ==
  /\ job.step = "publishing" /\ job' = Idle
  /\ IF job.signal \in bus
     THEN UNCHANGED <<bus, open>>
     ELSE /\ bus' = bus \cup {job.signal}
          /\ \E riskAllowed \in BOOLEAN :
               open' = IF riskAllowed THEN open \cup {job.signal} ELSE open
  /\ UNCHANGED <<up, guard, done, storage>>

-----------------------------------------------------------------------------
(* record_completed_virtual_trade: staged, persisted, adopted, audited.    *)

Completion(s, t) ==
  /\ up /\ job = Idle /\ s \in open
  /\ t.id = s /\ t.at > DecisionAt[s]
  /\ guard.verified /\ Recordable(t)

Trades == [id : Signals, at : Times, pnl : Pnl]

\* MUTANT of Persist: the audit line is written before the state.
PersistAudited ==
  \E s \in open, t \in Trades :
    /\ Completion(s, t)
    /\ audited' = audited \cup {s}
    /\ job' = Job("adopting", s, FALSE)
    /\ UNCHANGED <<up, memory, disk, marker, chain>>

Persist ==
  \E s \in open, t \in Trades :
    /\ Completion(s, t)
    /\ disk' = State("valid", Append(guard.trades, t))
    /\ job' = Job("adopting", s, FALSE)
    /\ UNCHANGED <<up, memory, marker, chain, audited>>

\* The state file cannot be written: an exception, and nothing has changed.
PersistFails ==
  /\ \E s \in open, t \in Trades : Completion(s, t)
  /\ UNCHANGED shadowvars

Adopt ==
  /\ job.step = "adopting"
  /\ guard' = Verified(disk.trades)
  /\ open' = open \ {job.signal} /\ done' = done \cup {job.signal}
  /\ job' = [job EXCEPT !.step = "completing"]
  /\ UNCHANGED <<up, bus, storage>>

AuditCompletion ==
  /\ job.step = "completing" /\ job' = Idle
  /\ Audited
  /\ audited' = IF chain THEN audited \cup {job.signal} ELSE audited
  /\ UNCHANGED <<up, bus, open, done, disk, marker, chain>>

-----------------------------------------------------------------------------
(* What befalls the runner.                                                *)

\* An audit line may be torn when the process dies writing it.
Crash ==
  /\ up /\ up' = FALSE
  /\ chain' \in {chain, chain /\ job.step \notin {"genesis", "started", "deciding", "completing"}}
  /\ guard' = Unverified /\ bus' = {} /\ open' = {} /\ done' = {} /\ job' = Idle
  /\ UNCHANGED <<disk, marker, audited>>

\* While the runner is down its state file is damaged, or lost.
Damage ==
  /\ ~up /\ disk.kind = "valid"
  /\ \E kind \in {"missing", "invalid"} : disk' = State(kind, disk.trades)
  /\ UNCHANGED <<up, memory, marker, chain, audited, job>>

ShadowNext ==
  \/ Start \/ AuditStart \/ WriteMarker
  \/ Decide \/ AuditDecision \/ Fill
  \/ Persist \/ PersistFails \/ Adopt \/ AuditCompletion
  \/ Crash \/ Damage

ShadowSpec == ShadowInit /\ [][ShadowNext]_shadowvars

-----------------------------------------------------------------------------
(* Properties.                                                             *)

\* Types; the evidence on disk names each trade once, in the order of
\* completion, though two fills may be completed the other way round and a
\* restart forgets which signals were filled.
ShadowTypeOK ==
  /\ disk.kind \in {"missing", "valid", "invalid"}
  /\ disk.trades \in Seq(Trades) /\ guard.trades \in Seq(Trades)
  /\ \A i, j \in DOMAIN disk.trades :
       i < j => disk.trades[i].id # disk.trades[j].id /\ disk.trades[i].at <= disk.trades[j].at
  /\ audited \cup bus \cup open \cup done \subseteq Signals

\* A fill is opened only by evidence that is on disk and lies before its
\* decision: all of it, whatever was restarted, damaged or refused on the way.
LooksBack(s) ==
  /\ disk.kind = "valid" /\ \A i \in DOMAIN disk.trades : disk.trades[i].at < DecisionAt[s]
  /\ Len(disk.trades) >= Warmup => Net(disk.trades) >= Threshold

FillsLookBack == [][\A s \in open' \ open : LooksBack(s)]_shadowvars

\* Once the genesis is marked, evidence is only ever added: a damaged or lost
\* state file is never replaced by a shorter one.
EvidenceOnlyGrows ==
  [][marker => IsPrefix(disk.trades, disk'.trades)]_shadowvars

\* The audit records a completion only when the state file holds it, as the
\* evidence of which it then stays a part.
AuditedIsPersisted ==
  [][\A s \in audited' \ audited :
       \E i \in DOMAIN disk.trades : disk.trades[i].id = s]_shadowvars

\* The strengthening under which these hold at every step.  A runner that is
\* down remembers nothing; a guard that is verified holds what is on disk,
\* but for the trade that is being adopted; a decision to fill rests on what
\* is still on disk.
ShadowInv ==
  /\ ShadowTypeOK
  /\ job \in [step : {"idle", "genesis", "started", "marking", "deciding", "publishing",
                      "adopting", "completing"},
              signal : Signals \cup {"none"}, allowed : BOOLEAN]
  /\ job.step \in {"deciding", "publishing", "adopting", "completing"} => job.signal \in Signals
  /\ ~up => guard = Unverified /\ open = {} /\ job.step = "idle"
  /\ job.step = "adopting" => guard.verified
  /\ guard.verified =>
       /\ disk.kind = "valid"
       /\ IF job.step = "adopting"
          THEN \E t \in Trades : t.id = job.signal /\ disk.trades = Append(guard.trades, t)
          ELSE guard.trades = disk.trades
  /\ job.step = "completing" => \E i \in DOMAIN disk.trades : disk.trades[i].id = job.signal
  /\ job.step \in {"deciding", "publishing"} /\ job.allowed => LooksBack(job.signal)
  /\ job.step = "publishing" => job.allowed
=============================================================================
