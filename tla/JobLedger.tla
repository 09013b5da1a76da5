------------------------------ MODULE JobLedger ------------------------------
(***************************************************************************)
(* What the experiment queue promises of each job, with no word of tokens, *)
(* processes, locks or recovery: a job is run under a budget of wasted     *)
(* runs, a run that is handed back costs nothing, a result is final.       *)
(***************************************************************************)
EXTENDS Naturals

CONSTANTS Jobs, Budget

VARIABLES
  job,     \* [Jobs -> Phases]
  spent    \* [Jobs -> Nat]: runs that were begun and came to nothing

vars == <<job, spent>>

Phases == {"none", "waiting", "active", "done", "dead", "shelved"}

Init ==
  /\ job = [j \in Jobs |-> "none"]
  /\ spent = [j \in Jobs |-> 0]

Moves(j, from, to) == job[j] = from /\ job'[j] = to
Free(j) == spent'[j] = spent[j]
Charged(j) == spent'[j] = spent[j] + 1

Submit(j) == Moves(j, "none", "waiting") /\ Free(j)
Begin(j) == Moves(j, "waiting", "active") /\ Free(j)
Finish(j) == Moves(j, "active", "done") /\ Free(j)
HandBack(j) == Moves(j, "active", "waiting") /\ Free(j)
Waste(j) == Moves(j, "active", "waiting") /\ Charged(j) /\ spent'[j] < Budget[j]
GiveUp(j) == Moves(j, "active", "dead") /\ Charged(j) /\ spent'[j] <= Budget[j]
Shelve(j) == (Moves(j, "waiting", "shelved") \/ Moves(j, "active", "shelved")) /\ Free(j)
Reopen(j) == Moves(j, "shelved", "waiting") /\ Free(j)
Rest(j) == job'[j] = job[j] /\ Free(j)

Step(j) ==
  \/ Submit(j) \/ Begin(j) \/ Finish(j) \/ HandBack(j) \/ Waste(j)
  \/ GiveUp(j) \/ Shelve(j) \/ Reopen(j) \/ Rest(j)

\* One transaction of the queue may move several jobs, each by its own rule.
Next ==
  /\ job' \in [Jobs -> Phases]
  /\ spent' \in [Jobs -> Nat]
  /\ \A j \in Jobs : Step(j)

Spec == Init /\ [][Next]_vars
=============================================================================
