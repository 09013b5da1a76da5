-------------------------- MODULE GenerationsProofs --------------------------
(***************************************************************************)
(* Safety of Generations for every number of experiments, faults and       *)
(* conditions of the stop: each engine has one experiment in line, V6      *)
(* takes over from V5 for good, no result is left without its follow-up,   *)
(* and conversion ends at its earliest stop.                               *)
(***************************************************************************)
EXTENDS Generations, SequenceTheorems, FiniteSetTheorems, WellFoundedInduction, TLAPS

-----------------------------------------------------------------------------
(* Lists of steps.                                                         *)

\* A list is a sequence of its elements.
LEMMA ListIsSeq ==
  ASSUME NEW s, IsList(s), NEW S, \A p \in 1..Len(s) : s[p] \in S
  PROVE  s \in Seq(S)
BY DEF IsList

\* A sequence is a list.
LEMMA SeqIsList ==
  ASSUME NEW S, NEW s \in Seq(S)
  PROVE  IsList(s)
BY LenProperties DEF IsList

\* Of two lists one after the other.
LEMMA Joined ==
  ASSUME NEW s, NEW t, IsList(s), IsList(t)
  PROVE  /\ IsList(s \o t) /\ Len(s \o t) = Len(s) + Len(t)
         /\ \A p \in 1..Len(s) : (s \o t)[p] = s[p]
         /\ \A p \in Len(s) + 1..Len(s) + Len(t) : (s \o t)[p] = t[p - Len(s)]
<1> DEFINE S == {s[p] : p \in 1..Len(s)} \cup {t[p] : p \in 1..Len(t)}
<1>1. s \in Seq(S) /\ t \in Seq(S)
  BY ListIsSeq
<1> HIDE DEF S
<1>2. s \o t \in Seq(S) /\ Len(s \o t) = Len(s) + Len(t)
      /\ \A i \in 1 .. Len(s) + Len(t) : (s \o t)[i] = IF i <= Len(s) THEN s[i] ELSE t[i - Len(s)]
  BY <1>1, ConcatProperties
<1>3. IsList(s \o t)
  BY <1>2, SeqIsList
<1>4. Len(s) \in Nat /\ Len(t) \in Nat
  BY DEF IsList
<1> QED BY <1>2, <1>3, <1>4

\* A list without its first element.
LEMMA Rest ==
  ASSUME NEW s, IsList(s), s # <<>>
  PROVE  /\ IsList(Tail(s)) /\ Len(Tail(s)) = Len(s) - 1 /\ Len(s) >= 1 /\ Head(s) = s[1]
         /\ \A p \in 1..Len(s) - 1 : Tail(s)[p] = s[p + 1]
<1> DEFINE S == {s[p] : p \in 1..Len(s)}
<1>1. s \in Seq(S)
  BY ListIsSeq
<1> HIDE DEF S
<1>2. /\ Tail(s) \in Seq(S) /\ Len(Tail(s)) = Len(s) - 1
      /\ \A i \in 1 .. Len(Tail(s)) : Tail(s)[i] = s[i + 1]
  BY <1>1, HeadTailProperties
<1>3. IsList(Tail(s))
  BY <1>2, SeqIsList
<1>4. Len(s) \in Nat /\ Len(s) # 0
  BY <1>1, EmptySeq DEF IsList
<1>5. Head(s) = s[1]
  OBVIOUS
<1> QED BY <1>2, <1>3, <1>4, <1>5

\* A first step that gives way to others.
LEMMA Replaced ==
  ASSUME IsList(todo), todo # <<>>, NEW T, IsList(T), Then(T)
  PROVE  /\ IsList(todo') /\ Len(todo') = Len(T) + Len(todo) - 1
         /\ Len(todo) \in Nat /\ Len(todo) >= 1 /\ Head(todo) = todo[1] /\ Len(T) \in Nat
         /\ \A p \in 1..Len(T) : todo'[p] = T[p]
         /\ \A p \in Len(T) + 1..Len(todo') :
              todo'[p] = todo[p - Len(T) + 1] /\ p - Len(T) + 1 \in 2..Len(todo)
         /\ \A q \in 2..Len(todo) :
              q + Len(T) - 1 \in 1..Len(todo') /\ todo'[q + Len(T) - 1] = todo[q]
<1> DEFINE R == Tail(todo)
           N == T \o R
<1>1. /\ IsList(R) /\ Len(R) = Len(todo) - 1 /\ Len(todo) >= 1 /\ Head(todo) = todo[1]
      /\ \A p \in 1..Len(todo) - 1 : R[p] = todo[p + 1]
  BY Rest
<1>2. /\ IsList(N) /\ Len(N) = Len(T) + Len(R)
      /\ \A p \in 1..Len(T) : N[p] = T[p]
      /\ \A p \in Len(T) + 1..Len(T) + Len(R) : N[p] = R[p - Len(T)]
  BY <1>1, Joined
<1>3. todo' = N
  BY DEF Then
<1>4. Len(T) \in Nat /\ Len(todo) \in Nat
  BY DEF IsList
<1> HIDE DEF R, N
<1>5. Len(N) = Len(T) + Len(todo) - 1
  BY <1>1, <1>2, <1>4
<1>6. ASSUME NEW p \in Len(T) + 1..Len(N)
      PROVE  N[p] = todo[p - Len(T) + 1] /\ p - Len(T) + 1 \in 2..Len(todo)
  <2>1. p - Len(T) \in 1..Len(todo) - 1 /\ p \in Len(T) + 1..Len(T) + Len(R)
    BY <1>1, <1>4, <1>5
  <2>2. N[p] = R[p - Len(T)] /\ R[p - Len(T)] = todo[(p - Len(T)) + 1]
    BY <1>1, <1>2, <2>1
  <2> QED BY <1>4, <2>1, <2>2
<1>7. ASSUME NEW q \in 2..Len(todo)
      PROVE  q + Len(T) - 1 \in 1..Len(N) /\ N[q + Len(T) - 1] = todo[q]
  <2> DEFINE p == q + Len(T) - 1
  <2>1. p \in Len(T) + 1..Len(N) /\ p - Len(T) + 1 = q
    BY <1>4, <1>5
  <2> HIDE DEF p
  <2>2. N[p] = todo[q] /\ p \in 1..Len(N)
    BY <1>4, <1>6, <2>1
  <2> QED BY <2>2 DEF p
<1> QED BY <1>1, <1>2, <1>3, <1>4, <1>5, <1>6, <1>7

\* The list without steps.
LEMMA EmptyList == IsList(<<>>) /\ Len(<<>>) = 0
BY DEF IsList

\* A list of one step.
LEMMA OneStep ==
  ASSUME NEW a
  PROVE  IsList(<<a>>) /\ Len(<<a>>) = 1 /\ <<a>>[1] = a
BY DEF IsList

\* A list of two steps.
LEMMA TwoSteps ==
  ASSUME NEW a, NEW b
  PROVE  IsList(<<a, b>>) /\ Len(<<a, b>>) = 2 /\ <<a, b>>[1] = a /\ <<a, b>>[2] = b
BY DEF IsList

-----------------------------------------------------------------------------
(* Experiments and their numbers.                                          *)

\* The names of the engines.
LEMMA EngineNames ==
  ToSet(Engines) = {"prepare", "q4", "turbo", "promotion", "cohort", "update", "v5", "v6"}
<1>1. DOMAIN Engines = 1..8 /\ Len(Engines) = 8
  BY DEF Engines
<1>2. ToSet(Engines) = {Engines[n] : n \in 1..8}
  BY <1>1 DEF ToSet
<1> QED BY <1>2 DEF Engines

\* An experiment is given by its engine and its number.
LEMMA JobIs ==
  /\ \A j \in Jobs : j = <<j[1], j[2]>> /\ j[1] \in ToSet(Engines) /\ j[2] \in Numbers(j[1])
  /\ \A e \in ToSet(Engines) : \A i \in Numbers(e) : <<e, i>> \in Jobs
<1>1. ASSUME NEW j \in Jobs
      PROVE  j = <<j[1], j[2]>> /\ j[1] \in ToSet(Engines) /\ j[2] \in Numbers(j[1])
  <2>1. PICK e \in ToSet(Engines) : j \in {e} \X Numbers(e)
    BY DEF Jobs
  <2> QED BY <2>1
<1>2. ASSUME NEW e \in ToSet(Engines), NEW i \in Numbers(e)
      PROVE  <<e, i>> \in Jobs
  <2>1. <<e, i>> \in {e} \X Numbers(e)
    OBVIOUS
  <2> QED BY <2>1 DEF Jobs
<1> QED BY <1>1, <1>2

\* The numbers of an engine are bounded naturals.
LEMMA NumbersAre ==
  ASSUME NEW e \in ToSet(Engines)
  PROVE  \E n \in Nat : Numbers(e) = 0..n
<1>1. CASE e \in Single
  BY <1>1 DEF Numbers
<1>2. CASE e \notin Single
  BY <1>2, GenerationsAssumption, EngineNames DEF Numbers, Single
<1> QED BY <1>1, <1>2

\* A set of bounded naturals has a least element, and Min is it.
LEMMA LeastOf ==
  ASSUME NEW n \in Nat, NEW S, S \subseteq 0..n, S # {}
  PROVE  Min(S) \in S /\ \A y \in S : Min(S) <= y
<1> DEFINE Smaller(x) == {y \in S : y < x}
           Family == {Smaller(x) : x \in S}
<1>0. IsFiniteSet(S)
  <2>1. IsFiniteSet(0..n)
    BY FS_Interval
  <2> QED BY <2>1, FS_Subset
<1>1. Family \subseteq SUBSET S /\ Family # {}
  OBVIOUS
<1>2. IsWellFoundedOn(StrictSubsetOrdering(S), SUBSET S)
  BY <1>0, FS_FiniteSubsetsOfFinite, FS_StrictSubsetOrderingWellFounded
<1> HIDE DEF Family
<1>3. PICK D \in Family : \A E \in Family : ~(<<E, D>> \in StrictSubsetOrdering(S))
  BY <1>1, <1>2, WFMin
<1>4. PICK x \in S : D = Smaller(x)
  BY DEF Family
<1>5. ASSUME NEW z \in S, z < x PROVE FALSE
  <2>1. Smaller(z) \in Family /\ Smaller(z) \in SUBSET S /\ Smaller(x) \in SUBSET S
    BY DEF Family
  <2>2. Smaller(z) \subseteq Smaller(x) /\ Smaller(z) # Smaller(x)
    <3>1. z \in Smaller(x) /\ ~(z \in Smaller(z))
      BY <1>5
    <3>2. \A y \in S : y < z => y < x
      BY <1>5
    <3> QED BY <3>1, <3>2
  <2>3. <<Smaller(z), D>> \in StrictSubsetOrdering(S)
    BY <1>4, <2>1, <2>2 DEF StrictSubsetOrdering
  <2> QED BY <1>3, <2>1, <2>3
<1>6. \A y \in S : x <= y
  BY <1>5
<1> QED BY <1>6 DEF Min

\* And a greatest, which is Max.
LEMMA GreatestOf ==
  ASSUME NEW n \in Nat, NEW S, S \subseteq 0..n, S # {}
  PROVE  Max(S) \in S /\ \A y \in S : y <= Max(S)
<1> DEFINE D == {n - x : x \in S}
<1>1. D \subseteq 0..n /\ D # {}
  <2>1. \A x \in S : n - x \in 0..n
    <3>1. \A x \in 0..n : n - x \in 0..n
      OBVIOUS
    <3> QED BY <3>1
  <2>2. \E x : x \in S
    OBVIOUS
  <2> QED BY <2>1, <2>2
<1> HIDE DEF D
<1>2. Min(D) \in D /\ \A y \in D : Min(D) <= y
  BY <1>1, LeastOf
<1>3. PICK x \in S : Min(D) = n - x
  BY <1>2 DEF D
<1>4. \A y \in S : y <= x
  <2> TAKE y \in S
  <2>1. n - y \in D
    BY DEF D
  <2>2. n - x <= n - y
    BY <1>2, <1>3, <2>1
  <2> QED BY <2>2
<1> QED BY <1>4 DEF Max

\* An experiment that was tried is over; one of V5 only if it did not fail.
LEMMA TriedIsOver ==
  ASSUME RecordsTyped, NEW e \in Numbered, NEW m \in Numbers(e),
         row[<<e, m>>] \notin {"absent", "QUEUED"}, e = "v5" => ~Unresolved("v5")
  PROVE  Over(<<e, m>>)
<1>1. row[<<e, m>>] \in Statuses(e)
  BY JobIs, EngineNames DEF Numbered, RecordsTyped
<1>2. CASE e = "v5"
  <2>1. row[<<e, m>>] \notin {"FAILED", "BLOCKED"}
    BY <1>2 DEF Unresolved, Of
  <2>2. row[<<e, m>>] \in Results(e)
    BY <1>1, <1>2, <2>1 DEF Statuses
  <2> QED BY <1>2, <2>2 DEF Over, Completed
<1>3. CASE e # "v5"
  BY <1>3 DEF Over
<1> QED BY <1>2, <1>3

\* The next number of an engine, or the one in line, is above what is over.
LEMMA NextFits ==
  ASSUME RecordsTyped, InOrder, NEW e \in Numbered, e = "v5" => ~Unresolved("v5")
  PROVE  PendingOrNext(e) \in Nat /\ Below(e, PendingOrNext(e))
<1>1. PICK n \in Nat : Numbers(e) = 0..n
  BY NumbersAre, EngineNames DEF Numbered
<1>2. CASE Of(e, "QUEUED") # {}
  <2> DEFINE Q == Of(e, "QUEUED")
  <2>1. Q \subseteq 0..n /\ Q # {}
    BY <1>1, <1>2 DEF Of
  <2> HIDE DEF Q
  <2>2. Min(Q) \in Q
    BY <2>1, LeastOf
  <2>3. PICK m \in Q : m = Min(Q)
    BY <2>2
  <2>4. m \in Known(e) /\ m \in Nat
    <3>1. m \in Of(e, "QUEUED")
      BY DEF Q
    <3>2. m \in Numbers(e) /\ row[<<e, m>>] = "QUEUED"
      BY <3>1 DEF Of
    <3> QED BY <1>1, <3>2 DEF Known
  <2>5. PendingOrNext(e) = m
    BY <1>2, <2>3 DEF Q, PendingOrNext
  <2> QED BY <2>4, <2>5 DEF InOrder
<1>3. CASE Of(e, "QUEUED") = {} /\ Known(e) = {}
  <2>1. PendingOrNext(e) = 0
    BY <1>3 DEF PendingOrNext, NextNumber
  <2> QED BY <1>1, <2>1 DEF Below
<1>4. CASE Of(e, "QUEUED") = {} /\ Known(e) # {}
  <2> DEFINE K == Known(e)
  <2>1. K \subseteq 0..n /\ K # {}
    BY <1>1, <1>4 DEF Known
  <2> HIDE DEF K
  <2>2. PICK m \in K : m = Max(K)
    BY <2>1, GreatestOf
  <2>3. PendingOrNext(e) = m + 1 /\ m \in Nat /\ m \in Known(e)
    BY <1>4, <2>1, <2>2 DEF K, PendingOrNext, NextNumber
  <2>4. Below(e, m)
    BY <2>3 DEF InOrder
  <2>5. m \in Numbers(e) /\ row[<<e, m>>] \notin {"absent", "QUEUED"}
    BY <1>4, <2>3 DEF Known, Of
  <2>6. Over(<<e, m>>)
    BY <2>5, TriedIsOver
  <2>7. \A k \in Numbers(e) : k < m + 1 => k < m \/ k = m
    BY <1>1, <2>3
  <2> QED BY <2>3, <2>4, <2>6, <2>7 DEF Below
<1> QED BY <1>2, <1>3, <1>4

-----------------------------------------------------------------------------
(* Steps that make no experiment known and complete none: the first of the *)
(* steps gives way to others, and the rest of them is as it was.           *)

\* The list T takes the place of the first step, if there is one.
Carries(T) ==
  /\ IsList(T) /\ Len(T) \in Nat /\ Len(todo) \in Nat
  /\ IsList(todo') /\ Len(todo') \in Nat /\ Len(todo') >= Len(T)
  /\ Len(todo) >= 1 => Len(todo') = Len(T) + Len(todo) - 1
  /\ \A p \in 1..Len(T) : todo'[p] = T[p]
  /\ \A p \in Len(T) + 1..Len(todo') :
       todo'[p] = todo[p - Len(T) + 1] /\ p - Len(T) + 1 \in 2..Len(todo)
  /\ \A q \in 2..Len(todo) :
       q + Len(T) - 1 \in 1..Len(todo') /\ todo'[q + Len(T) - 1] = todo[q]

\* Experiments that were in line fail or are retired.
RowSettles ==
  /\ row' = [j \in Jobs |-> row'[j]]
  /\ \A j \in Jobs : \/ row'[j] = row[j]
                     \/ row[j] = "QUEUED" /\ row'[j] \in {"FAILED", "BLOCKED"}

\* The mission state moves as the first step says.
HeadIs(name) == Len(todo) >= 1 /\ Is(todo[1], name)
KvFollows ==
  /\ kv' = [f \in KvNames |-> kv'[f]] /\ kv'.saturated \in BOOLEAN
  /\ kv.saturated = TRUE => kv'.saturated = TRUE
  /\ kv'.saturated = TRUE => kv.saturated = TRUE \/ HeadIs("saturated")
  /\ HeadIs("saturated") => kv'.saturated = TRUE
  /\ kv.finalization = TRUE => kv'.finalization = TRUE
  /\ HeadIs("finalization") => kv'.finalization = TRUE
  /\ kv'.sequence = kv.sequence \/ (HeadIs("sequence") /\ kv'.sequence = todo[1][3])

\* The steps that may be added anywhere, at the front, and at the end.
BelowNext(e, i) ==
  \A k \in Numbers(e) : k < i =>
    IF e = "v5" THEN row'[<<e, k>>] \in Results("v5")
    ELSE row'[<<e, k>>] \notin {"absent", "QUEUED"}
V5IsOpen == kv.saturated # TRUE /\ \A p \in 1..Len(todo) : ~Is(todo[p], "saturated")
Regular(s) ==
  /\ s[1] \in {"set", "retire", "followed", "settle", "conclude", "reevaluate", "v5",
               "reconcile", "start", "queue"}
  /\ s[1] = "set" => s[2] \in KvNames \ {"saturated", "sequence"}
  /\ Is(s, "finalization") => s[3] = TRUE
  /\ s[1] \in {"reconcile", "start"} => s[2] \in Callable
  /\ s[1] = "queue" => s[2] # "closure"
  /\ ~Asks(s, "promotion")
  /\ \A e \in Numbered : Asks(s, e) => s[3] \in Nat /\ BelowNext(e, s[3])
  /\ Asks(s, "v6") => kv.saturated = TRUE
  /\ Asks(s, "v5") => V5IsOpen
Leading(s) ==
  \/ s[1] \in {"reconcile", "queue"} /\ s[2] = "promotion" /\ <<"turbo", s[3]>> \in Due
  \/ /\ s[1] = "queue" /\ s[2] = "closure" /\ row[<<"cohort", s[3]>>] = "absent"
     /\ s[3] \in Numbers("cohort") /\ BelowNext("cohort", s[3])
Ending(T, p) == T[p] = <<"v6">> /\ p + 1 = Len(T) /\ T[p + 1] = <<"v5">> /\ Len(todo) = 1
Fits(T) == \A p \in 1..Len(T) : Regular(T[p]) \/ (p = 1 /\ Leading(T[1])) \/ Ending(T, p)

\* What the first step asked for is there, or asked for again.
Answered(T) ==
  \A e, i : Len(todo) >= 1 /\ Asks(todo[1], e) /\ todo[1][3] = i =>
    /\ e \in {"turbo", "v5", "v6"} => Comes(e, i, Len(T))'
    /\ e = "promotion" /\ row[<<"turbo", i>>] = "candidates" => Comes(e, i, Len(T))'
    /\ e = "cohort" => IF todo[1][2] = "closure" THEN ClosureComes(i, Len(T))'
                       ELSE Comes(e, i, Len(T))' \/ Ends(Len(T))'
Routed(T) ==
  \A j : Len(todo) >= 1 /\ todo[1] = <<"route", j>> => FollowedUp(j, Len(T))'

Advances(T) ==
  /\ GenerationsInv /\ up /\ up'
  /\ Carries(T) /\ Fits(T) /\ Answered(T) /\ Routed(T) /\ RowSettles /\ KvFollows
  /\ closure' = closure /\ accounted' = accounted /\ refused \subseteq refused'
  /\ Len(todo) >= 1 =>
       /\ todo[1][1] \notin {"queue", "accounted"}
       /\ todo[1][1] = "completed" => Due = {}
       /\ todo[1] = <<"retire", "v5">> => Of("v5", "QUEUED")' = {} /\ Len(T) = 0

\* What was known stays known, and what is over stays over.
LEMMA RowsStay ==
  ASSUME RecordsTyped, RowSettles
  PROVE  /\ \A j \in Jobs : row'[j] \in Statuses(j[1])
         /\ \A j \in Jobs : Completed(j)' = Completed(j)
         /\ \A j \in Jobs : row[j] \notin {"QUEUED"} => row'[j] = row[j]
         /\ \A j \in Jobs : (row'[j] = "absent") = (row[j] = "absent")
         /\ \A j \in Jobs : row'[j] = "QUEUED" => row[j] = "QUEUED"
         /\ \A j \in Jobs : Over(j) => Over(j)'
<1> SUFFICES ASSUME NEW j \in Jobs
             PROVE  /\ row'[j] \in Statuses(j[1])
                    /\ Completed(j)' = Completed(j)
                    /\ row[j] \notin {"QUEUED"} => row'[j] = row[j]
                    /\ (row'[j] = "absent") = (row[j] = "absent")
                    /\ row'[j] = "QUEUED" => row[j] = "QUEUED"
                    /\ Over(j) => Over(j)'
  OBVIOUS
<1>1. row[j] \in Statuses(j[1])
  BY DEF RecordsTyped
<1>2. \A e \in ToSet(Engines) : Results(e) \cap {"absent", "QUEUED", "FAILED", "BLOCKED"} = {}
  BY EngineNames DEF Results
<1>3. j[1] \in ToSet(Engines)
  BY JobIs
<1>4. CASE row'[j] = row[j]
  BY <1>1, <1>4 DEF Completed, Over
<1>5. CASE row[j] = "QUEUED" /\ row'[j] \in {"FAILED", "BLOCKED"}
  BY <1>1, <1>2, <1>3, <1>5 DEF Completed, Over, Statuses
<1> QED BY <1>4, <1>5 DEF RowSettles

\* A step of the new list is one of T, or one that followed the first.
LEMMA StepOfNext ==
  ASSUME NEW T, Carries(T), NEW p \in 1..Len(todo')
  PROVE  \/ p \in 1..Len(T) /\ todo'[p] = T[p]
         \/ \E q \in 2..Len(todo) : p = q + Len(T) - 1 /\ todo'[p] = todo[q]
<1> PICK n, m : n = Len(T) /\ m = Len(todo')
  OBVIOUS
<1>0. n \in Nat /\ m \in Nat /\ p \in 1..m
  BY DEF Carries
<1>1. CASE p <= n
  <2>1. p \in 1..n
    BY <1>0, <1>1
  <2> QED BY <2>1 DEF Carries
<1>2. CASE p > n
  <2>1. p \in n + 1..m
    BY <1>0, <1>2
  <2>2. PICK q : q = p - n + 1
    OBVIOUS
  <2>3. q \in 2..Len(todo) /\ todo'[p] = todo[q]
    BY <2>1, <2>2 DEF Carries
  <2>4. p = q + n - 1
    BY <1>0, <2>2
  <2> QED BY <2>3, <2>4
<1> QED BY <1>0, <1>1, <1>2

\* A step that followed the first keeps its type.
LEMMA TypedCarries ==
  ASSUME TodoTyped, NEW T, Carries(T), \A j \in Jobs : Completed(j) => Completed(j)',
         NEW q \in 2..Len(todo), NEW p, p = q + Len(T) - 1, NEW s, s = todo[q]
  PROVE  StepTyped(s, p)'
<1>1. Len(todo) \in Nat /\ Len(T) \in Nat
  BY DEF Carries
<1>2. q \in Nat /\ 2 <= q /\ q <= Len(todo)
  BY <1>1
<1>3. q \in 1..Len(todo) /\ q # 1
  BY <1>1, <1>2
<1>4. Len(todo) # 1
  BY <1>2
<1>5. StepTyped(s, q) /\ Len(todo') = Len(T) + Len(todo) - 1
  BY <1>1, <1>2, <1>3 DEF TodoTyped, Carries
<1>6. s[1] = "accounted" => s[2] \in Jobs /\ Completed(s[2])'
  BY <1>5 DEF StepTyped
<1>7. s[1] = "v6" => p + 1 = Len(todo') /\ todo'[p + 1] = <<"v5">>
  <2> SUFFICES ASSUME s[1] = "v6"
               PROVE  p + 1 = Len(todo') /\ todo'[p + 1] = <<"v5">>
    OBVIOUS
  <2>1. q + 1 = Len(todo) /\ todo[q + 1] = <<"v5">>
    BY <1>5 DEF StepTyped
  <2>2. q + 1 \in 2..Len(todo)
    BY <1>1, <1>2, <2>1
  <2>3. todo'[(q + 1) + Len(T) - 1] = todo[q + 1]
    BY <2>2 DEF Carries
  <2>4. p + 1 = (q + 1) + Len(T) - 1
    BY <1>1
  <2> QED BY <1>1, <1>5, <2>1, <2>3, <2>4
<1>8. s[1] = "collect" => p = Len(todo')
  BY <1>1, <1>5 DEF StepTyped
<1>9. /\ s[1] # "run" /\ s[1] # "route" /\ ~(s[1] = "queue" /\ s[2] = "closure")
      /\ s[1] = "set" => s[2] \in KvNames
      /\ Is(s, "finalization") => s[3] = TRUE
      /\ s[1] \in {"reconcile", "start"} => s[2] \in Callable
  BY <1>3, <1>4, <1>5 DEF StepTyped
<1> QED BY <1>6, <1>7, <1>8, <1>9 DEF StepTyped

\* The types of the new list.
LEMMA AdvanceTyped ==
  ASSUME NEW T, Advances(T)
  PROVE  RecordsTyped' /\ TodoTyped'
<1>1. GenerationsInv /\ RecordsTyped /\ TodoTyped /\ Carries(T) /\ Fits(T) /\ RowSettles
      /\ up' /\ accounted' = accounted
  BY DEF Advances, GenerationsInv
<1>2. RecordsTyped'
  <2>1. /\ row' = [j \in Jobs |-> row'[j]]
        /\ kv' = [f \in KvNames |-> kv'[f]] /\ kv'.saturated \in BOOLEAN
    BY DEF Advances, RowSettles, KvFollows
  <2>2. accounted \subseteq {j \in Jobs : Completed(j)'}
    BY <1>1, RowsStay DEF RecordsTyped
  <2>3. \A j \in Jobs : row'[j] \in Statuses(j[1])
    BY <1>1, RowsStay
  <2> QED BY <1>1, <2>1, <2>2, <2>3 DEF RecordsTyped
<1>4. ASSUME NEW p \in 1..Len(todo') PROVE StepTyped(todo[p], p)'
  <2> PICK s : s = todo'[p]
    OBVIOUS
  <2> SUFFICES StepTyped(s, p)'
    OBVIOUS
  <2>1. CASE p \in 1..Len(T) /\ s = T[p]
    <3>1. CASE Regular(s)
      BY <3>1 DEF Regular, Is, StepTyped
    <3>2. CASE p = 1 /\ Leading(s)
      <4>1. \A i \in Numbers("cohort") : row[<<"cohort", i>>] = "absent" =>
              row'[<<"cohort", i>>] = "absent"
        BY <1>1, RowsStay, JobIs, EngineNames
      <4> QED BY <3>2, <4>1 DEF Leading, Is, Callable, StepTyped
    <3>3. CASE Ending(T, p)
      <4>1. Len(todo') = Len(T) /\ Len(T) \in Nat
        BY <1>1, <3>3 DEF Ending, Carries
      <4>2. s[1] = "v6" /\ p + 1 = Len(todo') /\ T[p + 1] = <<"v5">> /\ p + 1 \in 1..Len(T)
        BY <2>1, <3>3, <4>1 DEF Ending
      <4>3. todo'[p + 1] = <<"v5">>
        BY <1>1, <4>2 DEF Carries
      <4> QED BY <4>2, <4>3 DEF StepTyped, Is
    <3> QED BY <1>1, <2>1, <3>1, <3>2, <3>3 DEF Fits
  <2>2. ASSUME NEW q \in 2..Len(todo), p = q + Len(T) - 1, s = todo[q]
        PROVE  StepTyped(s, p)'
    <3>1. \A j \in Jobs : Completed(j) => Completed(j)'
      BY <1>1, RowsStay
    <3> QED BY <1>1, <2>2, <3>1, TypedCarries
  <2> QED BY <1>1, <2>1, <2>2, StepOfNext
<1>5. IsList(todo')
  BY <1>1 DEF Carries
<1> QED BY <1>2, <1>4, <1>5 DEF TodoTyped

\* The results to be routed are as they were, and are still routed.
LEMMA AdvanceRouted ==
  ASSUME NEW T, Advances(T)
  PROVE  Due' = Due /\ DueIsRouted'
<1>1. /\ RecordsTyped /\ DueIsRouted /\ Carries(T) /\ RowSettles
      /\ up /\ up' /\ accounted' = accounted
      /\ Len(todo) >= 1 => (todo[1][1] = "completed" => Due = {})
  BY DEF Advances, GenerationsInv
<1>2. Due' = Due
  BY <1>1, RowsStay DEF Due
<1>3. ASSUME Due # {} PROVE \E p \in 1..Len(todo') : todo'[p][1] = "completed"
  <2>1. PICK q \in 1..Len(todo) : todo[q][1] = "completed"
    BY <1>1, <1>3 DEF DueIsRouted
  <2>2. q \in 2..Len(todo)
    BY <1>1, <1>3, <2>1 DEF Carries
  <2> QED BY <1>1, <2>1, <2>2 DEF Carries
<1> QED BY <1>2, <1>3 DEF DueIsRouted

\* What is asked for stays above what is over.
LEMMA AdvanceInOrder ==
  ASSUME NEW T, Advances(T)
  PROVE  InOrder'
<1>1. RecordsTyped /\ InOrder /\ Carries(T) /\ Fits(T) /\ RowSettles
  BY DEF Advances, GenerationsInv
<1> SUFFICES ASSUME NEW e \in Numbered
             PROVE  /\ \A i \in Known(e)' : Below(e, i)'
                    /\ \A p \in 1..Len(todo') :
                         Asks(todo'[p], e) => todo'[p][3] \in Nat /\ Below(e, todo[p][3])'
  BY DEF InOrder
<1>2. \A k \in Numbers(e) : <<e, k>> \in Jobs
  BY JobIs, EngineNames DEF Numbered
<1>3. ASSUME NEW i, Below(e, i) PROVE Below(e, i)'
  BY <1>1, <1>2, <1>3, RowsStay DEF Below
<1>4. Known(e)' = Known(e)
  BY <1>1, <1>2, RowsStay DEF Known
<1>5. ASSUME NEW p \in 1..Len(todo'), NEW s, s = todo'[p], Asks(s, e)
      PROVE  s[3] \in Nat /\ Below(e, s[3])'
  <2>1. CASE p \in 1..Len(T) /\ s = T[p]
    <3>1. s[3] \in Nat /\ BelowNext(e, s[3])
      <4>1. CASE Regular(s)
        BY <1>5, <4>1 DEF Regular
      <4>2. CASE Leading(s)
        <5>1. s[2] # "promotion"
          BY <1>5 DEF Asks, Name, Numbered
        <5>2. s[2] = "closure" /\ e = "cohort"
          BY <1>5, <4>2, <5>1 DEF Leading, Asks, Name
        <5>3. \A i \in Numbers("cohort") : i \in Nat
          BY NumbersAre, EngineNames
        <5> QED BY <4>2, <5>1, <5>2, <5>3 DEF Leading
      <4>3. ~Ending(T, p)
        BY <1>5, <2>1 DEF Ending, Asks
      <4> QED BY <1>1, <2>1, <4>1, <4>2, <4>3 DEF Fits
    <3> QED BY <3>1 DEF BelowNext, Below, Over, Completed
  <2>2. ASSUME NEW q \in 2..Len(todo), s = todo[q]
        PROVE  s[3] \in Nat /\ Below(e, s[3])'
    <3>1. s[3] \in Nat /\ Below(e, s[3])
      BY <1>1, <1>5, <2>2 DEF InOrder, Carries
    <3> QED BY <1>3, <3>1
  <2> QED BY <1>1, <1>5, <2>1, <2>2, StepOfNext
<1> QED BY <1>1, <1>3, <1>4, <1>5 DEF InOrder

\* The next update is numbered as it was, or as the first step says.
LEMMA AdvanceUpdates ==
  ASSUME NEW T, Advances(T)
  PROVE  UpdatesFit'
<1>1. /\ RecordsTyped /\ UpdatesFit /\ Carries(T) /\ Fits(T) /\ RowSettles /\ KvFollows
      /\ Len(todo) >= 1 => todo[1][1] # "queue"
  BY DEF Advances, GenerationsInv
<1>2. ASSUME NEW v, Sequenced(v) PROVE Sequenced(v)'
  BY <1>1, <1>2, RowsStay, JobIs, EngineNames DEF Sequenced
<1>3. PICK v : v = kv'.sequence
  OBVIOUS
<1>4. Sequenced(v)
  <2>1. CASE kv'.sequence = kv.sequence
    BY <1>1, <1>3, <2>1 DEF UpdatesFit
  <2>2. CASE HeadIs("sequence") /\ kv'.sequence = todo[1][3]
    <3>1. Len(todo) >= 1 /\ 1 \in 1..Len(todo)
      BY <1>1, <2>2 DEF HeadIs, Carries
    <3> QED BY <1>1, <1>3, <2>2, <3>1 DEF HeadIs, UpdatesFit
  <2> QED BY <1>1, <2>1, <2>2 DEF KvFollows
<1>5. ASSUME NEW p \in 1..Len(todo') PROVE ~Is(todo'[p], "sequence")
  <2>1. CASE p \in 1..Len(T) /\ todo'[p] = T[p]
    BY <1>1, <2>1 DEF Fits, Regular, Leading, Ending, Is
  <2>2. ASSUME NEW q \in 2..Len(todo), todo'[p] = todo[q], Is(todo[q], "sequence")
        PROVE  FALSE
    <3>1. q \in 1..Len(todo) /\ q # 1 /\ Len(todo) >= 1
      BY <1>1 DEF Carries
    <3>2. todo[1][1] = "queue"
      BY <1>1, <2>2, <3>1 DEF UpdatesFit
    <3> QED BY <1>1, <3>1, <3>2
  <2> QED BY <1>1, <2>1, <2>2, StepOfNext
<1>6. Sequenced(v)'
  BY <1>2, <1>4
<1> QED BY <1>3, <1>5, <1>6 DEF UpdatesFit

\* No other promotion is queued, and none asked for but at the front.
LEMMA AdvancePromotions ==
  ASSUME NEW T, Advances(T)
  PROVE  PromotionsFit'
<1>1. /\ RecordsTyped /\ TodoTyped /\ PromotionsFit /\ Carries(T) /\ Fits(T) /\ RowSettles
  BY DEF Advances, GenerationsInv
<1>2. Due' = Due
  BY AdvanceRouted
<1>3. Of("promotion", "QUEUED")' \subseteq Of("promotion", "QUEUED")
  BY <1>1, RowsStay, JobIs, EngineNames DEF Of
<1>4. ASSUME NEW p \in 1..Len(todo'), NEW s, s = todo'[p]
      PROVE  /\ Asks(s, "promotion") => p = 1 /\ <<"turbo", s[3]>> \in Due
             /\ s[1] # "run"
  <2>1. CASE p \in 1..Len(T) /\ s = T[p]
    BY <1>1, <2>1 DEF Fits, Regular, Leading, Ending, Asks, Name
  <2>2. ASSUME NEW q \in 2..Len(todo), s = todo[q]
        PROVE  ~Asks(s, "promotion") /\ s[1] # "run"
    <3>1. q \in 1..Len(todo) /\ q # 1 /\ Len(todo) # 1
      BY <1>1 DEF Carries
    <3> QED BY <1>1, <2>2, <3>1 DEF PromotionsFit, TodoTyped, StepTyped
  <2> QED BY <1>1, <1>4, <2>1, <2>2, StepOfNext
<1>5. \A i, k \in Numbers("turbo") : {<<"turbo", i>>, <<"turbo", k>>} \subseteq Due => i = k
  BY <1>1 DEF PromotionsFit
<1>6. \A k \in Of("promotion", "QUEUED") :
        /\ \A i \in Numbers("turbo") : <<"turbo", i>> \in Due => i = k
        /\ \A i \in Of("promotion", "QUEUED") : i = k
  BY <1>1 DEF PromotionsFit
<1> QED BY <1>2, <1>3, <1>4, <1>5, <1>6 DEF PromotionsFit

\* V5 stays over once its grammar is frozen.
LEMMA AdvanceV6 ==
  ASSUME NEW T, Advances(T)
  PROVE  V6Follows'
<1>1. /\ RecordsTyped /\ V6Follows /\ Carries(T) /\ Fits(T) /\ RowSettles /\ KvFollows
      /\ Len(todo) >= 1 =>
           (todo[1] = <<"retire", "v5">> => Of("v5", "QUEUED")' = {} /\ Len(T) = 0)
  BY DEF Advances, GenerationsInv
<1>2. Due' = Due
  BY AdvanceRouted
<1>3. Known("v6")' = Known("v6") /\ Of("v5", "QUEUED")' \subseteq Of("v5", "QUEUED")
  BY <1>1, RowsStay, JobIs, EngineNames DEF Known, Of
<1>4. ASSUME V5IsOver, ~V5IsOpen PROVE V5IsOver'
  <2>1. ASSUME NEW p \in 1..Len(todo') PROVE ~Asks(todo'[p], "v5")
    <3>1. CASE p \in 1..Len(T) /\ todo'[p] = T[p]
      BY <1>1, <1>4, <3>1 DEF Fits, Regular, Leading, Ending, Asks, Name
    <3>2. ASSUME NEW q \in 2..Len(todo), todo'[p] = todo[q]
          PROVE  ~Asks(todo[q], "v5")
      BY <1>1, <1>4 DEF V5IsOver, Carries
    <3> QED BY <1>1, <3>1, <3>2, StepOfNext
  <2> QED BY <1>2, <1>4, <2>1 DEF V5IsOver
<1>5. kv.saturated = TRUE => V5IsOver /\ ~V5IsOpen /\ Of("v5", "QUEUED") = {}
  BY <1>1 DEF V6Follows, V5IsOpen
<1>6. ASSUME NEW q \in 1..Len(todo), Is(todo[q], "saturated")
      PROVE  todo[q][3] = TRUE /\ V5IsOver /\ ~V5IsOpen
             /\ \/ q = 1 /\ Of("v5", "QUEUED") = {}
                \/ q = 2 /\ todo[1] = <<"retire", "v5">>
  BY <1>1, <1>6 DEF V6Follows, V5IsOpen
<1>7. kv'.saturated = TRUE => V5IsOver' /\ Of("v5", "QUEUED")' = {}
  <2>1. HeadIs("saturated") => 1 \in 1..Len(todo) /\ Is(todo[1], "saturated")
    BY <1>1 DEF HeadIs, Carries
  <2>2. HeadIs("saturated") => V5IsOver /\ ~V5IsOpen /\ Of("v5", "QUEUED") = {}
    BY <1>6, <2>1 DEF Is
  <2> QED BY <1>1, <1>3, <1>4, <1>5, <2>2 DEF KvFollows
<1>8. ASSUME NEW p \in 1..Len(todo'), NEW s, s = todo'[p]
      PROVE  /\ Asks(s, "v6") => kv'.saturated = TRUE
                                 \/ \E q \in 1..p - 1 : Is(todo'[q], "saturated")
             /\ Is(s, "saturated") => /\ s[3] = TRUE /\ V5IsOver'
                                      /\ p = 1 /\ Of("v5", "QUEUED")' = {}
  <2>1. CASE p \in 1..Len(T) /\ s = T[p]
    <3>1. Regular(s) \/ Leading(s) \/ s = <<"v6">>
      BY <1>1, <2>1 DEF Fits, Ending
    <3> QED BY <1>1, <3>1 DEF Regular, Leading, Asks, Is, Name, KvFollows
  <2>2. ASSUME NEW q \in 2..Len(todo), p = q + Len(T) - 1, s = todo[q], Asks(s, "v6")
        PROVE  kv'.saturated = TRUE \/ \E r \in 1..p - 1 : Is(todo'[r], "saturated")
    <3>0. q \in 1..Len(todo) /\ Len(todo) \in Nat /\ Len(T) \in Nat
      BY <1>1 DEF Carries
    <3>1. kv.saturated = TRUE \/ \E r \in 1..q - 1 : Is(todo[r], "saturated")
      BY <1>1, <2>2, <3>0 DEF V6Follows
    <3>2. ASSUME NEW r \in 1..q - 1, Is(todo[r], "saturated")
          PROVE  kv'.saturated = TRUE \/ \E t \in 1..p - 1 : Is(todo'[t], "saturated")
      <4>1. CASE r = 1
        BY <1>1, <3>0, <3>2, <4>1 DEF KvFollows, HeadIs
      <4>2. CASE r # 1
        <5>1. r \in 2..Len(todo) /\ r + Len(T) - 1 \in 1..p - 1
          BY <2>2, <3>0, <4>2
        <5>2. todo'[r + Len(T) - 1] = todo[r]
          BY <1>1, <5>1 DEF Carries
        <5> QED BY <3>2, <5>1, <5>2
      <4> QED BY <4>1, <4>2
    <3> QED BY <1>1, <3>1, <3>2 DEF KvFollows
  <2>3. ASSUME NEW q \in 2..Len(todo), p = q + Len(T) - 1, s = todo[q], Is(s, "saturated")
        PROVE  s[3] = TRUE /\ V5IsOver' /\ p = 1 /\ Of("v5", "QUEUED")' = {}
    <3>0. q \in 1..Len(todo) /\ Len(todo) \in Nat /\ Len(T) \in Nat /\ q # 1
      BY <1>1 DEF Carries
    <3>1. s[3] = TRUE /\ V5IsOver /\ ~V5IsOpen /\ q = 2 /\ todo[1] = <<"retire", "v5">>
      BY <1>6, <2>3, <3>0
    <3>2. Of("v5", "QUEUED")' = {} /\ Len(T) = 0
      BY <1>1, <3>0, <3>1
    <3> QED BY <1>4, <2>3, <3>0, <3>1, <3>2
  <2> QED BY <1>1, <1>8, <2>1, <2>2, <2>3, StepOfNext
<1>9. Known("v6")' # {} => kv'.saturated = TRUE
  BY <1>1, <1>3 DEF V6Follows, KvFollows
<1> QED BY <1>7, <1>8, <1>9 DEF V6Follows

\* Rows stay known, results stay as they are, and so does which of them
\* belong to a closing cohort.
Grows ==
  /\ refused \subseteq refused'
  /\ \A j \in Jobs : row[j] # "absent" => row'[j] # "absent"
  /\ \A j \in Jobs : Completed(j) => row'[j] = row[j]
  /\ \A i \in Numbers("cohort") : Completed(<<"cohort", i>>) => (i \in closure') = (i \in closure)

\* What follows a result is there or still to come.
LEMMA FollowedCarries ==
  ASSUME NEW T, Carries(T), Answered(T), KvFollows, Grows, NEW j \in Jobs, Completed(j),
         NEW n \in 0..Len(todo), FollowedUp(j, n),
         NEW m \in 0..Len(todo'), n >= 1 => m >= n + Len(T) - 1
  PROVE  FollowedUp(j, m)'
<1>1. Carries(T) /\ KvFollows /\ Answered(T) /\ refused \subseteq refused'
  BY DEF Grows
<1>2. row'[j] = row[j]
  BY DEF Grows
<1>3. Len(todo) \in Nat /\ Len(T) \in Nat /\ Len(todo') \in Nat
  BY <1>1 DEF Carries
<1>4. ASSUME NEW e \in ToSet(Engines), NEW i, GoesOn(e, i) PROVE GoesOn(e, i)'
  BY <1>1, <1>4, JobIs DEF GoesOn, Grows
<1>5. ASSUME NEW e, NEW i, NEW q \in 1..n, Asks(todo[q], e), todo[q][3] = i, q # 1
      PROVE  \E r \in 1..m : Asks(todo'[r], e) /\ todo'[r][3] = i /\ todo'[r][2] = todo[q][2]
  <2>1. q \in 2..Len(todo) /\ q + Len(T) - 1 \in 1..m
    BY <1>3, <1>5
  <2>2. todo'[q + Len(T) - 1] = todo[q]
    BY <1>1, <2>1 DEF Carries
  <2> QED BY <1>5, <2>1, <2>2
<1>6. n >= 1 => 1 \in 1..Len(todo) /\ Len(todo) >= 1 /\ Len(T) <= m /\ m \in Nat
  BY <1>3
<1>7. ASSUME NEW e, NEW i, n >= 1, Comes(e, i, Len(T))' PROVE Comes(e, i, m)'
  <2>1. 1..Len(T) \subseteq 1..m
    BY <1>3, <1>6, <1>7
  <2> QED BY <1>7, <2>1 DEF Comes
<1>8. ASSUME NEW i, n >= 1, ClosureComes(i, Len(T))' PROVE ClosureComes(i, m)'
  <2>1. 1..Len(T) \subseteq 1..m
    BY <1>3, <1>6, <1>8
  <2> QED BY <1>8, <2>1 DEF ClosureComes
<1>9. ASSUME n >= 1, Ends(Len(T))' PROVE Ends(m)'
  <2>1. 1..Len(T) \subseteq 1..m
    BY <1>3, <1>6, <1>9
  <2> QED BY <1>9, <2>1 DEF Ends
<1>10. ASSUME NEW e \in {"turbo", "v5", "v6"}, NEW i, Comes(e, i, n) PROVE Comes(e, i, m)'
  <2>1. CASE GoesOn(e, i)
    BY <1>4, <2>1, EngineNames DEF Comes
  <2>2. ASSUME NEW q \in 1..n, Asks(todo[q], e), todo[q][3] = i PROVE Comes(e, i, m)'
    <3>1. CASE q = 1
      <4>1. n >= 1
        BY <1>3, <3>1
      <4>2. Comes(e, i, Len(T))'
        BY <1>1, <1>6, <2>2, <3>1, <4>1 DEF Answered
      <4> QED BY <1>7, <4>1, <4>2
    <3>2. CASE q # 1
      BY <1>5, <2>2, <3>2 DEF Comes, Asks
    <3> QED BY <3>1, <3>2
  <2> QED BY <1>10, <2>1, <2>2 DEF Comes
<1>11. ASSUME j[1] = "turbo", row[j] = "candidates", Comes("promotion", j[2], n)
       PROVE  Comes("promotion", j[2], m)'
  <2> PICK i : i = j[2]
    OBVIOUS
  <2>0. j = <<"turbo", i>>
    BY <1>11, JobIs
  <2>1. CASE GoesOn("promotion", i)
    BY <1>4, <2>1, EngineNames DEF Comes
  <2>2. ASSUME NEW q \in 1..n, Asks(todo[q], "promotion"), todo[q][3] = i
        PROVE  Comes("promotion", i, m)'
    <3>1. CASE q = 1
      <4>1. n >= 1
        BY <1>3, <3>1
      <4>a. Len(todo) >= 1 /\ Asks(todo[1], "promotion") /\ todo[1][3] = i
        BY <1>6, <2>2, <3>1, <4>1
      <4>b. row[<<"turbo", i>>] = "candidates"
        BY <1>11, <2>0
      <4>2. Comes("promotion", i, Len(T))'
        BY <4>a, <4>b DEF Answered
      <4> QED BY <1>7, <4>1, <4>2
    <3>2. CASE q # 1
      BY <1>5, <2>2, <3>2 DEF Comes, Asks
    <3> QED BY <3>1, <3>2
  <2> QED BY <1>11, <2>1, <2>2 DEF Comes
<1>12. ASSUME NEW i, ClosureComes(i, n) PROVE ClosureComes(i, m)'
  <2>1. CASE GoesOn("cohort", i)
    BY <1>4, <2>1, EngineNames DEF ClosureComes
  <2>2. ASSUME NEW q \in 1..n, Asks(todo[q], "cohort"), todo[q][3] = i, todo[q][2] = "closure"
        PROVE  ClosureComes(i, m)'
    <3>1. CASE q = 1
      <4>1. n >= 1
        BY <1>3, <3>1
      <4>2. ClosureComes(i, Len(T))'
        BY <1>1, <1>6, <2>2, <3>1, <4>1 DEF Answered
      <4> QED BY <1>8, <4>1, <4>2
    <3>2. CASE q # 1
      BY <1>5, <2>2, <3>2 DEF ClosureComes, Asks
    <3> QED BY <3>1, <3>2
  <2> QED BY <1>12, <2>1, <2>2 DEF ClosureComes
<1>13. ASSUME NEW i, Comes("cohort", i, n) \/ Ends(n) PROVE Comes("cohort", i, m)' \/ Ends(m)'
  <2>1. CASE GoesOn("cohort", i)
    BY <1>4, <2>1, EngineNames DEF Comes
  <2>2. ASSUME NEW q \in 1..n, Asks(todo[q], "cohort"), todo[q][3] = i
        PROVE  Comes("cohort", i, m)' \/ Ends(m)'
    <3>1. CASE q = 1
      <4>1. n >= 1
        BY <1>3, <3>1
      <4>2. ClosureComes(i, Len(T))' \/ Comes("cohort", i, Len(T))' \/ Ends(Len(T))'
        BY <1>1, <1>6, <2>2, <3>1, <4>1 DEF Answered
      <4>3. ClosureComes(i, m)' => Comes("cohort", i, m)'
        BY DEF ClosureComes, Comes
      <4> QED BY <1>7, <1>8, <1>9, <4>1, <4>2, <4>3
    <3>2. CASE q # 1
      <4>1. q \in 2..Len(todo) /\ q + Len(T) - 1 \in 1..m
        BY <1>3, <2>2, <3>2
      <4>2. todo'[q + Len(T) - 1] = todo[q]
        BY <1>1, <4>1 DEF Carries
      <4>3. Comes("cohort", i, m)'
        BY <2>2, <4>1, <4>2 DEF Comes, Asks
      <4> QED BY <4>3
    <3> QED BY <3>1, <3>2
  <2>3. CASE kv.finalization = TRUE
    BY <1>1, <2>3 DEF KvFollows, Ends
  <2>4. ASSUME NEW q \in 1..n, Is(todo[q], "finalization") PROVE Ends(m)'
    <3>1. CASE q = 1
      BY <1>1, <1>6, <2>4, <3>1 DEF HeadIs, KvFollows, Ends
    <3>2. CASE q # 1
      <4>1. q \in 2..Len(todo) /\ q + Len(T) - 1 \in 1..m
        BY <1>3, <2>4, <3>2
      <4>2. todo'[q + Len(T) - 1] = todo[q]
        BY <1>1, <4>1 DEF Carries
      <4> QED BY <2>4, <4>1, <4>2 DEF Ends
    <3> QED BY <3>1, <3>2
  <2> QED BY <1>13, <2>1, <2>2, <2>3, <2>4 DEF Comes, Ends
<1>14. j[1] = "cohort" => /\ InDebt(j[2])' = InDebt(j[2])
                          /\ (j[2] \in closure') = (j[2] \in closure)
  BY <1>2, JobIs DEF InDebt, Grows
<1> QED BY <1>2, <1>10, <1>11, <1>12, <1>13, <1>14 DEF FollowedUp

\* Every result is still followed up.
LEMMA AdvanceFollowUps ==
  ASSUME NEW T, Advances(T)
  PROVE  FollowUpsCome'
<1>1. /\ RecordsTyped /\ TodoTyped /\ FollowUpsCome /\ Carries(T) /\ Fits(T) /\ Routed(T)
      /\ accounted' = accounted /\ Answered(T) /\ KvFollows
  BY DEF Advances, GenerationsInv
<1>a. Grows
  <2>1. ASSUME NEW j \in Jobs, Completed(j) PROVE row'[j] = row[j]
    <3>1. j[1] \in ToSet(Engines)
      BY JobIs
    <3>2. row[j] # "QUEUED"
      BY <2>1, <3>1, EngineNames DEF Completed, Results
    <3> QED BY <3>2 DEF Advances, RowSettles
  <2> QED BY <1>1, <2>1, RowsStay DEF Grows, Advances
<1>2. ASSUME NEW j \in accounted PROVE FollowedUp(j, 0)'
  <2>1. j \in Jobs /\ Completed(j) /\ FollowedUp(j, 0)
    BY <1>1 DEF RecordsTyped, FollowUpsCome
  <2>2. 0 \in 0..Len(todo) /\ 0 \in 0..Len(todo')
    BY <1>1 DEF Carries
  <2> QED BY <1>1, <1>a, <2>1, <2>2, FollowedCarries
<1>3. ASSUME NEW p \in 1..Len(todo'), NEW s, s = todo'[p], s[1] = "accounted"
      PROVE  FollowedUp(s[2], p - 1)'
  <2>1. CASE p \in 1..Len(T) /\ s = T[p]
    BY <1>1, <1>3, <2>1 DEF Fits, Regular, Leading, Ending
  <2>2. ASSUME NEW q \in 2..Len(todo), p = q + Len(T) - 1, s = todo[q]
        PROVE  FollowedUp(s[2], p - 1)'
    <3>1. q \in 1..Len(todo) /\ Len(todo) \in Nat /\ Len(T) \in Nat /\ Len(todo') \in Nat
      BY <1>1 DEF Carries
    <3>2. s[2] \in Jobs /\ Completed(s[2])
      BY <1>1, <1>3, <2>2, <3>1 DEF TodoTyped, StepTyped
    <3>3. CASE FollowedUp(s[2], q - 1)
      <4>1. q - 1 \in 0..Len(todo) /\ p - 1 \in 0..Len(todo') /\ p - 1 >= (q - 1) + Len(T) - 1
        BY <2>2, <3>1
      <4> QED BY <1>1, <1>a, <3>2, <3>3, <4>1, FollowedCarries
    <3>4. CASE q = 2 /\ todo[1] = <<"route", s[2]>>
      <4>1. FollowedUp(s[2], Len(T))' /\ p - 1 = Len(T)
        BY <1>1, <2>2, <3>1, <3>4 DEF Routed
      <4> QED BY <4>1
    <3> QED BY <1>1, <1>3, <2>2, <3>1, <3>3, <3>4 DEF FollowUpsCome
  <2> QED BY <1>1, <1>3, <2>1, <2>2, StepOfNext
<1> QED BY <1>1, <1>2, <1>3 DEF FollowUpsCome

\* Such a step keeps the invariant.
LEMMA Advance ==
  ASSUME NEW T, Advances(T)
  PROVE  GenerationsInv'
<1>1. RecordsTyped' /\ TodoTyped'
  BY AdvanceTyped
<1>2. DueIsRouted' /\ InOrder' /\ UpdatesFit'
  BY AdvanceRouted, AdvanceInOrder, AdvanceUpdates
<1>3. PromotionsFit' /\ V6Follows' /\ FollowUpsCome'
  BY AdvancePromotions, AdvanceV6, AdvanceFollowUps
<1> QED BY <1>1, <1>2, <1>3 DEF GenerationsInv

-----------------------------------------------------------------------------
(* The lists of steps that the calls and the loop go on to do.             *)

AllRegular(T) == IsList(T) /\ \A p \in 1..Len(T) : Regular(T[p])

\* Regular steps, one list after the other.
LEMMA RegularJoin ==
  ASSUME NEW s, NEW t, AllRegular(s), AllRegular(t)
  PROVE  AllRegular(s \o t)
<1>1. IsList(s) /\ IsList(t) /\ Len(s) \in Nat /\ Len(t) \in Nat
  BY DEF AllRegular, IsList
<1>2. ASSUME NEW p \in 1..Len(s \o t) PROVE Regular((s \o t)[p])
  <2>1. CASE p <= Len(s)
    <3>1. p \in 1..Len(s)
      BY <2>1
    <3> QED BY <1>1, <3>1, Joined DEF AllRegular
  <2>2. CASE p > Len(s)
    <3>1. p \in Len(s) + 1..Len(s) + Len(t) /\ p - Len(s) \in 1..Len(t)
      BY <1>1, <2>2, Joined
    <3>2. (s \o t)[p] = t[p - Len(s)]
      BY <1>1, <3>1, Joined
    <3> QED BY <3>1, <3>2 DEF AllRegular
  <2> QED BY <1>1, <2>1, <2>2
<1> QED BY <1>1, <1>2, Joined DEF AllRegular

\* No step, one and two.
LEMMA RegularFew ==
  /\ AllRegular(<<>>)
  /\ \A a : Regular(a) => AllRegular(<<a>>)
  /\ \A a, b : Regular(a) /\ Regular(b) => AllRegular(<<a, b>>)
<1>1. AllRegular(<<>>)
  BY EmptyList DEF AllRegular
<1>2. ASSUME NEW a, Regular(a) PROVE AllRegular(<<a>>)
  BY <1>2, OneStep DEF AllRegular
<1>3. ASSUME NEW a, NEW b, Regular(a), Regular(b) PROVE AllRegular(<<a, b>>)
  <2>1. IsList(<<a, b>>) /\ Len(<<a, b>>) = 2
    BY TwoSteps
  <2>2. \A p \in 1..2 : p = 1 \/ p = 2
    OBVIOUS
  <2>3. \A p \in 1..2 : Regular(<<a, b>>[p])
    BY <1>3, <2>2, TwoSteps
  <2> QED BY <2>1, <2>3 DEF AllRegular
<1> QED BY <1>1, <1>2, <1>3

\* A write that neither numbers updates nor freezes V5.
LEMMA PutRegular ==
  ASSUME NEW f \in KvNames \ {"saturated", "sequence"}, NEW v, f = "finalization" => v = TRUE
  PROVE  Regular(Put(f, v))
BY DEF Regular, Put, Is, Asks

\* Writes of phase and blocker, the end of the conversion, and what a start
\* puts back.
LEMMA WritesRegular ==
  /\ \A b, c : AllRegular(Writes(b, c))
  /\ AllRegular(Clear) /\ AllRegular(Mismatch.steps)
  /\ AllRegular(FinishConversion) /\ AllRegular(Restored)
<1>1. ASSUME NEW b, NEW c PROVE AllRegular(Writes(b, c))
  <2>1. Regular(Put("phase", b)) /\ Regular(Put("blocker", c))
    BY PutRegular DEF KvNames
  <2> QED BY <2>1, RegularFew DEF Writes
<1>2. AllRegular(Clear) /\ AllRegular(Mismatch.steps)
  BY <1>1 DEF Clear, Mismatch, Answer
<1>3. AllRegular(FinishConversion)
  <2>1. AllRegular(Retire("cohort"))
    <3>1. Regular(<<"retire", "cohort">>)
      BY DEF Regular, Is, Asks
    <3> QED BY <3>1, RegularFew DEF Retire
  <2>2. AllRegular(<<Put("finalization", TRUE)>>)
    <3>1. Regular(Put("finalization", TRUE))
      BY PutRegular DEF KvNames
    <3> QED BY <3>1, RegularFew
  <2> QED BY <1>1, <2>1, <2>2, RegularJoin DEF FinishConversion
<1>4. AllRegular(Restored)
  <2>1. ASSUME NEW b PROVE AllRegular(<<Put("blocker", b)>>)
    <3>1. Regular(Put("blocker", b))
      BY PutRegular DEF KvNames
    <3> QED BY <3>1, RegularFew
  <2> QED BY <1>1, <2>1, RegularFew, RegularJoin DEF Restored
<1> QED BY <1>1, <1>2, <1>3, <1>4

\* A call: to be resolved, or to be queued.
LEMMA CallRegular ==
  ASSUME NEW d \in {"reconcile", "start", "queue"}, NEW e, NEW i,
         d \in {"reconcile", "start"} => e \in Callable, d = "queue" => e # "closure",
         Name(e) # "promotion", Name(e) \in Numbered => i \in Nat /\ BelowNext(Name(e), i),
         e = "v6" => kv.saturated = TRUE, e = "v5" => V5IsOpen
  PROVE  AllRegular(<< <<d, e, i>> >>)
<1>1. Regular(<<d, e, i>>)
  BY DEF Regular, Is, Asks, Name
<1> QED BY <1>1, RegularFew

\* The first step gives way to a list.
LEMMA HeadCarries ==
  ASSUME TodoTyped, NEW d, Step(d), NEW T, IsList(T), Then(T)
  PROVE  Carries(T) /\ Len(todo) >= 1 /\ Head(todo) = todo[1] /\ todo[1][1] = d
         /\ 1 \in 1..Len(todo)
<1>1. IsList(todo) /\ todo # <<>>
  BY DEF TodoTyped, Step
<1> QED BY <1>1, Replaced DEF Carries, Step

\* A list is begun when there is at most one step left.
LEMMA AloneCarries ==
  ASSUME TodoTyped, Len(todo) <= 1, NEW T, IsList(T), todo' = T
  PROVE  Carries(T)
<1>1. Len(todo) \in Nat /\ Len(T) \in Nat
  BY DEF TodoTyped, IsList
<1>2. 2..Len(todo) = {} /\ Len(T) + 1..Len(T) = {}
  BY <1>1
<1> QED BY <1>1, <1>2 DEF Carries

\* Regular steps fit.
LEMMA RegularFits ==
  ASSUME NEW T, AllRegular(T)
  PROVE  IsList(T) /\ Fits(T)
BY DEF AllRegular, Fits

\* Steps that leave the records alone.
LEMMA QuietAdvance ==
  ASSUME GenerationsInv, up, NEW T, Carries(T), Fits(T), Answered(T), Routed(T),
         up' = up, row' = row, kv' = kv, closure' = closure, accounted' = accounted,
         refused \subseteq refused',
         Len(todo) >= 1 => /\ todo[1][1] \notin {"set", "queue", "accounted", "retire"}
                           /\ todo[1][1] = "completed" => Due = {}
  PROVE  GenerationsInv'
<1>1. RecordsTyped
  BY DEF GenerationsInv
<1>2. RowSettles
  BY <1>1 DEF RowSettles, RecordsTyped
<1>3. KvFollows
  BY <1>1 DEF KvFollows, RecordsTyped, HeadIs, Is
<1> QED BY <1>2, <1>3, Advance DEF Advances

\* Lists that are regular but for what leads them.
Led(T) ==
  IsList(T) /\ \A p \in 1..Len(T) : Regular(T[p]) \/ (p = 1 /\ Leading(T[1]))

\* Such a list fits; a regular one is such a list.
LEMMA LedLists ==
  /\ \A T : Led(T) => IsList(T) /\ Fits(T)
  /\ \A T : AllRegular(T) => Led(T)
  /\ \A a : Leading(a) \/ Regular(a) => Led(<<a>>)
<1>1. ASSUME NEW a, Leading(a) \/ Regular(a) PROVE Led(<<a>>)
  BY <1>1, OneStep DEF Led
<1> QED BY <1>1 DEF Led, Fits, AllRegular

\* And goes on with regular steps.
LEMMA LedJoin ==
  ASSUME NEW s, NEW t, Led(s), AllRegular(t), Len(s) >= 1
  PROVE  Led(s \o t)
<1>1. IsList(s) /\ IsList(t) /\ Len(s) \in Nat /\ Len(t) \in Nat
  BY DEF AllRegular, IsList, Led
<1>2. ASSUME NEW p \in 1..Len(s \o t)
      PROVE  Regular((s \o t)[p]) \/ (p = 1 /\ Leading((s \o t)[1]))
  <2>1. CASE p <= Len(s)
    <3>1. p \in 1..Len(s) /\ (s \o t)[p] = s[p]
      BY <1>1, <2>1, Joined
    <3> QED BY <3>1 DEF Led
  <2>2. CASE p > Len(s)
    <3>1. p \in Len(s) + 1..Len(s) + Len(t) /\ p - Len(s) \in 1..Len(t)
      BY <1>1, <2>2, Joined
    <3>2. (s \o t)[p] = t[p - Len(s)]
      BY <1>1, <3>1, Joined
    <3> QED BY <3>1, <3>2 DEF AllRegular
  <2> QED BY <1>1, <2>1, <2>2
<1> QED BY <1>1, <1>2, Joined DEF Led

\* The steps of a list.
Has(T, a) == \E p \in 1..Len(T) : T[p] = a

\* The step of a list of one.
LEMMA HasOne ==
  ASSUME NEW a
  PROVE  Has(<<a>>, a)
BY OneStep DEF Has

\* The steps of two lists one after the other.
LEMMA HasJoin ==
  ASSUME NEW s, NEW t, IsList(s), IsList(t), NEW a
  PROVE  Has(s, a) \/ Has(t, a) => Has(s \o t, a)
<1>1. Len(s) \in Nat /\ Len(t) \in Nat /\ Len(s \o t) = Len(s) + Len(t)
  BY Joined DEF IsList
<1>2. ASSUME NEW p \in 1..Len(s) PROVE p \in 1..Len(s \o t) /\ (s \o t)[p] = s[p]
  BY <1>1, Joined
<1>3. ASSUME NEW p \in 1..Len(t)
      PROVE  p + Len(s) \in 1..Len(s \o t) /\ (s \o t)[p + Len(s)] = t[p]
  <2>1. p + Len(s) \in Len(s) + 1..Len(s) + Len(t) /\ (p + Len(s)) - Len(s) = p
    BY <1>1
  <2> QED BY <1>1, <2>1, Joined
<1> QED BY <1>2, <1>3 DEF Has

\* A step of T that asks makes what it asks for come.
LEMMA HasComes ==
  ASSUME NEW T, Carries(T), NEW d \in {"reconcile", "start", "queue"}, NEW e, NEW i,
         Has(T, <<d, e, i>>)
  PROVE  /\ Comes(Name(e), i, Len(T))'
         /\ e = "closure" => ClosureComes(i, Len(T))'
<1>1. PICK p \in 1..Len(T) : todo'[p] = <<d, e, i>>
  BY DEF Has, Carries
<1>2. Asks(<<d, e, i>>, Name(e))
  BY DEF Asks
<1>3. Comes(Name(e), i, Len(T))'
  BY <1>1 DEF Comes, Asks
<1>4. e = "closure" => ClosureComes(i, Len(T))'
  BY <1>1 DEF ClosureComes, Asks, Name
<1> QED BY <1>3, <1>4

\* And the end of the conversion ends it.
LEMMA HasEnds ==
  ASSUME NEW T, Carries(T), Has(T, Put("finalization", TRUE))
  PROVE  Ends(Len(T))'
<1>1. PICK p \in 1..Len(T) : todo'[p] = <<"set", "finalization", TRUE>>
  BY DEF Has, Carries, Put
<1> QED BY <1>1 DEF Ends, Is

\* The end of the conversion is one of its steps.
LEMMA FinishHas ==
  Has(FinishConversion, Put("finalization", TRUE))
<1> DEFINE A == Retire("cohort")
           B == <<Put("finalization", TRUE)>>
           C == Writes("ENGINEERING_BLOCKED", "FINAL_Q4_COHORT")
<1>1. IsList(A) /\ IsList(B) /\ IsList(C)
  BY OneStep, TwoSteps DEF Retire, Writes
<1>2. Has(B, Put("finalization", TRUE))
  BY HasOne
<1>3. FinishConversion = (A \o B) \o C
  BY DEF FinishConversion
<1> HIDE DEF A, B, C
<1>4. IsList(A \o B) /\ Has(A \o B, Put("finalization", TRUE))
  BY <1>1, <1>2, HasJoin, Joined
<1> QED BY <1>1, <1>3, <1>4, HasJoin

\* What is above all that is over is so after the step.
LEMMA BelowStays ==
  ASSUME RecordsTyped, RowSettles, NEW e \in Numbered, NEW i, Below(e, i)
  PROVE  BelowNext(e, i)
<1>1. \A k \in Numbers(e) : <<e, k>> \in Jobs
  BY JobIs, EngineNames DEF Numbered
<1>2. \A k \in Numbers(e) : k < i => Over(<<e, k>>)'
  BY <1>1, RowsStay DEF Below
<1> QED BY <1>2 DEF BelowNext, Over, Completed

-----------------------------------------------------------------------------
(* The actions of the work list.                                           *)

\* A head that neither asks nor routes is done with by regular steps.
LEMMA PlainAdvance ==
  ASSUME GenerationsInv, NEW d, Step(d), NEW T, AllRegular(T), Then(T),
         d \notin {"set", "queue", "accounted", "retire", "reconcile", "start", "route"},
         d = "completed" => Due = {},
         up' = up, row' = row, kv' = kv, closure' = closure, accounted' = accounted,
         refused' = refused
  PROVE  GenerationsInv'
<1>1. TodoTyped /\ RecordsTyped
  BY DEF GenerationsInv
<1>2. up
  BY <1>1 DEF RecordsTyped, Step
<1>3. Carries(T) /\ Fits(T) /\ todo[1][1] = d
  BY <1>1, HeadCarries, RegularFits
<1>4. Answered(T) /\ Routed(T)
  BY <1>3 DEF Answered, Routed, Asks
<1> QED BY <1>2, <1>3, <1>4, QuietAdvance

\* A write of the mission state.
LEMMA SetKvKeeps ==
  ASSUME GenerationsInv, SetKv
  PROVE  GenerationsInv'
<1>1. TodoTyped /\ RecordsTyped /\ Step("set") /\ Then(<<>>)
  BY DEF GenerationsInv, SetKv
<1> PICK T : T = <<>>
  OBVIOUS
<1>2. /\ Carries(T) /\ Fits(T) /\ Len(todo) >= 1 /\ Head(todo) = todo[1] /\ todo[1][1] = "set"
      /\ 1 \in 1..Len(todo)
  BY <1>1, HeadCarries, RegularFits, RegularFew
<1>3. up /\ up'
  BY <1>1 DEF RecordsTyped, Step, SetKv
<1>4. Answered(T) /\ Routed(T)
  BY <1>2 DEF Answered, Routed, Asks
<1>5. RowSettles
  BY <1>1 DEF RowSettles, RecordsTyped, SetKv
<1>6. KvFollows
  <2> PICK f, v : f = todo[1][2] /\ v = todo[1][3]
    OBVIOUS
  <2>a. Arg(1) = f /\ Arg(2) = v
    BY <1>2 DEF Arg
  <2>b. f \in KvNames
    BY <1>1, <1>2 DEF TodoTyped, StepTyped
  <2>1. kv' = [kv EXCEPT ![f] = v] /\ f \in KvNames
    BY <2>a, <2>b DEF SetKv
  <2>2. f = "saturated" => v = TRUE
    BY <1>2 DEF GenerationsInv, V6Follows, Is
  <2>3. f = "finalization" => v = TRUE
    BY <1>1, <1>2 DEF TodoTyped, StepTyped, Is
  <2>4. kv = [g \in KvNames |-> kv[g]]
    BY <1>1 DEF RecordsTyped
  <2>5. kv' = [g \in KvNames |-> IF g = f THEN v ELSE kv[g]]
    BY <2>1, <2>4
  <2> HIDE DEF KvNames
  <2>6. kv' = [g \in KvNames |-> kv'[g]]
    BY <2>5
  <2>7. {"saturated", "finalization", "sequence"} \subseteq KvNames
    BY DEF KvNames
  <2>8. /\ kv'.saturated = IF f = "saturated" THEN v ELSE kv.saturated
        /\ kv'.finalization = IF f = "finalization" THEN v ELSE kv.finalization
        /\ kv'.sequence = IF f = "sequence" THEN v ELSE kv.sequence
    BY <2>5, <2>7
  <2>9. kv.saturated \in BOOLEAN
    BY <1>1 DEF RecordsTyped
  <2> QED BY <1>2, <2>2, <2>3, <2>6, <2>8, <2>9 DEF KvFollows, HeadIs, Is
<1> QED BY <1>2, <1>3, <1>4, <1>5, <1>6, Advance DEF Advances, SetKv

\* The retirement of what an engine has in line.
LEMMA RetireKeeps ==
  ASSUME GenerationsInv, RetireQueued
  PROVE  GenerationsInv'
<1>1. TodoTyped /\ RecordsTyped /\ Step("retire") /\ Then(<<>>)
  BY DEF GenerationsInv, RetireQueued
<1> PICK T : T = <<>>
  OBVIOUS
<1>2. /\ Carries(T) /\ Fits(T) /\ Len(todo) >= 1 /\ Head(todo) = todo[1] /\ todo[1][1] = "retire"
  BY <1>1, HeadCarries, RegularFits, RegularFew
<1>3. up /\ up'
  BY <1>1 DEF RecordsTyped, Step, RetireQueued
<1>4. Answered(T) /\ Routed(T)
  BY <1>2 DEF Answered, Routed, Asks
<1> PICK e : e = todo[1][2]
  OBVIOUS
<1>5. row' = [j \in Jobs |-> IF j \in Queued /\ j[1] = e THEN "BLOCKED" ELSE row[j]]
  BY <1>2 DEF RetireQueued, Arg
<1>6. RowSettles
  BY <1>5 DEF RowSettles, Queued
<1>7. KvFollows
  BY <1>1, <1>2 DEF KvFollows, RecordsTyped, HeadIs, Is, RetireQueued
<1>8. e = "v5" => Of("v5", "QUEUED")' = {}
  <2>1. ASSUME e = "v5", NEW i \in Numbers("v5") PROVE row'[<<"v5", i>>] # "QUEUED"
    <3>1. <<"v5", i>> \in Jobs
      BY JobIs, EngineNames
    <3> QED BY <1>5, <2>1, <3>1 DEF Queued
  <2> QED BY <2>1 DEF Of
<1>9. todo[1] = <<"retire", "v5">> => Of("v5", "QUEUED")' = {} /\ Len(T) = 0
  BY <1>8, EmptyList
<1> QED BY <1>2, <1>3, <1>4, <1>6, <1>7, <1>9, Advance DEF Advances, RetireQueued

\* The ends of the routes and of the start.
LEMMA PlainKeeps ==
  ASSUME GenerationsInv, CohortFollowed \/ Settle \/ Conclude \/ Reevaluate
  PROVE  GenerationsInv'
<1> USE WritesRegular, RegularFew
<1>1. CASE CohortFollowed
  <2> PICK T : T = IF Queued # {} \/ Arg(1) \in closure THEN Clear
                   ELSE Writes("ENGINEERING_BLOCKED", "NOVEL_REPRESENTATION")
    OBVIOUS
  <2>1. AllRegular(T)
    OBVIOUS
  <2> QED BY <1>1, <2>1, PlainAdvance DEF CohortFollowed
<1>2. CASE Settle
  <2> PICK T : T = IF IsBlocked THEN <<>> ELSE Clear
    OBVIOUS
  <2>1. AllRegular(T)
    OBVIOUS
  <2> QED BY <1>2, <2>1, PlainAdvance DEF Settle
<1>3. CASE Conclude
  <2> PICK T : T = IF saved.phase \in Blocked /\ ~saved.queued THEN Restored
                   ELSE IF IsBlocked THEN <<>> ELSE Clear
    OBVIOUS
  <2>1. AllRegular(T)
    OBVIOUS
  <2> QED BY <1>3, <2>1, PlainAdvance DEF Conclude
<1>4. CASE Reevaluate
  <2> PICK T : T = IF /\ Stopped /\ ~Completed(<<"q4", 0>>)
                      /\ \A e \in Single : row[<<e, 0>>] # "QUEUED"
                   THEN FinishConversion ELSE <<>>
    OBVIOUS
  <2>1. AllRegular(T)
    OBVIOUS
  <2> QED BY <1>4, <2>1, PlainAdvance DEF Reevaluate
<1> QED BY <1>1, <1>2, <1>3, <1>4

\* The V5 epoch that is asked for when none of V5 failed.
LEMMA StartV5Keeps ==
  ASSUME GenerationsInv, StartV5
  PROVE  GenerationsInv'
<1>1. TodoTyped /\ RecordsTyped /\ InOrder /\ V6Follows /\ Step("v5")
  BY DEF GenerationsInv, StartV5
<1>2. RowSettles
  BY <1>1 DEF RowSettles, RecordsTyped, StartV5
<1> PICK n : n = PendingOrNext("v5")
  OBVIOUS
<1> PICK T : T = IF V5ShouldRun THEN Call("v5", n) ELSE <<>>
  OBVIOUS
<1>3. ASSUME V5ShouldRun PROVE AllRegular(Call("v5", n))
  <2>1. ~Unresolved("v5") /\ kv.saturated # TRUE
    BY <1>3 DEF V5ShouldRun, Evolvable
  <2>2. n \in Nat /\ Below("v5", n)
    BY <1>1, <2>1, NextFits DEF Numbered
  <2>3. BelowNext("v5", n)
    BY <1>1, <1>2, <2>2, BelowStays DEF Numbered
  <2>4. ASSUME NEW p \in 1..Len(todo), Is(todo[p], "saturated") PROVE FALSE
    <3>1. todo # <<>> /\ todo[1][1] = "v5"
      BY <1>1 DEF Step
    <3> QED BY <1>1, <2>4, <3>1 DEF V6Follows, Is
  <2>5. V5IsOpen
    BY <2>1, <2>4 DEF V5IsOpen
  <2> QED BY <2>2, <2>3, <2>5, CallRegular DEF Call, Name, Callable
<1>4. AllRegular(T)
  BY <1>3, RegularFew
<1> QED BY <1>1, <1>4, PlainAdvance DEF StartV5

\* What a call goes on to do.
LEMMA AnswerIs ==
  ASSUME NEW e \in Callable, NEW i \in Numbers(Name(e)), NEW intact \in BOOLEAN
  PROVE  LET answer == Reconcile(e, i, intact)
         IN  \/ i \in Known(Name(e)) /\ answer.steps \in {<<>>, Clear}
             \/ e = "promotion" /\ row[<<"turbo", i>>] = "barren" /\ answer.steps = <<>>
             \/ i \notin Known(Name(e)) /\ answer.steps \in {QueueIt(e, i), QueueIt(e, i) \o Clear}
             \/ answer = Mismatch
             \/ e = "cohort" /\ answer.steps = FinishConversion
<1> USE DEF Reconcile, Answer, Name
<1>1. CASE e = "turbo"
  BY <1>1 DEF ReconcileTurbo, Resumed, Existing
<1>2. CASE e = "promotion"
  BY <1>2 DEF ReconcilePromotion, Existing
<1>3. CASE e \in {"cohort", "closure"}
  BY <1>3 DEF ReconcileCohort, Resumed, Existing
<1>4. CASE e = "prepare"
  <2>1. Numbers("prepare") = {0}
    BY DEF Numbers, Single
  <2>2. i = 0 /\ (Known("prepare") # {} <=> 0 \in Known("prepare"))
    BY <1>4, <2>1 DEF Known
  <2> QED BY <1>4, <2>2 DEF ReconcilePrepare, Existing
<1>5. CASE e = "v5"
  BY <1>5 DEF ReconcileV5, Evolve, Existing
<1>6. CASE e = "v6"
  BY <1>6 DEF ReconcileV6, Evolve, Existing
<1> QED BY <1>1, <1>2, <1>3, <1>4, <1>5, <1>6 DEF Callable

\* A call that is resolved: its experiment is there, or is to be queued, or
\* its sources changed, or the conversion ends.
LEMMA ResolvingKeeps ==
  ASSUME GenerationsInv, NEW d \in {"reconcile", "start"}, NEW keep, Resolving(d, keep)
  PROVE  GenerationsInv'
<1>1. TodoTyped /\ RecordsTyped /\ InOrder /\ V6Follows /\ PromotionsFit /\ Step(d)
  BY DEF GenerationsInv, Resolving
<1>2. todo[1][1] = d /\ Len(todo) >= 1 /\ 1 \in 1..Len(todo) /\ Head(todo) = todo[1] /\ up
  BY <1>1, HeadCarries, EmptyList, Rest DEF TodoTyped, Step, RecordsTyped, IsList
<1> PICK e, i : e = todo[1][2] /\ i = todo[1][3]
  OBVIOUS
<1> PICK c : c = Name(e)
  OBVIOUS
<1>3. Arg(1) = e /\ Arg(2) = i
  BY <1>2 DEF Arg
<1>4. e \in Callable /\ i \in Numbers(c) /\ Asks(todo[1], c) /\ c \in ToSet(Engines)
  <2>1. StepTyped(todo[1], 1)
    BY <1>1, <1>2 DEF TodoTyped
  <2>2. e \in Callable
    BY <1>2, <2>1 DEF StepTyped
  <2>3. i \in Numbers(c)
    BY <1>3 DEF Resolving
  <2>4. Asks(todo[1], c)
    BY <1>2 DEF Asks
  <2>5. c \in ToSet(Engines)
    BY <2>2, EngineNames DEF Callable, Name
  <2> QED BY <2>2, <2>3, <2>4, <2>5
<1> PICK intact \in BOOLEAN :
      /\ Then(Reconcile(e, i, intact).steps)
      /\ refused' = IF Reconcile(e, i, intact) = Mismatch THEN refused \cup {c} ELSE refused
  BY <1>3 DEF Resolving
<1> PICK T : T = Reconcile(e, i, intact).steps
  OBVIOUS
<1>5. row' = row /\ kv' = kv /\ up' = up /\ closure' = closure /\ accounted' = accounted
  BY DEF Resolving
<1>6. RowSettles
  BY <1>1, <1>5 DEF RowSettles, RecordsTyped
<1>7. \/ i \in Known(c) /\ T \in {<<>>, Clear}
      \/ c = "promotion" /\ row[<<"turbo", i>>] = "barren" /\ T = <<>>
      \/ i \notin Known(c) /\ T \in {QueueIt(e, i), QueueIt(e, i) \o Clear}
      \/ Reconcile(e, i, intact) = Mismatch
      \/ e = "cohort" /\ T = FinishConversion
  BY <1>4, AnswerIs DEF Name
<1>8. c \in Numbered => i \in Nat /\ BelowNext(c, i)
  <2>1. c \in Numbered => i \in Nat /\ Below(c, i)
    BY <1>1, <1>2, <1>4 DEF InOrder
  <2> QED BY <1>1, <1>6, <2>1, BelowStays
<1>9. ASSUME i \notin Known(c) PROVE Leading(<<"queue", e, i>>) \/ Regular(<<"queue", e, i>>)
  <2>1. CASE e = "promotion"
    <3>1. <<"turbo", i>> \in Due
      BY <1>1, <1>2, <1>4, <2>1 DEF PromotionsFit, Name
    <3> QED BY <2>1, <3>1 DEF Leading
  <2>2. CASE e = "closure"
    <3>1. c = "cohort" /\ row[<<"cohort", i>>] = "absent"
      BY <1>4, <1>9, <2>2 DEF Name, Known
    <3> QED BY <1>4, <1>8, <2>2, <3>1 DEF Leading, Numbered
  <2>3. CASE e \notin {"promotion", "closure"}
    <3>0. c = e
      BY <2>3 DEF Name
    <3>1. e = "v6" => kv.saturated = TRUE
      <4>1. \A q \in 1..1 - 1 : FALSE
        OBVIOUS
      <4> QED BY <1>1, <1>2, <1>4, <3>0, <4>1 DEF V6Follows
    <3>2. e = "v5" => V5IsOpen
      BY <1>1, <1>2, <1>4, <3>0 DEF V6Follows, V5IsOver, V5IsOpen
    <3> QED BY <1>8, <2>3, <3>0, <3>1, <3>2 DEF Regular, Asks, Is, Name
  <2> QED BY <2>1, <2>2, <2>3
<1>10. Led(T)
  <2>1. i \notin Known(c) => Led(QueueIt(e, i)) /\ Len(QueueIt(e, i)) = 1
    BY <1>9, LedLists, OneStep DEF QueueIt
  <2>2. ASSUME i \notin Known(c) PROVE Led(QueueIt(e, i) \o Clear)
    <3> DEFINE Q == QueueIt(e, i)
    <3>1. Led(Q) /\ Len(Q) >= 1 /\ AllRegular(Clear)
      BY <2>1, <2>2, WritesRegular
    <3> HIDE DEF Q
    <3>2. Led(Q \o Clear)
      BY <3>1, LedJoin
    <3> QED BY <3>2 DEF Q
  <2> QED BY <1>7, <2>1, <2>2, LedLists, WritesRegular, RegularFew
<1>11. Carries(T) /\ Fits(T)
  BY <1>1, <1>10, HeadCarries, LedLists
<1>12. Answered(T)
  <2>1. /\ GoesOn(c, i)' => Comes(c, i, Len(T))' /\ (c = "cohort" => ClosureComes(i, Len(T))')
    BY DEF Comes, ClosureComes
  <2>2. i \in Known(c) \/ c \in refused' => GoesOn(c, i)'
    BY <1>5 DEF GoesOn, Known
  <2>3. ASSUME i \notin Known(c), T \in {QueueIt(e, i), QueueIt(e, i) \o Clear}
        PROVE  Comes(c, i, Len(T))' /\ (e = "closure" => ClosureComes(i, Len(T))')
    <3>1. Has(QueueIt(e, i), <<"queue", e, i>>)
      BY HasOne DEF QueueIt
    <3>2. Has(QueueIt(e, i) \o Clear, <<"queue", e, i>>)
      <4>1. IsList(QueueIt(e, i)) /\ IsList(Clear)
        BY OneStep, WritesRegular DEF QueueIt, AllRegular
      <4> QED BY <3>1, <4>1, HasJoin
    <3>3. Has(T, <<"queue", e, i>>)
      BY <2>3, <3>1, <3>2
    <3> QED BY <1>11, <3>3, HasComes
  <2>4. T = FinishConversion => Ends(Len(T))'
    BY <1>11, FinishHas, HasEnds
  <2>5. \/ Comes(c, i, Len(T))' /\ (e = "closure" => ClosureComes(i, Len(T))')
        \/ c = "promotion" /\ row[<<"turbo", i>>] = "barren"
        \/ e = "cohort" /\ Ends(Len(T))'
    BY <1>7, <2>1, <2>2, <2>3, <2>4 DEF Name
  <2>6. ASSUME NEW f, NEW k, Asks(todo[1], f), todo[1][3] = k PROVE f = c /\ k = i
    BY <1>4, <2>6 DEF Asks
  <2>7. e = "cohort" => c = "cohort"
    BY DEF Name
  <2> QED BY <2>5, <2>6, <2>7 DEF Answered
<1>13. Routed(T)
  BY <1>2 DEF Routed
<1>14. refused \subseteq refused'
  OBVIOUS
<1> QED BY <1>2, <1>5, <1>11, <1>12, <1>13, <1>14, QuietAdvance

\* The number after that of a result is above what is over.
LEMMA NextAfter ==
  ASSUME RecordsTyped, InOrder, RowSettles, NEW e \in Numbered, NEW i \in Numbers(e),
         Completed(<<e, i>>)
  PROVE  i \in Nat /\ i + 1 \in Nat /\ BelowNext(e, i + 1)
<1>1. e \in ToSet(Engines)
  BY EngineNames DEF Numbered
<1>2. PICK n \in Nat : Numbers(e) = 0..n
  BY <1>1, NumbersAre
<1>3. row[<<e, i>>] \notin {"absent", "QUEUED"}
  BY <1>1, EngineNames DEF Completed, Results
<1>4. Below(e, i) /\ Over(<<e, i>>)
  BY <1>3 DEF InOrder, Known, Over
<1>5. \A k \in Numbers(e) : k < i + 1 => k < i \/ k = i
  BY <1>2
<1>6. Below(e, i + 1)
  BY <1>4, <1>5 DEF Below
<1> QED BY <1>2, <1>6, BelowStays

\* The route of a turbo epoch asks for its promotion and the next epoch.
LEMMA RouteTurboFits ==
  ASSUME GenerationsInv, RowSettles, NEW i \in Numbers("turbo"), <<"turbo", i>> \in Due
  PROVE  /\ Led(RouteTurbo(i))
         /\ Has(RouteTurbo(i), <<"reconcile", "promotion", i>>)
         /\ Has(RouteTurbo(i), <<"reconcile", "turbo", i + 1>>)
<1> DEFINE A == Call("promotion", i)
           C == Call("turbo", i + 1)
<1>1. Leading(<<"reconcile", "promotion", i>>)
  BY DEF Leading
<1>2. Led(A) /\ Len(A) = 1 /\ Has(A, <<"reconcile", "promotion", i>>)
  BY <1>1, LedLists, OneStep, HasOne DEF Call
<1>3. i + 1 \in Nat /\ BelowNext("turbo", i + 1)
  BY NextAfter DEF GenerationsInv, Numbered, Due
<1>4. AllRegular(C)
  BY <1>3, CallRegular DEF Call, Name, Callable
<1>5. Has(C, <<"reconcile", "turbo", i + 1>>)
  BY HasOne DEF Call
<1>6. RouteTurbo(i) = (A \o Clear) \o C
  BY DEF RouteTurbo
<1> HIDE DEF A, C
<1>7. AllRegular(Clear) /\ IsList(A) /\ IsList(Clear) /\ IsList(C)
  BY <1>2, <1>4, WritesRegular DEF AllRegular, Led
<1>8. Led(A \o Clear) /\ Len(A \o Clear) >= 1 /\ IsList(A \o Clear)
      /\ Has(A \o Clear, <<"reconcile", "promotion", i>>)
  <2>0. Len(Clear) = 2
    BY TwoSteps DEF Clear, Writes
  <2>1. Len(A \o Clear) = Len(A) + Len(Clear)
    BY <1>7, Joined
  <2> QED BY <1>2, <1>7, <2>0, <2>1, LedJoin, Joined, HasJoin
<1>9. Led((A \o Clear) \o C)
  BY <1>4, <1>8, LedJoin
<1>10. Has((A \o Clear) \o C, <<"reconcile", "promotion", i>>)
  BY <1>7, <1>8, HasJoin
<1>11. Has((A \o Clear) \o C, <<"reconcile", "turbo", i + 1>>)
  BY <1>5, <1>7, <1>8, HasJoin
<1> QED BY <1>6, <1>9, <1>10, <1>11

\* The route of a cohort ends the conversion, or asks for what debt needs.
LEMMA RouteCohortFits ==
  ASSUME GenerationsInv, RowSettles, NEW i \in Numbers("cohort"), <<"cohort", i>> \in Due
  PROVE  /\ AllRegular(RouteCohort(i))
         /\ InDebt(i) /\ i \in closure => Has(RouteCohort(i), <<"reconcile", "closure", i + 1>>)
         /\ InDebt(i) /\ i \notin closure =>
              \/ Has(RouteCohort(i), <<"reconcile", "cohort", i + 1>>)
              \/ Has(RouteCohort(i), Put("finalization", TRUE))
<1> PICK e : e = IF i \in closure THEN "closure" ELSE "cohort"
  OBVIOUS
<1> PICK A, B, F :
      /\ A = <<Put("counted", Accumulated(i)), Put("latest", i)>>
      /\ B = IF InDebt(i) THEN Call(e, i + 1) ELSE <<>>
      /\ F = << <<"followed", i>> >>
  OBVIOUS
<1>1. AllRegular(A)
  <2>1. Regular(Put("counted", Accumulated(i))) /\ Regular(Put("latest", i))
    BY PutRegular DEF KvNames
  <2> QED BY <2>1, RegularFew
<1>2. AllRegular(F)
  <2>1. Regular(<<"followed", i>>)
    BY DEF Regular, Is, Asks
  <2> QED BY <2>1, RegularFew
<1>3. AllRegular(Call(e, i + 1))
  <2>1. i + 1 \in Nat /\ BelowNext("cohort", i + 1)
    BY NextAfter DEF GenerationsInv, Numbered, Due
  <2> QED BY <2>1, CallRegular DEF Call, Name, Callable
<1>4. AllRegular(B)
  BY <1>3, RegularFew
<1>5. Has(Call(e, i + 1), <<"reconcile", e, i + 1>>)
  BY HasOne DEF Call
<1>6. AllRegular(B \o F) /\ (InDebt(i) => Has(B \o F, <<"reconcile", e, i + 1>>))
  BY <1>2, <1>4, <1>5, RegularJoin, HasJoin DEF AllRegular
<1>7. AllRegular(FinishConversion) /\ Has(FinishConversion, Put("finalization", TRUE))
  BY WritesRegular, FinishHas
<1>8. CASE i \notin closure /\ StopReason(Accumulated(i), i)
  <2>1. RouteCohort(i) = A \o FinishConversion
    BY <1>8 DEF RouteCohort
  <2>2. AllRegular(A \o FinishConversion)
    BY <1>1, <1>7, RegularJoin
  <2>3. Has(A \o FinishConversion, Put("finalization", TRUE))
    BY <1>1, <1>7, HasJoin DEF AllRegular
  <2> QED BY <1>8, <2>1, <2>2, <2>3
<1>9. CASE ~(i \notin closure /\ StopReason(Accumulated(i), i))
  <2>1. RouteCohort(i) = A \o (B \o F)
    BY <1>9 DEF RouteCohort
  <2> PICK D : D = B \o F
    OBVIOUS
  <2>2. AllRegular(A \o D)
    BY <1>1, <1>6, RegularJoin
  <2>3. InDebt(i) => Has(A \o D, <<"reconcile", e, i + 1>>)
    BY <1>1, <1>6, HasJoin DEF AllRegular
  <2> QED BY <2>1, <2>2, <2>3
<1> QED BY <1>8, <1>9

\* The routes of the bridge, of Q4 and of an update ask for nothing that
\* leads.
LEMMA RouteOthersFit ==
  ASSUME GenerationsInv, RowSettles, NEW preflight \in BOOLEAN
  PROVE  /\ AllRegular(RoutePromotion) /\ AllRegular(RoutePrepare(preflight))
         /\ AllRegular(RouteQ4) /\ AllRegular(RouteUpdate)
<1> USE WritesRegular, RegularFew
<1>1. AllRegular(RoutePromotion)
  BY DEF RoutePromotion
<1>2. AllRegular(Call("prepare", 0)) /\ AllRegular(QueueIt("q4", 0))
  BY CallRegular DEF Call, QueueIt, Name, Callable, Numbered
<1>3. AllRegular(<<Put("issued", TRUE)>>) /\ AllRegular(<<Put("committed", TRUE)>>)
  BY PutRegular DEF KvNames
<1>4. AllRegular(<<Put("issued", TRUE)>> \o QueueIt("q4", 0) \o Clear)
  BY <1>2, <1>3, RegularJoin
<1>5. AllRegular(RoutePrepare(preflight))
  BY <1>2, <1>4 DEF RoutePrepare
<1>6. AllRegular(RouteQ4)
  BY <1>3, RegularJoin DEF RouteQ4
<1>7. AllRegular(RouteUpdate)
  <2> PICK n : n = PendingOrNext("cohort")
    OBVIOUS
  <2>1. n \in Nat /\ Below("cohort", n)
    BY NextFits DEF GenerationsInv, Numbered
  <2>2. BelowNext("cohort", n)
    BY <2>1, BelowStays DEF GenerationsInv, Numbered
  <2>3. AllRegular(Call("closure", n))
    BY <2>1, <2>2, CallRegular DEF Call, Name, Callable
  <2> QED BY <2>3, RegularJoin DEF RouteUpdate
<1> QED BY <1>1, <1>5, <1>6, <1>7

\* The routes of V5 and V6 ask for the next of them.
LEMMA RouteEvolvedFits ==
  ASSUME GenerationsInv, RowSettles, NEW e \in {"v5", "v6"}, NEW i \in Numbers(e),
         <<e, i>> \in Due,
         NEW T, T = IF e = "v5" THEN RouteV5(i) ELSE RouteV6(i)
  PROVE  AllRegular(T) /\ Has(T, <<"reconcile", e, i + 1>>)
<1>1. i + 1 \in Nat /\ BelowNext(e, i + 1)
  BY NextAfter DEF GenerationsInv, Numbered, Due
<1>2. e = "v5" => V5IsOpen
  BY DEF GenerationsInv, V6Follows, V5IsOver, V5IsOpen
<1>3. e = "v6" => kv.saturated = TRUE
  <2>1. i \in Known(e)
    BY EngineNames DEF Due, Completed, Results, Known
  <2> QED BY <2>1 DEF GenerationsInv, V6Follows
<1>4. AllRegular(Call(e, i + 1)) /\ Has(Call(e, i + 1), <<"reconcile", e, i + 1>>)
  BY <1>1, <1>2, <1>3, CallRegular, HasOne DEF Call, Name, Callable
<1> PICK A : A = <<Put("evolved", kv.evolved \cup {i})>> \o Clear
  OBVIOUS
<1>5. AllRegular(A)
  <2>1. Regular(Put("evolved", kv.evolved \cup {i}))
    BY PutRegular DEF KvNames
  <2> QED BY <2>1, RegularFew, RegularJoin, WritesRegular
<1>6. T = A \o Call(e, i + 1) \/ T = Clear \o Call(e, i + 1)
  BY DEF RouteV5, RouteV6
<1> QED BY <1>4, <1>5, <1>6, RegularJoin, HasJoin, WritesRegular DEF AllRegular

\* A result is routed.
LEMMA RouteResultKeeps ==
  ASSUME GenerationsInv, RouteResult
  PROVE  GenerationsInv'
<1>1. TodoTyped /\ RecordsTyped /\ Step("route")
  BY DEF GenerationsInv, RouteResult
<1>2. todo[1][1] = "route" /\ Len(todo) >= 1 /\ 1 \in 1..Len(todo) /\ Head(todo) = todo[1] /\ up
  BY <1>1, EmptyList, Rest DEF TodoTyped, Step, RecordsTyped, IsList
<1> PICK j : j = todo[1][2]
  OBVIOUS
<1>3. Arg(1) = j /\ j \in Due
  <2>1. StepTyped(todo[1], 1)
    BY <1>1, <1>2 DEF TodoTyped
  <2> QED BY <1>2, <2>1 DEF Arg, StepTyped
<1> PICK e, i : e = j[1] /\ i = j[2]
  OBVIOUS
<1>4. j = <<e, i>> /\ e \in ToSet(Engines) /\ i \in Numbers(e)
  BY <1>3, JobIs DEF Due
<1> PICK preflight \in BOOLEAN : Then(Route(e, i, preflight))
  BY <1>3 DEF RouteResult
<1> PICK T : T = Route(e, i, preflight)
  OBVIOUS
<1>5. /\ row' = row /\ kv' = kv /\ up' = up /\ closure' = closure /\ accounted' = accounted
      /\ refused' = refused
  BY DEF RouteResult
<1>6. RowSettles
  BY <1>1, <1>5 DEF RowSettles, RecordsTyped
<1>7. Led(T)
  <2>1. CASE e = "turbo"
    BY <1>3, <1>4, <1>6, <2>1, RouteTurboFits DEF Route
  <2>2. CASE e = "cohort"
    BY <1>3, <1>4, <1>6, <2>2, RouteCohortFits, LedLists DEF Route
  <2>3. CASE e \in {"promotion", "prepare", "q4", "update"}
    BY <1>6, <2>3, RouteOthersFit, LedLists DEF Route
  <2>4. CASE e \in {"v5", "v6"}
    <3>1. T = IF e = "v5" THEN RouteV5(i) ELSE RouteV6(i)
      BY <2>4 DEF Route
    <3> QED BY <1>3, <1>4, <1>6, <2>4, <3>1, RouteEvolvedFits, LedLists
  <2> QED BY <1>4, <2>1, <2>2, <2>3, <2>4, EngineNames
<1>8. Carries(T) /\ Fits(T)
  BY <1>1, <1>7, HeadCarries, LedLists
<1>9. FollowedUp(j, Len(T))'
  <2>1. ASSUME e = "turbo" PROVE Comes("turbo", i + 1, Len(T))' /\ Comes("promotion", i, Len(T))'
    <3>1. Has(T, <<"reconcile", "promotion", i>>) /\ Has(T, <<"reconcile", "turbo", i + 1>>)
      BY <1>3, <1>4, <1>6, <2>1, RouteTurboFits DEF Route
    <3> QED BY <1>8, <3>1, HasComes DEF Name
  <2>2. ASSUME e \in {"v5", "v6"} PROVE Comes(e, i + 1, Len(T))'
    <3>1. T = IF e = "v5" THEN RouteV5(i) ELSE RouteV6(i)
      BY <2>2 DEF Route
    <3>2. Has(T, <<"reconcile", e, i + 1>>)
      BY <1>3, <1>4, <1>6, <2>2, <3>1, RouteEvolvedFits
    <3> QED BY <1>8, <2>2, <3>2, HasComes DEF Name
  <2>3. ASSUME e = "cohort", InDebt(i)
        PROVE  IF i \in closure' THEN ClosureComes(i + 1, Len(T))'
               ELSE Comes("cohort", i + 1, Len(T))' \/ Ends(Len(T))'
    <3>1. T = RouteCohort(i)
      BY <2>3 DEF Route
    <3>2. CASE i \in closure
      <4>1. Has(T, <<"reconcile", "closure", i + 1>>)
        BY <1>3, <1>4, <1>6, <2>3, <3>1, <3>2, RouteCohortFits
      <4> QED BY <1>5, <1>8, <3>2, <4>1, HasComes
    <3>3. CASE i \notin closure
      <4>1. Has(T, <<"reconcile", "cohort", i + 1>>) \/ Has(T, Put("finalization", TRUE))
        BY <1>3, <1>4, <1>6, <2>3, <3>1, <3>3, RouteCohortFits
      <4> QED BY <1>5, <1>8, <3>3, <4>1, HasComes, HasEnds DEF Name
    <3> QED BY <3>2, <3>3
  <2>4. InDebt(i)' = InDebt(i)
    BY <1>5 DEF InDebt
  <2> QED BY <1>4, <2>1, <2>2, <2>3, <2>4 DEF FollowedUp
<1>10. Routed(T)
  <2>1. ASSUME NEW k, todo[1] = <<"route", k>> PROVE k = j
    BY <2>1
  <2> QED BY <1>9, <2>1 DEF Routed
<1>11. Answered(T)
  BY <1>2 DEF Answered, Asks
<1> QED BY <1>2, <1>5, <1>8, <1>10, <1>11, QuietAdvance

\* The list goes on after its first step, or with a result before it.
LEMMA RouteCompletedKeeps ==
  ASSUME GenerationsInv, RouteCompleted
  PROVE  GenerationsInv'
<1>1. /\ RecordsTyped /\ TodoTyped /\ InOrder /\ UpdatesFit /\ PromotionsFit /\ V6Follows
      /\ FollowUpsCome /\ Step("completed")
      /\ up' = up /\ row' = row /\ kv' = kv /\ closure' = closure /\ accounted' = accounted
      /\ refused' = refused
  BY DEF GenerationsInv, RouteCompleted
<1>2. CASE Due = {} /\ Then(<<>>)
  <2> PICK T : T = <<>>
    OBVIOUS
  <2> QED BY <1>1, <1>2, PlainAdvance, RegularFew
<1>3. ASSUME NEW j \in Due, todo' = Routing(j) \o todo PROVE GenerationsInv'
  <2> PICK T : T = << <<"route", j>>, <<"accounted", j>> >>
    OBVIOUS
  <2> PICK n : n = Len(todo)
    OBVIOUS
  <2>1. /\ IsList(T) /\ Len(T) = 2 /\ T[1] = <<"route", j>> /\ T[2] = <<"accounted", j>>
        /\ IsList(todo) /\ n \in Nat
    BY <1>1, TwoSteps DEF TodoTyped, IsList
  <2>2. todo' = T \o todo
    BY <1>3 DEF Routing
  <2>3. /\ IsList(todo') /\ Len(todo') = n + 2
        /\ todo'[1] = <<"route", j>> /\ todo'[2] = <<"accounted", j>>
    BY <2>1, <2>2, Joined
  <2>4. ASSUME NEW q \in 1..n PROVE todo'[q + 2] = todo[q] /\ q + 2 \in 1..n + 2
    <3>1. q + 2 \in Len(T) + 1..Len(T) + Len(todo) /\ (q + 2) - Len(T) = q
      BY <2>1
    <3> QED BY <2>1, <2>2, <3>1, Joined
  <2>5. ASSUME NEW p \in 1..n + 2
        PROVE  \/ p = 1 /\ todo'[p] = <<"route", j>>
               \/ p = 2 /\ todo'[p] = <<"accounted", j>>
               \/ \E q \in 1..n : p = q + 2 /\ todo'[p] = todo[q]
    <3>1. CASE p \in {1, 2}
      BY <2>3, <3>1
    <3>2. CASE p \notin {1, 2}
      <4>1. p - 2 \in 1..n /\ p = (p - 2) + 2
        BY <2>1, <3>2
      <4> QED BY <2>4, <4>1
    <3> QED BY <3>1, <3>2
  <2>6. n >= 1 /\ todo[1][1] = "completed" /\ 1 \in 1..n /\ up
    BY <1>1, <2>1, EmptyList, Rest DEF Step, RecordsTyped
  <2>7. Due' = Due /\ Queued' = Queued
    BY <1>1 DEF Due, Queued, Completed
  <2>8. j \in Jobs /\ Completed(j) /\ j \in Due
    BY DEF Due
  <2>9. RecordsTyped'
    BY <1>1, <2>6 DEF RecordsTyped, Completed
  <2>10. TodoTyped'
    <3>1. ASSUME NEW p \in 1..n + 2, NEW s, s = todo'[p] PROVE StepTyped(s, p)'
      <4>1. CASE p = 1 /\ s = <<"route", j>>
        BY <2>7, <4>1 DEF StepTyped, Is
      <4>2. CASE p = 2 /\ s = <<"accounted", j>>
        BY <1>1, <2>8, <4>2 DEF StepTyped, Is, Completed
      <4>3. ASSUME NEW q \in 1..n, p = q + 2, s = todo[q] PROVE StepTyped(s, p)'
        <5>1. StepTyped(s, q)
          BY <1>1, <4>3 DEF TodoTyped
        <5>2. q # 1 \/ s[1] = "completed"
          BY <2>6, <4>3
        <5>a. s[1] = "run" => n = 1
          BY <5>1 DEF StepTyped
        <5>3. s[1] # "run"
          <6> SUFFICES ASSUME s[1] = "run" PROVE FALSE
            OBVIOUS
          <6>1. q \in 1..1
            BY <5>a
          <6>2. q = 1
            BY <6>1
          <6> QED BY <5>2, <6>2
        <5>4. s[1] = "v6" => q + 1 \in 1..n /\ todo[q + 1] = <<"v5">> /\ q + 1 = n
          BY <2>1, <5>1 DEF StepTyped
        <5>5. s[1] = "v6" => todo'[p + 1] = <<"v5">> /\ p + 1 = Len(todo')
          <6>1. ASSUME s[1] = "v6" PROVE todo'[(q + 1) + 2] = todo[q + 1]
            BY <2>4, <5>4, <6>1
          <6>2. p + 1 = (q + 1) + 2
            BY <2>1, <4>3
          <6> QED BY <2>1, <2>3, <4>3, <5>4, <6>1, <6>2
        <5>6. s[1] = "collect" => p = Len(todo')
          BY <2>1, <2>3, <4>3, <5>1 DEF StepTyped
        <5>7. s[1] = "accounted" => s[2] \in Jobs /\ Completed(s[2])'
          BY <1>1, <5>1 DEF StepTyped, Completed
        <5>8. s[1] # "route" /\ ~(s[1] = "queue" /\ s[2] = "closure")
          BY <5>1, <5>2 DEF StepTyped
        <5> QED BY <5>1, <5>3, <5>5, <5>6, <5>7, <5>8 DEF StepTyped
      <4> QED BY <2>5, <3>1, <4>1, <4>2, <4>3
    <3> QED BY <2>3, <3>1 DEF TodoTyped
  <2>11. DueIsRouted'
    BY <2>3, <2>4, <2>6 DEF DueIsRouted
  <2>12. InOrder'
    <3>1. ASSUME NEW e \in Numbered, NEW p \in 1..n + 2, NEW s, s = todo'[p], Asks(s, e)
          PROVE  s[3] \in Nat /\ Below(e, s[3])
      BY <1>1, <2>1, <2>5, <3>1 DEF InOrder, Asks
    <3>2. \A e, i : Below(e, i)' = Below(e, i) /\ Known(e)' = Known(e)
      BY <1>1 DEF Below, Over, Completed, Known
    <3> QED BY <1>1, <2>3, <3>1, <3>2 DEF InOrder
  <2>13. UpdatesFit'
    <3>1. ASSUME NEW p \in 1..n + 2 PROVE ~Is(todo'[p], "sequence")
      BY <1>1, <2>1, <2>5, <2>6 DEF UpdatesFit, Is
    <3>2. \A v : Sequenced(v)' = Sequenced(v)
      BY <1>1 DEF Sequenced
    <3> QED BY <1>1, <2>3, <3>1, <3>2 DEF UpdatesFit
  <2>14. PromotionsFit'
    <3>1. ASSUME NEW p \in 1..n + 2, NEW s, s = todo'[p]
          PROVE  ~Asks(s, "promotion") /\ s[1] # "run"
      <4>1. ASSUME NEW q \in 1..n PROVE ~Asks(todo[q], "promotion")
        BY <1>1, <2>1, <2>6 DEF PromotionsFit, Asks
      <4>2. ASSUME NEW q \in 1..n PROVE todo[q][1] # "run"
        <5>1. StepTyped(todo[q], q)
          BY <1>1 DEF TodoTyped
        <5>2. todo[q][1] = "run" => n = 1
          BY <5>1 DEF StepTyped
        <5> QED BY <2>6, <5>2
      <4> QED BY <2>5, <3>1, <4>1, <4>2 DEF Asks
    <3>2. Of("promotion", "QUEUED")' = Of("promotion", "QUEUED")
      BY <1>1 DEF Of
    <3> QED BY <1>1, <2>3, <2>7, <3>1, <3>2 DEF PromotionsFit
  <2>15. V6Follows'
    <3>1. ASSUME NEW p \in 1..n + 2 PROVE ~Is(todo'[p], "saturated")
      <4>1. ASSUME NEW q \in 1..n, Is(todo[q], "saturated") PROVE FALSE
        <5>1. \/ q = 1
              \/ q = 2 /\ todo[1] = <<"retire", "v5">>
          BY <1>1, <4>1 DEF V6Follows
        <5> QED BY <2>6, <4>1, <5>1 DEF Is
      <4> QED BY <2>5, <4>1 DEF Is
    <3>2. ASSUME NEW p \in 1..n + 2, NEW s, s = todo'[p], Asks(s, "v6")
          PROVE  kv.saturated = TRUE
      <4>1. ASSUME NEW q \in 1..n PROVE ~Is(todo[q], "saturated")
        BY <2>4, <3>1
      <4>2. ASSUME NEW q \in 1..n, Asks(todo[q], "v6") PROVE kv.saturated = TRUE
        BY <1>1, <2>1, <4>1, <4>2 DEF V6Follows
      <4>3. ~Asks(<<"route", j>>, "v6") /\ ~Asks(<<"accounted", j>>, "v6")
        BY DEF Asks
      <4> QED BY <2>5, <3>2, <4>2, <4>3
    <3>3. Known("v6")' = Known("v6") /\ Of("v5", "QUEUED")' = Of("v5", "QUEUED")
      BY <1>1 DEF Of, Known
    <3>4. V5IsOver => V5IsOver'
      <4>1. ASSUME V5IsOver, NEW p \in 1..n + 2 PROVE ~Asks(todo'[p], "v5")
        BY <2>5, <4>1 DEF V5IsOver, Asks
      <4> QED BY <2>3, <2>7, <4>1 DEF V5IsOver
    <3> QED BY <1>1, <2>3, <3>1, <3>2, <3>3, <3>4 DEF V6Follows
  <2>16. FollowUpsCome'
    <3>1. ASSUME NEW k, NEW m \in 0..n, FollowedUp(k, m), NEW r \in Nat,
                  r = 0 => m = 0, r # 0 => r = m + 2
          PROVE  FollowedUp(k, r)'
      <4>1. ASSUME NEW q \in 1..m PROVE todo'[q + 2] = todo[q] /\ q + 2 \in 1..r
        <5>1. q \in 1..n /\ r = m + 2
          BY <2>1, <3>1
        <5> QED BY <2>4, <5>1
      <4>2. ASSUME NEW e, NEW i PROVE Comes(e, i, m) => Comes(e, i, r)'
        BY <1>1, <4>1 DEF Comes, GoesOn, Asks
      <4>3. ASSUME NEW i PROVE ClosureComes(i, m) => ClosureComes(i, r)'
        BY <1>1, <4>1 DEF ClosureComes, GoesOn, Asks
      <4>4. Ends(m) => Ends(r)'
        BY <1>1, <4>1 DEF Ends, Is
      <4>5. InDebt(k[2])' = InDebt(k[2])
        BY <1>1 DEF InDebt
      <4> QED BY <1>1, <3>1, <4>2, <4>3, <4>4, <4>5 DEF FollowedUp
    <3>2. ASSUME NEW k \in accounted PROVE FollowedUp(k, 0)'
      <4>1. FollowedUp(k, 0) /\ 0 \in 0..n /\ 0 \in Nat
        BY <1>1, <2>1 DEF FollowUpsCome
      <4> QED BY <3>1, <4>1
    <3>3. ASSUME NEW p \in 1..n + 2, NEW s, s = todo'[p], s[1] = "accounted"
          PROVE  FollowedUp(s[2], p - 1)' \/ (p = 2 /\ todo'[1] = <<"route", s[2]>>)
      <4>1. CASE p = 2 /\ s = <<"accounted", j>>
        BY <2>3, <4>1
      <4>2. ASSUME NEW q \in 1..n, p = q + 2, s = todo[q] PROVE FollowedUp(s[2], p - 1)'
        <5>1. FollowedUp(s[2], q - 1)
          BY <1>1, <2>1, <2>6, <3>3, <4>2 DEF FollowUpsCome
        <5>2. q - 1 \in 0..n /\ p - 1 \in Nat /\ p - 1 = (q - 1) + 2 /\ p - 1 # 0
          BY <2>1, <4>2
        <5> QED BY <3>1, <5>1, <5>2
      <4> QED BY <2>5, <3>3, <4>1, <4>2
    <3> QED BY <1>1, <2>3, <3>2, <3>3 DEF FollowUpsCome
  <2> QED BY <2>9, <2>10, <2>11, <2>12, <2>13, <2>14, <2>15, <2>16 DEF GenerationsInv
<1> QED BY <1>2, <1>3 DEF RouteCompleted

\* Without a list in its place, what followed the first step moves up.
LEMMA TailCarries ==
  ASSUME TodoTyped, RecordsTyped, NEW d, Step(d), Then(<<>>), up' = up, DueIsRouted, d # "completed"
  PROVE  /\ Carries(<<>>) /\ Len(<<>>) = 0 /\ up /\ up'
         /\ Len(todo) \in Nat /\ Len(todo) >= 1 /\ 1 \in 1..Len(todo)
         /\ Head(todo) = todo[1] /\ todo[1][1] = d
         /\ IsList(todo') /\ Len(todo') = Len(todo) - 1
         /\ \A p \in 1..Len(todo') : p + 1 \in 2..Len(todo) /\ todo'[p] = todo[p + 1]
         /\ Due' \subseteq Due => DueIsRouted'
<1>1. /\ Carries(<<>>) /\ Len(<<>>) = 0 /\ Len(todo) >= 1 /\ 1 \in 1..Len(todo)
      /\ Head(todo) = todo[1] /\ todo[1][1] = d
  BY HeadCarries, EmptyList
<1>2. up /\ up'
  BY DEF RecordsTyped, Step
<1>3. IsList(todo') /\ Len(todo') = Len(todo) - 1 /\ Len(todo) \in Nat
  BY <1>1 DEF Carries
<1>4. ASSUME NEW p \in 1..Len(todo') PROVE p + 1 \in 2..Len(todo) /\ todo'[p] = todo[p + 1]
  <2>1. p + 1 \in 2..Len(todo) /\ (p + 1) + 0 - 1 = p
    BY <1>3
  <2> QED BY <1>1, <2>1 DEF Carries
<1>5. Due' \subseteq Due => DueIsRouted'
  <2> SUFFICES ASSUME Due # {} PROVE \E p \in 1..Len(todo') : todo'[p][1] = "completed"
    BY DEF DueIsRouted
  <2>1. PICK q \in 1..Len(todo) : todo[q][1] = "completed"
    BY <1>2 DEF DueIsRouted
  <2>2. q # 1
    BY <1>1, <2>1
  <2>3. q - 1 \in 1..Len(todo') /\ (q - 1) + 1 = q
    BY <1>3, <2>2
  <2>4. todo'[q - 1] = todo[(q - 1) + 1]
    BY <1>4, <2>3
  <2> QED BY <2>1, <2>3, <2>4
<1> QED BY <1>1, <1>2, <1>3, <1>4, <1>5

\* A result is recorded as accounted once its follow-up is there.
LEMMA RecordAccountedKeeps ==
  ASSUME GenerationsInv, RecordAccounted
  PROVE  GenerationsInv'
<1>1. /\ RecordsTyped /\ TodoTyped /\ DueIsRouted /\ InOrder /\ UpdatesFit /\ PromotionsFit
      /\ V6Follows /\ FollowUpsCome /\ Step("accounted") /\ Then(<<>>)
      /\ up' = up /\ row' = row /\ kv' = kv /\ closure' = closure /\ refused' = refused
  BY DEF GenerationsInv, RecordAccounted
<1> PICK j : j = todo[1][2]
  OBVIOUS
<1> PICK n : n = Len(todo)
  OBVIOUS
<1> PICK T : T = <<>>
  OBVIOUS
<1>2. /\ Carries(T) /\ Len(T) = 0 /\ up /\ up' /\ n \in Nat /\ n >= 1 /\ 1 \in 1..n
      /\ Head(todo) = todo[1] /\ todo[1][1] = "accounted"
      /\ IsList(todo') /\ Len(todo') = n - 1
      /\ Due' \subseteq Due => DueIsRouted'
  BY <1>1, TailCarries
<1>3. ASSUME NEW p \in 1..n - 1
      PROVE  p + 1 \in 2..n /\ p + 1 \in 1..n /\ p + 1 # 1 /\ todo'[p] = todo[p + 1]
  <2>1. p + 1 \in 2..n /\ todo'[p] = todo[p + 1]
    BY <1>1, <1>2, TailCarries
  <2> QED BY <2>1
<1>4. accounted' = accounted \cup {j} /\ j \in Jobs /\ Completed(j)
  <2>1. Arg(1) = j
    BY <1>2 DEF Arg
  <2>2. StepTyped(todo[1], 1)
    BY <1>1, <1>2 DEF TodoTyped
  <2> QED BY <1>2, <2>1, <2>2 DEF RecordAccounted, StepTyped
<1>5. Due' \subseteq Due /\ Queued' = Queued
  BY <1>1, <1>4 DEF Due, Queued, Completed
<1>6. RecordsTyped'
  BY <1>1, <1>2, <1>4 DEF RecordsTyped, Completed
<1>7. TodoTyped'
  <2>1. ASSUME NEW p \in 1..n - 1, NEW s, s = todo'[p] PROVE StepTyped(s, p)'
    <3>1. \A k \in Jobs : Completed(k) => Completed(k)'
      BY <1>1 DEF Completed
    <3>2. p = (p + 1) + Len(T) - 1
      BY <1>2
    <3> QED BY <1>1, <1>2, <1>3, <2>1, <3>1, <3>2, TypedCarries
  <2> QED BY <1>2, <2>1 DEF TodoTyped
<1>8. DueIsRouted'
  BY <1>2, <1>5
<1>9. InOrder'
  <2>1. \A e, i : Below(e, i)' = Below(e, i) /\ Known(e)' = Known(e)
    BY <1>1 DEF Below, Over, Completed, Known
  <2>2. ASSUME NEW e \in Numbered, NEW p \in 1..n - 1, NEW s, s = todo'[p], Asks(s, e)
        PROVE  s[3] \in Nat /\ Below(e, s[3])
    BY <1>1, <1>3, <2>2 DEF InOrder
  <2> QED BY <1>1, <1>2, <2>1, <2>2 DEF InOrder
<1>10. UpdatesFit'
  <2>1. ASSUME NEW p \in 1..n - 1 PROVE ~Is(todo'[p], "sequence")
    BY <1>1, <1>2, <1>3 DEF UpdatesFit, Is
  <2>2. \A v : Sequenced(v)' = Sequenced(v)
    BY <1>1 DEF Sequenced
  <2> QED BY <1>1, <1>2, <2>1, <2>2 DEF UpdatesFit
<1>11. PromotionsFit'
  <2>1. ASSUME NEW p \in 1..n - 1, NEW s, s = todo'[p]
        PROVE  ~Asks(s, "promotion") /\ s[1] # "run"
    <3>1. StepTyped(s, p + 1)
      BY <1>1, <1>3, <2>1 DEF TodoTyped
    <3>2. s[1] = "run" => n = 1
      BY <3>1 DEF StepTyped
    <3>3. n # 1
      BY <1>2, <1>3
    <3> QED BY <1>1, <1>3, <2>1, <3>2, <3>3 DEF PromotionsFit
  <2>2. Of("promotion", "QUEUED")' = Of("promotion", "QUEUED")
    BY <1>1 DEF Of
  <2> QED BY <1>1, <1>2, <1>5, <2>1, <2>2 DEF PromotionsFit
<1>12. V6Follows'
  <2>1. ASSUME NEW p \in 1..n - 1 PROVE ~Is(todo'[p], "saturated")
    <3>1. Is(todo[p + 1], "saturated") => todo[1] = <<"retire", "v5">>
      BY <1>1, <1>3 DEF V6Follows
    <3> QED BY <1>2, <1>3, <3>1
  <2>2. ASSUME NEW p \in 1..n - 1, Asks(todo'[p], "v6") PROVE kv.saturated = TRUE
    <3>1. ASSUME NEW q \in 1..n PROVE ~Is(todo[q], "saturated")
      BY <1>1, <1>2, <3>1 DEF V6Follows, Is
    <3>2. \A q \in 1..(p + 1) - 1 : q \in 1..n
      BY <1>2
    <3> QED BY <1>1, <1>3, <2>2, <3>1, <3>2 DEF V6Follows
  <2>3. Known("v6")' = Known("v6") /\ Of("v5", "QUEUED")' = Of("v5", "QUEUED")
    BY <1>1 DEF Of, Known
  <2>4. V5IsOver => V5IsOver'
    <3>1. ASSUME V5IsOver, NEW p \in 1..n - 1 PROVE ~Asks(todo'[p], "v5")
      BY <1>3, <3>1 DEF V5IsOver
    <3> QED BY <1>2, <1>5, <3>1 DEF V5IsOver, Asks
  <2> QED BY <1>1, <1>2, <2>1, <2>2, <2>3, <2>4 DEF V6Follows, Asks
<1>13. FollowUpsCome'
  <2>1. Answered(T)
    BY <1>2 DEF Answered, Asks
  <2>2. KvFollows
    BY <1>1, <1>2 DEF KvFollows, RecordsTyped, HeadIs, Is
  <2>3. Grows
    BY <1>1 DEF Grows
  <2>4. 0 \in 0..n /\ 0 \in 0..Len(todo') /\ n = Len(todo)
    BY <1>2
  <2>5. ASSUME NEW k \in accounted' PROVE FollowedUp(k, 0)
    <3>1. CASE k \in accounted
      BY <1>1, <3>1 DEF FollowUpsCome
    <3>2. CASE k = j
      <4>1. FollowedUp(j, 1 - 1)
        BY <1>1, <1>2 DEF FollowUpsCome
      <4> QED BY <3>2, <4>1
    <3> QED BY <1>4, <3>1, <3>2
  <2>6. ASSUME NEW k \in accounted' PROVE FollowedUp(k, 0)'
    <3>1. k \in Jobs /\ Completed(k)
      BY <1>1, <1>4 DEF RecordsTyped
    <3> QED BY <1>2, <2>1, <2>2, <2>3, <2>4, <2>5, <3>1, FollowedCarries
  <2>7. ASSUME NEW p \in 1..n - 1, NEW s, s = todo'[p], s[1] = "accounted"
        PROVE  FollowedUp(s[2], p - 1)'
    <3>1. s = todo[p + 1] /\ StepTyped(s, p + 1)
      BY <1>1, <1>3, <2>7 DEF TodoTyped
    <3>2. s[2] \in Jobs /\ Completed(s[2])
      BY <2>7, <3>1 DEF StepTyped
    <3>3. todo[1] # <<"route", s[2]>>
      BY <1>2
    <3>4. FollowedUp(s[2], (p + 1) - 1)
      BY <1>1, <1>3, <2>7, <3>1, <3>3 DEF FollowUpsCome
    <3>5. (p + 1) - 1 \in 0..Len(todo) /\ p - 1 \in 0..Len(todo')
          /\ p - 1 >= ((p + 1) - 1) + Len(T) - 1
      BY <1>2
    <3> QED BY <1>2, <2>1, <2>2, <2>3, <3>2, <3>4, <3>5, FollowedCarries
  <2> QED BY <1>2, <2>6, <2>7 DEF FollowUpsCome
<1> QED BY <1>6, <1>7, <1>8, <1>9, <1>10, <1>11, <1>12, <1>13 DEF GenerationsInv

\* What queueing an experiment does to the rows.
Queueing(c, i) == row' = [row EXCEPT ![<<c, i>>] = IF @ = "absent" THEN "QUEUED" ELSE @]
LEMMA QueueingRows ==
  ASSUME RecordsTyped, NEW c, NEW i, Queueing(c, i)
  PROVE  /\ row' = [j \in Jobs |-> row'[j]]
         /\ \A j \in Jobs :
              row'[j] = IF j = <<c, i>> /\ row[j] = "absent" THEN "QUEUED" ELSE row[j]
         /\ \A j \in Jobs : row'[j] \in Statuses(j[1]) /\ Completed(j)' = Completed(j)
         /\ \A j \in Jobs : Over(j) => Over(j)'
         /\ <<c, i>> \in Jobs => row'[<<c, i>>] # "absent"
<1>1. row = [j \in Jobs |-> row[j]] /\ \A j \in Jobs : row[j] \in Statuses(j[1])
  BY DEF RecordsTyped
<1>2. row' = [j \in Jobs |-> IF j = <<c, i>> /\ row[j] = "absent" THEN "QUEUED" ELSE row[j]]
  BY <1>1 DEF Queueing
<1>3. \A j \in Jobs : row'[j] = IF j = <<c, i>> /\ row[j] = "absent" THEN "QUEUED" ELSE row[j]
  BY <1>2
<1>4. ASSUME NEW j \in Jobs
      PROVE  row'[j] \in Statuses(j[1]) /\ Completed(j)' = Completed(j) /\ (Over(j) => Over(j)')
  <2>1. row'[j] \in Statuses(j[1])
    BY <1>1, <1>3 DEF Statuses
  <2>2. j[1] \in ToSet(Engines)
    BY JobIs
  <2>3. "absent" \notin Results(j[1]) /\ "QUEUED" \notin Results(j[1])
    BY <2>2, EngineNames DEF Results
  <2>4. Completed(j)' = Completed(j)
    BY <1>3, <2>3 DEF Completed
  <2>5. Over(j) => Over(j)'
    BY <1>3, <2>4 DEF Over
  <2> QED BY <2>1, <2>4, <2>5
<1>5. row' = [j \in Jobs |-> row'[j]]
  BY <1>2
<1>6. <<c, i>> \in Jobs => row'[<<c, i>>] # "absent"
  BY <1>3
<1> QED BY <1>3, <1>4, <1>5, <1>6

\* The experiment that was asked for is put in line.
LEMMA EnqueueKeeps ==
  ASSUME GenerationsInv, Enqueue
  PROVE  GenerationsInv'
<1>1. /\ RecordsTyped /\ TodoTyped /\ DueIsRouted /\ InOrder /\ UpdatesFit /\ PromotionsFit
      /\ V6Follows /\ FollowUpsCome /\ Step("queue") /\ Then(<<>>)
      /\ up' = up /\ kv' = kv /\ accounted' = accounted /\ refused' = refused
  BY DEF GenerationsInv, Enqueue
<1> PICK e, i : e = todo[1][2] /\ i = todo[1][3]
  OBVIOUS
<1> PICK c : c = Name(e)
  OBVIOUS
<1> PICK n : n = Len(todo)
  OBVIOUS
<1> PICK T : T = <<>>
  OBVIOUS
<1>2. /\ Carries(T) /\ Len(T) = 0 /\ up /\ up' /\ n \in Nat /\ n >= 1 /\ 1 \in 1..n
      /\ Head(todo) = todo[1] /\ todo[1][1] = "queue"
      /\ IsList(todo') /\ Len(todo') = n - 1
      /\ Due' \subseteq Due => DueIsRouted'
  BY <1>1, TailCarries
<1>3. ASSUME NEW p \in 1..n - 1
      PROVE  p + 1 \in 2..n /\ p + 1 \in 1..n /\ p + 1 # 1 /\ todo'[p] = todo[p + 1]
  <2>1. p + 1 \in 2..n /\ todo'[p] = todo[p + 1]
    BY <1>1, <1>2, TailCarries
  <2> QED BY <2>1
<1>4. Arg(1) = e /\ Arg(2) = i /\ Asks(todo[1], c)
  BY <1>2 DEF Arg, Asks
<1>5. Queueing(c, i) /\ closure' = IF e = "closure" THEN closure \cup {i} ELSE closure
  BY <1>4 DEF Enqueue, Queueing
<1>6. /\ row' = [j \in Jobs |-> row'[j]]
      /\ \A j \in Jobs : row'[j] = IF j = <<c, i>> /\ row[j] = "absent" THEN "QUEUED" ELSE row[j]
      /\ \A j \in Jobs : row'[j] \in Statuses(j[1]) /\ Completed(j)' = Completed(j)
      /\ \A j \in Jobs : Over(j) => Over(j)'
      /\ <<c, i>> \in Jobs => row'[<<c, i>>] # "absent"
  BY <1>1, <1>5, QueueingRows
<1>7. Due' = Due
  BY <1>1, <1>6 DEF Due
<1>8. RecordsTyped'
  BY <1>1, <1>2, <1>6 DEF RecordsTyped
<1>9. TodoTyped'
  <2>1. ASSUME NEW p \in 1..n - 1, NEW s, s = todo'[p] PROVE StepTyped(s, p)'
    <3>1. \A k \in Jobs : Completed(k) => Completed(k)'
      BY <1>6
    <3>2. p = (p + 1) + Len(T) - 1
      BY <1>2
    <3> QED BY <1>1, <1>2, <1>3, <2>1, <3>1, <3>2, TypedCarries
  <2> QED BY <1>2, <2>1 DEF TodoTyped
<1>10. DueIsRouted'
  BY <1>2, <1>7
<1>11. \A f \in ToSet(Engines) : \A k \in Numbers(f) : <<f, k>> \in Jobs
  BY JobIs
<1>12. InOrder'
  <2>1. ASSUME NEW f \in Numbered, NEW k, Below(f, k) PROVE Below(f, k)'
    BY <1>6, <1>11, <2>1, EngineNames DEF Below, Numbered
  <2>2. ASSUME NEW f \in Numbered, NEW k \in Known(f)' PROVE Below(f, k)'
    <3>1. CASE k \in Known(f)
      BY <1>1, <2>1, <3>1 DEF InOrder
    <3>2. CASE k \notin Known(f)
      <4>1. k \in Numbers(f) /\ row[<<f, k>>] = "absent" /\ row'[<<f, k>>] # "absent"
        BY <3>2 DEF Known
      <4>2. <<f, k>> \in Jobs
        BY <1>11, <4>1, EngineNames DEF Numbered
      <4>3. f = c /\ k = i
        BY <1>6, <4>1, <4>2
      <4>4. Below(f, k)
        BY <1>1, <1>2, <1>4, <4>3 DEF InOrder
      <4> QED BY <2>1, <4>4
    <3> QED BY <3>1, <3>2
  <2>3. ASSUME NEW f \in Numbered, NEW p \in 1..n - 1, NEW s, s = todo'[p], Asks(s, f)
        PROVE  s[3] \in Nat /\ Below(f, s[3])'
    <3>1. s[3] \in Nat /\ Below(f, s[3])
      BY <1>1, <1>3, <2>3 DEF InOrder
    <3> QED BY <2>1, <3>1
  <2> QED BY <1>2, <2>2, <2>3 DEF InOrder
<1>13. UpdatesFit'
  <2>1. ASSUME NEW v, Sequenced(v) PROVE Sequenced(v)'
    <3>1. ASSUME NEW k \in Numbers("update"), k < v PROVE row'[<<"update", k>>] # "absent"
      <4>1. <<"update", k>> \in Jobs /\ row[<<"update", k>>] # "absent"
        BY <1>11, <2>1, <3>1, EngineNames DEF Sequenced
      <4> QED BY <1>6, <4>1
    <3> QED BY <2>1, <3>1 DEF Sequenced
  <2>2. ASSUME NEW p \in 1..n - 1, NEW s, s = todo'[p], Is(s, "sequence")
        PROVE  p = 1 /\ Sequenced(s[3])'
    <3>1. PICK v \in Numbers("update") :
            p + 1 = 2 /\ s[3] = v + 1 /\ Sequenced(v) /\ todo[1] = <<"queue", "update", v>>
      BY <1>1, <1>3, <2>2 DEF UpdatesFit
    <3>2. v \in Nat /\ Sequenced(v)' /\ c = "update" /\ i = v
      BY <2>1, <3>1 DEF Sequenced, Name
    <3>3. s[3] = v + 1 /\ s[3] \in Nat
      BY <3>1, <3>2
    <3>4. ASSUME NEW k \in Numbers("update"), k < v + 1 PROVE row'[<<"update", k>>] # "absent"
      <4>1. k < v \/ k = v
        BY <3>2, <3>4, NumbersAre, EngineNames
      <4>2. <<"update", k>> \in Jobs
        BY <1>11, EngineNames
      <4> QED BY <1>6, <3>2, <4>1, <4>2 DEF Sequenced
    <3> QED BY <1>3, <3>1, <3>3, <3>4 DEF Sequenced
  <2>3. Sequenced(kv'.sequence)
    BY <1>1 DEF UpdatesFit
  <2> PICK w : w = kv'.sequence
    OBVIOUS
  <2>4. Sequenced(w)'
    BY <2>1, <2>3
  <2> QED BY <1>2, <2>2, <2>4 DEF UpdatesFit
<1>14. PromotionsFit'
  <2>1. ASSUME NEW p \in 1..n - 1, NEW s, s = todo'[p]
        PROVE  ~Asks(s, "promotion") /\ s[1] # "run"
    <3>1. StepTyped(s, p + 1)
      BY <1>1, <1>3, <2>1 DEF TodoTyped
    <3>2. s[1] = "run" => n = 1
      BY <3>1 DEF StepTyped
    <3>3. n # 1
      BY <1>2, <1>3
    <3> QED BY <1>1, <1>3, <2>1, <3>2, <3>3 DEF PromotionsFit
  <2>2. \A r, k \in Numbers("turbo") : {<<"turbo", r>>, <<"turbo", k>>} \subseteq Due => r = k
    BY <1>1 DEF PromotionsFit
  <2>3. \A k \in Of("promotion", "QUEUED") :
          /\ \A r \in Numbers("turbo") : <<"turbo", r>> \in Due => r = k
          /\ \A r \in Of("promotion", "QUEUED") : r = k
    BY <1>1 DEF PromotionsFit
  <2>4. ASSUME NEW k \in Of("promotion", "QUEUED")'
        PROVE  k \in Of("promotion", "QUEUED") \/ (c = "promotion" /\ k = i)
    <3>1. k \in Numbers("promotion") /\ row'[<<"promotion", k>>] = "QUEUED"
          /\ <<"promotion", k>> \in Jobs
      BY <1>11, <2>4, EngineNames DEF Of
    <3> QED BY <1>6, <3>1 DEF Of
  <2>5. c = "promotion" => <<"turbo", i>> \in Due /\ i \in Numbers("turbo")
    <3>1. c = "promotion" => <<"turbo", i>> \in Due
      BY <1>1, <1>2, <1>4 DEF PromotionsFit
    <3>2. <<"turbo", i>> \in Due => i \in Numbers("turbo")
      BY JobIs DEF Due
    <3> QED BY <3>1, <3>2
  <2>6. ASSUME NEW k \in Of("promotion", "QUEUED")'
        PROVE  /\ \A r \in Numbers("turbo") : <<"turbo", r>> \in Due => r = k
               /\ \A r \in Of("promotion", "QUEUED")' : r = k
    BY <2>2, <2>3, <2>4, <2>5, <2>6
  <2> QED BY <1>2, <1>7, <2>1, <2>2, <2>6 DEF PromotionsFit
<1>15. V6Follows'
  <2>1. ASSUME NEW p \in 1..n - 1 PROVE ~Is(todo'[p], "saturated")
    <3>1. Is(todo[p + 1], "saturated") => todo[1] = <<"retire", "v5">>
      BY <1>1, <1>3 DEF V6Follows
    <3> QED BY <1>2, <1>3, <3>1
  <2>2. ASSUME NEW q \in 1..n PROVE ~Is(todo[q], "saturated")
    BY <1>1, <1>2, <2>2 DEF V6Follows, Is
  <2>3. ASSUME NEW q \in 1..n, Asks(todo[q], "v6") PROVE kv.saturated = TRUE
    <3>1. \A r \in 1..q - 1 : r \in 1..n
      BY <1>2
    <3> QED BY <1>1, <2>2, <2>3, <3>1 DEF V6Follows
  <2>4. Known("v6")' # {} => kv.saturated = TRUE
    <3>1. ASSUME NEW k \in Known("v6")', k \notin Known("v6") PROVE kv.saturated = TRUE
      <4>1. <<"v6", k>> \in Jobs /\ row[<<"v6", k>>] = "absent" /\ row'[<<"v6", k>>] # "absent"
        BY <1>11, <3>1, EngineNames DEF Known
      <4>2. c = "v6"
        BY <1>6, <4>1
      <4> QED BY <1>2, <1>4, <2>3, <4>2
    <3> QED BY <1>1, <3>1 DEF V6Follows
  <2>5. V5IsOver => V5IsOver' /\ c # "v5"
    <3>1. ASSUME V5IsOver, NEW p \in 1..n - 1 PROVE ~Asks(todo'[p], "v5")
      BY <1>3, <3>1 DEF V5IsOver
    <3>2. V5IsOver => c # "v5"
      BY <1>2, <1>4 DEF V5IsOver
    <3> QED BY <1>2, <1>7, <3>1, <3>2 DEF V5IsOver, Asks
  <2>6. c # "v5" => Of("v5", "QUEUED")' \subseteq Of("v5", "QUEUED")
    <3>1. ASSUME c # "v5", NEW k \in Of("v5", "QUEUED")' PROVE k \in Of("v5", "QUEUED")
      <4>1. <<"v5", k>> \in Jobs /\ row'[<<"v5", k>>] = "QUEUED" /\ k \in Numbers("v5")
        BY <1>11, <3>1, EngineNames DEF Of
      <4> QED BY <1>6, <3>1, <4>1 DEF Of
    <3> QED BY <3>1
  <2>7. ASSUME NEW p \in 1..n - 1, NEW s, s = todo'[p], Asks(s, "v6") PROVE kv.saturated = TRUE
    BY <1>3, <2>3, <2>7
  <2>8. kv.saturated = TRUE => V5IsOver' /\ Of("v5", "QUEUED")' = {}
    BY <1>1, <2>5, <2>6 DEF V6Follows
  <2> QED BY <1>1, <1>2, <2>1, <2>4, <2>7, <2>8 DEF V6Follows
<1>16. FollowUpsCome'
  <2>1. Answered(T)
    <3>1. ASSUME NEW f, NEW k, Asks(todo[1], f), todo[1][3] = k PROVE f = c /\ k = i
      BY <1>4, <3>1 DEF Asks
    <3>2. c \in ToSet(Engines) => GoesOn(c, i)'
      BY <1>6, <1>11 DEF GoesOn
    <3>3. {"turbo", "v5", "v6", "promotion", "cohort"} \subseteq ToSet(Engines)
      BY EngineNames
    <3> QED BY <3>1, <3>2, <3>3 DEF Answered, Comes, ClosureComes
  <2>2. KvFollows
    BY <1>1, <1>2 DEF KvFollows, RecordsTyped, HeadIs, Is
  <2>3. Grows
    <3>1. ASSUME NEW k \in Jobs, Completed(k) PROVE row'[k] = row[k]
      <4>1. k[1] \in ToSet(Engines)
        BY JobIs
      <4>2. row[k] # "absent"
        BY <3>1, <4>1, EngineNames DEF Completed, Results
      <4> QED BY <1>6, <4>2
    <3>2. ASSUME NEW k \in Numbers("cohort"), Completed(<<"cohort", k>>)
          PROVE  (k \in closure') = (k \in closure)
      <4>1. row[<<"cohort", k>>] # "absent"
        BY <3>2 DEF Completed, Results
      <4>2. StepTyped(todo[1], 1)
        BY <1>1, <1>2 DEF TodoTyped
      <4>3. e = "closure" => row[<<"cohort", i>>] = "absent"
        BY <1>2, <4>2 DEF StepTyped
      <4> QED BY <1>5, <4>1, <4>3
    <3> QED BY <1>1, <1>6, <3>1, <3>2 DEF Grows
  <2>4. 0 \in 0..n /\ 0 \in 0..Len(todo') /\ n = Len(todo)
    BY <1>2
  <2>5. ASSUME NEW k \in accounted' PROVE FollowedUp(k, 0)'
    <3>1. k \in Jobs /\ Completed(k) /\ FollowedUp(k, 0)
      BY <1>1 DEF RecordsTyped, FollowUpsCome
    <3> QED BY <1>2, <2>1, <2>2, <2>3, <2>4, <3>1, FollowedCarries
  <2>6. ASSUME NEW p \in 1..n - 1, NEW s, s = todo'[p], s[1] = "accounted"
        PROVE  FollowedUp(s[2], p - 1)'
    <3>1. s = todo[p + 1] /\ StepTyped(s, p + 1)
      BY <1>1, <1>3, <2>6 DEF TodoTyped
    <3>2. s[2] \in Jobs /\ Completed(s[2])
      BY <2>6, <3>1 DEF StepTyped
    <3>3. todo[1] # <<"route", s[2]>>
      BY <1>2
    <3>4. FollowedUp(s[2], (p + 1) - 1)
      BY <1>1, <1>3, <2>6, <3>1, <3>3 DEF FollowUpsCome
    <3>5. (p + 1) - 1 \in 0..Len(todo) /\ p - 1 \in 0..Len(todo')
          /\ p - 1 >= ((p + 1) - 1) + Len(T) - 1
      BY <1>2
    <3> QED BY <1>2, <2>1, <2>2, <2>3, <3>2, <3>4, <3>5, FollowedCarries
  <2> QED BY <1>2, <2>5, <2>6 DEF FollowUpsCome
<1> QED BY <1>8, <1>9, <1>10, <1>12, <1>13, <1>14, <1>15, <1>16 DEF GenerationsInv

\* A list of four steps.
LEMMA FourSteps ==
  ASSUME NEW a, NEW b, NEW c, NEW d
  PROVE  /\ IsList(<<a, b, c, d>>) /\ Len(<<a, b, c, d>>) = 4
         /\ <<a, b, c, d>>[1] = a /\ <<a, b, c, d>>[2] = b
         /\ <<a, b, c, d>>[3] = c /\ <<a, b, c, d>>[4] = d
BY DEF IsList

\* A place of a list with four steps at its end is before them or one of them.
LEMMA LastFour ==
  ASSUME NEW r \in Nat, NEW p \in 1..(r + 4)
  PROVE  p <= r \/ p = r + 1 \/ p = r + 2 \/ p = r + 3 \/ p = r + 4
OBVIOUS

\* The start asks for what it was left with, and then for V6 and V5.
LEMMA CollectKeeps ==
  ASSUME GenerationsInv, Collect
  PROVE  GenerationsInv'
<1>1. /\ TodoTyped /\ RecordsTyped /\ InOrder /\ Step("collect")
      /\ up' = up /\ row' = row /\ kv' = kv /\ closure' = closure /\ accounted' = accounted
      /\ refused' = refused
  BY DEF GenerationsInv, Collect
<1>2. RowSettles
  BY <1>1 DEF RowSettles, RecordsTyped
<1> PICK m, n : m = PendingOrNext("turbo") /\ n = PendingOrNext("cohort")
  OBVIOUS
<1> PICK A, B, C :
      /\ A = StartIf(TurboRequired, "turbo", IF saved.blocker = "TURBO_FAILED" THEN m ELSE 0)
      /\ B = StartIf(ConversionRequired, "cohort", n)
      /\ C = StartIf(saved.bridge, "prepare", 0)
  OBVIOUS
<1> PICK F : F = << <<"conclude">>, <<"reevaluate">>, <<"v6">>, <<"v5">> >>
  OBVIOUS
<1>3. m \in Nat /\ n \in Nat /\ BelowNext("turbo", m) /\ BelowNext("cohort", n)
  <2>1. m \in Nat /\ n \in Nat /\ Below("turbo", m) /\ Below("cohort", n)
    BY <1>1, NextFits DEF Numbered
  <2> QED BY <1>1, <1>2, <2>1, BelowStays DEF Numbered
<1>4. BelowNext("turbo", 0)
  BY NumbersAre, EngineNames DEF BelowNext
<1>5. AllRegular(A)
  <2>1. ASSUME NEW k \in {0, m} PROVE AllRegular(<< <<"start", "turbo", k>> >>)
    BY <1>3, <1>4, CallRegular DEF Name, Callable
  <2> QED BY <2>1, RegularFew DEF StartIf
<1>6. AllRegular(B)
  <2>1. AllRegular(<< <<"start", "cohort", n>> >>)
    BY <1>3, CallRegular DEF Name, Callable
  <2> QED BY <2>1, RegularFew DEF StartIf
<1>7. AllRegular(C)
  <2>1. AllRegular(<< <<"start", "prepare", 0>> >>)
    BY CallRegular DEF Name, Callable, Numbered
  <2> QED BY <2>1, RegularFew DEF StartIf
<1> PICK R : R = A \o B \o C
  OBVIOUS
<1>8. AllRegular(R) /\ IsList(R) /\ Len(R) \in Nat
  <2>1. AllRegular(A \o B)
    BY <1>5, <1>6, RegularJoin
  <2> PICK D : D = A \o B
    OBVIOUS
  <2>2. AllRegular(D \o C) /\ R = D \o C
    BY <1>7, <2>1, RegularJoin
  <2> QED BY <2>2 DEF AllRegular, IsList
<1>9. /\ IsList(F) /\ Len(F) = 4
      /\ F[1] = <<"conclude">> /\ F[2] = <<"reevaluate">> /\ F[3] = <<"v6">> /\ F[4] = <<"v5">>
  BY FourSteps
<1> PICK T : T = R \o F
  OBVIOUS
<1>10. IsList(T) /\ Then(T)
  BY <1>1, <1>8, <1>9, Joined DEF Collect
<1>11. Carries(T) /\ todo[1][1] = "collect" /\ 1 \in 1..Len(todo)
  BY <1>1, <1>10, HeadCarries
<1>12. Len(todo) = 1 /\ up
  <2>1. StepTyped(todo[1], 1)
    BY <1>1, <1>11 DEF TodoTyped
  <2> QED BY <1>1, <1>11, <2>1 DEF StepTyped, RecordsTyped, Step
<1>13. Fits(T)
  <2> PICK r : r = Len(R)
    OBVIOUS
  <2>1. Len(T) = r + 4 /\ r \in Nat
    BY <1>8, <1>9, Joined
  <2>2. ASSUME NEW p \in 1..4 PROVE T[r + p] = F[p]
    <3>1. r + p \in r + 1..r + 4 /\ (r + p) - r = p
      BY <2>1
    <3> QED BY <1>8, <1>9, <2>1, <3>1, Joined
  <2>4. /\ T[r + 1] = <<"conclude">> /\ T[r + 2] = <<"reevaluate">>
        /\ T[r + 3] = <<"v6">> /\ T[r + 4] = <<"v5">>
    <3>1. 1 \in 1..4 /\ 2 \in 1..4 /\ 3 \in 1..4 /\ 4 \in 1..4
      OBVIOUS
    <3> QED BY <1>9, <2>2, <3>1
  <2>3. ASSUME NEW p \in 1..Len(T) PROVE Regular(T[p]) \/ Ending(T, p)
    <3>1. CASE p <= r
      <4>1. p \in 1..Len(R) /\ T[p] = R[p]
        BY <1>8, <1>9, <2>1, <3>1, Joined
      <4> QED BY <1>8, <4>1 DEF AllRegular
    <3>2. ASSUME NEW s, s \in {<<"conclude">>, <<"reevaluate">>, <<"v5">>}, T[p] = s
          PROVE  Regular(T[p])
      <4>1. s[1] \in {"conclude", "reevaluate", "v5"}
        BY <3>2
      <4>2. Regular(s)
        BY <4>1 DEF Regular, Is, Asks
      <4> QED BY <3>2, <4>2
    <3>3. ASSUME p = r + 3 PROVE Ending(T, p)
      <4>1. p + 1 = r + 4 /\ p + 1 = Len(T)
        BY <2>1, <3>3
      <4>2. T[p] = <<"v6">> /\ T[p + 1] = <<"v5">>
        BY <2>4, <3>3, <4>1
      <4> QED BY <1>12, <4>1, <4>2 DEF Ending
    <3>4. p <= r \/ p = r + 1 \/ p = r + 2 \/ p = r + 3 \/ p = r + 4
      <4>1. r \in Nat /\ p \in 1..(r + 4)
        BY <2>1
      <4> QED BY <4>1, LastFour
    <3> QED BY <2>4, <3>1, <3>2, <3>3, <3>4
  <2> QED BY <2>3 DEF Fits
<1>14. Answered(T) /\ Routed(T)
  BY <1>11 DEF Answered, Routed, Asks
<1> QED BY <1>1, <1>11, <1>12, <1>13, <1>14, QuietAdvance
\* V6 is called for at once when V5 is frozen already, and otherwise after V5
\* is retired and frozen.
LEMMA StartV6Keeps ==
  ASSUME GenerationsInv, StartV6
  PROVE  GenerationsInv'
<1>1. RecordsTyped /\ TodoTyped /\ DueIsRouted /\ InOrder /\ V6Follows /\ Step("v6")
  BY DEF GenerationsInv, StartV6
<1> PICK n : n = PendingOrNext("v6")
  OBVIOUS
<1>2. /\ IsList(todo) /\ todo[1][1] = "v6" /\ todo[2] = <<"v5">> /\ Len(todo) = 2 /\ up
      /\ Head(todo) = todo[1] /\ todo # <<>>
  <2>1. Len(<<>>) = 0
    BY EmptyList
  <2>2. IsList(todo) /\ Len(todo) >= 1 /\ Head(todo) = todo[1] /\ todo[1][1] = "v6" /\ todo # <<>>
    BY <1>1, Rest DEF Step, TodoTyped
  <2>3. 1 \in 1..Len(todo)
    BY <2>2 DEF IsList
  <2>4. StepTyped(todo[1], 1)
    BY <1>1, <2>3 DEF TodoTyped
  <2>5. 1 + 1 = Len(todo) /\ todo[1 + 1] = <<"v5">>
    BY <2>2, <2>4 DEF StepTyped
  <2>6. up
    BY <1>1, <2>1, <2>2 DEF RecordsTyped
  <2> QED BY <2>2, <2>5, <2>6
<1>3. Due = {}
  <2>1. \A p \in 1..Len(todo) : todo[p][1] # "completed"
    BY <1>2
  <2> QED BY <1>1, <1>2, <2>1 DEF DueIsRouted
<1>4. n \in Nat /\ Below("v6", n) /\ "v6" \in Numbered
  <2>1. "v6" \in Numbered
    BY DEF Numbered
  <2> QED BY <1>1, <2>1, NextFits
<1>5. /\ up' = up /\ row' = row /\ kv' = kv /\ closure' = closure /\ accounted' = accounted
      /\ refused' = refused
  BY DEF StartV6
<1>6. RowSettles
  BY <1>1, <1>5 DEF RowSettles, RecordsTyped
<1>7. ASSUME NEW T, AllRegular(T), Then(T) PROVE GenerationsInv'
  BY <1>1, <1>5, <1>7, PlainAdvance
<1>8. CASE ~(Evolvable("v6") /\ Cardinality(kv.evolved) >= Saturation)
  <2>1. Then(<<>>)
    BY <1>8 DEF StartV6
  <2> QED BY <1>7, <2>1, RegularFew
<1>9. CASE Evolvable("v6") /\ Cardinality(kv.evolved) >= Saturation
  <2>1. Then(FreezeV5 \o Call("v6", n))
    BY <1>9 DEF StartV6
  <2>2. CASE kv.saturated = TRUE
    <3>1. AllRegular(Call("v6", n))
      <4>1. /\ Name("v6") = "v6"
            /\ "v6" \in Callable /\ "reconcile" \in {"reconcile", "start", "queue"}
        BY DEF Name, Callable
      <4>2. BelowNext("v6", n)
        BY <1>1, <1>4, <1>6, BelowStays
      <4> QED BY <1>4, <2>2, <4>1, <4>2, CallRegular DEF Call
    <3>2. AllRegular(<<>> \o Call("v6", n))
      BY <3>1, RegularJoin, RegularFew
    <3> QED BY <1>7, <2>1, <2>2, <3>2 DEF FreezeV5
  <2>3. CASE kv.saturated # TRUE
    <3>a. PICK a, b, c, d : a = <<"retire", "v5">> /\ b = <<"set", "saturated", TRUE>>
                            /\ c = <<"reconcile", "v6", n>> /\ d = <<"v5">>
      OBVIOUS
    <3>b. /\ a[1] = "retire" /\ b[1] = "set" /\ b[2] = "saturated" /\ b[3] = TRUE
          /\ c[1] = "reconcile" /\ c[2] = "v6" /\ c[3] = n /\ d[1] = "v5"
      BY <3>a
    <3>1. Then((<<a>> \o <<b>>) \o <<c>>)
      BY <2>1, <2>3, <3>a DEF FreezeV5, Retire, Put, Call
    <3>2. /\ IsList(todo') /\ Len(todo') = 4
          /\ todo'[1] = a /\ todo'[2] = b /\ todo'[3] = c /\ todo'[4] = d
      <4> PICK ab : ab = <<a>> \o <<b>>
        OBVIOUS
      <4> PICK abc : abc = ab \o <<c>>
        OBVIOUS
      <4>1. IsList(ab) /\ Len(ab) = 2 /\ ab[1] = a /\ ab[2] = b
        BY Joined, OneStep, 1 \in 1..1, 2 \in 1 + 1..1 + 1, 2 - 1 = 1, 1 + 1 = 2
      <4>2. IsList(abc) /\ Len(abc) = 3 /\ abc[1] = a /\ abc[2] = b /\ abc[3] = c
        BY <4>1, Joined, OneStep, 1 \in 1..2, 2 \in 1..2, 3 \in 2 + 1..2 + 1, 3 - 2 = 1, 2 + 1 = 3
      <4>3. Then(abc)
        BY <3>1
      <4>4. Carries(abc)
        BY <1>1, <4>2, <4>3, HeadCarries
      <4>5. IsList(todo') /\ Len(todo') = 4
        BY <1>2, <4>2, <4>4 DEF Carries
      <4>6. todo'[1] = a /\ todo'[2] = b /\ todo'[3] = c
        BY <4>2, <4>4, 1 \in 1..3, 2 \in 1..3, 3 \in 1..3 DEF Carries
      <4>7. todo'[2 + 3 - 1] = todo[2]
        BY <1>2, <4>2, <4>4, 2 \in 2..2 DEF Carries
      <4>8. todo'[4] = d
        BY <1>2, <3>a, <4>7, 2 + 3 - 1 = 4
      <4> QED BY <4>5, <4>6, <4>8
    <3>3. ASSUME NEW p \in 1..Len(todo')
          PROVE  \/ p = 1 /\ todo'[p] = a
                 \/ p = 2 /\ todo'[p] = b
                 \/ p = 3 /\ todo'[p] = c
                 \/ p = 4 /\ todo'[p] = d
      <4>1. p \in 1..4
        BY <3>2
      <4>2. p = 1 \/ p = 2 \/ p = 3 \/ p = 4
        BY <4>1
      <4> QED BY <3>2, <4>2
    <3>4. Due' = Due /\ \A e, i : Below(e, i)' = Below(e, i)
      BY <1>5 DEF Due, Completed, Below, Over
    <3>5. RecordsTyped'
      BY <1>1, <1>2, <1>5 DEF RecordsTyped, Completed
    <3>6. TodoTyped'
      <4>1. ASSUME NEW p, NEW s, s \in {a, b, c, d} PROVE StepTyped(s, p)'
        BY <3>b, <4>1 DEF StepTyped, Is, KvNames, Callable
      <4>2. ASSUME NEW p \in 1..Len(todo') PROVE StepTyped(todo[p], p)'
        <5> PICK s : s = todo'[p]
          OBVIOUS
        <5>1. StepTyped(s, p)'
          BY <3>3, <4>1
        <5> QED BY <5>1
      <4> QED BY <3>2, <4>2 DEF TodoTyped
    <3>7. DueIsRouted'
      BY <1>3, <3>4 DEF DueIsRouted
    <3>8. \A e : \A p \in 1..Len(todo') : Asks(todo[p], e)' => e = "v6" /\ p = 3 /\ todo'[p] = c
      BY <3>3, <3>b DEF Asks, Name
    <3>9. InOrder'
      <4>1. ASSUME NEW e \in Numbered, NEW i \in Known(e)' PROVE Below(e, i)'
        BY <1>1, <1>5, <3>4 DEF InOrder, Known
      <4>2. ASSUME NEW e \in Numbered, NEW p \in 1..Len(todo'), Asks(todo[p], e)'
            PROVE  todo'[p][3] \in Nat /\ Below(e, todo[p][3])'
        <5>1. e = "v6" /\ todo'[p] = c
          BY <3>8, <4>2
        <5>2. Below("v6", n)'
          BY <1>4, <3>4
        <5>3. todo'[p][3] = n
          BY <3>b, <5>1
        <5> QED BY <1>4, <5>1, <5>2, <5>3 DEF Below, Over
      <4> QED BY <4>1, <4>2 DEF InOrder
    <3>10. UpdatesFit'
      <4>1. \A p \in 1..Len(todo') : ~Is(todo[p], "sequence")'
        BY <3>3, <3>b DEF Is
      <4> QED BY <1>5, <4>1 DEF GenerationsInv, UpdatesFit, Sequenced
    <3>11. PromotionsFit'
      <4>1. \A p \in 1..Len(todo') : todo'[p][1] # "run"
        BY <3>3, <3>b
      <4> QED BY <1>5, <3>4, <3>8, <4>1 DEF GenerationsInv, PromotionsFit, Of
    <3>12. V6Follows'
      <4>1. V5IsOver'
        <5>1. \A p \in 1..Len(todo') : ~Asks(todo[p], "v5")'
          BY <3>8, "v5" # "v6" DEF Asks
        <5> QED BY <1>3, <3>4, <5>1 DEF V5IsOver
      <4>2. Known("v6")' = {}
        BY <1>1, <1>5, <2>3 DEF V6Follows, Known
      <4>3. ASSUME NEW p \in 1..Len(todo'), Is(todo[p], "saturated")'
            PROVE  todo'[p][3] = TRUE /\ p = 2
        BY <3>3, <3>b, <4>3 DEF Is
      <4>4. ASSUME NEW p \in 1..Len(todo'), Asks(todo[p], "v6")'
            PROVE  \E q \in 1..p - 1 : Is(todo[q], "saturated")'
        <5>1. p = 3 /\ 2 \in 1..3 - 1
          BY <3>8, <4>4, 2 \in 1..3 - 1
        <5> QED BY <3>2, <3>b, <5>1 DEF Is
      <4>5. kv'.saturated # TRUE
        BY <1>5, <2>3
      <4>6. todo'[1] = <<"retire", "v5">>
        BY <3>2, <3>a
      <4> QED BY <4>1, <4>2, <4>3, <4>4, <4>5, <4>6 DEF V6Follows
    <3>13. FollowUpsCome'
      <4>1. \A p \in 1..Len(todo') : todo'[p][1] # "accounted"
        BY <3>3, <3>b
      <4>2. ASSUME NEW j \in accounted PROVE FollowedUp(j, 0)'
        BY <1>5 DEF GenerationsInv, FollowUpsCome, FollowedUp, Comes, ClosureComes, Ends, GoesOn,
           InDebt
      <4> QED BY <1>5, <4>1, <4>2 DEF FollowUpsCome
    <3> QED BY <3>5, <3>6, <3>7, <3>9, <3>10, <3>11, <3>12, <3>13 DEF GenerationsInv
  <2> QED BY <2>2, <2>3
<1> QED BY <1>8, <1>9
\* A list of regular steps is begun when none is left but a run.
LEMMA AloneAdvance ==
  ASSUME GenerationsInv, up, todo = <<>> \/ (Len(todo) = 1 /\ todo[1][1] = "run"),
         NEW T, AllRegular(T), todo' = T, RowSettles,
         up' = up, kv' = kv, closure' = closure, accounted' = accounted, refused \subseteq refused'
  PROVE  GenerationsInv'
<1>1. RecordsTyped /\ TodoTyped
  BY DEF GenerationsInv
<1>2. Len(todo) <= 1 /\ (Len(todo) >= 1 => todo[1][1] = "run")
  <2> PICK n : n = Len(todo)
    OBVIOUS
  <2>1. n = 0 \/ (n = 1 /\ todo[1][1] = "run")
    BY EmptyList
  <2>2. n <= 1 /\ (n >= 1 => todo[1][1] = "run")
    BY <2>1
  <2> QED BY <2>2
<1>3. IsList(T) /\ Fits(T)
  BY RegularFits
<1>4. Carries(T)
  BY <1>1, <1>2, <1>3, AloneCarries
<1>5. Answered(T) /\ Routed(T)
  BY <1>2 DEF Answered, Routed, Asks
<1>6. KvFollows
  BY <1>1, <1>2 DEF KvFollows, RecordsTyped, HeadIs, Is
<1>7. Len(todo) >= 1 => todo[1] # <<"retire", "v5">>
  BY <1>2
<1> QED BY <1>2, <1>3, <1>4, <1>5, <1>6, <1>7, Advance DEF Advances

\* The experiment that runs is in line, and nothing else is to be done.
LEMMA RunIs ==
  ASSUME GenerationsInv, Step("run")
  PROVE  /\ up /\ Len(todo) = 1 /\ Head(todo) = todo[1] /\ todo[1][1] = "run"
         /\ Arg(1) = todo[1][2] /\ Arg(2) = todo[1][3]
         /\ <<Arg(1), Arg(2)>> \in Queued
<1>1. RecordsTyped /\ TodoTyped
  BY DEF GenerationsInv
<1>2. up
  BY <1>1 DEF RecordsTyped, Step
<1>3. IsList(todo) /\ Len(todo) >= 1 /\ Head(todo) = todo[1] /\ todo[1][1] = "run"
  BY <1>1, Rest DEF Step, TodoTyped
<1>4. 1 \in 1..Len(todo)
  BY <1>3 DEF IsList
<1>5. StepTyped(todo[1], 1)
  BY <1>1, <1>4 DEF TodoTyped
<1>6. Arg(1) = todo[1][2] /\ Arg(2) = todo[1][3]
  BY <1>3, 1 + 1 = 2, 2 + 1 = 3 DEF Arg
<1> QED BY <1>2, <1>3, <1>5, <1>6 DEF StepTyped

\* What ran fails.
LEMMA FailSettles ==
  ASSUME RecordsTyped, NEW j \in Queued, row' = [row EXCEPT ![j] = "FAILED"]
  PROVE  RowSettles /\ row'[j] = "FAILED" /\ j \in Jobs
BY DEF RecordsTyped, RowSettles, Queued

\* After a failed epoch the next number of turbo is above all that is over.
LEMMA NextAfterFailure ==
  ASSUME RecordsTyped, InOrder, RowSettles, NEW i, <<"turbo", i>> \in Queued,
         row'[<<"turbo", i>>] = "FAILED"
  PROVE  NextNumber("turbo") \in Nat /\ BelowNext("turbo", NextNumber("turbo"))
<1>1. "turbo" \in ToSet(Engines) /\ "turbo" \in Numbered
  BY EngineNames DEF Numbered
<1>2. PICK n \in Nat : Numbers("turbo") = 0..n
  BY <1>1, NumbersAre
<1>3. i \in Numbers("turbo") /\ row[<<"turbo", i>>] = "QUEUED"
  BY JobIs DEF Queued
<1>4. i \in Known("turbo") /\ Known("turbo") \subseteq 0..n
  BY <1>2, <1>3 DEF Known
<1> PICK K : K = Known("turbo")
  OBVIOUS
<1> PICK m : m = Max(K)
  OBVIOUS
<1>5. K # {} /\ m \in K /\ \A y \in K : y <= m
  BY <1>4, GreatestOf
<1>6. NextNumber("turbo") = m + 1 /\ m \in Nat /\ m + 1 \in Nat
  BY <1>2, <1>4, <1>5 DEF NextNumber
<1>7. ASSUME NEW k \in Numbers("turbo"), k < m + 1
      PROVE  row'[<<"turbo", k>>] \notin {"absent", "QUEUED"}
  <2>1. Below("turbo", m)
    BY <1>1, <1>5 DEF InOrder
  <2>2. k < m \/ k = m
    BY <1>2, <1>6, <1>7
  <2>3. CASE k = i
    BY <2>3
  <2>4. CASE k # i
    <3>1. ~(i < m)
      <4>1. ~Over(<<"turbo", i>>)
        BY <1>3 DEF Over
      <4> QED BY <1>3, <2>1, <4>1 DEF Below
    <3>2. i <= m
      BY <1>4, <1>5
    <3>3. k < m
      BY <1>2, <1>3, <1>6, <2>2, <2>4, <3>1, <3>2
    <3>4. Over(<<"turbo", k>>)
      BY <2>1, <3>3 DEF Below
    <3>5. row[<<"turbo", k>>] \notin {"absent", "QUEUED"}
      BY <3>4 DEF Over
    <3>6. <<"turbo", k>> \in Jobs
      BY <1>1, JobIs
    <3> QED BY <3>5, <3>6 DEF RowSettles
  <2> QED BY <2>3, <2>4
<1> QED BY <1>6, <1>7 DEF BelowNext

\* What the loop does when it finds nothing to run, or when a run fails.
LEMMA LoopQuietKeeps ==
  ASSUME GenerationsInv, LiftForUpdate \/ Wait \/ Stall \/ FailOnce
  PROVE  GenerationsInv'
<1>1. RecordsTyped
  BY DEF GenerationsInv
<1>2. up /\ (todo = <<>> \/ (Len(todo) = 1 /\ todo[1][1] = "run"))
  BY RunIs DEF LiftForUpdate, Wait, Stall, Rests, Ready, Idle, FailOnce
<1>3. PICK T : todo' = T
  OBVIOUS
<1>4. AllRegular(T)
  <2>1. T = Clear \/ \E b, c : T = Writes(b, c)
    BY <1>3 DEF LiftForUpdate, Wait, Stall, Rests, FailOnce
  <2> QED BY <2>1, WritesRegular
<1>5. /\ up' = up /\ row' = row /\ kv' = kv /\ closure' = closure /\ accounted' = accounted
      /\ refused' = refused
  BY DEF LiftForUpdate, Wait, Stall, Rests, FailOnce
<1>6. RowSettles
  BY <1>1, <1>5 DEF RowSettles, RecordsTyped
<1> QED BY <1>2, <1>3, <1>4, <1>5, <1>6, AloneAdvance

\* A run that fails for good, and one that finds the grammar exhausted.
LEMMA FailureKeeps ==
  ASSUME GenerationsInv, FailForGood \/ Exhaust
  PROVE  GenerationsInv'
<1>1. RecordsTyped /\ InOrder
  BY DEF GenerationsInv
<1> PICK e, i : e = Arg(1) /\ i = Arg(2)
  OBVIOUS
<1>2. Step("run")
  BY DEF FailForGood, Exhaust
<1>3. up /\ Len(todo) = 1 /\ todo[1][1] = "run" /\ <<e, i>> \in Queued
  BY <1>2, RunIs
<1>4. /\ row' = [row EXCEPT ![<<e, i>>] = "FAILED"]
      /\ up' = up /\ kv' = kv /\ closure' = closure /\ accounted' = accounted
      /\ refused' = refused
  BY DEF FailForGood, Exhaust
<1>5. RowSettles /\ row'[<<e, i>>] = "FAILED"
  BY <1>1, <1>3, <1>4, FailSettles
<1>6. PICK T : todo' = T
  OBVIOUS
<1>7. AllRegular(T)
  <2>1. CASE \E b, c : T = Writes(b, c)
    BY <2>1, WritesRegular
  <2>2. ASSUME e = "turbo", T = Writes("EXPERIMENT_BLOCKED", "TURBO_FAILED") \o
                                Call("turbo", NextNumber("turbo"))
        PROVE  AllRegular(T)
    <3>1. NextNumber("turbo") \in Nat /\ BelowNext("turbo", NextNumber("turbo"))
      BY <1>1, <1>3, <1>5, <2>2, NextAfterFailure
    <3>2. /\ Name("turbo") = "turbo"
          /\ "turbo" \in Callable /\ "reconcile" \in {"reconcile", "start", "queue"}
      BY DEF Name, Callable
    <3>3. AllRegular(Call("turbo", NextNumber("turbo")))
      BY <3>1, <3>2, CallRegular DEF Call
    <3> QED BY <2>2, <3>3, WritesRegular, RegularJoin
  <2>3. CASE Exhaust
    <3>1. "cohort" \in Numbered
      BY DEF Numbered
    <3>2. PendingOrNext("cohort") \in Nat /\ Below("cohort", PendingOrNext("cohort"))
      BY <1>1, <3>1, NextFits
    <3>3. BelowNext("cohort", PendingOrNext("cohort"))
      BY <1>1, <1>5, <3>1, <3>2, BelowStays
    <3>4. Name("cohort") = "cohort" /\ "cohort" \in Callable
          /\ "reconcile" \in {"reconcile", "start", "queue"}
      BY DEF Name, Callable
    <3>5. AllRegular(Call("cohort", PendingOrNext("cohort")))
      BY <3>2, <3>3, <3>4, CallRegular DEF Call
    <3>6. AllRegular(<<Put("blocker", "TURBO_EXHAUSTED")>>)
      <4>1. "blocker" \in KvNames \ {"saturated", "sequence"} /\ "blocker" # "finalization"
        BY DEF KvNames
      <4> QED BY <4>1, PutRegular, RegularFew
    <3>7. T = Writes("EXPERIMENT_BLOCKED", "TURBO_FAILED") \o
              <<Put("blocker", "TURBO_EXHAUSTED")>> \o
              Call("cohort", PendingOrNext("cohort"))
      BY <1>6, <2>3 DEF Exhaust
    <3> QED BY <3>5, <3>6, <3>7, WritesRegular, RegularJoin
  <2>4. CASE FailForGood
    <3>1. \/ \E b, c : T = Writes(b, c)
          \/ e = "turbo" /\ T = Writes("EXPERIMENT_BLOCKED", "TURBO_FAILED") \o
                                Call("turbo", NextNumber("turbo"))
      BY <1>6, <2>4 DEF FailForGood
    <3> QED BY <2>1, <2>2, <3>1
  <2> QED BY <2>3, <2>4
<1> QED BY <1>3, <1>4, <1>5, <1>6, <1>7, AloneAdvance
\* Two steps and two more.
LEMMA TwoAndTwo ==
  ASSUME NEW s, NEW t, IsList(s), IsList(t), Len(s) = 2, Len(t) = 2
  PROVE  /\ IsList(s \o t) /\ Len(s \o t) = 4
         /\ (s \o t)[1] = s[1] /\ (s \o t)[2] = s[2]
         /\ (s \o t)[3] = t[1] /\ (s \o t)[4] = t[2]
<1> PICK l : l = s \o t
  OBVIOUS
<1>1. /\ IsList(l) /\ Len(l) = Len(s) + Len(t)
      /\ \A p \in 1..Len(s) : l[p] = s[p]
      /\ \A p \in Len(s) + 1..Len(s) + Len(t) : l[p] = t[p - Len(s)]
  BY Joined
<1>2. l[3] = t[3 - 2] /\ l[4] = t[4 - 2]
  BY <1>1, 3 \in 2 + 1..2 + 2, 4 \in 2 + 1..2 + 2
<1> QED BY <1>1, <1>2, 3 - 2 = 1, 4 - 2 = 2, 2 + 2 = 4, 1 \in 1..2, 2 \in 1..2

\* A forward update that is due is queued under the number of the mission
\* state, or finds its sources changed.
LEMMA UpdateDueKeeps ==
  ASSUME GenerationsInv, UpdateDue
  PROVE  GenerationsInv'
<1>1. RecordsTyped /\ TodoTyped /\ DueIsRouted /\ InOrder /\ UpdatesFit /\ V6Follows
  BY DEF GenerationsInv
<1>2. up /\ todo = <<>> /\ Len(todo) = 0
  BY EmptyList DEF UpdateDue, Idle
<1>3. Due = {}
  <2>1. 1..Len(todo) = {}
    BY <1>2
  <2> QED BY <1>1, <1>2, <2>1 DEF DueIsRouted
<1>4. /\ up' = up /\ row' = row /\ kv' = kv /\ closure' = closure /\ accounted' = accounted
      /\ refused \subseteq refused'
  BY DEF UpdateDue
<1>5. RowSettles
  BY <1>1, <1>4 DEF RowSettles, RecordsTyped
<1>6. CASE todo' = Mismatch.steps
  BY <1>2, <1>4, <1>5, <1>6, WritesRegular, AloneAdvance
<1>7. ASSUME todo' = QueueIt("update", kv.sequence) \o
                     <<Put("sequence", kv.sequence + 1)>> \o Clear
      PROVE  GenerationsInv'
  <2>a. PICK v, a, b, c, d : v = kv.sequence /\ a = <<"queue", "update", v>>
                      /\ b = <<"set", "sequence", v + 1>>
                      /\ c = <<"set", "phase", "PLANNING_NEXT_ACTION">>
                      /\ d = <<"set", "blocker", "none">>
    OBVIOUS
  <2>b. /\ a[1] = "queue" /\ a[2] = "update" /\ a[3] = v
        /\ b[1] = "set" /\ b[2] = "sequence" /\ b[3] = v + 1
        /\ c[1] = "set" /\ c[2] = "phase" /\ d[1] = "set" /\ d[2] = "blocker"
    BY <2>a
  <2>1. /\ v \in Numbers("update") /\ row[<<"update", v>>] = "absent"
        /\ Of("update", "QUEUED") = {} /\ Sequenced(v) /\ v \in Nat
    BY <1>1, <2>a DEF UpdateDue, UpdatesFit, Sequenced
  <2>2. Below("update", v)
    BY <2>1 DEF Below, Over, Sequenced, Of
  <2>3. /\ IsList(todo') /\ Len(todo') = 4
        /\ todo'[1] = a /\ todo'[2] = b /\ todo'[3] = c /\ todo'[4] = d
    <3>a. PICK ab, cd : ab = <<a>> \o <<b>> /\ cd = <<c, d>>
      OBVIOUS
    <3>1. todo' = ab \o cd
      BY <1>7, <2>a, <3>a DEF QueueIt, Put, Clear, Writes
    <3>2. IsList(ab) /\ Len(ab) = 2 /\ ab[1] = a /\ ab[2] = b
      BY <3>a, Joined, OneStep, 1 \in 1..1, 2 \in 1 + 1..1 + 1, 2 - 1 = 1, 1 + 1 = 2
    <3>3. IsList(cd) /\ Len(cd) = 2 /\ cd[1] = c /\ cd[2] = d
      BY <3>a, TwoSteps
    <3>4. /\ IsList(ab \o cd) /\ Len(ab \o cd) = 4
          /\ (ab \o cd)[1] = a /\ (ab \o cd)[2] = b /\ (ab \o cd)[3] = c /\ (ab \o cd)[4] = d
      BY <3>2, <3>3, TwoAndTwo
    <3> QED BY <3>1, <3>4
  <2>4. ASSUME NEW p \in 1..Len(todo')
        PROVE  \/ p = 1 /\ todo'[p] = a
               \/ p = 2 /\ todo'[p] = b
               \/ p = 3 /\ todo'[p] = c
               \/ p = 4 /\ todo'[p] = d
    <3>1. p \in 1..4
      BY <2>3
    <3>2. p = 1 \/ p = 2 \/ p = 3 \/ p = 4
      BY <3>1
    <3> QED BY <2>3, <3>2
  <2>5. Due' = Due /\ \A e, i : Below(e, i)' = Below(e, i)
    BY <1>4 DEF Due, Completed, Below, Over
  <2>6. RecordsTyped'
    BY <1>1, <1>2, <1>4 DEF RecordsTyped, Completed
  <2>7. TodoTyped'
    <3>1. ASSUME NEW p, NEW s, s \in {a, b, c, d} PROVE StepTyped(s, p)'
      BY <2>b, <3>1 DEF StepTyped, Is, KvNames, Callable
    <3>2. ASSUME NEW p \in 1..Len(todo') PROVE StepTyped(todo[p], p)'
      <4> PICK s : s = todo'[p]
        OBVIOUS
      <4>1. StepTyped(s, p)'
        BY <2>4, <3>1
      <4> QED BY <4>1
    <3> QED BY <2>3, <3>2 DEF TodoTyped
  <2>8. DueIsRouted'
    BY <1>3, <2>5 DEF DueIsRouted
  <2>9. \A e : \A p \in 1..Len(todo') : Asks(todo[p], e)' => e = "update" /\ p = 1 /\ todo'[p] = a
    BY <2>4, <2>b DEF Asks, Name
  <2>10. InOrder'
    <3>1. ASSUME NEW e \in Numbered, NEW i \in Known(e)' PROVE Below(e, i)'
      BY <1>1, <1>4, <2>5 DEF InOrder, Known
    <3>2. ASSUME NEW e \in Numbered, NEW p \in 1..Len(todo'), Asks(todo[p], e)'
          PROVE  todo'[p][3] \in Nat /\ Below(e, todo[p][3])'
      <4>1. e = "update" /\ todo'[p] = a
        BY <2>9, <3>2
      <4>2. Below("update", v)'
        BY <2>2, <2>5
      <4>3. todo'[p][3] = v
        BY <2>b, <4>1
      <4> QED BY <2>1, <4>1, <4>2, <4>3 DEF Below, Over
    <3> QED BY <3>1, <3>2 DEF InOrder
  <2>11. UpdatesFit'
    <3>1. \A w : Sequenced(w)' = Sequenced(w)
      BY <1>4 DEF Sequenced
    <3>2. Sequenced(kv.sequence)'
      BY <1>1, <1>4, <3>1 DEF UpdatesFit
    <3>3. ASSUME NEW p \in 1..Len(todo'), Is(todo[p], "sequence")'
          PROVE  p = 2
      BY <2>4, <2>b, <3>3 DEF Is
    <3>4. todo'[2][3] = v + 1 /\ Sequenced(v)' /\ todo'[1] = <<"queue", "update", v>>
      BY <2>1, <2>3, <2>a, <2>b, <3>1
    <3> QED BY <2>1, <3>2, <3>3, <3>4 DEF UpdatesFit
  <2>12. PromotionsFit'
    <3>1. \A p \in 1..Len(todo') : todo'[p][1] # "run"
      BY <2>4, <2>b
    <3> QED BY <1>4, <2>5, <2>9, <3>1 DEF GenerationsInv, PromotionsFit, Of
  <2>13. V6Follows'
    <3>1. V5IsOver'
      <4>1. \A p \in 1..Len(todo') : ~Asks(todo[p], "v5")'
        BY <2>9, "v5" # "update" DEF Asks
      <4> QED BY <1>3, <2>5, <4>1 DEF V5IsOver
    <3>2. \A p \in 1..Len(todo') : ~Is(todo[p], "saturated")'
      BY <2>4, <2>b DEF Is
    <3>3. \A p \in 1..Len(todo') : ~Asks(todo[p], "v6")'
      BY <2>9, "v6" # "update" DEF Asks
    <3>4. /\ Known("v6")' # {} => kv'.saturated = TRUE
          /\ kv'.saturated = TRUE => Of("v5", "QUEUED")' = {}
      BY <1>1, <1>4 DEF V6Follows, Known, Of
    <3> QED BY <3>1, <3>2, <3>3, <3>4 DEF V6Follows
  <2>14. FollowUpsCome'
    <3>1. \A p \in 1..Len(todo') : todo'[p][1] # "accounted"
      BY <2>4, <2>b
    <3>2. ASSUME NEW j \in accounted, FollowedUp(j, 0) PROVE FollowedUp(j, 0)'
      BY <1>4, <3>2 DEF FollowedUp, Comes, ClosureComes, Ends, GoesOn, InDebt
    <3> QED BY <1>4, <3>1, <3>2 DEF FollowUpsCome, GenerationsInv
  <2> QED BY <2>6, <2>7, <2>8, <2>10, <2>11, <2>12, <2>13, <2>14 DEF GenerationsInv
<1> QED BY <1>6, <1>7 DEF UpdateDue
\* The list begins anew, with steps that ask for nothing; what runs may come
\* to an end.
Anew ==
  /\ IsList(todo') /\ (up' \/ todo' = <<>>)
  /\ \A p \in 1..Len(todo') :
       /\ todo'[p][1] \in {"completed", "collect", "settle", "run"}
       /\ todo'[p][1] = "run" =>
            Len(todo') = 1 /\ <<todo'[p][2], todo'[p][3]>> \in Queued'
       /\ todo'[p][1] = "collect" => p = Len(todo')
  /\ row' = [j \in Jobs |-> row'[j]]
  /\ \A j \in Jobs : \/ row'[j] = row[j]
                     \/ row[j] = "QUEUED" /\ row'[j] \in Results(j[1]) \cup {"FAILED"}
  /\ kv' = [f \in KvNames |-> kv'[f]]
  /\ kv'.saturated = kv.saturated /\ kv'.sequence = kv.sequence
  /\ kv'.finalization = kv.finalization
  /\ closure' = closure /\ accounted' = accounted /\ refused' = refused

\* What it keeps: all but the routing of what has come to an end.
LEMMA AnewKeeps ==
  ASSUME GenerationsInv, Anew, DueIsRouted', PromotionsFit'
  PROVE  GenerationsInv'
<1>1. RecordsTyped /\ InOrder /\ UpdatesFit /\ V6Follows /\ FollowUpsCome
  BY DEF GenerationsInv
<1>2. ASSUME NEW p \in 1..Len(todo')
      PROVE  /\ \A e : ~Asks(todo[p], e)'
             /\ \A f : ~Is(todo[p], f)'
             /\ todo'[p][1] \notin
                  {"set", "reconcile", "start", "queue", "route", "accounted", "v6"}
  BY DEF Anew, Asks, Is
<1>3. ASSUME NEW j \in Jobs
      PROVE  /\ row'[j] \in Statuses(j[1])
             /\ (row'[j] = "absent") = (row[j] = "absent")
             /\ row'[j] = "QUEUED" => row[j] = "QUEUED"
             /\ row[j] # "QUEUED" => row'[j] = row[j]
             /\ Completed(j) => row'[j] = row[j] /\ Completed(j)'
             /\ Over(j) => Over(j)'
  <2>1. \A e : {"absent", "QUEUED", "FAILED"} \cap Results(e) = {}
    BY DEF Results
  <2>2. row[j] \in Statuses(j[1]) /\ Statuses(j[1])' = Statuses(j[1])
    BY <1>1 DEF RecordsTyped, Statuses, Results
  <2>3. \/ row'[j] = row[j]
        \/ row[j] = "QUEUED" /\ row'[j] \in Results(j[1]) \cup {"FAILED"}
    BY DEF Anew
  <2>4. row'[j] \in Statuses(j[1])
    BY <2>2, <2>3 DEF Statuses
  <2>5. row[j] # "QUEUED" => row'[j] = row[j]
    BY <2>3
  <2>6. Completed(j) => row[j] # "QUEUED"
    BY <2>1 DEF Completed
  <2>7. Over(j) => row[j] # "QUEUED"
    BY <2>6 DEF Over
  <2> QED BY <2>1, <2>3, <2>4, <2>5, <2>6, <2>7 DEF Completed, Over
<1>4. \A e : \A i \in Numbers(e) : e \in ToSet(Engines) => <<e, i>> \in Jobs
  BY JobIs
<1>5. /\ Numbered \subseteq ToSet(Engines)
      /\ {"v5", "v6", "turbo", "cohort", "promotion", "update"} \subseteq ToSet(Engines)
  BY EngineNames DEF Numbered
<1>6. RecordsTyped'
  <2>1. accounted' \subseteq {j \in Jobs : Completed(j)'}
    BY <1>1, <1>3 DEF Anew, RecordsTyped
  <2> QED BY <1>1, <1>3, <2>1 DEF Anew, RecordsTyped
<1>7. TodoTyped'
  <2>1. ASSUME NEW p \in 1..Len(todo') PROVE StepTyped(todo[p], p)'
    BY <1>2 DEF Anew, StepTyped, Is
  <2> QED BY <2>1 DEF TodoTyped, Anew
<1>8. InOrder'
  <2>1. ASSUME NEW e \in Numbered, NEW i \in Known(e)' PROVE Below(e, i)'
    <3>1. i \in Known(e)
      BY <1>3, <1>4, <1>5 DEF Known
    <3>2. Below(e, i)
      BY <1>1, <3>1 DEF InOrder
    <3> QED BY <1>3, <1>4, <1>5, <3>2 DEF Below
  <2> QED BY <1>2, <2>1 DEF InOrder
<1>9. UpdatesFit'
  <2>1. Sequenced(kv.sequence)'
    BY <1>1, <1>3, <1>4, <1>5 DEF UpdatesFit, Sequenced, Anew
  <2> QED BY <1>2, <2>1 DEF UpdatesFit
<1>10. V6Follows'
  <2>1. Known("v6")' # {} => kv'.saturated = TRUE
    BY <1>1, <1>3, <1>4, <1>5 DEF V6Follows, Known, Anew
  <2>2. ASSUME kv'.saturated = TRUE PROVE V5IsOver' /\ Of("v5", "QUEUED")' = {}
    <3>1. kv.saturated = TRUE
      BY <2>2 DEF Anew
    <3>2. V5IsOver /\ Of("v5", "QUEUED") = {}
      BY <1>1, <3>1 DEF V6Follows
    <3>3. ASSUME NEW i \in Numbers("v5") PROVE row'[<<"v5", i>>] = row[<<"v5", i>>]
      BY <1>3, <1>4, <1>5, <3>2 DEF Of
    <3>4. ASSUME NEW i \in Numbers("v5"), <<"v5", i>> \in Due' PROVE FALSE
      <4>1. <<"v5", i>> \in Due
        BY <3>3, <3>4 DEF Due, Completed, Anew
      <4> QED BY <3>2, <4>1 DEF V5IsOver
    <3>5. Of("v5", "QUEUED")' = {}
      BY <3>2, <3>3 DEF Of
    <3> QED BY <1>2, <3>4, <3>5 DEF V5IsOver
  <2> QED BY <1>2, <2>1, <2>2 DEF V6Follows
<1>11. FollowUpsCome'
  <2>1. ASSUME NEW e \in ToSet(Engines), NEW i, GoesOn(e, i) PROVE GoesOn(e, i)'
    BY <1>3, <1>4, <2>1 DEF GoesOn, Anew
  <2>2. ASSUME NEW e \in ToSet(Engines), NEW i, Comes(e, i, 0) PROVE Comes(e, i, 0)'
    BY <2>1, <2>2 DEF Comes
  <2>3. ASSUME NEW i, ClosureComes(i, 0) PROVE ClosureComes(i, 0)'
    BY <1>5, <2>1, <2>3 DEF ClosureComes
  <2>4. Ends(0) => Ends(0)'
    BY DEF Ends, Anew
  <2>5. ASSUME NEW j \in accounted PROVE FollowedUp(j, 0)'
    <3>1. j \in Jobs /\ row'[j] = row[j] /\ FollowedUp(j, 0)
      BY <1>1, <1>3 DEF RecordsTyped, FollowUpsCome
    <3>2. j[1] = "cohort" => (InDebt(j[2])' = InDebt(j[2]))
      BY <3>1, JobIs DEF InDebt
    <3>3. closure' = closure
      BY DEF Anew
    <3>4. j[1] \in {"turbo", "v5", "v6"} => Comes(j[1], j[2] + 1, 0)'
      BY <1>5, <2>2, <3>1 DEF FollowedUp
    <3>5. j[1] = "turbo" /\ row'[j] = "candidates" => Comes("promotion", j[2], 0)'
      BY <1>5, <2>2, <3>1 DEF FollowedUp
    <3>6. ASSUME j[1] = "cohort", InDebt(j[2])'
          PROVE  IF j[2] \in closure' THEN ClosureComes(j[2] + 1, 0)'
                 ELSE Comes("cohort", j[2] + 1, 0)' \/ Ends(0)'
      <4>1. InDebt(j[2])
        BY <3>2, <3>6
      <4>2. IF j[2] \in closure THEN ClosureComes(j[2] + 1, 0)
            ELSE Comes("cohort", j[2] + 1, 0) \/ Ends(0)
        BY <3>1, <3>6, <4>1 DEF FollowedUp
      <4>3. CASE j[2] \in closure
        BY <2>3, <3>3, <4>2, <4>3
      <4>4. CASE j[2] \notin closure
        BY <1>5, <2>2, <2>4, <3>3, <4>2, <4>4
      <4> QED BY <4>3, <4>4
    <3> QED BY <3>4, <3>5, <3>6 DEF FollowedUp
  <2> QED BY <1>2, <2>5 DEF FollowUpsCome, Anew
<1> QED BY <1>6, <1>7, <1>8, <1>9, <1>10, <1>11 DEF GenerationsInv
\* With the same results to be routed, and nothing run, promotions still fit.
LEMMA AnewPromotions ==
  ASSUME GenerationsInv, Anew, Due' = Due,
         \A p \in 1..Len(todo') : todo'[p][1] = "run" /\ todo'[p][2] = "turbo" =>
           Of("promotion", "QUEUED") = {}
  PROVE  PromotionsFit'
<1>1. PromotionsFit
  BY DEF GenerationsInv
<1>2. ASSUME NEW k \in Of("promotion", "QUEUED")' PROVE k \in Of("promotion", "QUEUED")
  <2>1. k \in Numbers("promotion") /\ row'[<<"promotion", k>>] = "QUEUED"
    BY <1>2 DEF Of
  <2>2. <<"promotion", k>> \in Jobs
    BY <2>1, JobIs, EngineNames
  <2>3. "QUEUED" \notin Results("promotion") \cup {"FAILED"}
    BY DEF Results
  <2>4. row[<<"promotion", k>>] = "QUEUED"
    BY <2>1, <2>2, <2>3 DEF Anew
  <2> QED BY <2>1, <2>4 DEF Of
<1>3. \A p \in 1..Len(todo') : ~Asks(todo[p], "promotion")'
  BY DEF Anew, Asks
<1>4. ASSUME NEW k \in Of("promotion", "QUEUED")'
      PROVE  /\ \A i \in Numbers("turbo") : <<"turbo", i>> \in Due' => i = k
             /\ \A i \in Of("promotion", "QUEUED")' : i = k
             /\ \A p \in 1..Len(todo') : todo'[p][1] = "run" => todo'[p][2] # "turbo"
  BY <1>1, <1>2, <1>4 DEF PromotionsFit
<1> QED BY <1>1, <1>3, <1>4 DEF PromotionsFit

\* The controller begins with the results that are to be routed.
LEMMA StartKeeps ==
  ASSUME GenerationsInv, Start
  PROVE  GenerationsInv'
<1>1. RecordsTyped
  BY DEF GenerationsInv
<1>2. todo' = << <<"completed">>, <<"collect">> >> /\ up' = TRUE
  BY DEF Start
<1>3. /\ IsList(todo') /\ Len(todo') = 2
      /\ todo'[1] = <<"completed">> /\ todo'[2] = <<"collect">>
  BY <1>2, TwoSteps
<1>4. ASSUME NEW p \in 1..Len(todo')
      PROVE  todo'[p][1] = "completed" \/ (todo'[p][1] = "collect" /\ p = Len(todo'))
  <2>1. p = 1 \/ p = 2
    BY <1>3
  <2> QED BY <1>3, <2>1
<1>5. /\ kv' = [f \in KvNames |-> kv'[f]] /\ kv'.saturated = kv.saturated
      /\ kv'.sequence = kv.sequence /\ kv'.finalization = kv.finalization
  BY <1>1 DEF Start, RecordsTyped, KvNames
<1>6. row' = row /\ closure' = closure /\ accounted' = accounted /\ refused' = refused
  BY DEF Start
<1>7. Anew
  BY <1>1, <1>2, <1>3, <1>4, <1>5, <1>6 DEF Anew, RecordsTyped
<1>8. Due' = Due
  BY <1>6 DEF Due, Completed
<1>9. DueIsRouted'
  <2>1. 1 \in 1..Len(todo') /\ todo'[1][1] = "completed"
    BY <1>3
  <2> QED BY <2>1 DEF DueIsRouted
<1>10. PromotionsFit'
  BY <1>4, <1>7, <1>8, AnewPromotions
<1> QED BY <1>7, <1>9, <1>10, AnewKeeps

\* What has the highest priority is run.
LEMMA RunKeeps ==
  ASSUME GenerationsInv, Run
  PROVE  GenerationsInv'
<1>1. RecordsTyped /\ DueIsRouted
  BY DEF GenerationsInv
<1>2. up /\ todo = <<>> /\ up' = up
  BY DEF Run, Ready, Idle
<1>3. Due = {}
  <2>1. 1..Len(todo) = {}
    BY <1>2, EmptyList
  <2> QED BY <1>1, <1>2, <2>1 DEF DueIsRouted
<1>4. PICK j \in Queued : /\ \A k \in Queued : Priority[j[1]] >= Priority[k[1]]
                          /\ todo' = << <<"run", j[1], j[2]>> >>
  BY DEF Run
<1>5. j = <<j[1], j[2]>>
  BY JobIs DEF Queued
<1>6. IsList(todo') /\ Len(todo') = 1 /\ todo'[1] = <<"run", j[1], j[2]>>
  BY <1>4, OneStep
<1>7. /\ kv' = [f \in KvNames |-> kv'[f]] /\ kv'.saturated = kv.saturated
      /\ kv'.sequence = kv.sequence /\ kv'.finalization = kv.finalization
  BY <1>1 DEF Run, RecordsTyped, KvNames
<1>8. row' = row /\ closure' = closure /\ accounted' = accounted /\ refused' = refused
  BY DEF Run
<1>9. Due' = Due /\ Queued' = Queued
  BY <1>8 DEF Due, Completed, Queued
<1>10. ASSUME NEW p \in 1..Len(todo')
       PROVE  todo'[p][1] = "run" /\ todo'[p][2] = j[1] /\ todo'[p][3] = j[2]
  <2>1. p = 1
    BY <1>6
  <2> QED BY <1>6, <2>1
<1>11. Anew
  BY <1>1, <1>2, <1>5, <1>6, <1>7, <1>8, <1>9, <1>10 DEF Anew, RecordsTyped
<1>12. DueIsRouted'
  BY <1>3, <1>9 DEF DueIsRouted
<1>13. j[1] = "turbo" => Of("promotion", "QUEUED") = {}
  <2> SUFFICES ASSUME j[1] = "turbo", NEW k \in Of("promotion", "QUEUED") PROVE FALSE
    OBVIOUS
  <2>1. <<"promotion", k>> \in Queued
    BY JobIs, EngineNames DEF Of, Queued
  <2>2. Priority["turbo"] >= Priority["promotion"]
    BY <1>4, <2>1
  <2> QED BY <2>2 DEF Priority
<1>14. PromotionsFit'
  BY <1>9, <1>10, <1>11, <1>13, AnewPromotions
<1> QED BY <1>11, <1>12, <1>14, AnewKeeps

\* A stop leaves no steps, a crash neither; a run that was cut off may fail.
LEMMA DownKeeps ==
  ASSUME GenerationsInv, StopCleanly \/ Crash
  PROVE  GenerationsInv'
<1>1. RecordsTyped
  BY DEF GenerationsInv
<1>2. todo' = <<>> /\ up' = FALSE /\ closure' = closure /\ accounted' = accounted
      /\ refused' = refused
  BY DEF StopCleanly, Crash
<1>3. IsList(todo') /\ Len(todo') = 0
  BY <1>2, EmptyList
<1>4. 1..Len(todo') = {}
  BY <1>3
<1>5. /\ kv' = [f \in KvNames |-> kv'[f]] /\ kv'.saturated = kv.saturated
      /\ kv'.sequence = kv.sequence /\ kv'.finalization = kv.finalization
  BY <1>1 DEF StopCleanly, Crash, RecordsTyped, KvNames
<1>6. row' = row \/ \E j \in Queued : row' = [row EXCEPT ![j] = "FAILED"]
  BY RunIs DEF StopCleanly, Crash
<1>7. RowSettles /\ \A j \in Jobs : row'[j] = row[j] \/ (row[j] = "QUEUED" /\ row'[j] = "FAILED")
  <2>1. CASE row' = row
    BY <1>1, <2>1 DEF RowSettles, RecordsTyped
  <2>2. ASSUME NEW j \in Queued, row' = [row EXCEPT ![j] = "FAILED"]
        PROVE  /\ RowSettles
               /\ \A k \in Jobs : row'[k] = row[k] \/ (row[k] = "QUEUED" /\ row'[k] = "FAILED")
    BY <1>1, <2>2 DEF RowSettles, RecordsTyped, Queued
  <2> QED BY <1>6, <2>1, <2>2
<1>8. Anew
  BY <1>2, <1>3, <1>4, <1>5, <1>7 DEF Anew, RowSettles
<1>9. Due' = Due
  BY <1>1, <1>2, <1>7, RowsStay DEF Due
<1>10. DueIsRouted'
  BY <1>2 DEF DueIsRouted
<1>11. PromotionsFit'
  BY <1>4, <1>8, <1>9, AnewPromotions
<1> QED BY <1>8, <1>10, <1>11, AnewKeeps

\* What ran has its result, which is the one to be routed.
LEMMA FinishKeeps ==
  ASSUME GenerationsInv, Finish
  PROVE  GenerationsInv'
<1>1. RecordsTyped /\ DueIsRouted /\ PromotionsFit
  BY DEF GenerationsInv
<1>2. PICK e, i : e = Arg(1) /\ i = Arg(2)
  OBVIOUS
<1>3. up /\ Len(todo) = 1 /\ todo[1][1] = "run" /\ todo[1][2] = e /\ <<e, i>> \in Queued
  BY <1>2, RunIs DEF Finish
<1>4. PICK r \in Results(e) : row' = [row EXCEPT ![<<e, i>>] = r]
  BY <1>2 DEF Finish
<1>5. /\ todo' = << <<"completed">>, <<"settle">> >> /\ up' = up /\ kv' = kv
      /\ closure' = closure /\ accounted' = accounted /\ refused' = refused
  BY DEF Finish
<1>6. /\ IsList(todo') /\ Len(todo') = 2
      /\ todo'[1] = <<"completed">> /\ todo'[2] = <<"settle">>
  BY <1>5, TwoSteps
<1>7. ASSUME NEW p \in 1..Len(todo') PROVE todo'[p][1] \in {"completed", "settle"}
  <2>1. p = 1 \/ p = 2
    BY <1>6
  <2> QED BY <1>6, <2>1
<1>8. Due = {}
  <2>1. \A p \in 1..Len(todo) : todo[p][1] # "completed"
    BY <1>3
  <2> QED BY <1>1, <1>3, <2>1 DEF DueIsRouted
<1>9. /\ row' = [j \in Jobs |-> row'[j]]
      /\ row[<<e, i>>] = "QUEUED" /\ row'[<<e, i>>] = r /\ <<e, i>> \in Jobs
      /\ \A j \in Jobs : j # <<e, i>> => row'[j] = row[j]
  BY <1>1, <1>3, <1>4 DEF RecordsTyped, Queued
<1>10. Anew
  <2>1. \A j \in Jobs : \/ row'[j] = row[j]
                        \/ row[j] = "QUEUED" /\ row'[j] \in Results(j[1]) \cup {"FAILED"}
    BY <1>9
  <2> QED BY <1>1, <1>3, <1>5, <1>6, <1>7, <1>9, <2>1 DEF Anew, RecordsTyped
<1>11. \A j \in Due' : j = <<e, i>>
  BY <1>5, <1>8, <1>9 DEF Due, Completed
<1>12. DueIsRouted'
  <2>1. 1 \in 1..Len(todo') /\ todo'[1][1] = "completed"
    BY <1>6
  <2> QED BY <2>1 DEF DueIsRouted
<1>13. PromotionsFit'
  <2>1. \A p \in 1..Len(todo') : ~Asks(todo[p], "promotion")'
    BY <1>7 DEF Asks
  <2>2. \A p \in 1..Len(todo') : todo'[p][1] # "run"
    BY <1>7
  <2>3. \A n \in Numbers("turbo") : <<"turbo", n>> \in Due' => n = i /\ e = "turbo"
    BY <1>11
  <2>4. ASSUME NEW k \in Of("promotion", "QUEUED")' PROVE k \in Of("promotion", "QUEUED")
    <3>1. k \in Numbers("promotion") /\ row'[<<"promotion", k>>] = "QUEUED"
      BY <2>4 DEF Of
    <3>2. <<"promotion", k>> \in Jobs
      BY <3>1, JobIs, EngineNames
    <3>3. "QUEUED" \notin Results("promotion")
      BY DEF Results
    <3>4. <<"promotion", k>> # <<e, i>>
      BY <1>4, <1>9, <3>1, <3>3
    <3>5. row[<<"promotion", k>>] = "QUEUED"
      BY <1>9, <3>1, <3>2, <3>4
    <3> QED BY <3>1, <3>5 DEF Of
  <2>5. ASSUME NEW k \in Of("promotion", "QUEUED")'
        PROVE  /\ \A n \in Numbers("turbo") : <<"turbo", n>> \in Due' => n = k
               /\ \A n \in Of("promotion", "QUEUED")' : n = k
    <3>1. k \in Of("promotion", "QUEUED")
      BY <2>4, <2>5
    <3>2. \A p \in 1..Len(todo) : todo[p][1] = "run" => todo[p][2] # "turbo"
      BY <1>1, <3>1 DEF PromotionsFit
    <3>3. e # "turbo"
      BY <1>3, <3>2, 1 \in 1..1
    <3> QED BY <1>1, <2>3, <2>4, <3>1, <3>3 DEF PromotionsFit
  <2> QED BY <2>1, <2>2, <2>3, <2>5 DEF PromotionsFit
<1> QED BY <1>10, <1>12, <1>13, AnewKeeps
-----------------------------------------------------------------------------
(* The invariant.                                                          *)

\* It holds before the first start, with nothing in line.
LEMMA InvInit ==
  ASSUME GenerationsInit
  PROVE  GenerationsInv
<1>1. todo = <<>> /\ up = FALSE /\ Len(todo) = 0 /\ IsList(todo) /\ 1..Len(todo) = {}
  <2>1. 1..0 = {}
    OBVIOUS
  <2> QED BY <2>1, EmptyList DEF GenerationsInit
<1>2. row = [j \in Jobs |-> "absent"] /\ accounted = {}
  BY DEF GenerationsInit
<1>3. ASSUME NEW j \in Jobs PROVE row[j] = "absent" /\ row[j] \in Statuses(j[1]) /\ ~Completed(j)
  BY <1>2 DEF Statuses, Completed, Results
<1>4. ASSUME NEW e \in ToSet(Engines)
      PROVE  Known(e) = {} /\ Of(e, "QUEUED") = {}
  BY <1>3, JobIs DEF Known, Of
<1>5. Due = {}
  BY <1>3 DEF Due
<1>6. kv = [f \in KvNames |-> kv[f]] /\ kv.saturated = FALSE /\ kv.sequence = 0
  BY DEF GenerationsInit, KvNames
<1>7. /\ Numbered \subseteq ToSet(Engines)
      /\ {"v5", "v6", "update", "promotion", "turbo"} \subseteq ToSet(Engines)
  BY EngineNames DEF Numbered
<1>8. RecordsTyped
  BY <1>1, <1>2, <1>3, <1>6 DEF RecordsTyped
<1>9. TodoTyped /\ DueIsRouted /\ InOrder
  BY <1>1, <1>4, <1>5, <1>7 DEF TodoTyped, DueIsRouted, InOrder
<1>10. UpdatesFit
  <2>1. \A k \in Numbers("update") : ~(k < 0)
    <3>1. PICK n \in Nat : Numbers("update") = 0..n
      BY <1>7, NumbersAre
    <3> QED BY <3>1
  <2> QED BY <1>1, <1>6, <2>1 DEF UpdatesFit, Sequenced
<1>11. PromotionsFit
  BY <1>1, <1>4, <1>5, <1>7 DEF PromotionsFit
<1>12. V6Follows
  BY <1>1, <1>4, <1>6, <1>7 DEF V6Follows
<1>13. FollowUpsCome
  BY <1>1, <1>2 DEF FollowUpsCome
<1> QED BY <1>8, <1>9, <1>10, <1>11, <1>12, <1>13 DEF GenerationsInv

\* And without a step.
LEMMA InvStutters ==
  ASSUME GenerationsInv, UNCHANGED vars
  PROVE  GenerationsInv'
<1>1. /\ up' = up /\ kv' = kv /\ row' = row /\ closure' = closure /\ accounted' = accounted
      /\ todo' = todo /\ refused' = refused
  BY DEF vars
<1>2. RecordsTyped'
  BY <1>1 DEF GenerationsInv, RecordsTyped, Completed
<1>3. TodoTyped'
  <2>1. ASSUME NEW s, NEW p, StepTyped(s, p) PROVE StepTyped(s, p)'
    BY <1>1, <2>1 DEF StepTyped, Queued, Due, Completed
  <2>2. ASSUME NEW p \in 1..Len(todo) PROVE StepTyped(todo[p], p)'
    <3>1. StepTyped(todo[p], p)
      BY DEF GenerationsInv, TodoTyped
    <3> PICK s : s = todo[p]
      OBVIOUS
    <3>2. StepTyped(s, p)'
      BY <2>1, <3>1
    <3> QED BY <1>1, <3>2
  <2> QED BY <1>1, <2>2 DEF GenerationsInv, TodoTyped
<1>4. Due' = Due
  BY <1>1 DEF Due, Completed
<1>5. DueIsRouted'
  BY <1>1, <1>4 DEF GenerationsInv, DueIsRouted
<1>6. InOrder'
  <2>1. \A e, i : Below(e, i)' = Below(e, i)
    BY <1>1 DEF Below, Over, Completed
  <2> QED BY <1>1, <2>1 DEF GenerationsInv, InOrder, Known, Asks
<1>7. UpdatesFit'
  BY <1>1 DEF GenerationsInv, UpdatesFit, Sequenced, Is
<1>8. PromotionsFit'
  BY <1>1, <1>4 DEF GenerationsInv, PromotionsFit, Of, Asks
<1>9. V6Follows'
  BY <1>1, <1>4 DEF GenerationsInv, V6Follows, V5IsOver, Of, Known, Asks, Is
<1>10. FollowUpsCome'
  <2>1. \A j, n : FollowedUp(j, n)' = FollowedUp(j, n)
    BY <1>1 DEF FollowedUp, Comes, ClosureComes, Ends, GoesOn, InDebt, Asks, Is
  <2> QED BY <1>1, <2>1 DEF GenerationsInv, FollowUpsCome
<1> QED BY <1>2, <1>3, <1>5, <1>6, <1>7, <1>8, <1>9, <1>10 DEF GenerationsInv

\* Every step keeps it.
LEMMA InvStep ==
  ASSUME GenerationsInv, [GenerationsNext]_vars
  PROVE  GenerationsInv'
<1>1. CASE Start
  BY <1>1, StartKeeps
<1>2. CASE Work
  <2>1. CASE SetKv
    BY <2>1, SetKvKeeps
  <2>2. CASE Enqueue
    BY <2>2, EnqueueKeeps
  <2>3. CASE RetireQueued
    BY <2>3, RetireKeeps
  <2>4. CASE RouteResult
    BY <2>4, RouteResultKeeps
  <2>5. CASE RecordAccounted
    BY <2>5, RecordAccountedKeeps
  <2>6. CASE ResolveNow
    BY <2>6, ResolvingKeeps DEF ResolveNow
  <2>7. CASE ResolveAtStart
    BY <2>7, ResolvingKeeps DEF ResolveAtStart
  <2>8. CASE CohortFollowed \/ Settle \/ Conclude \/ Reevaluate
    BY <2>8, PlainKeeps
  <2>9. CASE RouteCompleted
    BY <2>9, RouteCompletedKeeps
  <2>10. CASE Collect
    BY <2>10, CollectKeeps
  <2>11. CASE StartV6
    BY <2>11, StartV6Keeps
  <2>12. CASE StartV5
    BY <2>12, StartV5Keeps
  <2> QED BY <1>2, <2>1, <2>2, <2>3, <2>4, <2>5, <2>6, <2>7, <2>8, <2>9, <2>10, <2>11, <2>12
          DEF Work
<1>3. CASE Loop
  <2>1. CASE UpdateDue
    BY <2>1, UpdateDueKeeps
  <2>2. CASE LiftForUpdate \/ Wait \/ Stall \/ FailOnce
    BY <2>2, LoopQuietKeeps
  <2>3. CASE Run
    BY <2>3, RunKeeps
  <2>4. CASE Finish
    BY <2>4, FinishKeeps
  <2>5. CASE FailForGood \/ Exhaust
    BY <2>5, FailureKeeps
  <2> QED BY <1>3, <2>1, <2>2, <2>3, <2>4, <2>5 DEF Loop
<1>4. CASE StopCleanly \/ Crash
  BY <1>4, DownKeeps
<1>5. CASE UNCHANGED vars
  BY <1>5, InvStutters
<1> QED BY <1>1, <1>2, <1>3, <1>4, <1>5 DEF GenerationsNext

\* The invariant holds in every behaviour.
THEOREM GenerationsInvariance == GenerationsSpec => []GenerationsInv
BY InvInit, InvStep, PTL DEF GenerationsSpec

\* One experiment of an engine is in line at a time, whatever the crashes.
THEOREM OneIsInLine == GenerationsSpec => []OneInLine
<1>1. ASSUME GenerationsInv PROVE OneInLine
  <2>1. ASSUME NEW e \in ToSet(Engines), NEW i \in Of(e, "QUEUED"), NEW k \in Of(e, "QUEUED")
        PROVE  i = k
    <3>1. /\ i \in Numbers(e) /\ k \in Numbers(e)
          /\ row[<<e, i>>] = "QUEUED" /\ row[<<e, k>>] = "QUEUED"
      BY DEF Of
    <3>2. CASE e \in Single
      BY <3>1, <3>2 DEF Numbers
    <3>3. CASE e = "promotion"
      BY <1>1, <3>3 DEF GenerationsInv, PromotionsFit
    <3>4. CASE e \in Numbered
      <4>1. i \in Known(e) /\ k \in Known(e)
        BY <3>1 DEF Known
      <4>2. ~Over(<<e, i>>) /\ ~Over(<<e, k>>)
        BY <3>1 DEF Over, Completed, Results
      <4>3. Below(e, i) /\ Below(e, k)
        BY <1>1, <3>4, <4>1 DEF GenerationsInv, InOrder
      <4>4. ~(i < k) /\ ~(k < i)
        BY <3>1, <4>2, <4>3 DEF Below
      <4>5. PICK n \in Nat : Numbers(e) = 0..n
        BY NumbersAre
      <4> QED BY <3>1, <4>4, <4>5
    <3>5. e \in Single \/ e = "promotion" \/ e \in Numbered
      BY EngineNames DEF Single, Numbered
    <3> QED BY <3>2, <3>3, <3>4, <3>5
  <2>2. ASSUME NEW e \in ToSet(Engines) PROVE Cardinality(Of(e, "QUEUED")) <= 1
    <3> PICK S : S = Of(e, "QUEUED")
      OBVIOUS
    <3>1. S = {} \/ \E i : S = {i}
      BY <2>1
    <3>2. Cardinality({}) = 0 /\ \A i : Cardinality({i}) = 1
      BY FS_EmptySet, FS_Singleton
    <3>3. Cardinality(S) = 0 \/ Cardinality(S) = 1
      BY <3>1, <3>2
    <3> QED BY <3>3
  <2> QED BY <2>2 DEF OneInLine
<1> QED BY <1>1, GenerationsInvariance, PTL

\* No result is left without the follow-up its route asks for, however often
\* the routing was cut off.
THEOREM ResultsAreFollowed == GenerationsSpec => []EngineGoesOn
<1>1. ASSUME GenerationsInv, Idle PROVE EngineGoesOn
  <2>1. up /\ 1..Len(todo) = {}
    BY <1>1, EmptyList DEF Idle
  <2>2. Due = {}
    BY <1>1, <2>1 DEF GenerationsInv, DueIsRouted
  <2>3. ASSUME NEW e \in ToSet(Engines), NEW i \in Completeds(e)
        PROVE  FollowedUp(<<e, i>>, 0) /\ i \in Numbers(e)
    <3>1. i \in Numbers(e) /\ Completed(<<e, i>>) /\ <<e, i>> \in Jobs
      BY JobIs DEF Completeds
    <3>2. <<e, i>> \in accounted
      BY <2>2, <3>1 DEF Due
    <3> QED BY <1>1, <3>1, <3>2 DEF GenerationsInv, FollowUpsCome
  <2>4. {"turbo", "v5", "v6", "cohort"} \subseteq ToSet(Engines)
    BY EngineNames
  <2>5. \A e, i : Comes(e, i, 0) => GoesOn(e, i)
    BY DEF Comes
  <2>6. \A i : ClosureComes(i, 0) => GoesOn("cohort", i)
    BY DEF ClosureComes
  <2>7. Ends(0) => kv.finalization = TRUE
    BY DEF Ends
  <2>8. ASSUME NEW e \in {"turbo", "v5", "v6"}, NEW i \in Completeds(e) PROVE GoesOn(e, i + 1)
    <3>1. PICK j : j = <<e, i>> /\ j[1] = e /\ j[2] = i /\ FollowedUp(j, 0)
      BY <2>3, <2>4
    <3>2. Comes(e, i + 1, 0)
      BY <3>1 DEF FollowedUp
    <3> QED BY <2>5, <3>2
  <2>9. ASSUME NEW i \in Completeds("turbo"), row[<<"turbo", i>>] = "candidates"
        PROVE  GoesOn("promotion", i)
    BY <2>3, <2>4, <2>5, <2>9 DEF FollowedUp
  <2>10. ASSUME NEW i \in Completeds("cohort"), InDebt(i), i \in closure \/ ~kv.finalization
         PROVE  GoesOn("cohort", i + 1)
    <3>1. IF i \in closure THEN ClosureComes(i + 1, 0)
          ELSE Comes("cohort", i + 1, 0) \/ Ends(0)
      BY <2>3, <2>4, <2>10 DEF FollowedUp
    <3> QED BY <2>5, <2>6, <2>7, <2>10, <3>1
  <2> QED BY <2>8, <2>9, <2>10 DEF EngineGoesOn
<1>2. GenerationsInv => EngineGoesOn
  BY <1>1 DEF EngineGoesOn
<1> QED BY <1>2, GenerationsInvariance, PTL
\* Only a step that queues an experiment makes one known, or puts it in line.
LEMMA QueuedByRequest ==
  ASSUME GenerationsInv, GenerationsNext, ~Enqueue, NEW j \in Jobs
  PROVE  /\ row'[j] = "QUEUED" => row[j] = "QUEUED"
         /\ row'[j] # "absent" => row[j] # "absent"
<1>1. RecordsTyped
  BY DEF GenerationsInv
<1>2. CASE row' = row
  BY <1>2
<1>3. CASE RetireQueued
  BY <1>3 DEF RetireQueued, Queued
<1>4. ASSUME NEW k \in Queued, NEW r, row' = [row EXCEPT ![k] = r], r # "QUEUED"
      PROVE  /\ row'[j] = "QUEUED" => row[j] = "QUEUED"
             /\ row'[j] # "absent" => row[j] # "absent"
  BY <1>1, <1>4 DEF RecordsTyped, Queued
<1>5. CASE Finish
  <2>1. PICK r \in Results(Arg(1)) : row' = [row EXCEPT ![<<Arg(1), Arg(2)>>] = r]
    BY <1>5 DEF Finish
  <2>2. r # "QUEUED"
    BY <2>1 DEF Results
  <2>3. <<Arg(1), Arg(2)>> \in Queued
    BY <1>5, RunIs DEF Finish
  <2> QED BY <1>4, <2>1, <2>2, <2>3
<1>6. CASE (FailForGood \/ Exhaust \/ Crash) /\ row' # row
  <2>1. <<Arg(1), Arg(2)>> \in Queued /\ row' = [row EXCEPT ![<<Arg(1), Arg(2)>>] = "FAILED"]
    BY <1>6, RunIs DEF FailForGood, Exhaust, Crash
  <2> QED BY <1>4, <2>1
<1>7. row' = row \/ RetireQueued \/ Finish \/ FailForGood \/ Exhaust \/ Crash
  BY DEF GenerationsNext, Start, Work, SetKv, RouteResult, RecordAccounted, ResolveNow,
     ResolveAtStart, Resolving, CohortFollowed, RouteCompleted, Settle, Collect, Conclude,
     Reevaluate, StartV6, StartV5, Loop, UpdateDue, LiftForUpdate, Run, FailOnce, Wait, Stall,
     Rests, StopCleanly
<1> QED BY <1>2, <1>3, <1>5, <1>6, <1>7

\* V5 goes on only over results of its own, and not beside V6; V6 begins when
\* V5 has nothing in line.
THEOREM SuccessionHolds == GenerationsSpec => SuccessionIsFinal
<1> DEFINE Final ==
      /\ \A i \in Numbers("v5") :
           row[<<"v5", i>>] = "absent" /\ row'[<<"v5", i>>] = "QUEUED" =>
             ~Unresolved("v5") /\ Known("v6") = {}
      /\ Known("v6") = {} /\ Known("v6")' # {} => Of("v5", "QUEUED") = {}
<1>1. ASSUME GenerationsInv, Enqueue PROVE Final
  <2>1. RecordsTyped /\ TodoTyped /\ InOrder /\ V6Follows /\ Step("queue") /\ Then(<<>>)
    BY <1>1 DEF Enqueue, GenerationsInv
  <2>2. /\ Len(todo) >= 1 /\ Head(todo) = todo[1] /\ todo[1][1] = "queue" /\ 1 \in 1..Len(todo)
    BY <2>1, EmptyList, HeadCarries
  <2>3. PICK e, n : e = Name(todo[1][2]) /\ n = todo[1][3]
    OBVIOUS
  <2>4. Queueing(e, n) /\ Asks(todo[1], e)
    <3>1. Arg(1) = todo[1][2] /\ Arg(2) = todo[1][3]
      BY <2>2, 1 + 1 = 2, 2 + 1 = 3 DEF Arg
    <3> QED BY <1>1, <2>2, <2>3, <3>1 DEF Enqueue, Queueing, Asks
  <2>5. \A j \in Jobs : row'[j] = IF j = <<e, n>> /\ row[j] = "absent" THEN "QUEUED" ELSE row[j]
    BY <2>1, <2>4, QueueingRows
  <2>6. ToSet(Engines) = {"prepare", "q4", "turbo", "promotion", "cohort", "update", "v5", "v6"}
    BY EngineNames
  <2>7. ASSUME NEW i \in Numbers("v5"), row[<<"v5", i>>] = "absent", row'[<<"v5", i>>] = "QUEUED"
        PROVE  ~Unresolved("v5") /\ Known("v6") = {}
    <3>1. <<"v5", i>> \in Jobs
      BY <2>6, JobIs
    <3>2. e = "v5" /\ n = i
      BY <2>5, <2>7, <3>1
    <3>3. Below("v5", i)
      BY <2>1, <2>2, <2>3, <2>4, <3>2 DEF InOrder, Numbered
    <3>4. ASSUME NEW m \in Numbers("v5"), row[<<"v5", m>>] \in {"FAILED", "BLOCKED"} PROVE FALSE
      <4>1. ~Over(<<"v5", m>>) /\ ~Over(<<"v5", i>>)
        BY <2>7, <3>4 DEF Over, Completed, Results
      <4>2. m \in Known("v5")
        BY <3>4 DEF Known
      <4>3. Below("v5", m)
        BY <2>1, <4>2 DEF InOrder, Numbered
      <4>4. ~(m < i) /\ ~(i < m) /\ m # i
        BY <2>7, <3>3, <3>4, <4>1, <4>3 DEF Below
      <4>5. PICK l \in Nat : Numbers("v5") = 0..l
        BY <2>6, NumbersAre
      <4> QED BY <4>4, <4>5
    <3>5. ~Unresolved("v5")
      BY <3>4 DEF Unresolved, Of
    <3>6. Known("v6") = {}
      BY <2>1, <2>2, <2>4, <3>2 DEF V6Follows, V5IsOver
    <3> QED BY <3>5, <3>6
  <2>8. ASSUME Known("v6") = {}, Known("v6")' # {} PROVE Of("v5", "QUEUED") = {}
    <3>1. PICK i \in Numbers("v6") : row[<<"v6", i>>] = "absent" /\ row'[<<"v6", i>>] # "absent"
      BY <2>8 DEF Known
    <3>2. <<"v6", i>> \in Jobs
      BY <2>6, JobIs
    <3>3. e = "v6"
      BY <2>5, <3>1, <3>2
    <3>4. 1..1 - 1 = {}
      OBVIOUS
    <3>5. kv.saturated = TRUE
      BY <2>1, <2>2, <2>4, <3>3, <3>4 DEF V6Follows
    <3> QED BY <2>1, <3>5 DEF V6Follows
  <2> QED BY <2>7, <2>8
<1>2. ASSUME GenerationsInv, GenerationsNext, ~Enqueue PROVE Final
  <2>1. \A e \in {"v5", "v6"} : \A i \in Numbers(e) : <<e, i>> \in Jobs
    BY JobIs, EngineNames
  <2>2. \A i \in Numbers("v5") : row'[<<"v5", i>>] = "QUEUED" => row[<<"v5", i>>] = "QUEUED"
    BY <1>2, <2>1, QueuedByRequest
  <2>3. \A i \in Numbers("v6") : row'[<<"v6", i>>] # "absent" => row[<<"v6", i>>] # "absent"
    BY <1>2, <2>1, QueuedByRequest
  <2> QED BY <2>2, <2>3 DEF Known
<1>3. GenerationsInv /\ [GenerationsNext]_vars => [Final]_vars
  BY <1>1, <1>2
<1> QED BY <1>3, GenerationsInvariance, PTL DEF GenerationsSpec, SuccessionIsFinal
-----------------------------------------------------------------------------
(* When conversion ends: what the stop is decided by is up to date whenever *)
(* a cohort is asked for.                                                  *)

\* The completed cohorts, the last of them, and a number that none has.
LEMMA DoneIs ==
  /\ Done \subseteq Numbers("cohort") /\ None \notin Numbers("cohort")
  /\ \E n \in Nat : Numbers("cohort") = 0..n
  /\ Done = {} => LatestDone = None
  /\ Done # {} => LatestDone \in Done /\ \A d \in Done : d <= LatestDone
<1>1. "cohort" \in ToSet(Engines) /\ "cohort" \notin Single
  BY EngineNames DEF Single
<1>2. PICK n \in Nat : Numbers("cohort") = 0..n
  BY <1>1, NumbersAre
<1>3. Done \subseteq 0..n
  BY <1>2 DEF Done, Completeds
<1>4. None \notin 0..MaxNumber["cohort"] /\ Numbers("cohort") = 0..MaxNumber["cohort"]
  <2>1. MaxNumber["cohort"] \in Nat
    BY GenerationsAssumption
  <2> QED BY <1>1, <2>1 DEF None, Numbers
<1>5. ASSUME Done # {} PROVE Max(Done) \in Done /\ \A d \in Done : d <= Max(Done)
  <2> PICK S : S = Done
    OBVIOUS
  <2>1. Max(S) \in S /\ \A d \in S : d <= Max(S)
    BY <1>3, <1>5, GreatestOf
  <2> QED BY <2>1
<1>6. Done = {} => LatestDone = None
  BY DEF LatestDone
<1>7. Done # {} => LatestDone = Max(Done)
  BY DEF LatestDone
<1> QED BY <1>2, <1>3, <1>4, <1>5, <1>6, <1>7

\* Cohorts keep their results, and none is added.
CohortRows ==
  \A i \in Numbers("cohort") :
    /\ Completed(<<"cohort", i>>)' = Completed(<<"cohort", i>>)
    /\ Completed(<<"cohort", i>>) => row'[<<"cohort", i>>] = row[<<"cohort", i>>]

\* Then the stop is decided as before.
LEMMA AdmitsStays ==
  ASSUME CohortRows, PreHoldout' = PreHoldout
  PROVE  Done' = Done /\ LatestDone' = LatestDone /\ Admits' = Admits
<1>1. Done' = Done
  BY DEF CohortRows, Done, Completeds
<1>2. LatestDone' = LatestDone
  BY <1>1 DEF LatestDone
<1>3. ASSUME NEW i \in Done PROVE (Zero(i))' = Zero(i) /\ (InDebt(i))' = InDebt(i)
  <2>1. row'[<<"cohort", i>>] = row[<<"cohort", i>>]
    BY DEF CohortRows, Done, Completeds
  <2> QED BY <2>1 DEF Zero, InDebt
<1>4. Converted = Done /\ Converted' = Done
  BY <1>1 DEF Converted, Done, Completeds
<1>5. \A i, k : LastTwo(i, k)' = LastTwo(i, k)
  BY <1>4 DEF LastTwo
<1>6. TwoZeros' = TwoZeros
  BY <1>3, <1>4, <1>5 DEF TwoZeros
<1> PICK C, l : C = PreHoldout /\ l = LatestDone
  OBVIOUS
<1>7. {i \in C : ~Zero(i)'} = {i \in C : ~Zero(i)}
  BY <1>3 DEF PreHoldout
<1>8. (l # None /\ ~InDebt(l)') = (l # None /\ ~InDebt(l))
  BY <1>3, DoneIs
<1>9. StopReason(C, l)' = StopReason(C, l)
  BY <1>6, <1>7, <1>8 DEF StopReason
<1> QED BY <1>1, <1>2, <1>9 DEF Admits

\* A write that came earlier has been made, or still comes earlier.
LEMMA EarlierStays ==
  ASSUME NEW T, Carries(T), NEW q \in 2..Len(todo), NEW p, p = q + Len(T) - 1, NEW f,
         \E r \in 1..q - 1 : Is(todo[r], f)
  PROVE  HeadIs(f) \/ \E r \in 1..p - 1 : Is(todo[r], f)'
<1>1. PICK r \in 1..q - 1 : Is(todo[r], f)
  OBVIOUS
<1>2. Len(todo) \in Nat /\ Len(T) \in Nat /\ q \in Nat /\ q <= Len(todo) /\ q >= 2
  BY DEF Carries
<1>3. CASE r = 1
  BY <1>1, <1>2, <1>3 DEF HeadIs
<1>4. CASE r # 1
  <2>1. r \in 2..Len(todo)
    BY <1>2, <1>4
  <2>2. r + Len(T) - 1 \in 1..p - 1
    BY <1>2, <1>4
  <2>3. todo'[r + Len(T) - 1] = todo[r]
    BY <2>1 DEF Carries
  <2> PICK m, s : m = r + Len(T) - 1 /\ s = todo[r]
    OBVIOUS
  <2>4. Is(todo[m], f)'
    BY <1>1, <2>3 DEF Is
  <2> QED BY <2>2, <2>4
<1> QED BY <1>3, <1>4

\* The count and the latest cohort are written by the first step only.
KvCounts ==
  /\ kv'.counted = IF HeadIs("counted") THEN todo[1][3] ELSE kv.counted
  /\ kv'.latest = IF HeadIs("latest") THEN todo[1][3] ELSE kv.latest

\* What is up to date stays so, and what followed the first step still fits.
LEMMA CohortsCarry ==
  ASSUME CohortsFit, NEW T, Carries(T), CohortRows, PreHoldout' = PreHoldout, KvCounts,
         \A p \in 1..Len(T) : CohortStep(T[p], p)',
         (Of("cohort", "QUEUED") \ closure)' # {} => Admits,
         {k \in Numbers("cohort") : <<"cohort", k>> \in Due'} \subseteq
           {k \in Numbers("cohort") : <<"cohort", k>> \in Due},
         (\A k \in Numbers("cohort") : <<"cohort", k>> \notin Due') => Settled,
         \A j : Len(todo) >= 1 /\ todo[1] = <<"route", j>> /\ j[1] = "cohort" =>
           \E q \in 1..Len(T) : Is(T[q], "latest")
  PROVE  CohortsFit'
<1>1. /\ Done' = Done /\ LatestDone' = LatestDone /\ Admits' = Admits
  BY AdmitsStays
<1>2. ASSUME Len(todo) >= 1 PROVE CohortStep(todo[1], 1)
  <2>1. 1 \in 1..Len(todo)
    BY <1>2 DEF Carries
  <2> QED BY <2>1 DEF CohortsFit
<1>3. 1..1 - 1 = {}
  OBVIOUS
<1>4. kv.counted = PreHoldout => kv'.counted = PreHoldout
  BY <1>2 DEF KvCounts, HeadIs, CohortStep
<1>5. HeadIs("counted") => kv'.counted = PreHoldout
  BY <1>2 DEF KvCounts, HeadIs, CohortStep
<1>6. Settled => Settled'
  BY <1>1, <1>2, <1>4 DEF Settled, KvCounts, HeadIs, CohortStep
<1>7. HeadIs("latest") => Settled'
  <2>1. HeadIs("latest") => kv.counted = PreHoldout /\ todo[1][3] = LatestDone
    BY <1>2, <1>3 DEF HeadIs, CohortStep
  <2> QED BY <1>1, <1>4, <2>1 DEF Settled, KvCounts
<1>8. ASSUME NEW q \in 2..Len(todo), NEW p, p = q + Len(T) - 1, NEW s, s = todo[q]
      PROVE  CohortStep(s, p)'
  <2>1. CohortStep(s, q) /\ Len(T) \in Nat /\ Len(todo) \in Nat
    BY <1>8 DEF CohortsFit, Carries
  <2>2. \A f : (\E r \in 1..q - 1 : Is(todo[r], f)) =>
              HeadIs(f) \/ \E r \in 1..p - 1 : Is(todo[r], f)'
    BY <1>8, EarlierStays
  <2>3. Is(s, "counted") => s[3] = PreHoldout'
    BY <2>1 DEF CohortStep
  <2>4. Is(s, "latest") =>
          /\ s[3] = LatestDone'
          /\ kv'.counted = PreHoldout' \/ \E r \in 1..p - 1 : Is(todo[r], "counted")'
    BY <1>1, <1>4, <1>5, <2>1, <2>2 DEF CohortStep
  <2>5. s[1] \in {"reconcile", "start"} /\ s[2] = "cohort" =>
          Settled' \/ \E r \in 1..p - 1 : Is(todo[r], "latest")'
    BY <1>6, <1>7, <2>1, <2>2 DEF CohortStep
  <2>6. s[1] = "queue" /\ s[2] = "cohort" => Admits'
    BY <1>1, <2>1 DEF CohortStep
  <2>7. ASSUME s[1] = "accounted", s[2][1] = "cohort"
        PROVE  Settled' \/ \E r \in 1..p - 1 : Is(todo[r], "latest")'
    <3>1. \/ Settled \/ \E r \in 1..q - 1 : Is(todo[r], "latest")
          \/ q = 2 /\ todo[1] = <<"route", s[2]>>
      BY <2>1, <2>7 DEF CohortStep
    <3>2. ASSUME q = 2, todo[1] = <<"route", s[2]>>
          PROVE  \E r \in 1..p - 1 : Is(todo[r], "latest")'
      <4>1. PICK r \in 1..Len(T) : Is(T[r], "latest")
        BY <1>8, <2>1, <2>7, <3>2
      <4>2. r \in 1..p - 1 /\ todo'[r] = T[r]
        BY <1>8, <2>1, <3>2 DEF Carries
      <4> PICK m : m = todo'[r]
        OBVIOUS
      <4>3. Is(m, "latest")
        BY <4>1, <4>2
      <4>4. Is(todo[r], "latest")'
        BY <4>3 DEF Is
      <4> QED BY <4>2, <4>4
    <3> QED BY <1>6, <1>7, <2>2, <3>1, <3>2
  <2> QED BY <2>3, <2>4, <2>5, <2>6, <2>7 DEF CohortStep, Is
<1>9. ASSUME NEW p \in 1..Len(todo') PROVE CohortStep(todo[p], p)'
  <2> PICK s : s = todo'[p]
    OBVIOUS
  <2>1. CASE p \in 1..Len(T) /\ s = T[p]
    BY <2>1
  <2>2. ASSUME NEW q \in 2..Len(todo), p = q + Len(T) - 1, s = todo[q] PROVE CohortStep(s, p)'
    BY <1>8, <2>2
  <2>3. CohortStep(s, p)'
    BY <2>1, <2>2, StepOfNext
  <2> QED BY <2>3
<1>10. ASSUME NEW k \in Numbers("cohort"), <<"cohort", k>> \in Due'
       PROVE  (\A d \in Done' : d <= k) /\ kv'.counted \cup ({k} \ closure') = PreHoldout'
  <2>1. <<"cohort", k>> \in Due
    BY <1>10
  <2>2. (\A d \in Done : d <= k) /\ kv.counted \cup ({k} \ closure) = PreHoldout
    BY <2>1 DEF CohortsFit
  <2>3. k \in Done
    BY <2>1 DEF Due, Done, Completeds
  <2>4. {k} \ closure' = {k} \ closure
    BY <1>1, <2>3 DEF PreHoldout
  <2>5. kv'.counted = kv.counted \/ kv'.counted = PreHoldout
    BY <1>5 DEF KvCounts
  <2> QED BY <1>1, <2>2, <2>3, <2>4, <2>5 DEF PreHoldout
<1> QED BY <1>1, <1>6, <1>9, <1>10 DEF CohortsFit
\* Rows that settle leave the completed cohorts, and what is due, as they are.
LEMMA QuietCohorts ==
  ASSUME RecordsTyped, RowSettles, closure' = closure, accounted' = accounted
  PROVE  /\ CohortRows /\ PreHoldout' = PreHoldout /\ Due' = Due
         /\ (Of("cohort", "QUEUED") \ closure)' \subseteq Of("cohort", "QUEUED") \ closure
<1>1. "QUEUED" \notin Results("cohort") /\ \A i \in Numbers("cohort") : <<"cohort", i>> \in Jobs
  BY JobIs, EngineNames DEF Results
<1>2. CohortRows
  <2>1. ASSUME NEW i \in Numbers("cohort"), NEW j, j = <<"cohort", i>>
        PROVE  Completed(j)' = Completed(j) /\ (Completed(j) => row'[j] = row[j])
    <3>1. j \in Jobs /\ j[1] = "cohort"
      BY <1>1, <2>1
    <3>2. Completed(j) => row[j] # "QUEUED"
      BY <1>1, <3>1 DEF Completed
    <3> QED BY <3>1, <3>2, RowsStay
  <2> QED BY <2>1 DEF CohortRows
<1>3. PreHoldout' = PreHoldout
  BY <1>2 DEF CohortRows, PreHoldout, Done, Completeds
<1>4. Due' = Due
  BY RowsStay DEF Due
<1>5. Of("cohort", "QUEUED")' \subseteq Of("cohort", "QUEUED")
  BY <1>1, RowsStay DEF Of
<1> QED BY <1>2, <1>3, <1>4, <1>5

\* Steps that may stand anywhere: they record nothing of the cohorts, ask for
\* one when c, and queue one when the conversion has not ended.
Timely(s, c) ==
  /\ ~Is(s, "counted") /\ ~Is(s, "latest") /\ s[1] # "accounted"
  /\ s[1] \in {"reconcile", "start"} /\ s[2] = "cohort" => c
  /\ s[1] = "queue" /\ s[2] = "cohort" => Admits
AllTimely(T, c) == IsList(T) /\ \A p \in 1..Len(T) : Timely(T[p], c)

\* Such lists one after the other.
LEMMA TimelyJoin ==
  ASSUME NEW s, NEW t, NEW c, AllTimely(s, c), AllTimely(t, c)
  PROVE  AllTimely(s \o t, c)
<1>1. IsList(s) /\ IsList(t)
  BY DEF AllTimely
<1>2. ASSUME NEW p \in 1..Len(s \o t) PROVE Timely((s \o t)[p], c)
  <2>1. CASE p \in 1..Len(s)
    BY <1>1, <2>1, Joined DEF AllTimely
  <2>2. CASE p \notin 1..Len(s)
    <3>1. p \in Len(s) + 1..Len(s) + Len(t) /\ p - Len(s) \in 1..Len(t)
      BY <1>1, <2>2, Joined DEF IsList
    <3> QED BY <1>1, <3>1, Joined DEF AllTimely
  <2> QED BY <2>1, <2>2
<1> QED BY <1>1, <1>2, Joined DEF AllTimely

\* No step, one, two and four.
LEMMA TimelyFew ==
  ASSUME NEW c
  PROVE  /\ AllTimely(<<>>, c)
         /\ \A a : Timely(a, c) => AllTimely(<<a>>, c)
         /\ \A a, b : Timely(a, c) /\ Timely(b, c) => AllTimely(<<a, b>>, c)
<1>1. AllTimely(<<>>, c)
  BY EmptyList DEF AllTimely
<1>2. ASSUME NEW a, Timely(a, c) PROVE AllTimely(<<a>>, c)
  BY <1>2, OneStep DEF AllTimely
<1>3. ASSUME NEW a, NEW b, Timely(a, c), Timely(b, c) PROVE AllTimely(<<a, b>>, c)
  <2>1. \A p \in 1..2 : p = 1 \/ p = 2
    OBVIOUS
  <2> QED BY <1>3, <2>1, TwoSteps DEF AllTimely
<1> QED BY <1>1, <1>2, <1>3

\* Writes of phase and blocker, the end of the conversion, and what a start
\* puts back.
LEMMA WritesTimely ==
  ASSUME NEW c
  PROVE  /\ \A f, v : f \notin {"counted", "latest"} => AllTimely(<<Put(f, v)>>, c)
         /\ \A b, d : AllTimely(Writes(b, d), c)
         /\ AllTimely(Clear, c) /\ AllTimely(Mismatch.steps, c)
         /\ \A e : AllTimely(Retire(e), c)
         /\ AllTimely(FinishConversion, c) /\ AllTimely(Restored, c)
<1>1. ASSUME NEW f, NEW v, f \notin {"counted", "latest"} PROVE Timely(Put(f, v), c)
  BY <1>1 DEF Timely, Put, Is
<1>2. \A f, v : f \notin {"counted", "latest"} => AllTimely(<<Put(f, v)>>, c)
  BY <1>1, TimelyFew
<1>3. \A b, d : AllTimely(Writes(b, d), c)
  BY <1>1, TimelyFew DEF Writes
<1>4. AllTimely(Clear, c) /\ AllTimely(Mismatch.steps, c)
  BY <1>3 DEF Clear, Mismatch, Answer
<1>5. ASSUME NEW e PROVE AllTimely(Retire(e), c)
  <2>1. Timely(<<"retire", e>>, c)
    BY DEF Timely, Is
  <2> QED BY <2>1, TimelyFew DEF Retire
<1>6. AllTimely(FinishConversion, c)
  <2> PICK A, B, C : /\ A = Retire("cohort") /\ B = <<Put("finalization", TRUE)>>
                     /\ C = Writes("ENGINEERING_BLOCKED", "FINAL_Q4_COHORT")
    OBVIOUS
  <2>1. AllTimely(A, c) /\ AllTimely(B, c) /\ AllTimely(C, c)
    BY <1>2, <1>3, <1>5
  <2> PICK D : D = A \o B
    OBVIOUS
  <2>2. AllTimely(D, c)
    BY <2>1, TimelyJoin
  <2>3. AllTimely(D \o C, c)
    BY <2>1, <2>2, TimelyJoin
  <2> QED BY <2>3 DEF FinishConversion
<1>7. AllTimely(Restored, c)
  <2> PICK A, B : /\ A = Writes(saved.phase, IF saved.blocker = "TURBO_EXHAUSTED" THEN "TURBO_FAILED"
                                             ELSE saved.blocker)
                  /\ B = IF saved.blocker = "TURBO_EXHAUSTED"
                         THEN <<Put("blocker", saved.blocker)>> ELSE <<>>
    OBVIOUS
  <2>1. AllTimely(A, c) /\ AllTimely(B, c)
    BY <1>2, <1>3, TimelyFew
  <2>2. AllTimely(A \o B, c)
    BY <2>1, TimelyJoin
  <2> QED BY <2>2 DEF Restored
<1> QED BY <1>2, <1>3, <1>4, <1>5, <1>6, <1>7

\* A call of another engine, and one of a cohort when c.
LEMMA CallTimely ==
  ASSUME NEW c, NEW d, NEW e, NEW i, d # "set", d # "accounted", e = "cohort" => d # "queue" /\ c
  PROVE  AllTimely(<< <<d, e, i>> >>, c)
<1>1. Timely(<<d, e, i>>, c)
  BY DEF Timely, Is
<1> QED BY <1>1, TimelyFew
\* A step with timely ones in its place keeps what is known of the cohorts.
LEMMA CohortsQuiet ==
  ASSUME RecordsTyped, CohortsFit, NEW T, Carries(T), AllTimely(T, Settled), RowSettles,
         kv'.counted = kv.counted, kv'.latest = kv.latest,
         closure' = closure, accounted' = accounted,
         ~HeadIs("counted"), ~HeadIs("latest"),
         \A j : Len(todo) >= 1 /\ todo[1] = <<"route", j>> => j[1] # "cohort"
  PROVE  CohortsFit'
<1>1. /\ CohortRows /\ PreHoldout' = PreHoldout /\ Due' = Due
      /\ (Of("cohort", "QUEUED") \ closure)' \subseteq Of("cohort", "QUEUED") \ closure
  BY QuietCohorts
<1>2. KvCounts
  BY DEF KvCounts
<1>3. Admits' = Admits /\ LatestDone' = LatestDone
  BY <1>1, AdmitsStays
<1>4. Settled' = Settled
  BY <1>1, <1>3 DEF Settled
<1>5. ASSUME NEW p \in 1..Len(T) PROVE CohortStep(T[p], p)'
  <2> PICK s : s = T[p]
    OBVIOUS
  <2>1. Timely(s, Settled)
    BY DEF AllTimely
  <2>2. CohortStep(s, p)'
    BY <1>3, <1>4, <2>1 DEF CohortStep, Timely, Is
  <2> QED BY <2>2
<1>6. (Of("cohort", "QUEUED") \ closure)' # {} => Admits
  BY <1>1 DEF CohortsFit
<1>7. (\A k \in Numbers("cohort") : <<"cohort", k>> \notin Due') => Settled
  BY <1>1 DEF CohortsFit
<1> QED BY <1>1, <1>2, <1>5, <1>6, <1>7, CohortsCarry

\* Of the first step.
LEMMA CohortsHead ==
  ASSUME GenerationsInv, CohortsFit, NEW d, Step(d), NEW T, AllTimely(T, Settled), Then(T),
         d \notin {"set", "route"},
         RowSettles, kv' = kv, closure' = closure, accounted' = accounted
  PROVE  CohortsFit'
<1>1. RecordsTyped /\ TodoTyped /\ IsList(T)
  BY DEF GenerationsInv, AllTimely
<1>2. Carries(T) /\ todo[1][1] = d
  BY <1>1, HeadCarries
<1>3. ~HeadIs("counted") /\ ~HeadIs("latest")
  BY <1>2 DEF HeadIs, Is
<1>4. \A j : todo[1] # <<"route", j>>
  BY <1>2
<1> QED BY <1>1, <1>2, <1>3, <1>4, CohortsQuiet

\* Of a list that is begun.
LEMMA CohortsAlone ==
  ASSUME GenerationsInv, CohortsFit, todo = <<>> \/ (Len(todo) = 1 /\ todo[1][1] = "run"),
         NEW T, AllTimely(T, Settled), todo' = T, RowSettles,
         kv'.counted = kv.counted, kv'.latest = kv.latest,
         closure' = closure, accounted' = accounted
  PROVE  CohortsFit'
<1>1. RecordsTyped /\ TodoTyped /\ IsList(T)
  BY DEF GenerationsInv, AllTimely
<1>2. Len(todo) <= 1 /\ (Len(todo) >= 1 => todo[1][1] = "run")
  <2> PICK n : n = Len(todo)
    OBVIOUS
  <2>1. n = 0 \/ (n = 1 /\ todo[1][1] = "run")
    BY EmptyList
  <2>2. n <= 1 /\ (n >= 1 => todo[1][1] = "run")
    BY <2>1
  <2> QED BY <2>2
<1>3. Carries(T)
  BY <1>1, <1>2, AloneCarries
<1>4. ~HeadIs("counted") /\ ~HeadIs("latest")
  BY <1>2 DEF HeadIs, Is
<1>5. \A j : Len(todo) >= 1 => todo[1] # <<"route", j>>
  BY <1>2
<1> QED BY <1>1, <1>3, <1>4, <1>5, CohortsQuiet

\* With no routing to come, what is recorded of the cohorts is up to date.
LEMMA SettledIs ==
  ASSUME GenerationsInv, CohortsFit, up, \A p \in 1..Len(todo) : todo[p][1] # "completed"
  PROVE  Due = {} /\ Settled
<1>1. Due = {}
  BY DEF GenerationsInv, DueIsRouted
<1> QED BY <1>1 DEF CohortsFit

\* A write of the mission state: the count before the latest.
LEMMA SetKvCohorts ==
  ASSUME GenerationsInv, CohortsFit, SetKv
  PROVE  CohortsFit'
<1>1. /\ RecordsTyped /\ TodoTyped /\ Step("set") /\ Then(<<>>)
      /\ row' = row /\ closure' = closure /\ accounted' = accounted
  BY DEF GenerationsInv, SetKv
<1> PICK T : T = <<>>
  OBVIOUS
<1>2. Carries(T) /\ Len(todo) >= 1 /\ Head(todo) = todo[1] /\ todo[1][1] = "set" /\ Len(T) = 0
  BY <1>1, HeadCarries, EmptyList
<1>3. todo[1][2] \in KvNames
  <2>1. StepTyped(todo[1], 1)
    BY <1>1, <1>2 DEF TodoTyped, Carries
  <2> QED BY <1>2, <2>1 DEF StepTyped
<1> PICK f, v : f = todo[1][2] /\ v = todo[1][3]
  OBVIOUS
<1>4. kv' = [kv EXCEPT ![f] = v] /\ kv = [g \in KvNames |-> kv[g]] /\ f \in KvNames
  <2>1. Arg(1) = f /\ Arg(2) = v
    BY <1>2 DEF Arg
  <2>2. kv' = [kv EXCEPT ![f] = v]
    BY <2>1 DEF SetKv
  <2> QED BY <1>1, <1>3, <2>2 DEF RecordsTyped
<1>5. /\ HeadIs("counted") <=> f = "counted"
      /\ HeadIs("latest") <=> f = "latest"
  BY <1>2 DEF HeadIs, Is
<1>6. KvCounts
  <2>1. {"counted", "latest"} \subseteq KvNames
    BY DEF KvNames
  <2>2. kv'.counted = (IF f = "counted" THEN v ELSE kv.counted)
    BY <1>4, <2>1
  <2>3. kv'.latest = (IF f = "latest" THEN v ELSE kv.latest)
    BY <1>4, <2>1
  <2> QED BY <1>5, <2>2, <2>3 DEF KvCounts
<1>7. RowSettles
  BY <1>1 DEF RowSettles, RecordsTyped
<1>8. /\ CohortRows /\ PreHoldout' = PreHoldout /\ Due' = Due
      /\ (Of("cohort", "QUEUED") \ closure)' \subseteq Of("cohort", "QUEUED") \ closure
  BY <1>1, <1>7, QuietCohorts
<1>9. 1..Len(T) = {}
  BY <1>2
<1>10. \A j : todo[1] # <<"route", j>>
  BY <1>2
<1>11. (Of("cohort", "QUEUED") \ closure)' # {} => Admits
  BY <1>8 DEF CohortsFit
<1>12. (\A k \in Numbers("cohort") : <<"cohort", k>> \notin Due') => Settled
  BY <1>8 DEF CohortsFit
<1> QED BY <1>2, <1>6, <1>8, <1>9, <1>10, <1>11, <1>12, CohortsCarry
\* An experiment is put in line; a cohort before Q4 only while the conversion
\* goes on.
LEMMA EnqueueCohorts ==
  ASSUME GenerationsInv, CohortsFit, Enqueue
  PROVE  CohortsFit'
<1>1. /\ RecordsTyped /\ TodoTyped /\ Step("queue") /\ Then(<<>>)
      /\ kv' = kv /\ accounted' = accounted
  BY DEF GenerationsInv, Enqueue
<1> PICK T : T = <<>>
  OBVIOUS
<1>2. /\ Carries(T) /\ Len(todo) >= 1 /\ Head(todo) = todo[1] /\ todo[1][1] = "queue"
      /\ Len(T) = 0 /\ 1 \in 1..Len(todo)
  BY <1>1, HeadCarries, EmptyList
<1> PICK e, i : e = todo[1][2] /\ i = todo[1][3]
  OBVIOUS
<1> PICK c : c = Name(e)
  OBVIOUS
<1>3. Arg(1) = e /\ Arg(2) = i
  BY <1>2 DEF Arg
<1>4. Queueing(c, i) /\ closure' = IF e = "closure" THEN closure \cup {i} ELSE closure
  BY <1>3 DEF Enqueue, Queueing
<1>5. /\ \A j \in Jobs : row'[j] = IF j = <<c, i>> /\ row[j] = "absent" THEN "QUEUED" ELSE row[j]
      /\ \A j \in Jobs : Completed(j)' = Completed(j)
  BY <1>1, <1>4, QueueingRows
<1>6. \A k \in Numbers("cohort") : <<"cohort", k>> \in Jobs
  BY JobIs, EngineNames
<1>7. CohortRows
  <2>1. ASSUME NEW k \in Numbers("cohort"), NEW j, j = <<"cohort", k>>
        PROVE  Completed(j)' = Completed(j) /\ (Completed(j) => row'[j] = row[j])
    <3>1. j \in Jobs /\ j[1] = "cohort"
      BY <1>6, <2>1
    <3>2. Completed(j) => row[j] # "absent"
      BY <3>1 DEF Completed, Results
    <3> QED BY <1>5, <3>1, <3>2
  <2> QED BY <2>1 DEF CohortRows
<1>8. e = "closure" => i \notin Done
  <2>1. StepTyped(todo[1], 1)
    BY <1>1, <1>2 DEF TodoTyped
  <2>2. e = "closure" => row[<<"cohort", i>>] = "absent"
    BY <1>2, <2>1 DEF StepTyped
  <2> PICK j : j = <<"cohort", i>>
    OBVIOUS
  <2>3. row[j] = "absent" => ~Completed(j)
    BY DEF Completed, Results
  <2> QED BY <2>2, <2>3 DEF Done, Completeds
<1>9. Done' = Done /\ PreHoldout' = PreHoldout
  <2>1. Done' = Done
    BY <1>7 DEF CohortRows, Done, Completeds
  <2> QED BY <1>4, <1>8, <2>1 DEF PreHoldout
<1>10. ASSUME NEW k \in (Of("cohort", "QUEUED") \ closure)' PROVE Admits
  <2>1. k \in Numbers("cohort") /\ row'[<<"cohort", k>>] = "QUEUED" /\ k \notin closure'
    BY <1>10 DEF Of
  <2>2. k \notin closure
    BY <1>4, <2>1
  <2>3. CASE row[<<"cohort", k>>] = "QUEUED"
    BY <2>1, <2>2, <2>3 DEF CohortsFit, Of
  <2>4. CASE row[<<"cohort", k>>] # "QUEUED"
    <3>1. c = "cohort" /\ k = i
      BY <1>5, <1>6, <2>1, <2>4
    <3>2. e # "closure"
      BY <1>4, <2>1, <3>1
    <3>3. e = "cohort"
      BY <3>1, <3>2 DEF Name
    <3>4. CohortStep(todo[1], 1)
      BY <1>2 DEF CohortsFit
    <3> QED BY <1>2, <3>3, <3>4 DEF CohortStep
  <2> QED BY <2>3, <2>4
<1>11. Due' = Due
  BY <1>1, <1>5 DEF Due
<1>12. ~HeadIs("counted") /\ ~HeadIs("latest")
  BY <1>2 DEF HeadIs, Is
<1>13. KvCounts
  BY <1>1, <1>12 DEF KvCounts
<1>14. 1..Len(T) = {}
  BY <1>2
<1>15. \A j : todo[1] # <<"route", j>>
  BY <1>2
<1>16. (\A k \in Numbers("cohort") : <<"cohort", k>> \notin Due') => Settled
  BY <1>11 DEF CohortsFit
<1>17. (Of("cohort", "QUEUED") \ closure)' # {} => Admits
  BY <1>10
<1> QED BY <1>2, <1>7, <1>9, <1>11, <1>13, <1>14, <1>15, <1>16, <1>17, CohortsCarry

\* What an engine has in line is retired.
LEMMA RetireCohorts ==
  ASSUME GenerationsInv, CohortsFit, RetireQueued
  PROVE  CohortsFit'
<1>1. /\ RecordsTyped /\ Step("retire") /\ Then(<<>>)
      /\ kv' = kv /\ closure' = closure /\ accounted' = accounted
  BY DEF GenerationsInv, RetireQueued
<1>2. RowSettles
  <2> PICK e : e = Arg(1)
    OBVIOUS
  <2>1. row' = [j \in Jobs |-> IF j \in Queued /\ j[1] = e THEN "BLOCKED" ELSE row[j]]
    BY DEF RetireQueued
  <2> QED BY <2>1 DEF RowSettles, Queued
<1> QED BY <1>1, <1>2, TimelyFew, CohortsHead

\* A result is recorded as accounted once the count has it.
LEMMA RecordAccountedCohorts ==
  ASSUME GenerationsInv, CohortsFit, RecordAccounted
  PROVE  CohortsFit'
<1>1. /\ RecordsTyped /\ TodoTyped /\ Step("accounted") /\ Then(<<>>)
      /\ row' = row /\ kv' = kv /\ closure' = closure
  BY DEF GenerationsInv, RecordAccounted
<1> PICK T : T = <<>>
  OBVIOUS
<1>2. /\ Carries(T) /\ Len(todo) >= 1 /\ Head(todo) = todo[1] /\ todo[1][1] = "accounted"
      /\ Len(T) = 0 /\ 1 \in 1..Len(todo)
  BY <1>1, HeadCarries, EmptyList
<1> PICK j : j = todo[1][2]
  OBVIOUS
<1>3. accounted' = accounted \cup {j}
  BY <1>2 DEF RecordAccounted, Arg
<1>4. Due' = Due \ {j}
  BY <1>1, <1>3 DEF Due, Completed
<1>5. CohortRows /\ PreHoldout' = PreHoldout
  BY <1>1 DEF CohortRows, PreHoldout, Done, Completeds, Completed
<1>6. j[1] = "cohort" => Settled
  <2>1. CohortStep(todo[1], 1)
    BY <1>2 DEF CohortsFit
  <2>2. 1..1 - 1 = {} /\ 1 # 2
    OBVIOUS
  <2> QED BY <1>2, <2>1, <2>2 DEF CohortStep
<1>7. (\A k \in Numbers("cohort") : <<"cohort", k>> \notin Due') => Settled
  <2>1. CASE j[1] = "cohort"
    BY <1>6, <2>1
  <2>2. CASE j[1] # "cohort"
    <3>1. \A k : <<"cohort", k>> # j
      BY <2>2
    <3> QED BY <1>4, <3>1 DEF CohortsFit
  <2> QED BY <2>1, <2>2
<1>8. (Of("cohort", "QUEUED") \ closure)' # {} => Admits
  BY <1>1 DEF CohortsFit, Of
<1>9. ~HeadIs("counted") /\ ~HeadIs("latest")
  BY <1>2 DEF HeadIs, Is
<1>10. KvCounts
  BY <1>1, <1>9 DEF KvCounts
<1>11. 1..Len(T) = {}
  BY <1>2
<1>12. \A k : todo[1] # <<"route", k>>
  BY <1>2
<1> QED BY <1>2, <1>4, <1>5, <1>7, <1>8, <1>10, <1>11, <1>12, CohortsCarry
\* The ends of the routes and of the start.
LEMMA PlainCohorts ==
  ASSUME GenerationsInv, CohortsFit, CohortFollowed \/ Settle \/ Conclude \/ Reevaluate \/ StartV5
  PROVE  CohortsFit'
<1>1. /\ row' = row /\ kv' = kv /\ closure' = closure /\ accounted' = accounted
      /\ RecordsTyped
  BY DEF GenerationsInv, CohortFollowed, Settle, Conclude, Reevaluate, StartV5
<1>2. RowSettles
  BY <1>1 DEF RowSettles, RecordsTyped
<1>3. ASSUME NEW d \in {"followed", "settle", "conclude", "reevaluate", "v5"}, Step(d),
             NEW T, AllTimely(T, Settled), Then(T)
      PROVE  CohortsFit'
  BY <1>1, <1>2, <1>3, CohortsHead
<1>4. AllTimely(<<>>, Settled)
  BY TimelyFew
<1>5. CASE CohortFollowed
  <2> PICK T : T = IF Queued # {} \/ Arg(1) \in closure THEN Clear
                   ELSE Writes("ENGINEERING_BLOCKED", "NOVEL_REPRESENTATION")
    OBVIOUS
  <2>1. AllTimely(T, Settled)
    BY WritesTimely
  <2>2. Step("followed") /\ Then(T)
    BY <1>5 DEF CohortFollowed
  <2> QED BY <1>3, <2>1, <2>2
<1>6. CASE Settle
  <2> PICK T : T = IF IsBlocked THEN <<>> ELSE Clear
    OBVIOUS
  <2>1. AllTimely(T, Settled)
    BY <1>4, WritesTimely
  <2>2. Step("settle") /\ Then(T)
    BY <1>6 DEF Settle
  <2> QED BY <1>3, <2>1, <2>2
<1>7. CASE Conclude
  <2> PICK T : T = IF saved.phase \in Blocked /\ ~saved.queued THEN Restored
                   ELSE IF IsBlocked THEN <<>> ELSE Clear
    OBVIOUS
  <2>1. AllTimely(T, Settled)
    BY <1>4, WritesTimely
  <2>2. Step("conclude") /\ Then(T)
    BY <1>7 DEF Conclude
  <2> QED BY <1>3, <2>1, <2>2
<1>8. CASE Reevaluate
  <2> PICK T : T = IF /\ Stopped /\ ~Completed(<<"q4", 0>>)
                      /\ \A e \in Single : row[<<e, 0>>] # "QUEUED"
                   THEN FinishConversion ELSE <<>>
    OBVIOUS
  <2>1. AllTimely(T, Settled)
    BY <1>4, WritesTimely
  <2>2. Step("reevaluate") /\ Then(T)
    BY <1>8 DEF Reevaluate
  <2> QED BY <1>3, <2>1, <2>2
<1>9. CASE StartV5
  <2> PICK T, n : n = PendingOrNext("v5") /\ T = IF V5ShouldRun THEN Call("v5", n) ELSE <<>>
    OBVIOUS
  <2>1. AllTimely(T, Settled)
    BY <1>4, CallTimely DEF Call
  <2>2. Step("v5") /\ Then(T)
    BY <1>9 DEF StartV5
  <2> QED BY <1>3, <2>1, <2>2
<1> QED BY <1>5, <1>6, <1>7, <1>8, <1>9

\* The calls for V6, behind the end of V5.
LEMMA StartV6Cohorts ==
  ASSUME GenerationsInv, CohortsFit, StartV6
  PROVE  CohortsFit'
<1>1. /\ row' = row /\ kv' = kv /\ closure' = closure /\ accounted' = accounted
      /\ RecordsTyped
  BY DEF GenerationsInv, StartV6
<1>2. RowSettles
  BY <1>1 DEF RowSettles, RecordsTyped
<1> PICK n, A, B : /\ n = PendingOrNext("v6") /\ B = Call("v6", n)
                   /\ A = Retire("v5") \o <<Put("saturated", TRUE)>>
  OBVIOUS
<1>3. AllTimely(A, Settled)
  <2>1. AllTimely(Retire("v5"), Settled) /\ AllTimely(<<Put("saturated", TRUE)>>, Settled)
    BY WritesTimely
  <2> QED BY <2>1, TimelyJoin
<1>4. AllTimely(B, Settled) /\ AllTimely(<<>>, Settled)
  BY CallTimely, TimelyFew DEF Call
<1>5. AllTimely(A \o B, Settled) /\ AllTimely(<<>> \o B, Settled)
  BY <1>3, <1>4, TimelyJoin
<1>6. PICK T \in {<<>>, A \o B, <<>> \o B} : Then(T)
  BY DEF StartV6, FreezeV5
<1>7. AllTimely(T, Settled)
  BY <1>4, <1>5, <1>6
<1> QED BY <1>1, <1>2, <1>6, <1>7, CohortsHead DEF StartV6

\* What the start asks for: all results have been routed by then.
LEMMA CollectCohorts ==
  ASSUME GenerationsInv, CohortsFit, Collect
  PROVE  CohortsFit'
<1>1. /\ row' = row /\ kv' = kv /\ closure' = closure /\ accounted' = accounted
      /\ RecordsTyped /\ TodoTyped /\ Step("collect")
  BY DEF GenerationsInv, Collect
<1>2. RowSettles
  BY <1>1 DEF RowSettles, RecordsTyped
<1>3. Settled
  <2>1. IsList(todo) /\ todo[1][1] = "collect" /\ 1 \in 1..Len(todo) /\ up
    <3>1. IsList(<<>>) /\ IsList(todo)
      BY <1>1, EmptyList DEF TodoTyped
    <3>2. todo # <<>> /\ Head(todo)[1] = "collect"
      BY <1>1 DEF Step
    <3>3. Len(todo) >= 1 /\ Head(todo) = todo[1]
      BY <3>1, <3>2, Rest
    <3> QED BY <1>1, <3>1, <3>2, <3>3 DEF RecordsTyped, IsList
  <2>2. Len(todo) = 1
    BY <1>1, <2>1 DEF TodoTyped, StepTyped
  <2>3. \A p \in 1..Len(todo) : todo[p][1] # "completed"
    BY <2>1, <2>2
  <2> QED BY <2>1, <2>3, SettledIs
<1> PICK m, n : /\ m = (IF saved.blocker = "TURBO_FAILED" THEN PendingOrNext("turbo") ELSE 0)
                /\ n = PendingOrNext("cohort")
  OBVIOUS
<1> PICK A, B, C, F :
      /\ A = StartIf(TurboRequired, "turbo", m)
      /\ B = StartIf(ConversionRequired, "cohort", n)
      /\ C = StartIf(saved.bridge, "prepare", 0)
      /\ F = << <<"conclude">>, <<"reevaluate">>, <<"v6">>, <<"v5">> >>
  OBVIOUS
<1>4. AllTimely(A, Settled) /\ AllTimely(B, Settled) /\ AllTimely(C, Settled)
  <2>1. /\ AllTimely(<< <<"start", "turbo", m>> >>, Settled)
        /\ AllTimely(<< <<"start", "cohort", n>> >>, Settled)
        /\ AllTimely(<< <<"start", "prepare", 0>> >>, Settled)
        /\ AllTimely(<<>>, Settled)
    BY <1>3, CallTimely, TimelyFew
  <2> QED BY <2>1 DEF StartIf
<1>5. AllTimely(F, Settled)
  <2> PICK a, b, c, d : /\ a = <<"conclude">> /\ b = <<"reevaluate">>
                        /\ c = <<"v6">> /\ d = <<"v5">>
    OBVIOUS
  <2>1. F = <<a, b, c, d>>
    OBVIOUS
  <2>2. Timely(a, Settled) /\ Timely(b, Settled) /\ Timely(c, Settled) /\ Timely(d, Settled)
    BY DEF Timely, Is
  <2>3. \A p \in 1..4 : p = 1 \/ p = 2 \/ p = 3 \/ p = 4
    OBVIOUS
  <2>4. IsList(F) /\ Len(F) = 4 /\ F[1] = a /\ F[2] = b /\ F[3] = c /\ F[4] = d
    BY <2>1, FourSteps
  <2> QED BY <2>2, <2>3, <2>4 DEF AllTimely
<1> PICK D : D = A \o B
  OBVIOUS
<1>6. AllTimely(D, Settled)
  BY <1>4, TimelyJoin
<1> PICK R : R = D \o C
  OBVIOUS
<1>7. AllTimely(R, Settled)
  BY <1>4, <1>6, TimelyJoin
<1> PICK T : T = R \o F
  OBVIOUS
<1>8. AllTimely(T, Settled)
  BY <1>5, <1>7, TimelyJoin
<1>9. Then(T)
  BY DEF Collect
<1> PICK s : s = "collect"
  OBVIOUS
<1>10. Step(s) /\ s \notin {"set", "route"}
  BY <1>1
<1>11. kv' = kv /\ closure' = closure /\ accounted' = accounted
  BY <1>1
<1> QED BY <1>2, <1>8, <1>9, <1>10, <1>11, CohortsHead
\* A call: a cohort before Q4 is queued only if the conversion has not ended.
LEMMA ResolvingCohorts ==
  ASSUME GenerationsInv, CohortsFit, NEW d \in {"reconcile", "start"}, NEW keep,
         Resolving(d, keep)
  PROVE  CohortsFit'
<1>1. /\ row' = row /\ kv' = kv /\ closure' = closure /\ accounted' = accounted
      /\ RecordsTyped /\ TodoTyped /\ Step(d)
  BY DEF GenerationsInv, Resolving
<1>2. RowSettles
  BY <1>1 DEF RowSettles, RecordsTyped
<1>3. IsList(todo) /\ todo[1][1] = d /\ Head(todo) = todo[1] /\ 1 \in 1..Len(todo)
  <2>1. IsList(todo) /\ todo # <<>> /\ Head(todo)[1] = d
    BY <1>1 DEF TodoTyped, Step
  <2>2. Len(todo) >= 1 /\ Head(todo) = todo[1]
    BY <2>1, Rest
  <2> QED BY <2>1, <2>2 DEF IsList
<1> PICK e, i : e = todo[1][2] /\ i = todo[1][3]
  OBVIOUS
<1> PICK c : c = Name(e)
  OBVIOUS
<1>4. Arg(1) = e /\ Arg(2) = i
  BY <1>3 DEF Arg
<1>5. e \in Callable /\ i \in Numbers(c)
  <2>1. StepTyped(todo[1], 1)
    BY <1>1, <1>3 DEF TodoTyped
  <2> QED BY <1>3, <1>4, <2>1 DEF StepTyped, Resolving
<1>6. e = "cohort" => Settled
  <2>1. CohortStep(todo[1], 1)
    BY <1>3 DEF CohortsFit
  <2>2. 1..1 - 1 = {}
    OBVIOUS
  <2> QED BY <1>3, <2>1, <2>2 DEF CohortStep
<1>7. e = "cohort" /\ ~Stopped => Admits
  BY <1>6 DEF Settled, Stopped, Admits
<1> PICK intact \in BOOLEAN : Then(Reconcile(e, i, intact).steps)
  BY <1>4 DEF Resolving
<1> PICK T : T = Reconcile(e, i, intact).steps
  OBVIOUS
<1>8. CASE e = "cohort" /\ Stopped
  <2>1. T = FinishConversion
    BY <1>8 DEF Reconcile, ReconcileCohort, Answer
  <2>2. AllTimely(T, Settled)
    BY <2>1, WritesTimely
  <2> QED BY <1>1, <1>2, <2>2, CohortsHead
<1>9. CASE ~(e = "cohort" /\ Stopped)
  <2>1. \/ T \in {<<>>, Clear, Mismatch.steps, FinishConversion}
        \/ T \in {QueueIt(e, i), QueueIt(e, i) \o Clear}
    BY <1>5, AnswerIs DEF Name
  <2>2. Timely(<<"queue", e, i>>, Settled)
    BY <1>7, <1>9 DEF Timely, Is
  <2> PICK Q : Q = QueueIt(e, i)
    OBVIOUS
  <2>3. AllTimely(Q, Settled)
    BY <2>2, TimelyFew DEF QueueIt
  <2>4. AllTimely(Clear, Settled) /\ AllTimely(Mismatch.steps, Settled)
        /\ AllTimely(FinishConversion, Settled) /\ AllTimely(<<>>, Settled)
    BY WritesTimely, TimelyFew
  <2>5. AllTimely(Q \o Clear, Settled)
    BY <2>3, <2>4, TimelyJoin
  <2>6. AllTimely(T, Settled)
    BY <2>1, <2>3, <2>4, <2>5
  <2> QED BY <1>1, <1>2, <2>6, CohortsHead
<1> QED BY <1>8, <1>9

\* The routes of the other engines write nothing of the cohorts.
LEMMA OtherRoutesTimely ==
  ASSUME NEW e \in ToSet(Engines) \ {"cohort"}, NEW i, NEW preflight \in BOOLEAN, NEW c
  PROVE  AllTimely(Route(e, i, preflight), c)
<1>1. AllTimely(Clear, c) /\ AllTimely(<<>>, c)
  BY WritesTimely, TimelyFew
<1>2. \A f, k : f # "cohort" => AllTimely(Call(f, k), c)
  BY CallTimely DEF Call
<1>3. \A f, v : f \notin {"counted", "latest"} => AllTimely(<<Put(f, v)>>, c)
  BY WritesTimely
<1>4. \A b, d : AllTimely(Writes(b, d), c)
  BY WritesTimely
<1>5. AllTimely(RouteTurbo(i), c)
  <2> PICK A, B : A = Call("promotion", i) /\ B = Call("turbo", i + 1)
    OBVIOUS
  <2>1. AllTimely(A, c) /\ AllTimely(B, c)
    BY <1>2
  <2> PICK D : D = A \o Clear
    OBVIOUS
  <2>2. AllTimely(D, c)
    BY <1>1, <2>1, TimelyJoin
  <2>3. AllTimely(D \o B, c)
    BY <2>1, <2>2, TimelyJoin
  <2> QED BY <2>3 DEF RouteTurbo
<1>6. AllTimely(RoutePromotion, c)
  BY <1>1 DEF RoutePromotion
<1>7. AllTimely(RoutePrepare(preflight), c)
  <2> PICK A, B : A = <<Put("issued", TRUE)>> /\ B = QueueIt("q4", 0)
    OBVIOUS
  <2>1. AllTimely(A, c)
    BY <1>3
  <2>2. AllTimely(B, c)
    BY CallTimely DEF QueueIt
  <2> PICK D : D = A \o B
    OBVIOUS
  <2>3. AllTimely(D, c)
    BY <2>1, <2>2, TimelyJoin
  <2>4. AllTimely(D \o Clear, c)
    BY <1>1, <2>3, TimelyJoin
  <2> QED BY <1>2, <1>4, <2>4 DEF RoutePrepare
<1>8. AllTimely(RouteQ4, c)
  <2> PICK A, B : A = <<Put("committed", TRUE)>> /\ B = Writes("ENGINEERING_BLOCKED", "FORWARD_FEED")
    OBVIOUS
  <2>1. AllTimely(A, c) /\ AllTimely(B, c)
    BY <1>3, <1>4
  <2>2. AllTimely(A \o B, c)
    BY <2>1, TimelyJoin
  <2> QED BY <2>2 DEF RouteQ4
<1>9. AllTimely(RouteUpdate, c)
  <2> PICK B : B = IF kv.latest # None /\ InDebt(kv.latest)
                   THEN Call("closure", PendingOrNext("cohort")) ELSE <<>>
    OBVIOUS
  <2>1. AllTimely(B, c)
    BY <1>1, <1>2
  <2>2. AllTimely(Clear \o B, c)
    BY <1>1, <2>1, TimelyJoin
  <2> QED BY <2>2 DEF RouteUpdate
<1>10. AllTimely(RouteV5(i), c)
  <2> PICK A, B : A = <<Put("evolved", kv.evolved \cup {i})>> /\ B = Call("v5", i + 1)
    OBVIOUS
  <2>1. AllTimely(A, c) /\ AllTimely(B, c)
    BY <1>2, <1>3
  <2> PICK D : D = A \o Clear
    OBVIOUS
  <2>2. AllTimely(D, c)
    BY <1>1, <2>1, TimelyJoin
  <2>3. AllTimely(D \o B, c)
    BY <2>1, <2>2, TimelyJoin
  <2> QED BY <2>3 DEF RouteV5
<1>11. AllTimely(RouteV6(i), c)
  <2> PICK B : B = Call("v6", i + 1)
    OBVIOUS
  <2>1. AllTimely(B, c)
    BY <1>2
  <2>2. AllTimely(Clear \o B, c)
    BY <1>1, <2>1, TimelyJoin
  <2> QED BY <2>2 DEF RouteV6
<1> QED BY <1>5, <1>6, <1>7, <1>8, <1>9, <1>10, <1>11, EngineNames DEF Route
\* The route of a cohort counts it, notes that it is the latest, and only then
\* asks for another.
LEMMA RouteCohortIs ==
  ASSUME NEW i
  PROVE  \E R : /\ AllTimely(R, TRUE)
                /\ RouteCohort(i) = <<Put("counted", Accumulated(i)), Put("latest", i)>> \o R
<1>1. AllTimely(FinishConversion, TRUE) /\ AllTimely(<<>>, TRUE)
  BY WritesTimely, TimelyFew
<1> PICK A, F : /\ F = << <<"followed", i>> >>
                /\ A = IF InDebt(i) THEN Call(IF i \in closure THEN "closure" ELSE "cohort", i + 1)
                       ELSE <<>>
  OBVIOUS
<1>2. AllTimely(A, TRUE)
  <2>1. \A e, k : AllTimely(<< <<"reconcile", e, k>> >>, TRUE)
    BY CallTimely
  <2> QED BY <1>1, <2>1 DEF Call
<1>3. AllTimely(F, TRUE)
  <2>1. Timely(<<"followed", i>>, TRUE)
    BY DEF Timely, Is
  <2> QED BY <2>1, TimelyFew
<1>4. AllTimely(A \o F, TRUE)
  BY <1>2, <1>3, TimelyJoin
<1> PICK R : R = IF i \notin closure /\ StopReason(Accumulated(i), i) THEN FinishConversion ELSE A \o F
  OBVIOUS
<1>5. AllTimely(R, TRUE)
  BY <1>1, <1>4
<1>6. RouteCohort(i) = <<Put("counted", Accumulated(i)), Put("latest", i)>> \o R
  BY DEF RouteCohort
<1> QED BY <1>5, <1>6

\* A result is routed.
LEMMA RouteResultCohorts ==
  ASSUME GenerationsInv, CohortsFit, RouteResult
  PROVE  CohortsFit'
<1>1. /\ row' = row /\ kv' = kv /\ closure' = closure /\ accounted' = accounted
      /\ RecordsTyped /\ TodoTyped /\ Step("route")
  BY DEF GenerationsInv, RouteResult
<1>2. RowSettles
  BY <1>1 DEF RowSettles, RecordsTyped
<1>3. IsList(todo) /\ todo[1][1] = "route" /\ Head(todo) = todo[1] /\ 1 \in 1..Len(todo)
  <2>1. IsList(todo) /\ todo # <<>> /\ Head(todo)[1] = "route"
    BY <1>1 DEF TodoTyped, Step
  <2>2. Len(todo) >= 1 /\ Head(todo) = todo[1]
    BY <2>1, Rest
  <2> QED BY <2>1, <2>2 DEF IsList
<1> PICK j : j = todo[1][2]
  OBVIOUS
<1>4. Arg(1) = j /\ j \in Due
  <2>1. StepTyped(todo[1], 1)
    BY <1>1, <1>3 DEF TodoTyped
  <2> QED BY <1>3, <2>1 DEF Arg, StepTyped
<1> PICK e, i : e = j[1] /\ i = j[2]
  OBVIOUS
<1>5. j = <<e, i>> /\ e \in ToSet(Engines) /\ i \in Numbers(e)
  BY <1>4, JobIs DEF Due
<1>6. PICK preflight \in BOOLEAN : Then(Route(e, i, preflight))
  BY <1>4 DEF RouteResult
<1>7. ~HeadIs("counted") /\ ~HeadIs("latest")
  BY <1>3 DEF HeadIs, Is
<1>8. ASSUME e # "cohort" PROVE CohortsFit'
  <2> PICK T : T = Route(e, i, preflight)
    OBVIOUS
  <2>1. AllTimely(T, Settled)
    BY <1>5, <1>8, OtherRoutesTimely
  <2>2. Carries(T)
    BY <1>1, <1>6, <2>1, HeadCarries DEF AllTimely
  <2>3. ASSUME NEW k, todo[1] = <<"route", k>> PROVE k[1] # "cohort"
    <3>1. k = j
      BY <2>3
    <3> QED BY <1>8, <3>1
  <2> QED BY <1>1, <1>2, <1>7, <2>1, <2>2, <2>3, CohortsQuiet
<1>9. ASSUME e = "cohort" PROVE CohortsFit'
  <2>1. /\ CohortRows /\ PreHoldout' = PreHoldout /\ Due' = Due
        /\ (Of("cohort", "QUEUED") \ closure)' \subseteq Of("cohort", "QUEUED") \ closure
    BY <1>1, <1>2, QuietCohorts
  <2>2. Done' = Done /\ LatestDone' = LatestDone
    BY <2>1, AdmitsStays
  <2>3. (\A d \in Done : d <= i) /\ kv.counted \cup ({i} \ closure) = PreHoldout /\ i \in Done
    <3>1. i \in Numbers("cohort") /\ <<"cohort", i>> \in Due
      BY <1>4, <1>5, <1>9
    <3> QED BY <3>1 DEF CohortsFit, Due, Done, Completeds
  <2>4. Accumulated(i) = PreHoldout
    BY <2>3 DEF Accumulated
  <2>5. LatestDone = i
    <3>1. PICK n \in Nat : Numbers("cohort") = 0..n
      BY DoneIs
    <3>2. LatestDone \in Done /\ (\A d \in Done : d <= LatestDone) /\ Done \subseteq 0..n
      BY <2>3, <3>1, DoneIs
    <3>3. i <= LatestDone /\ LatestDone <= i /\ i \in 0..n /\ LatestDone \in 0..n
      BY <2>3, <3>2
    <3> QED BY <3>3
  <2>6. PICK R : /\ AllTimely(R, TRUE)
                 /\ RouteCohort(i) = <<Put("counted", Accumulated(i)), Put("latest", i)>> \o R
    BY RouteCohortIs
  <2>a. PICK a, b : a = Put("counted", PreHoldout) /\ b = Put("latest", i)
    OBVIOUS
  <2>b. /\ a[1] = "set" /\ a[2] = "counted" /\ a[3] = PreHoldout
        /\ b[1] = "set" /\ b[2] = "latest" /\ b[3] = i
    BY <2>a DEF Put
  <2>7. PICK B : B = <<a, b>>
    OBVIOUS
  <2>8. IsList(B) /\ Len(B) = 2 /\ B[1] = a /\ B[2] = b /\ IsList(R)
    BY <2>6, <2>7, TwoSteps DEF AllTimely
  <2>9. PICK T : T = B \o R
    OBVIOUS
  <2>10. Then(T)
    <3>1. Route(e, i, preflight) = RouteCohort(i)
      BY <1>9 DEF Route
    <3> QED BY <1>6, <2>4, <2>6, <2>7, <2>9, <2>a, <3>1
  <2>11. /\ IsList(T) /\ Len(T) = 2 + Len(R) /\ Len(R) \in Nat /\ T[1] = a /\ T[2] = b
         /\ \A p \in 2 + 1..2 + Len(R) : T[p] = R[p - 2]
    <3>1. 1 \in 1..2 /\ 2 \in 1..2
      OBVIOUS
    <3>2. Len(R) \in Nat
      BY <2>8 DEF IsList
    <3>3. /\ IsList(T) /\ Len(T) = Len(B) + Len(R) /\ \A p \in 1..Len(B) : T[p] = B[p]
          /\ \A p \in Len(B) + 1..Len(B) + Len(R) : T[p] = R[p - Len(B)]
      BY <2>8, <2>9, Joined
    <3>4. T[1] = a /\ T[2] = b
      BY <2>8, <3>1, <3>3
    <3>5. \A p \in 2 + 1..2 + Len(R) : T[p] = R[p - 2]
      BY <2>8, <3>3
    <3> QED BY <2>8, <3>2, <3>3, <3>4, <3>5
  <2>12. Carries(T)
    BY <1>1, <2>10, <2>11, HeadCarries
  <2>13. KvCounts
    BY <1>1, <1>7 DEF KvCounts
  <2>14. 1 \in 1..Len(T) /\ 2 \in 1..Len(T)
    BY <2>11
  <2>15. todo'[1] = a /\ todo'[2] = b
    BY <2>11, <2>12, <2>14 DEF Carries
  <2>16. Is(todo[1], "counted")' /\ Is(todo[2], "latest")'
    BY <2>15, <2>b DEF Is
  <2>17. ASSUME NEW p \in 1..Len(T), NEW s, s = T[p] PROVE CohortStep(s, p)'
    <3>1. CASE p = 1
      <4>1. s[1] = "set" /\ s[2] = "counted" /\ s[3] = PreHoldout'
        BY <2>1, <2>11, <2>17, <2>b, <3>1
      <4> QED BY <4>1 DEF CohortStep, Is
    <3>2. CASE p = 2
      <4>1. s[1] = "set" /\ s[2] = "latest" /\ s[3] = LatestDone'
        BY <2>2, <2>5, <2>11, <2>17, <2>b, <3>2
      <4>2. 1 \in 1..p - 1
        BY <3>2
      <4>3. \E q \in 1..p - 1 : Is(todo[q], "counted")'
        BY <2>16, <4>2
      <4> QED BY <4>1, <4>3 DEF CohortStep, Is
    <3>3. CASE p # 1 /\ p # 2
      <4>1. p \in 2 + 1..2 + Len(R) /\ p - 2 \in 1..Len(R) /\ 2 \in 1..p - 1
        BY <2>11, <3>3
      <4>2. s = R[p - 2]
        BY <2>11, <2>17, <4>1
      <4>3. Timely(s, TRUE)
        BY <2>6, <4>1, <4>2 DEF AllTimely
      <4>4. \E q \in 1..p - 1 : Is(todo[q], "latest")'
        BY <2>16, <4>1
      <4>5. Admits' = Admits
        BY <2>1, AdmitsStays
      <4> QED BY <4>3, <4>4, <4>5 DEF CohortStep, Timely, Is
    <3> QED BY <3>1, <3>2, <3>3
  <2>18. Is(T[2], "latest")
    BY <2>11, <2>b DEF Is
  <2>19. (Of("cohort", "QUEUED") \ closure)' # {} => Admits
    BY <2>1 DEF CohortsFit
  <2>20. (\A k \in Numbers("cohort") : <<"cohort", k>> \notin Due') => Settled
    BY <2>1 DEF CohortsFit
  <2>21. \A p \in 1..Len(T) : CohortStep(T[p], p)'
    BY <2>17
  <2> QED BY <2>1, <2>12, <2>13, <2>14, <2>18, <2>19, <2>20, <2>21, CohortsCarry
<1> QED BY <1>8, <1>9
\* What is due is routed before the list goes on.
LEMMA RouteCompletedCohorts ==
  ASSUME GenerationsInv, CohortsFit, RouteCompleted
  PROVE  CohortsFit'
<1>1. /\ row' = row /\ kv' = kv /\ closure' = closure /\ accounted' = accounted
      /\ RecordsTyped /\ TodoTyped /\ Step("completed")
  BY DEF GenerationsInv, RouteCompleted
<1>2. RowSettles
  BY <1>1 DEF RowSettles, RecordsTyped
<1>3. CASE Then(<<>>)
  BY <1>1, <1>2, <1>3, TimelyFew, CohortsHead
<1>4. ASSUME NEW j, todo' = Routing(j) \o todo PROVE CohortsFit'
  <2>1. /\ CohortRows /\ PreHoldout' = PreHoldout /\ Due' = Due
        /\ (Of("cohort", "QUEUED") \ closure)' \subseteq Of("cohort", "QUEUED") \ closure
    BY <1>1, <1>2, QuietCohorts
  <2>2. Done' = Done /\ LatestDone' = LatestDone /\ Admits' = Admits
    BY <2>1, AdmitsStays
  <2>3. Settled' = Settled
    BY <1>1, <2>1, <2>2 DEF Settled
  <2>4. IsList(todo) /\ todo[1][1] = "completed"
    <3>1. IsList(todo) /\ todo # <<>> /\ Head(todo)[1] = "completed"
      BY <1>1 DEF TodoTyped, Step
    <3> QED BY <3>1, Rest
  <2>a. PICK a, b : a = <<"route", j>> /\ b = <<"accounted", j>>
    OBVIOUS
  <2>b. a[1] = "route" /\ b[1] = "accounted" /\ b[2] = j
    BY <2>a
  <2>5. PICK B, n : B = <<a, b>> /\ n = Len(todo)
    OBVIOUS
  <2>6. IsList(B) /\ Len(B) = 2 /\ B[1] = a /\ B[2] = b /\ n \in Nat
    BY <2>4, <2>5, TwoSteps DEF IsList
  <2>7. /\ Len(todo') = 2 + n /\ \A p \in 1..2 : todo'[p] = B[p]
        /\ \A p \in 2 + 1..2 + n : todo'[p] = todo[p - 2]
    <3>1. todo' = B \o todo
      BY <1>4, <2>5, <2>a DEF Routing
    <3>2. /\ Len(B \o todo) = Len(B) + Len(todo)
          /\ \A p \in 1..Len(B) : (B \o todo)[p] = B[p]
          /\ \A p \in Len(B) + 1..Len(B) + Len(todo) : (B \o todo)[p] = todo[p - Len(B)]
      BY <2>4, <2>6, Joined
    <3> QED BY <2>5, <2>6, <3>1, <3>2
  <2>8. todo'[1] = a /\ todo'[2] = b
    <3>1. 1 \in 1..2 /\ 2 \in 1..2
      OBVIOUS
    <3> QED BY <2>6, <2>7, <3>1
  <2>9. ASSUME NEW p \in 1..Len(todo'), NEW s, s = todo'[p] PROVE CohortStep(s, p)'
    <3>1. CASE p = 1
      BY <2>8, <2>9, <2>b, <3>1 DEF CohortStep, Is
    <3>2. CASE p = 2
      <4>1. s[1] = "accounted" /\ todo'[1] = <<"route", s[2]>>
        BY <2>8, <2>9, <2>a, <2>b, <3>2
      <4> QED BY <3>2, <4>1 DEF CohortStep, Is
    <3>3. CASE p # 1 /\ p # 2
      <4> PICK q : q = p - 2
        OBVIOUS
      <4>1. q \in 1..n /\ s = todo[q] /\ q \in Nat /\ p = q + 2
        <5>1. p \in 2 + 1..2 + n
          BY <2>6, <2>7, <3>3
        <5> QED BY <2>6, <2>7, <2>9, <5>1
      <4>2. CohortStep(s, q)
        BY <2>5, <4>1 DEF CohortsFit
      <4>3. ASSUME NEW f, \E r \in 1..q - 1 : Is(todo[r], f)
            PROVE  \E r \in 1..p - 1 : Is(todo[r], f)'
        <5>1. PICK r \in 1..q - 1 : Is(todo[r], f)
          BY <4>3
        <5>2. r + 2 \in 1..p - 1 /\ r + 2 \in 2 + 1..2 + n /\ (r + 2) - 2 = r
          BY <2>6, <4>1
        <5>3. todo'[r + 2] = todo[r]
          BY <2>7, <5>2
        <5> PICK m, t : m = r + 2 /\ t = todo[r]
          OBVIOUS
        <5>4. Is(todo[m], f)'
          BY <5>1, <5>3 DEF Is
        <5> QED BY <5>2, <5>4
      <4>4. todo[1] # <<"route", s[2]>>
        BY <2>4
      <4>5. Is(s, "counted") => s[3] = PreHoldout'
        BY <2>1, <4>2 DEF CohortStep
      <4>6. Is(s, "latest") =>
              /\ s[3] = LatestDone'
              /\ kv'.counted = PreHoldout' \/ \E r \in 1..p - 1 : Is(todo[r], "counted")'
        BY <1>1, <2>1, <2>2, <4>2, <4>3 DEF CohortStep
      <4>7. s[1] \in {"reconcile", "start"} /\ s[2] = "cohort" =>
              Settled' \/ \E r \in 1..p - 1 : Is(todo[r], "latest")'
        BY <2>3, <4>2, <4>3 DEF CohortStep
      <4>8. s[1] = "queue" /\ s[2] = "cohort" => Admits'
        BY <2>2, <4>2 DEF CohortStep
      <4>9. s[1] = "accounted" /\ s[2][1] = "cohort" =>
              Settled' \/ \E r \in 1..p - 1 : Is(todo[r], "latest")'
        BY <2>3, <4>2, <4>3, <4>4 DEF CohortStep
      <4> QED BY <4>5, <4>6, <4>7, <4>8, <4>9 DEF CohortStep, Is
    <3> QED BY <3>1, <3>2, <3>3
  <2>10. ASSUME NEW p \in 1..Len(todo') PROVE CohortStep(todo[p], p)'
    <3> PICK s : s = todo'[p]
      OBVIOUS
    <3>1. CohortStep(s, p)'
      BY <2>9
    <3> QED BY <3>1
  <2>11. ASSUME NEW k \in Numbers("cohort"), <<"cohort", k>> \in Due'
         PROVE  (\A d \in Done' : d <= k) /\ kv'.counted \cup ({k} \ closure') = PreHoldout'
    BY <1>1, <2>1, <2>2, <2>11 DEF CohortsFit
  <2>12. (\A k \in Numbers("cohort") : <<"cohort", k>> \notin Due') => Settled'
    BY <2>1, <2>3 DEF CohortsFit
  <2>13. (Of("cohort", "QUEUED") \ closure)' # {} => Admits'
    BY <2>1, <2>2 DEF CohortsFit
  <2> QED BY <2>10, <2>11, <2>12, <2>13 DEF CohortsFit
<1> QED BY <1>3, <1>4 DEF RouteCompleted

\* What the loop does when it finds nothing to run, or when a run fails.
LEMMA LoopCohorts ==
  ASSUME GenerationsInv, CohortsFit,
         LiftForUpdate \/ Wait \/ Stall \/ FailOnce \/ UpdateDue \/ Run \/ Start
  PROVE  CohortsFit'
<1>1. /\ row' = row /\ closure' = closure /\ accounted' = accounted /\ RecordsTyped
  BY DEF GenerationsInv, LiftForUpdate, Wait, Stall, Rests, FailOnce, UpdateDue, Run, Start
<1>2. RowSettles
  BY <1>1 DEF RowSettles, RecordsTyped
<1>3. todo = <<>> \/ (Len(todo) = 1 /\ todo[1][1] = "run")
  BY <1>1, RunIs DEF LiftForUpdate, Wait, Stall, Rests, Ready, Idle, FailOnce, UpdateDue, Run,
                     Start, RecordsTyped
<1>4. kv'.counted = kv.counted /\ kv'.latest = kv.latest
  <2>1. CASE kv' = kv
    BY <2>1
  <2>2. CASE Run \/ Start
    <3>1. /\ kv = [f \in KvNames |-> kv[f]]
          /\ {"counted", "latest", "phase", "blocker"} \subseteq KvNames
      BY <1>1 DEF RecordsTyped, KvNames
    <3> QED BY <2>2, <3>1 DEF Run, Start
  <2> QED BY <2>1, <2>2 DEF LiftForUpdate, Wait, Stall, Rests, FailOnce, UpdateDue
<1>5. PICK T : todo' = T
  OBVIOUS
<1>6. AllTimely(T, Settled)
  <2>1. CASE LiftForUpdate \/ Wait \/ Stall \/ FailOnce
    <3>1. T = Clear \/ \E b, c : T = Writes(b, c)
      BY <1>5, <2>1 DEF LiftForUpdate, Wait, Stall, Rests, FailOnce
    <3> QED BY <3>1, WritesTimely
  <2>2. CASE UpdateDue
    <3> PICK A, B : A = QueueIt("update", kv.sequence) /\ B = <<Put("sequence", kv.sequence + 1)>>
      OBVIOUS
    <3>1. AllTimely(A, Settled)
      BY CallTimely DEF QueueIt
    <3>2. AllTimely(B, Settled) /\ AllTimely(Clear, Settled) /\ AllTimely(Mismatch.steps, Settled)
      BY WritesTimely
    <3> PICK D : D = A \o B
      OBVIOUS
    <3>3. AllTimely(D, Settled)
      BY <3>1, <3>2, TimelyJoin
    <3>4. AllTimely(D \o Clear, Settled)
      BY <3>2, <3>3, TimelyJoin
    <3>5. T = D \o Clear \/ T = Mismatch.steps
      BY <1>5, <2>2 DEF UpdateDue
    <3> QED BY <3>2, <3>4, <3>5
  <2>3. CASE Run
    <3>1. PICK a : T = <<a>> /\ a[1] = "run"
      BY <1>5, <2>3 DEF Run
    <3>2. Timely(a, Settled)
      BY <3>1 DEF Timely, Is
    <3> QED BY <3>1, <3>2, TimelyFew
  <2>4. CASE Start
    <3> PICK a, b : a = <<"completed">> /\ b = <<"collect">>
      OBVIOUS
    <3>1. T = <<a, b>>
      BY <1>5, <2>4 DEF Start
    <3>2. Timely(a, Settled) /\ Timely(b, Settled)
      BY DEF Timely, Is
    <3> QED BY <3>1, <3>2, TimelyFew
  <2> QED BY <2>1, <2>2, <2>3, <2>4
<1> QED BY <1>1, <1>2, <1>3, <1>4, <1>5, <1>6, CohortsAlone

\* A run that fails for good, and one that finds the grammar exhausted and
\* turns to the conversion.
LEMMA FailureCohorts ==
  ASSUME GenerationsInv, CohortsFit, FailForGood \/ Exhaust
  PROVE  CohortsFit'
<1>1. /\ kv' = kv /\ closure' = closure /\ accounted' = accounted /\ RecordsTyped
      /\ Step("run")
  BY DEF GenerationsInv, FailForGood, Exhaust
<1>2. up /\ Len(todo) = 1 /\ todo[1][1] = "run" /\ <<Arg(1), Arg(2)>> \in Queued
  BY <1>1, RunIs
<1>3. RowSettles
  <2>1. row' = [row EXCEPT ![<<Arg(1), Arg(2)>>] = "FAILED"]
    BY DEF FailForGood, Exhaust
  <2> QED BY <1>1, <1>2, <2>1, FailSettles
<1>4. Settled
  <2>1. \A p \in 1..Len(todo) : todo[p][1] # "completed"
    BY <1>2
  <2> QED BY <1>2, <2>1, SettledIs
<1>5. PICK T : todo' = T
  OBVIOUS
<1>6. AllTimely(T, Settled)
  <2> PICK A, B, C, D :
        /\ A = Writes("EXPERIMENT_BLOCKED", "TURBO_FAILED")
        /\ B = <<Put("blocker", "TURBO_EXHAUSTED")>>
        /\ C = Call("cohort", PendingOrNext("cohort")) /\ D = Call("turbo", NextNumber("turbo"))
    OBVIOUS
  <2>1. AllTimely(A, Settled) /\ AllTimely(B, Settled)
    BY WritesTimely
  <2>2. AllTimely(C, Settled) /\ AllTimely(D, Settled)
    BY <1>4, CallTimely DEF Call
  <2>3. AllTimely(A \o D, Settled) /\ AllTimely(A \o B, Settled)
    BY <2>1, <2>2, TimelyJoin
  <2> PICK E : E = A \o B
    OBVIOUS
  <2>4. AllTimely(E \o C, Settled)
    BY <2>2, <2>3, TimelyJoin
  <2>5. (\E b, c : T = Writes(b, c)) \/ T = A \o D \/ T = E \o C
    <3>1. CASE FailForGood
      BY <1>5, <3>1 DEF FailForGood
    <3>2. CASE Exhaust
      BY <1>5, <3>2 DEF Exhaust
    <3> QED BY <3>1, <3>2
  <2> QED BY <2>3, <2>4, <2>5, WritesTimely
<1> QED BY <1>1, <1>2, <1>3, <1>5, <1>6, CohortsAlone
\* What ran has its result; a cohort is then the last, and the one to be
\* routed.
LEMMA FinishCohorts ==
  ASSUME GenerationsInv, CohortsFit, Finish
  PROVE  CohortsFit'
<1>1. /\ kv' = kv /\ closure' = closure /\ accounted' = accounted
      /\ RecordsTyped /\ TodoTyped /\ InOrder /\ Step("run")
  BY DEF GenerationsInv, Finish
<1> PICK e, i : e = Arg(1) /\ i = Arg(2)
  OBVIOUS
<1>2. up /\ Len(todo) = 1 /\ todo[1][1] = "run" /\ <<e, i>> \in Queued
  BY <1>1, RunIs
<1>3. PICK r \in Results(e) : row' = [row EXCEPT ![<<e, i>>] = r]
  BY DEF Finish
<1>4. /\ \A j \in Jobs : j # <<e, i>> => row'[j] = row[j]
      /\ row[<<e, i>>] = "QUEUED" /\ row'[<<e, i>>] = r /\ <<e, i>> \in Jobs
  BY <1>1, <1>2, <1>3 DEF RecordsTyped, Queued
<1>5. PICK T : T = << <<"completed">>, <<"settle">> >> /\ todo' = T
  BY DEF Finish
<1>6. IsList(T) /\ Len(T) = 2 /\ T[1] = <<"completed">> /\ T[2] = <<"settle">>
  BY <1>5, TwoSteps
<1>7. ASSUME NEW p \in 1..Len(T), NEW s, s = T[p] PROVE CohortStep(s, p)'
  <2>1. p = 1 \/ p = 2
    BY <1>6
  <2>2. s[1] \in {"completed", "settle"}
    BY <1>6, <1>7, <2>1
  <2> QED BY <2>2 DEF CohortStep, Is
<1>8. Due = {} /\ Settled
  <2>1. \A p \in 1..Len(todo) : todo[p][1] # "completed"
    BY <1>2
  <2> QED BY <1>2, <2>1, SettledIs
<1>9. \A k \in Numbers("cohort") : <<"cohort", k>> \in Jobs
  BY JobIs, EngineNames
<1>10. CASE e # "cohort"
  <2>1. \A k \in Numbers("cohort") : row'[<<"cohort", k>>] = row[<<"cohort", k>>]
    BY <1>4, <1>9, <1>10
  <2>2. CohortRows
    <3>1. ASSUME NEW j, j[1] = "cohort", row'[j] = row[j] PROVE Completed(j)' = Completed(j)
      BY <3>1 DEF Completed
    <3> QED BY <2>1, <3>1 DEF CohortRows
  <2>3. PreHoldout' = PreHoldout
    BY <1>1, <2>2 DEF CohortRows, PreHoldout, Done, Completeds
  <2>4. \A k \in Numbers("cohort") : <<"cohort", k>> \in Due' <=> <<"cohort", k>> \in Due
    BY <1>1, <1>9, <2>2 DEF CohortRows, Due
  <2>5. Of("cohort", "QUEUED")' = Of("cohort", "QUEUED")
    BY <2>1 DEF Of
  <2>6. Carries(T)
    BY <1>1, <1>2, <1>5, <1>6, AloneCarries
  <2>7. ~HeadIs("counted") /\ ~HeadIs("latest")
    BY <1>2 DEF HeadIs, Is
  <2>8. KvCounts
    BY <1>1, <2>7 DEF KvCounts
  <2>9. (Of("cohort", "QUEUED") \ closure)' # {} => Admits
    BY <1>1, <2>5 DEF CohortsFit
  <2>10. \A j : todo[1] # <<"route", j>>
    BY <1>2
  <2>11. \A p \in 1..Len(T) : CohortStep(T[p], p)'
    BY <1>7
  <2> QED BY <1>8, <2>2, <2>3, <2>4, <2>6, <2>8, <2>9, <2>10, <2>11, CohortsCarry
<1>11. CASE e = "cohort"
  <2>1. i \in Numbers("cohort") /\ r \in Results("cohort") /\ i \in Known("cohort")
    <3>1. i \in Numbers("cohort")
      BY <1>4, <1>11, JobIs
    <3> QED BY <1>3, <1>4, <1>11, <3>1 DEF Known
  <2>2. PICK n \in Nat : Numbers("cohort") = 0..n
    BY DoneIs
  <2>3. "QUEUED" \notin Results("cohort")
    BY DEF Results
  <2>4. \A k \in Numbers("cohort") : k # i => row'[<<"cohort", k>>] = row[<<"cohort", k>>]
    BY <1>4, <1>9, <1>11
  <2>5. i \notin Done /\ Done' = Done \cup {i}
    <3>1. ASSUME NEW k \in Numbers("cohort"), k # i
          PROVE  Completed(<<"cohort", k>>)' = Completed(<<"cohort", k>>)
      BY <2>4, <3>1 DEF Completed
    <3>2. ~Completed(<<"cohort", i>>) /\ Completed(<<"cohort", i>>)'
      BY <1>4, <1>11, <2>1, <2>3 DEF Completed
    <3> QED BY <2>1, <3>1, <3>2 DEF Done, Completeds
  <2>6. ASSUME NEW k \in Known("cohort"), row[<<"cohort", k>>] = "QUEUED"
        PROVE  ~(i < k) /\ ~(k < i)
    <3>1. Below("cohort", i) /\ Below("cohort", k) /\ k \in Numbers("cohort")
      BY <1>1, <2>1, <2>6 DEF InOrder, Numbered, Known
    <3>2. ~Over(<<"cohort", i>>) /\ ~Over(<<"cohort", k>>)
      BY <1>4, <1>11, <2>6 DEF Over
    <3> QED BY <2>1, <3>1, <3>2 DEF Below
  <2>7. ASSUME NEW d \in Done' PROVE d <= i
    <3>1. CASE d = i
      BY <2>1, <2>2, <3>1
    <3>2. CASE d # i
      <4>1. d \in Done /\ d \in Numbers("cohort") /\ Completed(<<"cohort", d>>)
        BY <2>5, <2>7, <3>2 DEF Done, Completeds
      <4>2. d \in Known("cohort")
        BY <4>1 DEF Known, Completed, Results
      <4>3. ~(i < d)
        <5>1. Below("cohort", d)
          BY <1>1, <4>2 DEF InOrder, Numbered
        <5>2. ~Over(<<"cohort", i>>)
          BY <1>4, <1>11 DEF Over
        <5> QED BY <2>1, <5>1, <5>2 DEF Below
      <4> QED BY <2>1, <2>2, <4>1, <4>3
    <3> QED BY <3>1, <3>2
  <2>8. Of("cohort", "QUEUED")' = {}
    <3>1. ASSUME NEW k \in Of("cohort", "QUEUED")' PROVE FALSE
      <4>1. k \in Numbers("cohort") /\ row'[<<"cohort", k>>] = "QUEUED"
        BY <3>1 DEF Of
      <4>2. k # i
        BY <1>4, <1>11, <2>1, <2>3, <4>1
      <4>3. row[<<"cohort", k>>] = "QUEUED" /\ k \in Known("cohort")
        BY <2>4, <4>1, <4>2 DEF Known
      <4>4. ~(i < k) /\ ~(k < i)
        BY <2>6, <4>3
      <4> QED BY <2>1, <2>2, <4>1, <4>2, <4>4
    <3> QED BY <3>1
  <2>9. \A k : <<"cohort", k>> \in Due' => k = i
    <3>1. ASSUME NEW k, NEW j, j = <<"cohort", k>>, j \in Due' PROVE k = i
      <4>1. j \in Jobs /\ Completed(j)' /\ j \notin accounted /\ j[1] = "cohort"
        BY <1>1, <3>1 DEF Due
      <4>2. ASSUME j # <<e, i>> PROVE FALSE
        <5>1. Completed(j)
          BY <1>4, <4>1, <4>2 DEF Completed
        <5> QED BY <1>8, <4>1, <5>1 DEF Due
      <4> QED BY <1>11, <3>1, <4>2
    <3> QED BY <3>1
  <2>10. <<"cohort", i>> \in Due'
    <3>1. <<"cohort", i>> \notin accounted
      BY <1>1, <2>1, <2>5 DEF RecordsTyped, Done, Completeds
    <3>2. i \in Done'
      BY <2>5
    <3> QED BY <1>1, <1>9, <2>1, <3>1, <3>2 DEF Due, Done, Completeds
  <2>11. kv'.counted \cup ({i} \ closure') = PreHoldout'
    BY <1>1, <1>8, <2>5 DEF Settled, PreHoldout
  <2>12. ASSUME NEW p \in 1..Len(todo') PROVE CohortStep(todo[p], p)'
    <3> PICK s : s = todo'[p]
      OBVIOUS
    <3>1. CohortStep(s, p)'
      BY <1>5, <1>7
    <3> QED BY <3>1
  <2> QED BY <2>1, <2>7, <2>8, <2>9, <2>10, <2>11, <2>12 DEF CohortsFit
<1> QED BY <1>10, <1>11

\* A stop leaves no steps, a crash neither; a run that was cut off may fail.
LEMMA DownCohorts ==
  ASSUME GenerationsInv, CohortsFit, StopCleanly \/ Crash
  PROVE  CohortsFit'
<1>1. /\ closure' = closure /\ accounted' = accounted /\ RecordsTyped /\ todo' = <<>>
  BY DEF GenerationsInv, StopCleanly, Crash
<1>2. RowSettles
  <2>1. CASE row' = row
    BY <1>1, <2>1 DEF RowSettles, RecordsTyped
  <2>2. CASE Step("run") /\ row' = [row EXCEPT ![<<Arg(1), Arg(2)>>] = "FAILED"]
    BY <1>1, <2>2, RunIs, FailSettles
  <2> QED BY <2>1, <2>2 DEF StopCleanly, Crash
<1>3. kv'.counted = kv.counted /\ kv'.latest = kv.latest
  <2>1. /\ kv = [f \in KvNames |-> kv[f]]
        /\ {"counted", "latest", "phase", "blocker"} \subseteq KvNames
    BY <1>1 DEF RecordsTyped, KvNames
  <2> QED BY <2>1 DEF StopCleanly, Crash
<1>4. /\ CohortRows /\ PreHoldout' = PreHoldout /\ Due' = Due
      /\ (Of("cohort", "QUEUED") \ closure)' \subseteq Of("cohort", "QUEUED") \ closure
  BY <1>1, <1>2, QuietCohorts
<1>5. Done' = Done /\ LatestDone' = LatestDone /\ Admits' = Admits
  BY <1>4, AdmitsStays
<1>6. 1..Len(todo') = {}
  BY <1>1, EmptyList
<1>7. ASSUME NEW k \in Numbers("cohort"), <<"cohort", k>> \in Due'
      PROVE  (\A d \in Done' : d <= k) /\ kv'.counted \cup ({k} \ closure') = PreHoldout'
  BY <1>1, <1>3, <1>4, <1>5, <1>7 DEF CohortsFit
<1>8. (\A k \in Numbers("cohort") : <<"cohort", k>> \notin Due') => Settled'
  BY <1>3, <1>4, <1>5 DEF CohortsFit, Settled
<1>9. (Of("cohort", "QUEUED") \ closure)' # {} => Admits'
  BY <1>4, <1>5 DEF CohortsFit
<1> QED BY <1>6, <1>7, <1>8, <1>9 DEF CohortsFit
\* Before the first start there is no cohort.
LEMMA CohortsInit ==
  ASSUME GenerationsInit
  PROVE  CohortsFit
<1>1. todo = <<>> /\ row = [j \in Jobs |-> "absent"] /\ kv.counted = {} /\ kv.latest = None
  BY DEF GenerationsInit
<1>2. 1..Len(todo) = {}
  BY <1>1, EmptyList
<1>3. ASSUME NEW k \in Numbers("cohort"), NEW j, j = <<"cohort", k>>
      PROVE  row[j] = "absent" /\ ~Completed(j)
  <2>1. j \in Jobs
    BY <1>3, JobIs, EngineNames
  <2> QED BY <1>1, <2>1 DEF Completed, Results
<1>4. Done = {} /\ \A k \in Numbers("cohort") : <<"cohort", k>> \notin Due
  BY <1>3 DEF Done, Completeds, Due
<1>5. PreHoldout = {} /\ LatestDone = None
  BY <1>4 DEF PreHoldout, LatestDone
<1>6. Of("cohort", "QUEUED") = {}
  BY <1>3 DEF Of
<1>7. Settled
  BY <1>1, <1>5 DEF Settled
<1> QED BY <1>2, <1>4, <1>6, <1>7 DEF CohortsFit

\* Without a step, and with each.
LEMMA CohortsStep ==
  ASSUME GenerationsInv, CohortsFit, [GenerationsNext]_vars
  PROVE  CohortsFit'
<1>1. CASE Work
  <2>1. CASE SetKv
    BY <2>1, SetKvCohorts
  <2>2. CASE Enqueue
    BY <2>2, EnqueueCohorts
  <2>3. CASE RetireQueued
    BY <2>3, RetireCohorts
  <2>4. CASE RouteResult
    BY <2>4, RouteResultCohorts
  <2>5. CASE RecordAccounted
    BY <2>5, RecordAccountedCohorts
  <2>6. CASE ResolveNow
    BY <2>6, ResolvingCohorts DEF ResolveNow
  <2>7. CASE ResolveAtStart
    BY <2>7, ResolvingCohorts DEF ResolveAtStart
  <2>8. CASE CohortFollowed \/ Settle \/ Conclude \/ Reevaluate \/ StartV5
    BY <2>8, PlainCohorts
  <2>9. CASE RouteCompleted
    BY <2>9, RouteCompletedCohorts
  <2>10. CASE Collect
    BY <2>10, CollectCohorts
  <2>11. CASE StartV6
    BY <2>11, StartV6Cohorts
  <2> QED BY <1>1, <2>1, <2>2, <2>3, <2>4, <2>5, <2>6, <2>7, <2>8, <2>9, <2>10, <2>11 DEF Work
<1>2. CASE Start \/ Loop
  <2>1. CASE LiftForUpdate \/ Wait \/ Stall \/ FailOnce \/ UpdateDue \/ Run \/ Start
    BY <2>1, LoopCohorts
  <2>2. CASE FailForGood \/ Exhaust
    BY <2>2, FailureCohorts
  <2>3. CASE Finish
    BY <2>3, FinishCohorts
  <2> QED BY <1>2, <2>1, <2>2, <2>3 DEF Loop
<1>3. CASE StopCleanly \/ Crash
  BY <1>3, DownCohorts
<1>4. CASE UNCHANGED vars
  <2>1. row' = row /\ kv' = kv /\ closure' = closure /\ accounted' = accounted /\ todo' = todo
        /\ RecordsTyped
    BY <1>4 DEF vars, GenerationsInv
  <2>2. RowSettles
    BY <2>1 DEF RowSettles, RecordsTyped
  <2>3. CohortRows /\ PreHoldout' = PreHoldout /\ Due' = Due
    BY <2>1, <2>2, QuietCohorts
  <2>4. Done' = Done /\ LatestDone' = LatestDone /\ Admits' = Admits
    BY <2>3, AdmitsStays
  <2>5. Settled' = Settled
    BY <2>1, <2>3, <2>4 DEF Settled
  <2>6. \A s, p : CohortStep(s, p)' = CohortStep(s, p)
    BY <2>1, <2>3, <2>4, <2>5 DEF CohortStep, Is
  <2>7. \A p \in 1..Len(todo') : CohortStep(todo[p], p)'
    <3>1. ASSUME NEW p \in 1..Len(todo'), NEW s, s = todo'[p] PROVE CohortStep(s, p)'
      BY <2>1, <2>6, <3>1 DEF CohortsFit
    <3>2. ASSUME NEW p \in 1..Len(todo') PROVE CohortStep(todo[p], p)'
      <4> PICK s : s = todo'[p]
        OBVIOUS
      <4>1. CohortStep(s, p)'
        BY <3>1
      <4> QED BY <4>1
    <3> QED BY <3>2
  <2>8. Of("cohort", "QUEUED")' = Of("cohort", "QUEUED")
    BY <2>1 DEF Of
  <2> QED BY <2>1, <2>3, <2>4, <2>5, <2>7, <2>8 DEF CohortsFit
<1> QED BY <1>1, <1>2, <1>3, <1>4 DEF GenerationsNext

\* What the stop is decided by fits the completed cohorts in every behaviour.
THEOREM CohortsInvariance == GenerationsSpec => []CohortsFit
<1>1. GenerationsInit => CohortsFit
  BY CohortsInit
<1>2. GenerationsInv /\ CohortsFit /\ [GenerationsNext]_vars => CohortsFit'
  BY CohortsStep
<1> QED BY <1>1, <1>2, GenerationsInvariance, PTL DEF GenerationsSpec

\* While a cohort before Q4 runs, none of the stops of the conversion has come.
THEOREM StopIsEarliest == GenerationsSpec => []EarliestStop
<1>1. ASSUME GenerationsInv, CohortsFit PROVE EarliestStop
  <2> SUFFICES ASSUME NEW i \in Numbers("cohort") \ closure, Working("cohort", i), Done # {}
               PROVE  LET done == Done
                          last == Max(done)
                      IN  /\ InDebt(last)
                          /\ Cardinality(done) = 1 \/ ~Zero(last) \/ ~Zero(Max(done \ {last}))
                          /\ Cardinality({k \in done \ closure : ~Zero(k)}) < Enough
    BY DEF EarliestStop, Done
  <2> PICK D, last : D = Done /\ last = Max(D)
    OBVIOUS
  <2>1. PICK n \in Nat : Numbers("cohort") = 0..n
    BY DoneIs
  <2>2. D \subseteq 0..n /\ D # {} /\ last \in D /\ \A d \in D : d <= last
    <3>1. D \subseteq 0..n /\ D # {}
      BY <2>1, DoneIs
    <3> QED BY <3>1, GreatestOf
  <2>3. last = LatestDone /\ last # None
    <3>1. LatestDone = Max(Done)
      BY DEF LatestDone
    <3> QED BY <2>1, <2>2, <3>1, DoneIs
  <2>4. Admits
    <3>1. PICK s : s = <<"run", "cohort", i>> /\ todo = <<s>>
      BY DEF Working
    <3>2. Len(todo) = 1 /\ todo[1] = s
      BY <3>1, OneStep
    <3>3. s[1] = "run" /\ s[2] = "cohort" /\ s[3] = i
      BY <3>1
    <3>4. StepTyped(s, 1)
      <4>1. 1 \in 1..Len(todo)
        BY <3>2
      <4> QED BY <1>1, <3>2, <4>1 DEF GenerationsInv, TodoTyped
    <3>5. <<"cohort", i>> \in Queued
      BY <3>3, <3>4 DEF StepTyped
    <3>6. i \in Of("cohort", "QUEUED") \ closure
      BY <3>5 DEF Queued, Of
    <3> QED BY <1>1, <3>6 DEF CohortsFit
  <2>5. /\ ~(Cardinality({k \in PreHoldout : ~Zero(k)}) >= Enough)
        /\ InDebt(last) /\ ~TwoZeros
    BY <2>3, <2>4 DEF Admits, StopReason
  <2>6. IsFiniteSet(D)
    <3>1. 0 \in Int /\ n \in Int
      BY <2>1
    <3>2. IsFiniteSet(0..n)
      BY <3>1, FS_Interval
    <3> QED BY <2>2, <3>2, FS_Subset
  <2>7. Cardinality({k \in D \ closure : ~Zero(k)}) < Enough
    <3> PICK F : F = {k \in D \ closure : ~Zero(k)}
      OBVIOUS
    <3>1. F \in SUBSET D
      OBVIOUS
    <3>2. Cardinality(F) \in Nat
      BY <2>6, <3>1, FS_Subset, FS_CardinalityType
    <3>3. ~(Cardinality(F) >= Enough)
      BY <2>5 DEF PreHoldout
    <3>4. Enough \in Nat
      BY GenerationsAssumption
    <3> QED BY <3>2, <3>3, <3>4
  <2>8. ASSUME Cardinality(D) # 1, Zero(last), Zero(Max(D \ {last})) PROVE FALSE
    <3> PICK E, m : E = D \ {last} /\ m = Max(E)
      OBVIOUS
    <3>1. E # {}
      <4>1. D # {last}
        BY <2>8, FS_Singleton
      <4> QED BY <2>2, <4>1
    <3>2. E \subseteq 0..n
      BY <2>2
    <3>3. m \in E /\ \A d \in E : d <= m
      BY <2>1, <3>1, <3>2, GreatestOf
    <3>4. Converted = D
      BY DEF Converted, Done, Completeds
    <3>5. m \in D /\ last \in D /\ m \in 0..n /\ last \in 0..n /\ m # last
      BY <2>2, <3>2, <3>3
    <3>6. m < last
      BY <2>2, <3>5
    <3>7. ASSUME NEW d \in D PROVE d \in {m, last} \/ d < m
      BY <2>2, <3>3, <3>5, <3>7
    <3>8. LastTwo(m, last)
      BY <3>4, <3>6, <3>7 DEF LastTwo
    <3> QED BY <2>5, <2>8, <3>4, <3>5, <3>8 DEF TwoZeros
  <2> QED BY <2>5, <2>7, <2>8
<1> QED BY <1>1, GenerationsInvariance, CohortsInvariance, PTL
=============================================================================
