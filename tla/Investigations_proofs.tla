------------------------ MODULE Investigations_proofs ------------------------
(***************************************************************************)
(* What the verdict on a fix is worth and how far the two loops go, for    *)
(* every catalogue, every set of scopes and every change of the system     *)
(* while they run.                                                         *)
(***************************************************************************)
EXTENDS Investigations, FiniteSetTheorems, SequenceTheorems, WellFoundedInduction, TLAPS

InstanceIds == (DOMAIN Probes \cup {0}) \X Observations \X Scopes \X Times

Steps ==
  [status : {"insufficient_evidence", "completed"}, key : Observations \X Scopes \X Supported,
   added : SUBSET InstanceIds, revision : Nat]

Records ==
  [status : {"insufficient_evidence", "completed"}, criterion : Observations, at : Times]

Phases == {"idle", "running", "returned", "raised"}

ContractOK ==
  contract.scope \in Scopes /\ contract.fixed_at \in Times /\ contract.criteria \in CriteriaChoices

TypeInv ==
  /\ clock \in Times /\ changes \in 0 .. MaxChanges
  /\ holds \subseteq Places /\ lastAbsent \in [Places -> -1 .. MaxTime]
  /\ evidence \subseteq Instances /\ current \subseteq Instances /\ composed \subseteq Instances
  /\ run \in Phases /\ check \in Phases
  /\ revision \in Nat
  /\ attempted \subseteq Observations \X Scopes \X Supported
  /\ steps \in Seq(Steps)
  /\ measured \subseteq Observations
  /\ record \in Seq(Records)
  /\ check # "idle" => contract # NoContract
  /\ contract # NoContract => ContractOK

\* What does not hold now was last absent now.
AbsenceInv ==
  \A place \in Places :
    /\ lastAbsent[place] <= clock
    /\ place \notin holds => lastAbsent[place] = clock

\* Who reports an absence has seen it.
ReportedInv ==
  \A i \in evidence \cup current \cup composed :
    i.state = "absent" => lastAbsent[<<i.observation, i.scope>>] >= i.at

\* A loop that runs has a step for every question it asked.
BudgetInv ==
  /\ IsFiniteSet(attempted) /\ Len(steps) <= MaxSteps
  /\ run = "idle" => attempted = {} /\ steps = <<>>
  /\ run = "running" => Cardinality(attempted) = Len(steps)
  /\ IsFiniteSet(measured) /\ Len(record) <= MaxVerifications
  /\ check = "idle" => measured = {} /\ record = <<>>
  /\ check = "running" => Cardinality(measured) = Len(record)

AllInv == TypeInv /\ AbsenceInv /\ ReportedInv /\ BudgetInv

-----------------------------------------------------------------------------
(* The best recommendation *)

\* A set of numbers has a least one.
LEMMA LeastNumber ==
  ASSUME NEW S \in SUBSET Nat, S # {}
  PROVE  \E n \in S : \A k \in S : n <= k
<1> DEFINE R == {p \in Nat \X Nat : p[1] < p[2]}
<1>1. IsWellFoundedOn(R, Nat)
  <2>1. R = OpToRel(<, Nat)
    BY DEF OpToRel
  <2> QED
    BY <2>1, NatLessThanWellFounded
<1>2. PICK n \in S : \A k \in S : ~ (<<k, n>> \in R)
  <2> HIDE DEF R
  <2> QED
    BY <1>1, WFMin
<1>3. ASSUME NEW k \in S PROVE n <= k
  <2>1. <<k, n>> \in Nat \X Nat /\ ~ (<<k, n>> \in R)
    BY <1>2
  <2>2. ~ (k < n)
    BY <2>1
  <2> QED
    BY <2>1, <2>2
<1> QED
  BY <1>3

\* Of what is recommended the first one by rank, target, scope and probe is
\* defined, because concepts and scopes are ordered as numbers are.
LEMMA BestIsOneOfThem ==
  ASSUME NEW S \in SUBSET [target : Nat, scope : Nat, probe : Nat, rank : Nat], S # {}
  PROVE  Best(S) \in S
<1>1. PICK a \in S : \A q \in S : a.rank <= q.rank
  <2> DEFINE Ranks == {q.rank : q \in S}
  <2>1. Ranks \in SUBSET Nat /\ Ranks # {}
    OBVIOUS
  <2>2. PICK n \in Ranks : \A k \in Ranks : n <= k
    <3> HIDE DEF Ranks
    <3> QED
      BY <2>1, LeastNumber
  <2> QED
    BY <2>2
<1> DEFINE A == {q \in S : q.rank = a.rank}
<1>2. PICK b \in A : \A q \in A : b.target <= q.target
  <2> DEFINE Targets == {q.target : q \in A}
  <2>1. Targets \in SUBSET Nat /\ Targets # {}
    OBVIOUS
  <2>2. PICK n \in Targets : \A k \in Targets : n <= k
    <3> HIDE DEF Targets
    <3> QED
      BY <2>1, LeastNumber
  <2> QED
    BY <2>2
<1> DEFINE B == {q \in A : q.target = b.target}
<1>3. PICK c \in B : \A q \in B : c.scope <= q.scope
  <2> DEFINE Scoped == {q.scope : q \in B}
  <2>1. Scoped \in SUBSET Nat /\ Scoped # {}
    OBVIOUS
  <2>2. PICK n \in Scoped : \A k \in Scoped : n <= k
    <3> HIDE DEF Scoped
    <3> QED
      BY <2>1, LeastNumber
  <2> QED
    BY <2>2
<1> DEFINE C == {q \in B : q.scope = c.scope}
<1>4. PICK r \in C : \A q \in C : r.probe <= q.probe
  <2> DEFINE Probed == {q.probe : q \in C}
  <2>1. Probed \in SUBSET Nat /\ Probed # {}
    OBVIOUS
  <2>2. PICK n \in Probed : \A k \in Probed : n <= k
    <3> HIDE DEF Probed
    <3> QED
      BY <2>1, LeastNumber
  <2> QED
    BY <2>2
<1>5. ASSUME NEW q \in S \ {r}
      PROVE  Precedes(<<r.rank, r.target, r.scope, r.probe>>, <<q.rank, q.target, q.scope, q.probe>>)
  <2>1. \/ r.rank < q.rank
        \/ r.rank = q.rank /\ r.target < q.target
        \/ r.rank = q.rank /\ r.target = q.target /\ r.scope < q.scope
        \/ r.rank = q.rank /\ r.target = q.target /\ r.scope = q.scope /\ r.probe < q.probe
    BY <1>1, <1>2, <1>3, <1>4
  <2> DEFINE k == <<r.rank, r.target, r.scope, r.probe>>
             l == <<q.rank, q.target, q.scope, q.probe>>
  <2>2. DOMAIN k = 1 .. 4
    OBVIOUS
  <2>3. /\ k[1] = r.rank /\ k[2] = r.target /\ k[3] = r.scope /\ k[4] = r.probe
        /\ l[1] = q.rank /\ l[2] = q.target /\ l[3] = q.scope /\ l[4] = q.probe
    OBVIOUS
  <2>4. \E i \in 1 .. 4 : k[i] < l[i] /\ \A j \in 1 .. i - 1 : k[j] = l[j]
    <3> HIDE DEF k, l
    <3>1. CASE k[1] < l[1]
      BY <3>1
    <3>2. CASE k[1] = l[1] /\ k[2] < l[2]
      BY <3>2
    <3>3. CASE k[1] = l[1] /\ k[2] = l[2] /\ k[3] < l[3]
      <4>1. \A j \in 1 .. 3 - 1 : j = 1 \/ j = 2
        OBVIOUS
      <4> QED
        BY <3>3, <4>1
    <3>4. CASE k[1] = l[1] /\ k[2] = l[2] /\ k[3] = l[3] /\ k[4] < l[4]
      <4>1. \A j \in 1 .. 4 - 1 : j = 1 \/ j = 2 \/ j = 3
        OBVIOUS
      <4> QED
        BY <3>4, <4>1
    <3> QED
      BY <2>1, <2>3, <3>1, <3>2, <3>3, <3>4
  <2> HIDE DEF k, l
  <2> QED
    BY <2>2, <2>4 DEF Precedes, k, l
<1>6. r \in S
  OBVIOUS
<1> QED
  BY <1>5, <1>6 DEF Best

-----------------------------------------------------------------------------
(* What the instruments report *)

LEMMA ReadingsAreTrue ==
  ASSUME TypeInv, AbsenceInv, NEW p \in DOMAIN Probes, NEW s \in Scopes,
         NEW i \in Readings(p, s)
  PROVE  /\ i \in Instances
         /\ i.state = "absent" => lastAbsent[<<i.observation, i.scope>>] >= i.at
<1>1. PICK o \in Probes[p].produces : i = Reading(p, o, s)
  BY DEF Readings
<1>2. o \in Observations /\ clock \in Times /\ Times \subseteq Nat /\ 0 \in Times
      /\ <<o, s>> \in Places
  BY CatalogueAssumption, WorldAssumption DEF TypeInv, ContractOK, Times, Places
<1>3. Expiry(p) \in Nat
  BY <1>2, WorldAssumption DEF Expiry, Times
<1>4. ReadingId(p, o, s) \in (DOMAIN Probes \cup {0}) \X Observations \X Scopes \X Times
  BY <1>2 DEF ReadingId
<1>5. i \in Instances
  BY <1>1, <1>2, <1>3, <1>4 DEF Instances, Reading, States
<1>6. /\ i.observation = o /\ i.scope = s /\ i.at = clock
      /\ i.state = "absent" => <<o, s>> \notin holds
  BY <1>1 DEF Reading
<1>7. <<o, s>> \notin holds => lastAbsent[<<o, s>>] = clock
  BY <1>2 DEF AbsenceInv
<1> QED
  BY <1>2, <1>5, <1>6, <1>7

\* What is not known yet belongs to a question that was not asked yet.
LEMMA SelectAsksAnew ==
  ASSUME TypeInv, BudgetInv, NEW r \in Recommendations, Select(r)
  PROVE  /\ Key(r) \in Observations \X Scopes \X Supported /\ Key(r) \notin attempted
         /\ r.probe \in DOMAIN Probes /\ r.scope \in Scopes
         /\ run = "running" /\ Len(steps) < MaxSteps
         /\ attempted' = attempted \cup {Key(r)}
         /\ Cardinality(attempted) = Len(steps)
         /\ IsFiniteSet(attempted') /\ Cardinality(attempted') = Len(steps) + 1
<1>1. Recommendations \subseteq [target : Observations, scope : Scopes, probe : Supported, rank : Nat]
  BY DEF Recommendations
<1>2. Open \in SUBSET [target : Nat, scope : Nat, probe : Nat, rank : Nat] /\ Open # {}
  <2>1. Observations \subseteq Nat /\ Scopes \subseteq Nat /\ Supported \subseteq Nat
    BY CatalogueAssumption, ScopesAssumption, InvestigationAssumption
  <2>2. Open \subseteq Recommendations /\ Open # {}
    BY DEF Open, Select
  <2>3. [target : Observations, scope : Scopes, probe : Supported, rank : Nat]
          \subseteq [target : Nat, scope : Nat, probe : Nat, rank : Nat]
    BY <2>1
  <2> QED
    BY <1>1, <2>2, <2>3
<1>3. r \in Open
  BY <1>2, BestIsOneOfThem DEF Select
<1>4. Key(r) \notin attempted
  BY <1>3 DEF Open
<1>5. Key(r) \in Observations \X Scopes \X Supported /\ r.probe \in Supported /\ r.scope \in Scopes
  BY <1>1 DEF Key
<1>6. r.probe \in DOMAIN Probes
  BY <1>5, InvestigationAssumption
<1>7. /\ run = "running" /\ Len(steps) < MaxSteps
      /\ attempted' = attempted \cup {Key(r)}
      /\ IsFiniteSet(attempted) /\ Cardinality(attempted) = Len(steps)
  BY DEF Select, BudgetInv
<1>8. IsFiniteSet(attempted') /\ Cardinality(attempted') = Cardinality(attempted) + 1
  BY <1>4, <1>7, FS_AddElement
<1> QED
  BY <1>4, <1>5, <1>6, <1>7, <1>8

\* The criterion that is measured was not measured before.
LEMMA MeasureAsksAnew ==
  ASSUME TypeInv, BudgetInv, NEW o, NEW p, Measure(o, p)
  PROVE  /\ o \in Observations /\ o \notin measured
         /\ ContractOK
         /\ check = "running" /\ Len(record) < MaxVerifications
         /\ measured' = measured \cup {o}
         /\ Cardinality(measured) = Len(record)
         /\ IsFiniteSet(measured') /\ Cardinality(measured') = Len(record) + 1
<1>1. /\ check = "running" /\ Len(record) < MaxVerifications
      /\ measured' = measured \cup {o} /\ o \in NextCriterion
      /\ IsFiniteSet(measured) /\ Cardinality(measured) = Len(record)
  BY DEF Measure, InLoop, BudgetInv
<1>2. ContractOK
  BY <1>1 DEF TypeInv, ContractOK
<1>3. contract.criteria \in CriteriaChoices
  BY <1>2 DEF ContractOK
<1>4. PICK k \in DOMAIN contract.criteria : o = contract.criteria[k] /\ o \notin measured
  BY <1>1 DEF NextCriterion, Criteria
<1>5. o \in ToSet(contract.criteria)
  BY <1>4 DEF ToSet
<1>6. o \in Observations
  BY <1>3, <1>5, VerificationAssumption
<1>7. IsFiniteSet(measured') /\ Cardinality(measured') = Cardinality(measured) + 1
  BY <1>1, <1>4, FS_AddElement
<1> QED
  BY <1>1, <1>2, <1>4, <1>6, <1>7

-----------------------------------------------------------------------------
(* The steps *)

LEMMA AllInitially == Init => AllInv
<1> SUFFICES ASSUME Init PROVE AllInv
  OBVIOUS
<1> USE DEF Init, WorldInit, InvestigationInit, VerificationInit
<1>1. 0 \in Times /\ 0 \in 0 .. MaxChanges /\ holds \subseteq Places
  BY WorldAssumption DEF Times
<1>2. \A place \in Places : lastAbsent[place] = IF place \in holds THEN -1 ELSE 0
  BY DEF Absences
<1>3. lastAbsent \in [Places -> -1 .. MaxTime]
  BY WorldAssumption DEF Absences
<1>4. evidence \subseteq Instances /\ \A i \in evidence : i.at = 0
  BY SeedsAssumption
<1>5. TypeInv
  <2>1. <<>> \in Seq(Steps) /\ <<>> \in Seq(Records)
    OBVIOUS
  <2> QED
    BY <1>1, <1>3, <1>4, <2>1 DEF TypeInv, ContractOK, Phases
<1>6. AbsenceInv
  BY <1>2 DEF AbsenceInv
<1>7. ReportedInv
  <2> SUFFICES ASSUME NEW i \in evidence, i.state = "absent"
               PROVE  lastAbsent[<<i.observation, i.scope>>] >= i.at
    BY DEF ReportedInv
  <2>1. <<i.observation, i.scope>> \in Places
    BY <1>4 DEF Instances, Places
  <2>2. <<i.observation, i.scope>> \notin holds
    OBVIOUS
  <2> QED
    BY <1>2, <1>4, <2>1, <2>2
<1>8. BudgetInv
  <2>1. Len(steps) = 0 /\ Len(record) = 0
    OBVIOUS
  <2> QED
    BY <2>1, FS_EmptySet, InvestigationAssumption, VerificationAssumption DEF BudgetInv
<1> QED
  BY <1>5, <1>6, <1>7, <1>8 DEF AllInv

\* Time goes on and the system changes; what was absent then was absent then.
LEMMA EnvironmentStep ==
  ASSUME AllInv, Environment
  PROVE  AllInv'
<1>1. UNCHANGED <<evidence, investigation, verification>> /\ TypeInv /\ AbsenceInv
  BY DEF Environment, AllInv
<1>2. clock' \in Times /\ clock' >= clock /\ changes' \in 0 .. MaxChanges /\ holds' \subseteq Places
  <2>1. CASE Tick
    BY <1>1, <2>1, WorldAssumption DEF Tick, TypeInv, Times
  <2>2. ASSUME NEW place \in Places, Change(place) PROVE <1>2!:
    BY <1>1, <2>2, WorldAssumption DEF Change, TypeInv, Times
  <2> QED
    BY <2>1, <2>2 DEF Environment
<1>3. lastAbsent' = Absences(clock', holds', lastAbsent) /\ (clock' = clock \/ holds' = holds)
  BY DEF Environment, Tick, Change
<1>4. \A place \in Places :
        /\ lastAbsent'[place] = IF place \in holds' THEN lastAbsent[place] ELSE clock'
        /\ lastAbsent[place] \in -1 .. MaxTime /\ lastAbsent[place] <= clock
  BY <1>1, <1>3 DEF Absences, TypeInv, AbsenceInv
<1>5. \A place \in Places : lastAbsent'[place] >= lastAbsent[place] /\ lastAbsent'[place] <= clock'
  BY <1>1, <1>2, <1>4 DEF TypeInv, ContractOK, Times
<1>6. lastAbsent' \in [Places -> -1 .. MaxTime]
  BY <1>2, <1>3, <1>4 DEF Absences, Times
<1>7. TypeInv'
  BY <1>1, <1>2, <1>6 DEF TypeInv, ContractOK, investigation, verification
<1>8. AbsenceInv'
  BY <1>4, <1>5 DEF AbsenceInv
<1>9. ReportedInv'
  <2> SUFFICES ASSUME NEW i \in evidence \cup current \cup composed, i.state = "absent"
               PROVE  lastAbsent'[<<i.observation, i.scope>>] >= i.at
    BY <1>1 DEF ReportedInv, investigation, verification
  <2>1. <<i.observation, i.scope>> \in Places /\ i.at \in Int
    BY <1>1, WorldAssumption DEF TypeInv, ContractOK, Instances, Places, Times
  <2>2. lastAbsent[<<i.observation, i.scope>>] >= i.at
    BY DEF AllInv, ReportedInv
  <2> QED
    BY <1>4, <1>5, <1>6, <2>1, <2>2
<1>10. BudgetInv'
  BY <1>1 DEF AllInv, BudgetInv, investigation, verification
<1> QED
  BY <1>7, <1>8, <1>9, <1>10 DEF AllInv

LEMMA BeginStep ==
  ASSUME AllInv, Begin, UNCHANGED <<world, verification>>
  PROVE  AllInv'
<1>1. /\ run = "idle" /\ run' = "running" /\ current' = evidence /\ revision' = 1
      /\ UNCHANGED <<evidence, attempted, steps>>
  BY DEF Begin
<1>2. TypeInv'
  BY <1>1 DEF AllInv, TypeInv, ContractOK, Phases, world, verification
<1>3. BudgetInv'
  <2>1. attempted = {} /\ steps = <<>>
    BY <1>1 DEF AllInv, BudgetInv
  <2>2. Cardinality(attempted) = Len(steps)
    BY <2>1, FS_EmptySet
  <2> QED
    BY <1>1, <2>2 DEF AllInv, BudgetInv, verification
<1> QED
  BY <1>1, <1>2, <1>3 DEF AllInv, AbsenceInv, ReportedInv, world, verification

LEMMA InvestigationKeeps ==
  ASSUME AllInv, InvestigationStep, UNCHANGED <<world, verification>>
  PROVE  AllInv'
<1> USE DEF AllInv, world, verification
<1>1. AbsenceInv'
  BY DEF AbsenceInv
<1>2. ASSUME evidence' \in {evidence, current}, UNCHANGED current
      PROVE  evidence' \subseteq Instances /\ ReportedInv'
  BY <1>2 DEF TypeInv, ContractOK, ReportedInv
<1>3. CASE StopNoRecommendation \/ StopMaxSteps
  <2>1. /\ run' = "returned" /\ evidence' = current
        /\ UNCHANGED <<current, revision, steps, attempted>>
    BY <1>3 DEF StopNoRecommendation, StopMaxSteps, ReturnWith
  <2>2. TypeInv' /\ ReportedInv'
    BY <1>2, <2>1 DEF TypeInv, ContractOK, Phases
  <2>3. BudgetInv'
    BY <2>1 DEF BudgetInv
  <2> QED
    BY <1>1, <2>2, <2>3
<1>4. CASE Insufficient
  <2>1. PICK r \in Recommendations :
          /\ Select(r)
          /\ steps' = Append(steps, [status |-> "insufficient_evidence", key |-> Key(r),
                                     added |-> {}, revision |-> revision])
          /\ UNCHANGED <<evidence, run, current, revision>>
    BY <1>4 DEF Insufficient
  <2>2. /\ Key(r) \in Observations \X Scopes \X Supported
        /\ run = "running" /\ Len(steps) < MaxSteps
        /\ attempted' = attempted \cup {Key(r)}
        /\ IsFiniteSet(attempted') /\ Cardinality(attempted') = Len(steps) + 1
    BY <2>1, SelectAsksAnew
  <2>3. steps' \in Seq(Steps) /\ Len(steps') = Len(steps) + 1
    BY <2>1, <2>2 DEF TypeInv, ContractOK, Steps
  <2>4. TypeInv' /\ ReportedInv'
    BY <1>2, <2>1, <2>2, <2>3 DEF TypeInv, ContractOK
  <2>5. BudgetInv'
    BY <2>1, <2>2, <2>3, InvestigationAssumption DEF BudgetInv, TypeInv
  <2> QED
    BY <1>1, <2>4, <2>5
<1>5. CASE StopNoNewEvidence \/ Raise
  <2>1. PICK r \in Recommendations :
          /\ Select(r)
          /\ run' \in {"returned", "raised"} /\ evidence' \in {evidence, current}
          /\ UNCHANGED <<current, revision, steps>>
    BY <1>5 DEF StopNoNewEvidence, Raise, ReturnWith
  <2>2. /\ Key(r) \in Observations \X Scopes \X Supported
        /\ attempted' = attempted \cup {Key(r)} /\ IsFiniteSet(attempted')
    BY <2>1, SelectAsksAnew
  <2>3. TypeInv' /\ ReportedInv'
    BY <1>2, <2>1, <2>2 DEF TypeInv, ContractOK, Phases
  <2>4. BudgetInv'
    BY <2>1, <2>2 DEF BudgetInv
  <2> QED
    BY <1>1, <2>3, <2>4
<1>6. CASE CompleteStep
  <2>1. PICK r \in Recommendations :
          /\ Select(r)
          /\ Complete(r, Readings(r.probe, r.scope))
          /\ UNCHANGED <<evidence, run>>
    BY <1>6 DEF CompleteStep
  <2> DEFINE produced == Readings(r.probe, r.scope)
  <2>2. /\ Key(r) \in Observations \X Scopes \X Supported
        /\ r.probe \in DOMAIN Probes /\ r.scope \in Scopes
        /\ run = "running" /\ Len(steps) < MaxSteps
        /\ attempted' = attempted \cup {Key(r)}
        /\ IsFiniteSet(attempted') /\ Cardinality(attempted') = Len(steps) + 1
    BY <2>1, SelectAsksAnew
  <2>3. \A i \in produced :
          /\ i \in Instances
          /\ i.state = "absent" => lastAbsent[<<i.observation, i.scope>>] >= i.at
    BY <2>2, ReadingsAreTrue
  <2>4. current' = current \cup produced /\ revision' = revision + 1
    BY <2>1 DEF Complete
  <2>5. [status |-> "completed", key |-> Key(r), added |-> Ids(produced) \ Ids(current),
         revision |-> revision'] \in Steps
    <3>1. Ids(produced) \subseteq InstanceIds
      BY <2>3 DEF Ids, Instances, InstanceIds
    <3>2. revision' \in Nat
      BY <2>4 DEF TypeInv, ContractOK
    <3> QED
      BY <2>2, <3>1, <3>2 DEF Steps
  <2>6. steps' \in Seq(Steps) /\ Len(steps') = Len(steps) + 1
    BY <2>1, <2>5 DEF Complete, TypeInv
  <2> HIDE DEF produced
  <2>7. TypeInv'
    <3>1. current' \subseteq Instances
      <4>1. current \subseteq Instances
        BY DEF TypeInv
      <4> QED
        BY <2>3, <2>4, <4>1
    <3>3. revision' \in Nat
      BY <2>4 DEF TypeInv
    <3>2. attempted' \subseteq Observations \X Scopes \X Supported
      BY <2>2 DEF TypeInv, ContractOK
    <3> QED
      BY <2>1, <2>6, <3>1, <3>2, <3>3 DEF TypeInv, ContractOK
  <2>8. ReportedInv'
    BY <2>1, <2>3, <2>4 DEF ReportedInv
  <2>9. BudgetInv'
    BY <2>1, <2>2, <2>6, InvestigationAssumption DEF BudgetInv, TypeInv
  <2> QED
    BY <1>1, <2>7, <2>8, <2>9
<1> QED
  BY <1>3, <1>4, <1>5, <1>6 DEF InvestigationStep

LEMMA BeginVerificationStep ==
  ASSUME AllInv, FreezeContract \/ BeginVerification(evidence),
         UNCHANGED <<world, evidence, investigation>>
  PROVE  AllInv'
<1> USE DEF AllInv, world, investigation
<1>1. AbsenceInv'
  BY DEF AbsenceInv
<1>2. CASE FreezeContract
  <2>1. PICK scope \in Scopes, fixed_at \in Times, criteria \in CriteriaChoices :
          \E target \in view[scope].observed : Freeze(target, scope, fixed_at, criteria)
    BY <1>2 DEF FreezeContract
  <2>2. PICK target \in view[scope].observed : Freeze(target, scope, fixed_at, criteria)
    BY <2>1
  <2>3. /\ contract = NoContract
        /\ contract' = [target |-> target, scope |-> scope, fixed_at |-> fixed_at,
                        criteria |-> criteria]
        /\ UNCHANGED <<check, now, composed, measured, record, cause>>
    BY <2>2 DEF Freeze
  <2>4. check = "idle"
    BY <2>3 DEF TypeInv, ContractOK
  <2>5. ContractOK'
    BY <2>3 DEF ContractOK
  <2>6. TypeInv'
    BY <2>3, <2>4, <2>5 DEF TypeInv
  <2>7. ReportedInv' /\ BudgetInv'
    BY <2>3, <2>4 DEF ReportedInv, BudgetInv
  <2> QED
    BY <1>1, <2>6, <2>7
<1>3. CASE BeginVerification(evidence)
  <2>1. /\ check = "idle" /\ check' = "running" /\ contract # NoContract /\ composed' = evidence
        /\ UNCHANGED <<contract, measured, record>>
    BY <1>3 DEF BeginVerification
  <2>2. TypeInv' /\ ReportedInv'
    BY <2>1 DEF TypeInv, ContractOK, ReportedInv, Phases
  <2>3. BudgetInv'
    <3>1. measured = {} /\ record = <<>> /\ Cardinality(measured) = Len(record)
      BY <2>1, FS_EmptySet DEF BudgetInv
    <3> QED
      BY <2>1, <3>1 DEF BudgetInv
  <2> QED
    BY <1>1, <2>2, <2>3
<1> QED
  BY <1>2, <1>3

LEMMA VerificationKeeps ==
  ASSUME AllInv, VerificationStep, UNCHANGED <<world, evidence, investigation>>
  PROVE  AllInv'
<1> USE DEF AllInv, world, investigation
<1>1. AbsenceInv'
  BY DEF AbsenceInv
<1>2. CASE StopDecided \/ StopNoRoute \/ StopBudget
  <2>1. /\ check = "running" /\ check' = "returned"
        /\ UNCHANGED <<contract, composed, measured, record>>
    BY <1>2 DEF StopDecided, StopNoRoute, StopBudget, Close, InLoop
  <2>2. TypeInv' /\ ReportedInv' /\ BudgetInv'
    BY <2>1 DEF TypeInv, ContractOK, ReportedInv, BudgetInv, Phases
  <2> QED
    BY <1>1, <2>2
<1>3. ASSUME NEW o \in Observations, VerifyInsufficient(o) PROVE AllInv'
  <2>1. PICK p \in DOMAIN Probes : Measure(o, p)
    BY <1>3 DEF VerifyInsufficient
  <2>2. /\ record' = Append(record, [status |-> "insufficient_evidence", criterion |-> o,
                                     at |-> clock])
        /\ UNCHANGED <<contract, check, composed>>
    BY <1>3 DEF VerifyInsufficient
  <2>3. /\ check = "running" /\ Len(record) < MaxVerifications
        /\ measured' = measured \cup {o}
        /\ IsFiniteSet(measured') /\ Cardinality(measured') = Len(record) + 1
    BY <2>1, MeasureAsksAnew
  <2>4. record' \in Seq(Records) /\ Len(record') = Len(record) + 1
    BY <2>2 DEF TypeInv, ContractOK, Records
  <2>5. TypeInv' /\ ReportedInv'
    BY <2>2, <2>3, <2>4 DEF TypeInv, ContractOK, ReportedInv
  <2>6. BudgetInv'
    <3>1. Len(record) \in Nat /\ MaxVerifications \in Nat
      BY VerificationAssumption DEF TypeInv
    <3>2. Len(record') <= MaxVerifications /\ check' = "running"
      BY <2>2, <2>3, <2>4, <3>1
    <3>3. IsFiniteSet(measured') /\ Cardinality(measured') = Len(record')
      BY <2>3, <2>4
    <3> QED
      BY <3>2, <3>3 DEF BudgetInv
  <2> QED
    BY <1>1, <2>5, <2>6
<1>4. ASSUME NEW o \in Observations, VerifyComplete(o) PROVE AllInv'
  <2>1. PICK p \in DOMAIN Probes :
          Measure(o, p) /\ composed' = composed \cup Readings(p, contract.scope)
    BY <1>4 DEF VerifyComplete
  <2>2. /\ record' = Append(record, [status |-> "completed", criterion |-> o, at |-> clock])
        /\ UNCHANGED <<contract, check>>
    BY <1>4 DEF VerifyComplete
  <2>3. /\ check = "running" /\ Len(record) < MaxVerifications
        /\ measured' = measured \cup {o} /\ ContractOK
        /\ IsFiniteSet(measured') /\ Cardinality(measured') = Len(record) + 1
    BY <2>1, MeasureAsksAnew
  <2>4. \A i \in Readings(p, contract.scope) :
          /\ i \in Instances
          /\ i.state = "absent" => lastAbsent[<<i.observation, i.scope>>] >= i.at
    BY <2>3, ReadingsAreTrue DEF ContractOK
  <2>5. record' \in Seq(Records) /\ Len(record') = Len(record) + 1
    BY <2>2 DEF TypeInv, ContractOK, Records
  <2>6. TypeInv'
    <3>1. composed' \subseteq Instances
      BY <2>1, <2>4 DEF TypeInv, ContractOK
    <3> QED
      BY <2>2, <2>3, <2>5, <3>1 DEF TypeInv, ContractOK
  <2>7. ReportedInv'
    BY <2>1, <2>4 DEF ReportedInv
  <2>8. BudgetInv'
    <3>1. Len(record) \in Nat /\ MaxVerifications \in Nat
      BY VerificationAssumption DEF TypeInv
    <3>2. Len(record') <= MaxVerifications /\ check' = "running"
      BY <2>2, <2>3, <2>5, <3>1
    <3>3. IsFiniteSet(measured') /\ Cardinality(measured') = Len(record')
      BY <2>3, <2>5
    <3> QED
      BY <3>2, <3>3 DEF BudgetInv
  <2> QED
    BY <1>1, <2>6, <2>7, <2>8
<1>5. ASSUME NEW o \in Observations, VerifyRaise(o) PROVE AllInv'
  <2>1. PICK p \in DOMAIN Probes : Measure(o, p)
    BY <1>5 DEF VerifyRaise
  <2>2. check' = "raised" /\ UNCHANGED <<contract, composed, record>>
    BY <1>5 DEF VerifyRaise
  <2>3. /\ check = "running" /\ measured' = measured \cup {o} /\ IsFiniteSet(measured')
    BY <2>1, MeasureAsksAnew
  <2>4. TypeInv' /\ ReportedInv' /\ BudgetInv'
    BY <2>2, <2>3 DEF TypeInv, ContractOK, ReportedInv, BudgetInv, Phases
  <2> QED
    BY <1>1, <2>4
<1> QED
  BY <1>2, <1>3, <1>4, <1>5 DEF VerificationStep

-----------------------------------------------------------------------------
\* Whatever the system does while the loops run, the state has its types, an
\* instance that reports an absence has seen it, and a loop that runs has a
\* step for every question it asked.
THEOREM InvestigationsInvariant == Spec => []AllInv
<1>1. AllInv /\ [Next]_vars => AllInv'
  <2> SUFFICES ASSUME AllInv, [Next]_vars PROVE AllInv'
    OBVIOUS
  <2>1. CASE UNCHANGED vars
    BY <2>1 DEF vars, AllInv, TypeInv, ContractOK, AbsenceInv, ReportedInv, BudgetInv, world, investigation,
       verification
  <2>2. CASE Environment
    BY <2>2, EnvironmentStep
  <2>3. CASE Investigate
    BY <2>3, BeginStep, InvestigationKeeps DEF Investigate
  <2>4. CASE Verify
    BY <2>4, BeginVerificationStep, VerificationKeeps DEF Verify
  <2> QED
    BY <2>1, <2>2, <2>3, <2>4 DEF Next
<1> QED
  BY <1>1, AllInitially, PTL DEF Spec

\* A fix counts as verified only when every criterion did not hold, in the scope
\* that failed, at some time since the fix (verification_protocol.py,
\* evaluate_verification), whatever the instruments measured before or after it.
THEOREM ResolvedIsAlwaysEarned == Spec => []ResolvedIsEarned
<1>1. AllInv => ResolvedIsEarned
  <2> SUFFICES ASSUME AllInv, check = "returned", FinalOutcome = "resolved",
                      NEW k \in DOMAIN contract.criteria
               PROVE  lastAbsent[<<contract.criteria[k], contract.scope>>] >= contract.fixed_at
    BY DEF ResolvedIsEarned
  <2> DEFINE o == contract.criteria[k]
             latest == Latest(ActivePostFix(composed, o))
  <2>1. ContractOK
    BY DEF AllInv, TypeInv, ContractOK
  <2>2. o \in ToSet(contract.criteria)
    BY DEF ToSet
  <2>3. o \in Observations /\ contract.scope \in Scopes /\ contract.fixed_at \in Times
    BY <2>1, <2>2, VerificationAssumption DEF ContractOK
  <2>4. StatusOf(composed, o) = "resolved"
    <3> DEFINE statuses == {StatusOf(composed, q) : q \in ToSet(contract.criteria)}
    <3>1. statuses = {"resolved"}
      BY DEF FinalOutcome, Outcome
    <3>2. StatusOf(composed, o) \in statuses
      BY <2>2
    <3> QED
      BY <3>1, <3>2
  <2>5. latest # {} /\ ~ \E i \in latest : i.state = "observed"
    BY <2>4 DEF StatusOf
  <2>6. PICK i \in latest : i.state # "observed"
    BY <2>5
  <2>7. /\ i \in composed /\ i.observation = o /\ i.scope = contract.scope
        /\ contract.fixed_at <= i.at
    BY DEF Latest, ActivePostFix
  <2>8. i \in Instances
    BY <2>7 DEF AllInv, TypeInv, ContractOK
  <2>9. i.state = "absent" /\ i.at \in Times
    BY <2>6, <2>8 DEF Instances, States
  <2>10. lastAbsent[<<o, contract.scope>>] >= i.at
    BY <2>7, <2>9 DEF AllInv, ReportedInv
  <2>11. lastAbsent[<<o, contract.scope>>] \in Int /\ i.at \in Int /\ contract.fixed_at \in Int
    <3>1. <<o, contract.scope>> \in Places
      BY <2>3 DEF Places
    <3>2. lastAbsent[<<o, contract.scope>>] \in -1 .. MaxTime
      BY <3>1 DEF AllInv, TypeInv, ContractOK
    <3> QED
      BY <2>3, <2>9, <3>2, WorldAssumption DEF Times
  <2> HIDE DEF o
  <2>12. lastAbsent[<<o, contract.scope>>] >= contract.fixed_at
    BY <2>7, <2>10, <2>11
  <2> QED
    BY <2>12 DEF o
<1> QED
  BY <1>1, InvestigationsInvariant, PTL

-----------------------------------------------------------------------------
(* The loops keep what BoundedLoop promises of them *)

LEMMA PhasesOfLoops ==
  /\ PhaseOf("idle") = "idle" /\ PhaseOf("running") = "running"
  /\ PhaseOf("returned") = "ended" /\ PhaseOf("raised") = "ended"
BY DEF PhaseOf

\* A new question within the budget is a step of the loop.
LEMMA InvestigationAsks ==
  ASSUME TypeInv, BudgetInv, NEW r \in Recommendations, Select(r),
         \/ Len(steps') = Len(steps) + 1 /\ run' = run
         \/ Len(steps') = Len(steps) /\ run' \in {"returned", "raised"}
  PROVE  InvestigationLoop!LoopNext
<1>1. /\ Key(r) \in (Observations \X Scopes \X Supported) \ attempted
      /\ run = "running" /\ Len(steps) < MaxSteps
      /\ attempted' = attempted \cup {Key(r)}
      /\ Cardinality(attempted) = Len(steps)
  BY SelectAsksAnew
<1>2. /\ PhaseOf(run) = "running"
      /\ \/ Len(steps') = Len(steps) + 1 /\ PhaseOf(run') = PhaseOf(run)
         \/ Len(steps') = Len(steps) /\ PhaseOf(run') = "ended"
  BY <1>1, PhasesOfLoops
<1>3. InvestigationLoop!Cardinality(attempted) < MaxSteps
  <2>1. InvestigationLoop!Cardinality(attempted) = Cardinality(attempted)
    BY DEF InvestigationLoop!Cardinality, Cardinality
  <2> QED
    BY <1>1, <2>1
<1>4. \E q \in (Observations \X Scopes \X Supported) \ attempted : attempted' = attempted \cup {q}
  BY <1>1
<1>5. InvestigationLoop!Ask
  BY <1>2, <1>3, <1>4 DEF InvestigationLoop!Ask
<1> QED
  BY <1>5 DEF InvestigationLoop!LoopNext

LEMMA VerificationAsks ==
  ASSUME TypeInv, BudgetInv, NEW o, NEW p, Measure(o, p),
         \/ Len(record') = Len(record) + 1 /\ check' = check
         \/ Len(record') = Len(record) /\ check' = "raised"
  PROVE  VerificationLoop!LoopNext
<1>1. /\ o \in Observations \ measured
      /\ check = "running" /\ Len(record) < MaxVerifications
      /\ measured' = measured \cup {o}
      /\ Cardinality(measured) = Len(record)
  BY MeasureAsksAnew
<1>2. /\ PhaseOf(check) = "running"
      /\ \/ Len(record') = Len(record) + 1 /\ PhaseOf(check') = PhaseOf(check)
         \/ Len(record') = Len(record) /\ PhaseOf(check') = "ended"
  BY <1>1, PhasesOfLoops
<1>3. VerificationLoop!Cardinality(measured) < MaxVerifications
  <2>1. VerificationLoop!Cardinality(measured) = Cardinality(measured)
    BY DEF VerificationLoop!Cardinality, Cardinality
  <2> QED
    BY <1>1, <2>1
<1>4. \E q \in Observations \ measured : measured' = measured \cup {q}
  BY <1>1
<1>5. VerificationLoop!Ask
  BY <1>2, <1>3, <1>4 DEF VerificationLoop!Ask
<1> QED
  BY <1>5 DEF VerificationLoop!LoopNext

LEMMA InvestigationLoops ==
  ASSUME AllInv, [Next]_vars
  PROVE  [InvestigationLoop!LoopNext]_(InvestigationLoop!loopVars)
<1> USE DEF AllInv
<1>1. CASE UNCHANGED investigation
  BY <1>1 DEF investigation, InvestigationLoop!loopVars
<1>2. CASE Begin
  <2>1. run = "idle" /\ run' = "running" /\ UNCHANGED <<attempted, steps>>
    BY <1>2 DEF Begin
  <2>2. InvestigationLoop!Start
    BY <2>1, PhasesOfLoops DEF InvestigationLoop!Start
  <2> QED
    BY <2>2 DEF InvestigationLoop!LoopNext
<1>3. CASE StopNoRecommendation \/ StopMaxSteps
  <2>1. run = "running" /\ run' = "returned" /\ UNCHANGED <<attempted, steps>>
    BY <1>3 DEF StopNoRecommendation, StopMaxSteps, ReturnWith
  <2>2. InvestigationLoop!End
    BY <2>1, PhasesOfLoops DEF InvestigationLoop!End
  <2> QED
    BY <2>2 DEF InvestigationLoop!LoopNext
<1>4. CASE Insufficient
  <2>1. PICK r \in Recommendations :
          Select(r) /\ Len(steps') = Len(steps) + 1 /\ UNCHANGED run
    BY <1>4 DEF Insufficient, TypeInv
  <2> QED
    BY <2>1, InvestigationAsks
<1>5. CASE CompleteStep
  <2>1. PICK r \in Recommendations :
          Select(r) /\ Len(steps') = Len(steps) + 1 /\ UNCHANGED run
    BY <1>5 DEF CompleteStep, Complete, TypeInv
  <2> QED
    BY <2>1, InvestigationAsks
<1>6. CASE StopNoNewEvidence \/ Raise
  <2>1. PICK r \in Recommendations :
          Select(r) /\ run' \in {"returned", "raised"} /\ UNCHANGED steps
    BY <1>6 DEF StopNoNewEvidence, Raise, ReturnWith
  <2> QED
    BY <2>1, InvestigationAsks
<1> QED
  BY <1>1, <1>2, <1>3, <1>4, <1>5, <1>6
     DEF Next, vars, Environment, Investigate, InvestigationStep, Verify

LEMMA VerificationLoops ==
  ASSUME AllInv, [Next]_vars
  PROVE  [VerificationLoop!LoopNext]_(VerificationLoop!loopVars)
<1> USE DEF AllInv
<1>1. CASE UNCHANGED <<check, measured, record>>
  BY <1>1 DEF VerificationLoop!loopVars
<1>2. CASE BeginVerification(evidence)
  <2>1. check = "idle" /\ check' = "running" /\ UNCHANGED <<measured, record>>
    BY <1>2 DEF BeginVerification
  <2>2. VerificationLoop!Start
    BY <2>1, PhasesOfLoops DEF VerificationLoop!Start
  <2> QED
    BY <2>2 DEF VerificationLoop!LoopNext
<1>3. CASE StopDecided \/ StopNoRoute \/ StopBudget
  <2>1. check = "running" /\ check' = "returned" /\ UNCHANGED <<measured, record>>
    BY <1>3 DEF StopDecided, StopNoRoute, StopBudget, Close, InLoop
  <2>2. VerificationLoop!End
    BY <2>1, PhasesOfLoops DEF VerificationLoop!End
  <2> QED
    BY <2>2 DEF VerificationLoop!LoopNext
<1>4. ASSUME NEW o \in Observations, VerifyInsufficient(o) \/ VerifyComplete(o) \/ VerifyRaise(o)
      PROVE  VerificationLoop!LoopNext
  <2>1. PICK p \in DOMAIN Probes : Measure(o, p)
    BY <1>4 DEF VerifyInsufficient, VerifyComplete, VerifyRaise
  <2>2. \/ Len(record') = Len(record) + 1 /\ check' = check
        \/ Len(record') = Len(record) /\ check' = "raised"
    BY <1>4 DEF VerifyInsufficient, VerifyComplete, VerifyRaise, TypeInv
  <2> QED
    BY <2>1, <2>2, VerificationAsks
<1>5. Environment \/ Investigate \/ FreezeContract \/ UNCHANGED vars
        => UNCHANGED <<check, measured, record>>
  BY DEF Environment, Investigate, FreezeContract, Freeze, vars, verification
<1> QED
  BY <1>1, <1>2, <1>3, <1>4, <1>5 DEF Next, Verify, VerificationStep

\* The investigation asks for no diagnosis the same probe twice and the
\* verification measures no criterion twice; both stay within their budgets and
\* report only what they asked (autonomous_investigation.py, verification_agent.py).
\* This is LoopsAreBounded without its liveness.
THEOREM LoopsStayBounded ==
  Spec => InvestigationLoop!LoopSafety /\ VerificationLoop!LoopSafety
<1>1. Init => InvestigationLoop!LoopInit /\ VerificationLoop!LoopInit
  <2>1. Init => /\ run = "idle" /\ attempted = {} /\ Len(steps) = 0
                /\ check = "idle" /\ measured = {} /\ Len(record) = 0
    BY DEF Init, InvestigationInit, VerificationInit
  <2> QED
    BY <2>1, PhasesOfLoops DEF InvestigationLoop!LoopInit, VerificationLoop!LoopInit
<1>2. AllInv /\ [Next]_vars => [InvestigationLoop!LoopNext]_(InvestigationLoop!loopVars)
  BY InvestigationLoops
<1>3. AllInv /\ [Next]_vars => [VerificationLoop!LoopNext]_(VerificationLoop!loopVars)
  BY VerificationLoops
<1> QED
  BY <1>1, <1>2, <1>3, InvestigationsInvariant, PTL
     DEF Spec, InvestigationLoop!LoopSafety, VerificationLoop!LoopSafety
=============================================================================
