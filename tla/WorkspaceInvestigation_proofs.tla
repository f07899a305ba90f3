-------------------- MODULE WorkspaceInvestigation_proofs --------------------
(***************************************************************************)
(* What the bounded loop over a workspace reports, for every catalogue and *)
(* every set of instruments: its steps are its commits, whatever other     *)
(* tools commit between them.                                              *)
(***************************************************************************)
EXTENDS WorkspaceInvestigation, FiniteSetTheorems, SequenceTheorems,
        WellFoundedInduction, TLAPS

Ended == {"returned", "raised"}

TypeInv ==
  /\ pc \in {"idle", "verify", "select", "call", "reload"} \cup Ended
  /\ diagnosis.revision \in 1 .. MaxRevision
  /\ current.revision \in 0 .. diagnosis.revision
  /\ pc # "idle" => current.revision > 0
  /\ steps \in Seq([from : Nat, to : Nat])
  /\ own \in Seq(Nat)

\* The loop's snapshot is the diagnosis of its revision.
SnapshotInv ==
  pc # "idle" /\ current.revision = diagnosis.revision => current = diagnosis

\* Each commit but the last one has its step, and the loop is where the last
\* step has led it to.
CommitInv ==
  /\ \A k \in DOMAIN steps :
       /\ steps[k].to = steps[k].from + 1 /\ own[k] = steps[k].to
       /\ k > 1 => steps[k].from = steps[k - 1].to
  /\ steps # <<>> /\ pc \notin Ended => steps[Len(steps)].to = current.revision
  /\ pc \notin {"reload", "raised"} => Len(own) = Len(steps)
  /\ pc = "reload" => /\ Len(own) = Len(steps) + 1
                      /\ own[Len(own)] = current.revision + 1
  /\ pc = "raised" => Len(own) \in Len(steps) .. Len(steps) + 1

\* The loop asked for an acquisition on every revision it has a step from.
AskedInv ==
  /\ asked \subseteq 1 .. MaxRevision /\ IsFiniteSet(asked) /\ Len(steps) <= MaxSteps
  /\ pc = "idle" => asked = {} /\ steps = <<>>
  /\ pc \notin Ended => /\ \A q \in asked : q < current.revision
                        /\ Cardinality(asked) = Len(steps)
  /\ pc \in {"call", "reload"} => Len(steps) < MaxSteps

AllInv == TypeInv /\ SnapshotInv /\ CommitInv /\ AskedInv

-----------------------------------------------------------------------------
(* The steps *)

LEMMA AllInitially == Init => AllInv
<1> SUFFICES ASSUME Init PROVE AllInv
  OBVIOUS
<1>1. /\ pc = "idle" /\ diagnosis.revision = 1 /\ current.revision = 0
      /\ steps = <<>> /\ own = <<>> /\ asked = {}
  BY DEF Init, Diagnosis
<1>2. Len(steps) = 0 /\ Len(own) = 0 /\ DOMAIN steps = {}
  BY <1>1
<1>3. TypeInv
  BY <1>1, WorkspaceAssumption DEF TypeInv
<1>4. SnapshotInv /\ CommitInv
  BY <1>1, <1>2 DEF SnapshotInv, CommitInv, Ended
<1>5. AskedInv
  BY <1>1, <1>2, FS_EmptySet, WorkspaceAssumption DEF AskedInv, Ended
<1> QED
  BY <1>3, <1>4, <1>5 DEF AllInv

LEMMA OtherCommitStep ==
  ASSUME AllInv, OtherCommit
  PROVE  AllInv'
<1>1. /\ diagnosis.revision < MaxRevision /\ diagnosis'.revision = diagnosis.revision + 1
      /\ UNCHANGED loop
  BY DEF OtherCommit, Diagnosis
<1>2. TypeInv'
  BY <1>1, WorkspaceAssumption DEF AllInv, TypeInv, loop, Ended
<1>3. SnapshotInv'
  <2>1. current'.revision # diagnosis'.revision
    BY <1>1 DEF AllInv, TypeInv, loop
  <2> QED
    BY <2>1 DEF SnapshotInv
<1>4. CommitInv' /\ AskedInv'
  BY <1>1 DEF AllInv, CommitInv, AskedInv, loop, Ended
<1> QED
  BY <1>2, <1>3, <1>4 DEF AllInv

\* A step of the loop that neither asks nor commits.
LEMMA QuietStep ==
  ASSUME AllInv, UNCHANGED <<diagnosis, current, steps, own, asked>>,
         \/ pc' = pc
         \/ pc = "verify" /\ pc' \in {"select", "returned"}
         \/ pc = "select" /\ pc' = "returned"
         \/ pc = "select" /\ pc' = "call" /\ ~ Exhausted
  PROVE  AllInv'
<1>1. TypeInv'
  BY DEF AllInv, TypeInv, Ended
<1>2. SnapshotInv'
  BY DEF AllInv, SnapshotInv
<1>3. CommitInv'
  BY DEF AllInv, CommitInv, Ended
<1>4. AskedInv'
  <2>1. ~ Exhausted => Len(steps) < MaxSteps
    BY WorkspaceAssumption DEF Exhausted, AllInv, AskedInv, TypeInv
  <2> QED
    BY <2>1 DEF AllInv, AskedInv, Ended
<1> QED
  BY <1>1, <1>2, <1>3, <1>4 DEF AllInv

LEMMA StartStep ==
  ASSUME AllInv, Start
  PROVE  AllInv'
<1>1. /\ pc = "idle" /\ pc' = "verify" /\ current' = diagnosis
      /\ UNCHANGED <<diagnosis, steps, own, asked>> /\ steps = <<>> /\ asked = {}
  BY DEF Start, files, AllInv, AskedInv
<1>2. TypeInv' /\ SnapshotInv'
  BY <1>1 DEF AllInv, TypeInv, SnapshotInv, Ended
<1>3. CommitInv'
  BY <1>1 DEF AllInv, CommitInv, Ended
<1>4. AskedInv'
  BY <1>1 DEF AllInv, AskedInv, Ended
<1> QED
  BY <1>2, <1>3, <1>4 DEF AllInv

LEMMA AcquireStep ==
  ASSUME AllInv, Acquire
  PROVE  AllInv'
<1>1. /\ pc = "call" /\ pc' = "reload" /\ diagnosis.revision < MaxRevision
      /\ current.revision = diagnosis.revision
      /\ diagnosis'.revision = diagnosis.revision + 1
      /\ own' = Append(own, diagnosis.revision + 1)
      /\ UNCHANGED <<current, steps, asked>>
  BY DEF Acquire, Authorizes, Diagnosis
<1>2. /\ own' \in Seq(Nat) /\ Len(own') = Len(own) + 1
      /\ own'[Len(own')] = current.revision + 1
      /\ \A k \in 1 .. Len(own) : own'[k] = own[k]
  BY <1>1 DEF AllInv, TypeInv
<1>3. TypeInv'
  <2>1. /\ diagnosis'.revision \in 1 .. MaxRevision
        /\ current'.revision \in 0 .. diagnosis'.revision /\ current'.revision > 0
    BY <1>1, WorkspaceAssumption DEF AllInv, TypeInv
  <2>2. steps' \in Seq([from : Nat, to : Nat])
    BY <1>1 DEF AllInv, TypeInv
  <2> QED
    BY <1>1, <1>2, <2>1, <2>2 DEF TypeInv
<1>4. SnapshotInv'
  BY <1>1 DEF AllInv, TypeInv, SnapshotInv
<1>5. CommitInv'
  <2>1. Len(own) = Len(steps)
    BY <1>1 DEF AllInv, CommitInv
  <2>2. \A k \in DOMAIN steps : own'[k] = own[k]
    <3>1. steps \in Seq([from : Nat, to : Nat])
      BY DEF AllInv, TypeInv
    <3>2. DOMAIN steps = 1 .. Len(own)
      BY <2>1, <3>1
    <3> QED
      BY <1>2, <3>2
  <2> QED
    BY <1>1, <1>2, <2>1, <2>2 DEF AllInv, CommitInv, Ended
<1>6. AskedInv'
  BY <1>1 DEF AllInv, AskedInv, Ended
<1> QED
  BY <1>3, <1>4, <1>5, <1>6 DEF AllInv

\* An acquisition on a revision that none was asked on.
LEMMA AsksAnew ==
  ASSUME AllInv, pc \in {"call", "reload"}, asked' = asked \cup {current.revision}
  PROVE  /\ current.revision \in (1 .. MaxRevision) \ asked
         /\ Cardinality(asked) = Len(steps) /\ Len(steps) < MaxSteps
         /\ asked' \subseteq 1 .. MaxRevision /\ IsFiniteSet(asked')
         /\ Cardinality(asked') = Len(steps) + 1
<1>1. current.revision \in 1 .. MaxRevision
  BY WorkspaceAssumption DEF AllInv, TypeInv
<1>2. current.revision \notin asked
  BY <1>1 DEF AllInv, AskedInv, Ended
<1>3. IsFiniteSet(asked) /\ Cardinality(asked) = Len(steps) /\ asked \subseteq 1 .. MaxRevision
      /\ Len(steps) < MaxSteps
  BY DEF AllInv, AskedInv, Ended
<1> QED
  BY <1>1, <1>2, <1>3, FS_AddElement

LEMMA RaiseStep ==
  ASSUME AllInv, pc \in {"call", "reload"}, Raise
  PROVE  AllInv'
<1>1. /\ pc' = "raised" /\ asked' = asked \cup {current.revision}
      /\ UNCHANGED <<diagnosis, current, steps, own>>
  BY DEF Raise, files
<1>2. TypeInv' /\ SnapshotInv'
  BY <1>1 DEF AllInv, TypeInv, SnapshotInv, Ended
<1>3. CommitInv'
  BY <1>1 DEF AllInv, TypeInv, CommitInv, Ended
<1>4. AskedInv'
  BY <1>1, AsksAnew DEF AllInv, AskedInv, Ended
<1> QED
  BY <1>2, <1>3, <1>4 DEF AllInv

LEMMA ReloadStep ==
  ASSUME AllInv, Reload
  PROVE  AllInv'
<1> DEFINE step == [from |-> current.revision, to |-> diagnosis.revision]
           n == Len(steps)
<1>1. /\ pc = "reload" /\ pc' = "verify" /\ diagnosis.revision = current.revision + 1
      /\ steps' = Append(steps, step) /\ current' = diagnosis
      /\ asked' = asked \cup {current.revision}
      /\ UNCHANGED <<diagnosis, own>>
  BY DEF Reload, AdvancedByOne, files
<1>2. /\ diagnosis.revision \in Nat /\ current.revision \in Nat
      /\ steps \in Seq([from : Nat, to : Nat]) /\ n \in Nat
  BY DEF AllInv, TypeInv
<1>3. /\ steps' \in Seq([from : Nat, to : Nat]) /\ Len(steps') = n + 1
      /\ DOMAIN steps' = 1 .. n + 1 /\ DOMAIN steps = 1 .. n
      /\ steps'[n + 1] = step /\ \A k \in 1 .. n : steps'[k] = steps[k]
  <2> HIDE DEF n
  <2>1. step \in [from : Nat, to : Nat]
    BY <1>2
  <2> HIDE DEF step
  <2> QED
    BY <1>1, <1>2, <2>1 DEF n
<1>4. TypeInv'
  BY <1>1, <1>3 DEF AllInv, TypeInv, Ended
<1>5. SnapshotInv'
  BY <1>1 DEF SnapshotInv
<1>6. CommitInv'
  <2>1. Len(own) = n + 1 /\ own[n + 1] = step.to /\ step.to = step.from + 1
    BY <1>1 DEF AllInv, CommitInv, Ended
  <2>2. ASSUME NEW k \in DOMAIN steps'
        PROVE  /\ steps'[k].to = steps'[k].from + 1 /\ own[k] = steps'[k].to
               /\ k > 1 => steps'[k].from = steps'[k - 1].to
    <3>1. CASE k = n + 1
      <4>1. n > 0 => steps # <<>>
        OBVIOUS
      <4>2. steps # <<>> => steps[n].to = current.revision
        BY <1>1 DEF AllInv, CommitInv, Ended
      <4> HIDE DEF n
      <4>3. n > 0 => n \in 1 .. n
        BY <1>2
      <4>4. n > 0 => steps'[n] = steps[n]
        BY <1>3, <4>3
      <4> QED
        BY <1>2, <1>3, <2>1, <3>1, <4>1, <4>2, <4>4
    <3>2. CASE k \in 1 .. n
      <4>1. k > 1 => k - 1 \in 1 .. n
        BY <1>2, <3>2
      <4> QED
        BY <1>3, <3>2, <4>1 DEF AllInv, CommitInv
    <3> QED
      BY <1>2, <1>3, <3>1, <3>2
  <2>3. steps'[Len(steps')].to = current'.revision
    BY <1>1, <1>2, <1>3
  <2> QED
    BY <1>1, <1>3, <2>1, <2>2, <2>3 DEF CommitInv, Ended
<1>7. AskedInv'
  <2>1. /\ asked' \subseteq 1 .. MaxRevision /\ IsFiniteSet(asked')
        /\ Cardinality(asked') = n + 1 /\ n < MaxSteps
    BY <1>1, AsksAnew
  <2>2. \A q \in asked' : q < current'.revision
    BY <1>1, <1>2, <2>1 DEF AllInv, AskedInv, Ended
  <2>3. Len(steps') <= MaxSteps
    <3>1. MaxSteps \in Nat
      BY WorkspaceAssumption
    <3> HIDE DEF n
    <3> QED
      BY <1>2, <1>3, <2>1, <3>1
  <2> QED
    BY <1>1, <1>3, <2>1, <2>2, <2>3 DEF AskedInv, Ended
<1> QED
  BY <1>4, <1>5, <1>6, <1>7 DEF AllInv

LEMMA NextStep ==
  ASSUME AllInv, [Next]_vars
  PROVE  AllInv'
<1>1. CASE Start
  BY <1>1, StartStep
<1>2. CASE CheckVerified \/ Select
  <2>1. UNCHANGED <<diagnosis, current, steps, own, asked>>
    BY <1>2 DEF CheckVerified, Select, StopWith, files
  <2>2. \/ pc = "verify" /\ pc' \in {"select", "returned"}
        \/ pc = "select" /\ pc' = "returned"
        \/ pc = "select" /\ pc' = "call" /\ ~ Exhausted
    BY <1>2 DEF CheckVerified, Select, StopWith
  <2> QED
    BY <2>1, <2>2, QuietStep
<1>3. CASE AcquireFails \/ ReloadFails
  BY <1>3, RaiseStep DEF AcquireFails, ReloadFails
<1>4. CASE Acquire
  BY <1>4, AcquireStep
<1>5. CASE Reload
  BY <1>5, ReloadStep
<1>6. CASE OtherCommit
  BY <1>6, OtherCommitStep
<1>7. CASE Outage \/ UNCHANGED vars
  BY <1>7, QuietStep DEF Outage, vars, files, loop
<1> QED
  BY <1>1, <1>2, <1>3, <1>4, <1>5, <1>6, <1>7 DEF Next, LoopStep

\* What the loop holds in memory, what it committed and what it asked agree, at
\* every point of run_workspace_investigation and whatever else is committed.
THEOREM WorkspaceInvariant == Spec => []AllInv
<1>1. Init => AllInv
  BY AllInitially
<1>2. AllInv /\ [Next]_vars => AllInv'
  BY NextStep
<1> QED
  BY <1>1, <1>2, PTL DEF Spec

\* Every commit of the loop is a step of its report, one revision each and none
\* in between; a run that raises has made at most one commit that no step
\* reports.
THEOREM StepsAreAlwaysItsCommits == Spec => []StepsAreItsCommits
<1>1. AllInv => StepsAreItsCommits
  <2> SUFFICES ASSUME AllInv PROVE StepsAreItsCommits
    OBVIOUS
  <2>1. Len(steps) \in Nat /\ Len(own) \in Nat
    BY DEF AllInv, TypeInv
  <2>2. Len(own) <= Len(steps) + 1
    BY <2>1 DEF AllInv, CommitInv, TypeInv, Ended
  <2>3. pc = "returned" => Len(own) = Len(steps)
    BY DEF AllInv, CommitInv
  <2> QED
    BY <2>2, <2>3 DEF AllInv, CommitInv, StepsAreItsCommits
<1> QED
  BY <1>1, WorkspaceInvariant, PTL

-----------------------------------------------------------------------------
(* The loop as a bounded loop *)

LEMMA SameCardinality == \A S : Loop!Cardinality(S) = Cardinality(S)
BY DEF Loop!Cardinality, Cardinality

\* A step that asks: the question is new, and the budget had room for it.
LEMMA AskingStep ==
  ASSUME AllInv, pc \in {"call", "reload"}, asked' = asked \cup {current.revision},
         \/ pc' = "raised" /\ steps' = steps
         \/ pc' = "verify" /\ Len(steps') = Len(steps) + 1
  PROVE  Loop!Ask
<1>1. /\ current.revision \in (1 .. MaxRevision) \ asked
      /\ Cardinality(asked) < MaxSteps
  BY AsksAnew
<1>2. Loop!Cardinality(asked) < MaxSteps
  BY <1>1, SameCardinality
<1>3. PhaseOf = "running"
  BY DEF PhaseOf
<1>4. \/ Len(steps)' = Len(steps) + 1 /\ PhaseOf' = PhaseOf
      \/ PhaseOf' = "ended" /\ Len(steps)' = Len(steps)
  BY <1>3 DEF PhaseOf
<1> QED
  BY <1>1, <1>2, <1>3, <1>4 DEF Loop!Ask

\* The loop never asks twice on one revision, never more often than max_steps
\* allows, and reports a step only for an acquisition that it asked for.
THEOREM LoopStaysBounded == Spec => Loop!LoopSafety
<1>1. Init => Loop!LoopInit
  BY DEF Init, Loop!LoopInit, PhaseOf
<1>2. AllInv /\ [Next]_vars => [Loop!LoopNext]_(Loop!loopVars)
  <2> SUFFICES ASSUME AllInv, [Next]_vars PROVE [Loop!LoopNext]_(Loop!loopVars)
    OBVIOUS
  <2>1. CASE Start
    BY <2>1 DEF Start, PhaseOf, Loop!LoopNext, Loop!Start
  <2>2. CASE CheckVerified \/ Select
    <3>1. PhaseOf = "running" /\ PhaseOf' \in {"running", "ended"}
          /\ asked' = asked /\ steps' = steps
      BY <2>2 DEF CheckVerified, Select, StopWith, PhaseOf
    <3> QED
      BY <3>1 DEF Loop!LoopNext, Loop!End, Loop!loopVars
  <2>3. CASE AcquireFails \/ ReloadFails
    BY <2>3, AskingStep DEF AcquireFails, ReloadFails, Raise, Loop!LoopNext
  <2>4. CASE Acquire
    BY <2>4 DEF Acquire, PhaseOf, Loop!loopVars
  <2>5. CASE Reload
    <3>1. Len(steps') = Len(steps) + 1
      <4>1. steps \in Seq([from : Nat, to : Nat])
        BY DEF AllInv, TypeInv
      <4>2. steps' = Append(steps, [from |-> current.revision, to |-> diagnosis.revision])
        BY <2>5 DEF Reload
      <4> QED
        BY <4>1, <4>2
    <3> QED
      BY <2>5, <3>1, AskingStep DEF Reload, Loop!LoopNext
  <2>6. CASE OtherCommit \/ Outage \/ UNCHANGED vars
    BY <2>6 DEF OtherCommit, Outage, vars, loop, PhaseOf, Loop!loopVars
  <2> QED
    BY <2>1, <2>2, <2>3, <2>4, <2>5, <2>6 DEF Next, LoopStep
<1> QED
  BY <1>1, <1>2, WorkspaceInvariant, PTL DEF Spec, Loop!LoopSafety

-----------------------------------------------------------------------------
(* What is preferred: the order of priorities and of what they are given to *)

\* Keys of the same length compare as tuples do.
LEMMA PrecedesIsTransitive ==
  ASSUME NEW n \in Nat, NEW k \in [1 .. n -> Int], NEW l \in [1 .. n -> Int],
         NEW m \in [1 .. n -> Int], Precedes(k, l), Precedes(l, m)
  PROVE  Precedes(k, m)
<1>1. PICK i \in 1 .. n : k[i] < l[i] /\ \A h \in 1 .. i - 1 : k[h] = l[h]
  BY DEF Precedes
<1>2. PICK j \in 1 .. n : l[j] < m[j] /\ \A h \in 1 .. j - 1 : l[h] = m[h]
  BY DEF Precedes
<1> DEFINE first == IF i < j THEN i ELSE j
<1>3. first \in 1 .. n /\ k[first] < m[first]
  BY <1>1, <1>2
<1>4. \A h \in 1 .. first - 1 : k[h] = m[h]
  BY <1>1, <1>2
<1> QED
  BY <1>3, <1>4 DEF Precedes

LEMMA PrecedesIsIrreflexive ==
  ASSUME NEW n \in Nat, NEW k \in [1 .. n -> Int]
  PROVE  ~ Precedes(k, k)
BY DEF Precedes

\* Of finitely many keys one is preceded by no other.
LEMMA FirstExists ==
  ASSUME NEW S, IsFiniteSet(S), S # {}, NEW n \in Nat, NEW key \in [S -> [1 .. n -> Int]]
  PROVE  \E first \in S : \A x \in S : ~ Precedes(key[x], key[first])
<1> DEFINE Before(x) == {y \in S : Precedes(key[y], key[x])}
           Sets == {Before(x) : x \in S}
<1>1. Sets \subseteq FiniteSubsetsOf(S)
  <2>1. ASSUME NEW x \in S PROVE Before(x) \in FiniteSubsetsOf(S)
    <3>1. Before(x) \in SUBSET S
      OBVIOUS
    <3> HIDE DEF Before
    <3> QED
      BY <3>1, FS_Subset DEF FiniteSubsetsOf
  <2> HIDE DEF Before
  <2> QED
    BY <2>1
<1>2. Sets # {}
  <2> HIDE DEF Before
  <2> QED
    OBVIOUS
<1>3. PICK least \in Sets : \A T \in Sets : ~ (<<T, least>> \in StrictSubsetOrdering(S))
  <2> HIDE DEF Sets
  <2> QED
    BY <1>1, <1>2, FS_StrictSubsetOrderingWellFounded, WFMin
<1>4. PICK first \in S : least = Before(first)
  OBVIOUS
<1>5. ASSUME NEW x \in S, Precedes(key[x], key[first]) PROVE FALSE
  <2>1. Before(x) \subseteq Before(first)
    BY <1>5, PrecedesIsTransitive
  <2>2. x \in Before(first) /\ x \notin Before(x)
    BY <1>5, PrecedesIsIrreflexive
  <2>3. <<Before(x), Before(first)>> \in StrictSubsetOrdering(S)
    <3>1. Before(x) \subseteq S /\ Before(first) \subseteq S
      OBVIOUS
    <3> HIDE DEF Before
    <3> QED
      BY <2>1, <2>2, <3>1 DEF StrictSubsetOrdering
  <2> QED
    BY <1>3, <1>4, <2>3
<1> QED
  BY <1>5

\* What comes first in an order is one of the ordered.
LEMMA FirstOfOrder ==
  ASSUME NEW S, IsFiniteSet(S), S # {}, NEW n \in Nat, NEW key \in [S -> [1 .. n -> Int]]
  PROVE  1 \in DOMAIN InOrder(key) /\ InOrder(key)[1] \in S
<1> DEFINE Lower(x) == {y \in S : Precedes(key[y], key[x])}
           Rank(x) == Cardinality(Lower(x))
<1>1. PICK first \in S : \A x \in S : ~ Precedes(key[x], key[first])
  BY FirstExists
<1>2. Lower(first) = {}
  BY <1>1
<1>3. Rank(first) = 1 - 1
  <2>1. Cardinality({}) = 0
    BY FS_EmptySet
  <2> HIDE DEF Lower
  <2> QED
    BY <1>2, <2>1
<1>4. Cardinality(S) \in Nat /\ Cardinality(S) # 0
  BY FS_EmptySet, FS_CardinalityType
<1>5. 1 \in 1 .. Cardinality(S) /\ DOMAIN key = S
  BY <1>4
<1>6. (CHOOSE x \in S : Rank(x) = 1 - 1) \in S
  <2> HIDE DEF Rank
  <2> QED
    BY <1>3
<1>7. InOrder(key)[1] = CHOOSE x \in S : Rank(x) = 1 - 1
  BY <1>5 DEF InOrder
<1>8. 1 \in DOMAIN InOrder(key)
  BY <1>5 DEF InOrder
<1> QED
  BY <1>6, <1>7, <1>8

\* A ranking ranks finitely many causes.
LEMMA RankingIsFinite ==
  ASSUME NEW t, NEW observed, NEW absent
  PROVE  IsFiniteSet(DOMAIN RankCauses(t, observed, absent))
<1> DEFINE S == DOMAIN NextSteps(t) \cap DOMAIN Hypotheses
<1>1. IsFiniteSet(S)
  <2>1. S \in SUBSET DOMAIN Hypotheses /\ IsFiniteSet(DOMAIN Hypotheses)
    BY CatalogueAssumption
  <2> HIDE DEF S
  <2> QED
    BY <2>1, FS_Subset
<1>2. Cardinality(S) \in Nat
  BY <1>1, FS_CardinalityType
<1>3. IsFiniteSet(1 .. Cardinality(S))
  <2> HIDE DEF S
  <2> QED
    BY <1>2, FS_Interval
<1>4. DOMAIN RankCauses(t, observed, absent) = 1 .. Cardinality(S)
  BY DEF RankCauses, InOrder
<1> QED
  BY <1>3, <1>4

\* A finite ranking has finitely many pairs.
LEMMA PairsAreFinite ==
  ASSUME NEW ranking, IsFiniteSet(DOMAIN ranking)
  PROVE  IsFiniteSet(Pairs(ranking)) /\ IsFiniteSet(TopOf(Pairs(ranking)))
<1>1. IsFiniteSet((DOMAIN ranking) \X (DOMAIN ranking))
  BY FS_Product
<1>2. Pairs(ranking) \in SUBSET ((DOMAIN ranking) \X (DOMAIN ranking))
  BY DEF Pairs
<1>3. IsFiniteSet(Pairs(ranking))
  BY <1>1, <1>2, FS_Subset
<1>4. TopOf(Pairs(ranking)) \in SUBSET Pairs(ranking)
  BY DEF TopOf
<1> QED
  BY <1>3, <1>4, FS_Subset

\* The contrast of finitely many pairs is a number.
LEMMA ContrastIsCounted ==
  ASSUME NEW open, NEW ranking, NEW pairs, IsFiniteSet(open), IsFiniteSet(pairs)
  PROVE  ContrastIn(open, ranking, pairs) \in Nat
<1> DEFINE all == open \X (pairs \X (1 .. 4))
           units == {unit \in all :
                       LET o == unit[1]
                           pair == unit[2][1]
                       IN unit[2][2] <= Contrast(Effect(ranking[pair[1]], o), Effect(ranking[pair[2]], o))}
<1>1. IsFiniteSet(all)
  <2>1. IsFiniteSet(1 .. 4)
    <3>1. \A n \in Nat : IsFiniteSet(1 .. n)
      BY FS_Interval
    <3> QED
      BY <3>1
  <2>2. IsFiniteSet(pairs \X (1 .. 4))
    BY <2>1, FS_Product
  <2> QED
    BY <2>2, FS_Product
<1>2. units \in SUBSET all
  <2> HIDE DEF all
  <2> QED
    OBVIOUS
<1>3. IsFiniteSet(units)
  <2> HIDE DEF all, units
  <2> QED
    BY <1>1, <1>2, FS_Subset
<1>4. ContrastIn(open, ranking, pairs) = Cardinality(units)
  BY DEF ContrastIn
<1> HIDE DEF units
<1> QED
  BY <1>3, <1>4, FS_CardinalityType

\* A part of what is finite can be counted.
LEMMA CountIsTyped ==
  ASSUME NEW S, IsFiniteSet(S), NEW T \in SUBSET S
  PROVE  Cardinality(T) \in Nat
BY FS_Subset, FS_CardinalityType

\* A probe's id at the end of its priority makes the key it is sorted by.
LEMMA LongerKey ==
  ASSUME NEW k \in [1 .. 8 -> Int], NEW p \in Int
  PROVE  Append(k, p) \in [1 .. 9 -> Int]
<1>1. k \in Seq(Int)
  BY SeqDef
<1>2. Len(k) = 8
  <2>1. DOMAIN k = 1 .. Len(k) /\ Len(k) \in Nat /\ DOMAIN k = 1 .. 8
    BY <1>1, LenProperties
  <2>2. \A i \in Int : i \in 1 .. Len(k) <=> i \in 1 .. 8
    BY <2>1
  <2>3. 8 \in 1 .. Len(k) /\ 9 \notin 1 .. Len(k)
    BY <2>2
  <2> QED
    BY <2>1, <2>3
<1>3. Append(k, p) \in Seq(Int) /\ Len(Append(k, p)) = 9
  <2>1. /\ Append(k, p) \in Seq(Int)
        /\ Len(Append(k, p)) = Len(k) + 1
    BY <1>1, AppendProperties
  <2> QED
    BY <1>2, <2>1
<1> QED
  BY <1>3, LenProperties

\* The priority of a probe is a tuple of numbers, whatever ranking it is of.
LEMMA PriorityIsTyped ==
  ASSUME NEW p \in DOMAIN Probes, NEW ranking, IsFiniteSet(DOMAIN ranking), NEW resolved
  PROVE  SemanticPriority(p, ranking, resolved) \in [1 .. 8 -> Int]
<1> DEFINE open == Discriminating(p, ranking, resolved)
           discriminated == UNION {DistinguishedPairs(o, ranking) : o \in open}
           two_sided == UNION {TwoSidedPairs(o, ranking) : o \in open}
<1>1. IsFiniteSet(open)
  <2>1. open \in SUBSET Observations /\ IsFiniteSet(Observations)
    BY CatalogueAssumption DEF Discriminating
  <2> HIDE DEF open
  <2> QED
    BY <2>1, FS_Subset
<1>2. IsFiniteSet(Pairs(ranking)) /\ IsFiniteSet(TopOf(Pairs(ranking)))
  BY PairsAreFinite
<1>3. discriminated \in SUBSET Pairs(ranking) /\ two_sided \in SUBSET Pairs(ranking)
  BY DEF DistinguishedPairs, TwoSidedPairs, ObservedPairs, AbsentPairs
<1>4. TopOf(discriminated) \in SUBSET Pairs(ranking) /\ TopOf(two_sided) \in SUBSET Pairs(ranking)
  BY <1>3 DEF TopOf
<1>5. /\ Cardinality(discriminated) \in Nat /\ Cardinality(two_sided) \in Nat
      /\ Cardinality(TopOf(discriminated)) \in Nat /\ Cardinality(TopOf(two_sided)) \in Nat
  <2> HIDE DEF discriminated, two_sided
  <2> QED
    BY <1>2, <1>3, <1>4, CountIsTyped
<1>6. /\ ContrastIn(open, ranking, TopOf(Pairs(ranking))) \in Nat
      /\ ContrastIn(open, ranking, Pairs(ranking)) \in Nat
  BY <1>1, <1>2, ContrastIsCounted
<1>7. Cardinality(TestedBy(p, ranking)) \in Nat
  BY CountIsTyped DEF TestedBy
<1>8. Probes[p].risk \in Int
  BY CatalogueAssumption DEF Risks
<1>9. SemanticPriority(p, ranking, resolved) =
        << - Cardinality(TopOf(two_sided)),
           - ContrastIn(open, ranking, TopOf(Pairs(ranking))),
           - Cardinality(TopOf(discriminated)),
           - Cardinality(two_sided),
           - ContrastIn(open, ranking, Pairs(ranking)),
           - Cardinality(discriminated),
           Probes[p].risk,
           - Cardinality(TestedBy(p, ranking)) >>
  BY DEF SemanticPriority
<1> HIDE DEF open, discriminated, two_sided
<1>10. \A x \in Nat : - x \in Int
  OBVIOUS
<1> QED
  BY <1>5, <1>6, <1>7, <1>8, <1>9, <1>10

\* The best ranked probe is one of the catalogue, and what it would tell apart is
\* still open.
LEMMA TopProbe ==
  ASSUME NEW t, NEW observed, NEW absent, RankProbes(t, observed, absent) # <<>>
  PROVE  LET top == RankProbes(t, observed, absent)[1]
         IN /\ top.probe \in DOMAIN Probes
            /\ top.priority \in [1 .. 8 -> Int]
            /\ DOMAIN top.analysis \cap Resolved(t, observed, absent) = {}
<1> DEFINE ranking == RankCauses(t, observed, absent)
           resolved == Resolved(t, observed, absent)
           useful == {p \in {q \in DOMAIN Probes : TestedBy(q, ranking) # {}} :
                        Discriminating(p, ranking, resolved) # {}}
           key == [p \in useful |-> Append(SemanticPriority(p, ranking, resolved), p)]
           order == InOrder(key)
           Entry(p) == [probe |-> p,
                        priority |-> SemanticPriority(p, ranking, resolved),
                        analysis |-> [o \in Discriminating(p, ranking, resolved) |->
                                        [observed |-> ObservedPairs(o, ranking),
                                         absent |-> AbsentPairs(o, ranking)]]]
<1>1. RankProbes(t, observed, absent) = [k \in DOMAIN order |-> Entry(order[k])]
  <2>1. RankProbes(t, observed, absent) =
          IF Len(ranking) < 2 THEN <<>> ELSE [k \in DOMAIN order |-> Entry(order[k])]
    BY DEF RankProbes
  <2> QED
    BY <2>1
<1>2. useful \subseteq DOMAIN Probes /\ IsFiniteSet(useful)
  <2>1. useful \in SUBSET DOMAIN Probes /\ IsFiniteSet(DOMAIN Probes)
    BY CatalogueAssumption
  <2> HIDE DEF useful
  <2> QED
    BY <2>1, FS_Subset
<1>3. ASSUME NEW p \in DOMAIN Probes PROVE SemanticPriority(p, ranking, resolved) \in [1 .. 8 -> Int]
  <2>1. IsFiniteSet(DOMAIN ranking)
    BY RankingIsFinite
  <2> HIDE DEF ranking, resolved
  <2> QED
    BY <2>1, PriorityIsTyped
<1>4. key \in [useful -> [1 .. 9 -> Int]]
  <2>1. ASSUME NEW p \in useful
        PROVE  Append(SemanticPriority(p, ranking, resolved), p) \in [1 .. 9 -> Int]
    <3>1. p \in Int
      BY <1>2, CatalogueAssumption
    <3>2. SemanticPriority(p, ranking, resolved) \in [1 .. 8 -> Int]
      BY <1>2, <1>3
    <3> HIDE DEF ranking, resolved, useful
    <3> QED
      BY <3>1, <3>2, LongerKey
  <2> HIDE DEF ranking, resolved, useful
  <2> QED
    BY <2>1
<1>5. useful # {}
  <2> SUFFICES ASSUME useful = {} PROVE FALSE
    OBVIOUS
  <2>1. DOMAIN key = {}
    OBVIOUS
  <2> HIDE DEF key
  <2>2. DOMAIN order = {}
    <3>1. DOMAIN order = 1 .. 0
      BY <2>1, FS_EmptySet DEF InOrder
    <3> QED
      BY <3>1
  <2> HIDE DEF order, Entry
  <2> QED
    BY <1>1, <2>2
<1>6. 1 \in DOMAIN order /\ order[1] \in useful
  <2> HIDE DEF key, useful
  <2> QED
    BY <1>2, <1>4, <1>5, FirstOfOrder
<1>7. RankProbes(t, observed, absent)[1] = Entry(order[1])
  <2> HIDE DEF order, Entry
  <2> QED
    BY <1>1, <1>6
<1>8. Discriminating(order[1], ranking, resolved) \cap resolved = {}
  BY DEF Discriminating
<1> HIDE DEF order, useful, resolved, ranking, key
<1> QED
  BY <1>2, <1>3, <1>6, <1>7, <1>8 DEF resolved

\* At most one set is ready for a target in a scope.
LEMMA FinitelyManyReadySets ==
  ASSUME NEW snapshot, NEW available
  PROVE  IsFiniteSet(ReadySets(snapshot, available)) /\ IsFiniteSet(ReadOnlySets(snapshot, available))
<1> DEFINE diagnoses == {d \in Observations \X Scopes :
                           d[1] \in snapshot[d[2]].observed /\ snapshot[d[2]].probes[d[1]] # <<>>}
           set == [d \in diagnoses |-> ExecutionSet(snapshot, d[1], d[2], available)]
           sets == {ExecutionSet(snapshot, d[1], d[2], available) : d \in diagnoses}
<1>1. IsFiniteSet(Observations \X Scopes)
  BY CatalogueAssumption, ScopesAssumption, FS_Product
<1>2. IsFiniteSet(diagnoses)
  <2>1. diagnoses \in SUBSET (Observations \X Scopes)
    OBVIOUS
  <2> HIDE DEF diagnoses
  <2> QED
    BY <1>1, <2>1, FS_Subset
<1>3. set \in Surjection(diagnoses, sets)
  <2> HIDE DEF diagnoses
  <2> QED
    BY DEF Surjection
<1>4. IsFiniteSet(sets)
  <2> HIDE DEF diagnoses, set, sets
  <2> QED
    BY <1>2, <1>3, FS_Surjection
<1>5. ReadySets(snapshot, available) \in SUBSET sets
  BY DEF ReadySets
<1>6. ReadOnlySets(snapshot, available) \in SUBSET ReadySets(snapshot, available)
  BY DEF ReadOnlySets
<1> HIDE DEF sets
<1> QED
  BY <1>4, <1>5, <1>6, FS_Subset

\* The only set that no other is preferred to is preferred to every other.
LEMMA UniqueIsFirst ==
  ASSUME NEW R, IsFiniteSet(R), \A x \in R : x.priority \in [1 .. 8 -> Int],
         NEW best \in R,
         \A x \in R : x # best => \E y \in R : Precedes(y.priority, x.priority),
         NEW other \in R, other # best
  PROVE  Precedes(best.priority, other.priority)
<1> DEFINE D == {x \in R : x = other \/ Precedes(x.priority, other.priority)}
           key == [x \in D |-> x.priority]
<1>1. IsFiniteSet(D) /\ D # {}
  <2>1. D \in SUBSET R /\ D # {}
    OBVIOUS
  <2> HIDE DEF D
  <2> QED
    BY <2>1, FS_Subset
<1>2. key \in [D -> [1 .. 8 -> Int]]
  OBVIOUS
<1>3. PICK first \in D : \A x \in D : ~ Precedes(key[x], key[first])
  <2> HIDE DEF D, key
  <2> QED
    BY <1>1, <1>2, FirstExists
<1>4. ASSUME NEW y \in R, Precedes(y.priority, first.priority) PROVE FALSE
  <2>1. first \in R /\ (first = other \/ Precedes(first.priority, other.priority))
    OBVIOUS
  <2>2. /\ y.priority \in [1 .. 8 -> Int] /\ first.priority \in [1 .. 8 -> Int]
        /\ other.priority \in [1 .. 8 -> Int]
    BY <2>1
  <2>3. Precedes(y.priority, other.priority)
    <3>1. \A n \in Nat : \A k, l, m \in [1 .. n -> Int] :
            Precedes(k, l) /\ Precedes(l, m) => Precedes(k, m)
      BY PrecedesIsTransitive
    <3>2. \A k, l, m \in [1 .. 8 -> Int] :
            Precedes(k, l) /\ Precedes(l, m) => Precedes(k, m)
      BY <3>1
    <3> HIDE DEF D
    <3> QED
      BY <1>4, <2>1, <2>2, <3>2
  <2>4. y \in D
    BY <2>3
  <2> QED
    BY <1>3, <1>4, <2>4
<1>5. first = best
  BY <1>4
<1> QED
  BY <1>5


\* A set is ready for the best probe of the diagnosis of its target in its scope.
LEMMA ReadySetIsTyped ==
  ASSUME NEW instances, NEW available,
         NEW set \in ReadySets(Snapshot(instances, 0), available)
  PROVE  /\ set.priority \in [1 .. 8 -> Int] /\ set.scope \in Scopes
         /\ LET view == Snapshot(instances, 0)[set.scope]
                top == view.probes[set.target][1]
            IN /\ set = ExecutionSet(Snapshot(instances, 0), set.target, set.scope, available)
               /\ DOMAIN top.analysis \cap (view.observed \cup view.absent) = {}
               /\ DOMAIN set.members # {}
               /\ \A resource \in DOMAIN set.members : set.members[resource] # {}
<1> DEFINE snapshot == Snapshot(instances, 0)
<1>1. PICK d \in Observations \X Scopes :
        /\ d[1] \in snapshot[d[2]].observed /\ snapshot[d[2]].probes[d[1]] # <<>>
        /\ set = ExecutionSet(snapshot, d[1], d[2], available)
  BY DEF ReadySets
<1> DEFINE t == d[1]
           s == d[2]
           view == snapshot[s]
<1>2. s \in Scopes /\ set.scope = s /\ set.target = t /\ set.priority = view.probes[t][1].priority
  BY <1>1 DEF ExecutionSet
<1>3. view.probes[t] = RankProbes(t, view.observed, view.absent)
  BY <1>1, <1>2 DEF Snapshot
<1>4. /\ view.probes[t][1].priority \in [1 .. 8 -> Int]
      /\ DOMAIN view.probes[t][1].analysis \cap Resolved(t, view.observed, view.absent) = {}
  BY <1>1, <1>3, TopProbe
<1>5. DOMAIN view.probes[t][1].analysis \cap (view.observed \cup view.absent) = {}
  BY <1>4 DEF Resolved
<1>6. DOMAIN set.members # {} /\ \A resource \in DOMAIN set.members : set.members[resource] # {}
  BY DEF ReadySets
<1> HIDE DEF snapshot, s, t
<1> QED
  BY <1>1, <1>2, <1>4, <1>5, <1>6 DEF snapshot, s, t

\* An answer that reaches the diagnosis settles what the instrument covers.
LEMMA AnswerSettles ==
  ASSUME NEW instances, NEW available,
         NEW set \in ReadySets(Snapshot(instances, 0), available),
         NEW produced \in Produced(set), AnswersItsQuestion(set)
  PROVE  LET before == Snapshot(instances, 0)[set.scope]
             after == Snapshot(instances \cup produced, 0)[set.scope]
         IN (after.observed \cup after.absent) \ (before.observed \cup before.absent) # {}
<1> DEFINE s == set.scope
           before == Snapshot(instances, 0)[s]
           after == Snapshot(instances \cup produced, 0)[s]
           top == before.probes[set.target][1]
           members == UNION Range(set.members)
<1>1. /\ s \in Scopes
      /\ set = ExecutionSet(Snapshot(instances, 0), set.target, s, available)
      /\ DOMAIN top.analysis \cap (before.observed \cup before.absent) = {}
      /\ DOMAIN set.members # {}
      /\ \A resource \in DOMAIN set.members : set.members[resource] # {}
  BY ReadySetIsTyped
<1>2. PICK resource \in DOMAIN set.members : TRUE
  BY <1>1
<1>3. PICK i \in set.members[resource] : TRUE
  BY <1>1, <1>2
<1>4. /\ set.probe = top.probe
      /\ set.members = [r \in TargetResources(Snapshot(instances, 0), set.target, s) |->
                          Selection(top, s, r, available)]
  <2> DEFINE snapshot == Snapshot(instances, 0)
  <2> HIDE DEF snapshot
  <2>1. set = ExecutionSet(snapshot, set.target, s, available)
    BY <1>1 DEF snapshot
  <2>2. /\ set.probe = snapshot[s].probes[set.target][1].probe
        /\ set.members = [r \in TargetResources(snapshot, set.target, s) |->
                            Selection(snapshot[s].probes[set.target][1], s, r, available)]
    BY <2>1 DEF ExecutionSet
  <2> QED
    BY <2>2 DEF snapshot
<1>5. i \in Selection(top, s, resource, available)
  BY <1>2, <1>3, <1>4
<1>6. /\ Instruments[i].scope = s /\ Instruments[i].target = resource
      /\ GainObserved(i, top) \cup GainAbsent(i, top) # {}
  <2> HIDE DEF top
  <2> QED
    BY <1>5 DEF Selection, Eligible
<1>7. Covered(i, top) # {}
  <2> HIDE DEF top
  <2> QED
    BY <1>6 DEF GainObserved, GainAbsent
<1>8. PICK o \in Instruments[i].maps[set.probe] : o \in DOMAIN top.analysis
  <2> HIDE DEF top
  <2> QED
    BY <1>4, <1>7 DEF Covered
<1>9. o \notin before.observed \cup before.absent
  BY <1>1, <1>8
<1>10. Bound[s][resource] = s /\ ~ Instruments[i].positive_only
  BY <1>2, <1>3 DEF AnswersItsQuestion
<1>11. i \in members
  BY <1>2, <1>3 DEF Range
<1>12. PICK answer \in [members -> UNION {Answers(j, set.probe) : j \in members}] :
         /\ produced = UNION Range(answer)
         /\ \A j \in members : answer[j] \in Answers(j, set.probe)
  BY DEF Produced
<1>13. answer[i] \in {{Finding(i, x, state[x]) : x \in Instruments[i].maps[set.probe]} :
                        state \in [Instruments[i].maps[set.probe] -> States]}
  BY <1>10, <1>11, <1>12 DEF Answers
<1>14. PICK state \in States : Finding(i, o, state) \in answer[i]
  BY <1>8, <1>13
<1>15. Finding(i, o, state) \in produced
  <2>1. answer[i] \in Range(answer)
    BY <1>11, <1>12 DEF Range
  <2> QED
    BY <1>12, <1>14, <2>1
<1>16. /\ Finding(i, o, state).observation = o /\ Finding(i, o, state).state = state
       /\ Finding(i, o, state).scope = s
       /\ Finding(i, o, state).at = 0 /\ Finding(i, o, state).until = 1
  BY <1>6, <1>10 DEF Finding
<1>17. Finding(i, o, state) \in Active(instances \cup produced, s, 0)
  BY <1>15, <1>16 DEF Active
<1>18. o \in StateOf(state, Active(instances \cup produced, s, 0))
  BY <1>16, <1>17 DEF StateOf
<1>19. /\ after.observed = StateOf("observed", Active(instances \cup produced, s, 0))
       /\ after.absent = StateOf("absent", Active(instances \cup produced, s, 0))
  BY <1>1 DEF Snapshot
<1>20. o \in after.observed \cup after.absent
  BY <1>18, <1>19 DEF States
<1> QED
  BY <1>9, <1>20

-----------------------------------------------------------------------------
(* What a commit acts on *)

\* The diagnosis in the files is the one of the evidence in the files.
DiagnosisInv == diagnosis = Diagnosis(diagnosis.revision, evidence)

\* Every commit writes both, of the loop or of another tool.
THEOREM DiagnosisIsOfEvidence == Spec => []DiagnosisInv
<1>1. Init => DiagnosisInv
  BY DEF Init, DiagnosisInv, Diagnosis
<1>2. DiagnosisInv /\ [Next]_vars => DiagnosisInv'
  <2> SUFFICES ASSUME DiagnosisInv, [Next]_vars PROVE DiagnosisInv'
    OBVIOUS
  <2>1. CASE Acquire \/ OtherCommit
    <3>1. diagnosis' = Diagnosis(diagnosis.revision + 1, evidence')
      BY <2>1 DEF Acquire, OtherCommit
    <3> QED
      BY <3>1 DEF DiagnosisInv, Diagnosis
  <2>2. CASE UNCHANGED files
    BY <2>2 DEF DiagnosisInv, files
  <2> QED
    BY <2>1, <2>2 DEF Next, LoopStep, vars, Start, CheckVerified, Select, AcquireFails,
       Raise, Reload, ReloadFails, Outage
<1> QED
  BY <1>1, <1>2, PTL DEF Spec

\* A commit of the loop, step by step: the revision, the risk, the preference
\* and the answer.
LEMMA AcquireActs ==
  ASSUME AllInv, DiagnosisInv, Acquire
  PROVE  /\ current = diagnosis
         /\ \A set \in executed' :
              /\ Probes[set.probe].risk = 0
              /\ \A other \in ReadOnlySets(current.view, usable) \ {set} :
                   Precedes(set.priority, other.priority)
              /\ AnswersItsQuestion(set) =>
                   LET before == current.view[set.scope]
                       after == diagnosis'.view[set.scope]
                   IN (after.observed \cup after.absent) \ (before.observed \cup before.absent)
                        # {}
<1>1. PICK set \in BestSets(current.view, usable) :
        /\ BestSets(current.view, usable) = {set}
        /\ executed' = {set} /\ current.revision = diagnosis.revision
        /\ \E produced \in Produced(set) : evidence' = evidence \cup produced
  BY DEF Acquire, Authorizes
<1>2. current = diagnosis
  BY <1>1 DEF Acquire, AllInv, SnapshotInv
<1> DEFINE view == Snapshot(evidence, 0)
           ready == ReadOnlySets(view, usable)
<1>3. current.view = view /\ diagnosis'.view = Snapshot(evidence', 0)
  BY <1>2 DEF DiagnosisInv, Diagnosis, Acquire
<1> HIDE DEF view
<1>4. set \in ready /\ Probes[set.probe].risk = 0 /\ set \in ReadySets(view, usable)
  BY <1>3 DEF BestSets, ReadOnlySets
<1>5. ASSUME NEW other \in ready \ {set} PROVE Precedes(set.priority, other.priority)
  <2>1. \A x \in ready : x # set => \E y \in ready : Precedes(y.priority, x.priority)
    BY <1>1, <1>3 DEF BestSets
  <2>2. \A x \in ready : x.priority \in [1 .. 8 -> Int]
    BY ReadySetIsTyped DEF ReadOnlySets, view
  <2>3. IsFiniteSet(ready)
    BY FinitelyManyReadySets
  <2> HIDE DEF ready
  <2> QED
    BY <1>4, <2>1, <2>2, <2>3, UniqueIsFirst
<1>6. ASSUME AnswersItsQuestion(set)
      PROVE  LET before == view[set.scope]
                 after == Snapshot(evidence', 0)[set.scope]
             IN (after.observed \cup after.absent) \ (before.observed \cup before.absent) # {}
  BY <1>1, <1>4, <1>6, AnswerSettles DEF view
<1> QED
  BY <1>1, <1>2, <1>3, <1>4, <1>5, <1>6

\* Every commit of the loop extends the very diagnosis it reasoned about, with a
\* read-only set preferred to every other ready one, although the controller
\* only compares revisions and only refuses ties; and an answer that reaches
\* that diagnosis settles an observation that was open there.
THEOREM AlwaysActsOnItsRevision == Spec => ActsOnItsRevision
<1> DEFINE Acts ==
      own' # own =>
        /\ current = diagnosis
        /\ \A set \in executed' :
             /\ Probes[set.probe].risk = 0
             /\ \A other \in ReadOnlySets(current.view, usable) \ {set} :
                  Precedes(set.priority, other.priority)
             /\ AnswersItsQuestion(set) =>
                  LET before == current.view[set.scope]
                      after == diagnosis'.view[set.scope]
                  IN (after.observed \cup after.absent) \ (before.observed \cup before.absent)
                       # {}
<1>1. AllInv /\ DiagnosisInv /\ [Next]_vars => [Acts]_vars
  <2> SUFFICES ASSUME AllInv, DiagnosisInv, [Next]_vars, own' # own PROVE Acts
    OBVIOUS
  <2>1. Acquire
    BY DEF Next, LoopStep, vars, loop, Start, CheckVerified, Select, StopWith, AcquireFails,
       Raise, Reload, ReloadFails, OtherCommit, Outage
  <2> QED
    BY <2>1, AcquireActs
<1>2. ActsOnItsRevision <=> [][Acts]_vars
  BY DEF ActsOnItsRevision
<1> HIDE DEF Acts
<1> QED
  BY <1>1, <1>2, WorkspaceInvariant, DiagnosisIsOfEvidence, PTL DEF Spec
=============================================================================
