----------------------- MODULE ExecutionSets_proofs -----------------------
(***************************************************************************)
(* What the execution of one set guarantees for every catalogue of plans   *)
(* and every number of reads.  Only one call is in progress, so there is   *)
(* one process; what makes the argument is how its journal, the incident   *)
(* and what it remembers of both hang together over calls that die.        *)
(***************************************************************************)
EXTENDS ExecutionSets, TLAPS

JournalEvents ==
  {Started, Committed} \cup {Succeeded(m, r) : m \in Members, r \in Readings}

Steps == {"idle", "recover", "check", "load", "resume", "members", "append",
          "commit", "publish", "finalize", "return"}

TypeOK ==
  /\ FilesTypeOK
  /\ routes \in Contracts
  /\ ready \in BOOLEAN
  /\ journal \in [SetIds -> Seq(JournalEvents)]
  /\ torn \in SUBSET SetIds
  /\ reads \in [SetIds \X Members -> 0 .. MaxReads]
  /\ step \in Steps
  /\ set \in SetIds \cup {NoSet}
  /\ base \in SUBSET Instances
  /\ produced \in Seq(Readings)

\* A call in progress has a set, and the reading it is about to append.
CallInv ==
  /\ step # "idle" => set \in SetIds
  /\ step = "append" => Remaining /\ reads[<<set, NextMember>>] > 0

TypeInv == TypeOK /\ CallInv

\* The steps of a call, by what is true of them.
Resumed == {"members", "append", "commit"}
OnCurrent == {"load", "resume"} \cup Resumed
Committing == {"publish", "finalize", "return"}

\* From its check to its commit a call works on the revision of its set, with no
\* commit pending.
CurrentInv ==
  /\ step = "check" => commit = NoCommit
  /\ step \in OnCurrent => commit = NoCommit /\ RevisionOf(set) = snapshot.revision
  /\ step \in {"resume"} \cup Resumed => base = evidence

\* The readings it has are the journaled ones of the first members, and the one
\* it is about to append is the first of its member.
ProducedInv ==
  /\ step \notin Resumed \cup Committing => produced = <<>>
  /\ step \in Resumed =>
       /\ ~ Recorded(set, Committed)
       /\ Len(produced) <= Len(ContractOf(set))
       /\ \A i \in 1 .. Len(produced) :
            produced[i] \in JournaledReadings(set, ContractOf(set)[i])
  /\ step = "append" => JournaledReadings(set, NextMember) = {}
  /\ step = "commit" =>
       Len(produced) = Len(ContractOf(set)) /\ ToSet(produced) \cap base = {}
  /\ step \in Resumed \cup Committing => journal[set] # <<>>
  /\ step \in Committing => Published(set)

\* Journals hold one reading of a member, of their own set and its plan.
ReadingsInv ==
  \A s \in SetIds, m \in Members :
    /\ \A q, r \in JournaledReadings(s, m) : q = r
    /\ \A r \in JournaledReadings(s, m) : r[1] = s /\ m \in ToSet(ContractOf(s))

\* What was published was published on top of its revision.
PublishedInv == \A s \in SetIds : Published(s) => RevisionOf(s) < StateRevision

\* What the incident and the journals say by themselves.
IncidentInv == ReadingsInv /\ PublishedInv /\ WholeSetsOnly /\ JournalIsOrdered

AllInv == TypeInv /\ CurrentInv /\ ProducedInv /\ IncidentInv

-----------------------------------------------------------------------------
(* Sequences *)

\* A sequence and one more element contain what the sequence did and the element.
LEMMA ContainsAppend ==
  ASSUME NEW S, NEW q \in Seq(S), NEW x \in S, NEW e
  PROVE  Contains(Append(q, x), e) <=> Contains(q, e) \/ e = x
  BY DEF Contains

\* What a journal holds as the readings of a member are its events of success.
LEMMA ReadingsOfJournal ==
  ASSUME NEW q \in Seq(JournalEvents), NEW m, NEW r
  PROVE  r \in {event[3] : event \in {e \in ToSet(q) :
                             e[1] = "member_succeeded" /\ e[2] = m}}
         <=> Contains(q, Succeeded(m, r))
<1>1. ASSUME NEW i \in DOMAIN q, q[i][1] = "member_succeeded", q[i][2] = m, q[i][3] = r
      PROVE  q[i] = Succeeded(m, r)
  BY <1>1 DEF JournalEvents, Started, Committed, Succeeded
<1>2. ASSUME NEW i \in DOMAIN q, q[i] = Succeeded(m, r)
      PROVE  q[i][1] = "member_succeeded" /\ q[i][2] = m /\ q[i][3] = r
  BY <1>2 DEF Succeeded
<1> QED
  BY <1>1, <1>2 DEF ToSet, Contains

-----------------------------------------------------------------------------
(* Types *)

\* A plan is a sequence of members.
LEMMA ContractTypes ==
  ASSUME NEW s \in SetIds
  PROVE  /\ ContractOf(s) \in Contracts
         /\ ContractOf(s) \in Seq(Members)
         /\ Len(ContractOf(s)) > 0
         /\ ToSet(ContractOf(s)) \subseteq Members
         /\ RevisionOf(s) \in Nat
<1>1. ContractOf(s) \in Contracts /\ RevisionOf(s) \in Nat
  BY SetsAssumption DEF ContractOf, RevisionOf
<1>2. ContractOf(s) \in Seq(ToSet(ContractOf(s))) /\ ContractOf(s) # <<>>
  BY <1>1, SetsAssumption
<1>3. ToSet(ContractOf(s)) \subseteq Members
  BY <1>1 DEF Members
<1> QED
  BY <1>1, <1>2, <1>3 DEF ToSet

\* The next member of a plan that is not at its end is one of its members.
LEMMA NextMemberTypes ==
  ASSUME TypeOK, set \in SetIds, Remaining
  PROVE  NextMember \in Members /\ NextMember \in ToSet(ContractOf(set))
<1>1. Len(produced) + 1 \in DOMAIN ContractOf(set)
  BY ContractTypes DEF TypeOK, Remaining
<1> QED
  BY <1>1, ContractTypes DEF NextMember, ToSet

\* The journaled readings of a member are readings.
LEMMA JournaledReadingsTypes ==
  ASSUME TypeOK, NEW s \in SetIds, NEW m, NEW r \in JournaledReadings(s, m)
  PROVE  r \in Readings /\ Recorded(s, Succeeded(m, r))
<1>1. journal[s] \in Seq(JournalEvents)
  BY DEF TypeOK
<1>2. Contains(journal[s], Succeeded(m, r))
  BY <1>1, ReadingsOfJournal DEF JournaledReadings
<1>3. Succeeded(m, r) \in JournalEvents
  BY <1>1, <1>2 DEF Contains
<1>4. r \in Readings
  BY <1>3 DEF JournalEvents, Succeeded, Started, Committed
<1> QED
  BY <1>2, <1>4 DEF Recorded

\* Appending an event keeps journals typed.
LEMMA AppendTypes ==
  ASSUME TypeOK, set \in SetIds, NEW event \in JournalEvents, AppendEvent(event)
  PROVE  journal' \in [SetIds -> Seq(JournalEvents)]
  BY DEF TypeOK, AppendEvent

\* A rolled-forward incident is well typed.
LEMMA RollForwardTypes ==
  ASSUME FilesTypeOK, RollForward
  PROVE  FilesTypeOK'
  BY DEF FilesTypeOK, RollForward, StateInstances, Commits

\* So is one that another tool committed to.
LEMMA OtherToolTypes ==
  ASSUME FilesTypeOK, OtherTool
  PROVE  FilesTypeOK'
<1>1. StateRevision \in Nat /\ StateInstances \in SUBSET Instances
  BY DEF FilesTypeOK, StateRevision, StateInstances, Commits, Snapshots
<1> QED
  BY <1>1, SetsAssumption DEF FilesTypeOK, OtherTool, Diagnosis, Snapshots

\* The reading of an executed member.
LEMMA LatestReadingTypes ==
  ASSUME TypeInv, step = "append"
  PROVE  LatestReading \in Readings /\ LatestReading[1] = set
<1>1. NextMember \in Members /\ set \in SetIds
  BY NextMemberTypes DEF TypeInv, CallInv
<1>2. reads[<<set, NextMember>>] \in 1 .. MaxReads
  BY <1>1, SetsAssumption DEF TypeInv, TypeOK, CallInv
<1> QED
  BY <1>1, <1>2 DEF LatestReading, Readings

\* The composed commit is a journal.
LEMMA PreparedIsCommit ==
  ASSUME TypeOK
  PROVE  PrepareCommit(snapshot.revision, base \cup ToSet(produced)) \in Commits
<1>1. ToSet(produced) \subseteq Instances
  BY SetsAssumption DEF TypeOK, ToSet
<1> QED
  BY <1>1 DEF TypeOK, FilesTypeOK, PrepareCommit, Diagnosis, Commits, Snapshots

\* The type invariant is preserved by every step.
LEMMA TypeStep == TypeInv /\ [Next]_vars => TypeInv'
<1> SUFFICES ASSUME TypeInv, [Next]_vars PROVE TypeInv'
  OBVIOUS
<1> USE DEF TypeInv, TypeOK, CallInv, Goto, Steps
<1>1. CASE UNCHANGED vars
  BY <1>1 DEF vars, files, plan, journals, call, FilesTypeOK, Remaining, NextMember
<1>2. ASSUME NEW s \in SetIds, Call(s) PROVE TypeInv'
  BY <1>2 DEF Call, files, plan, journals, FilesTypeOK
<1>3. CASE Recover
  BY <1>3, RollForwardTypes DEF Recover, plan, journals
<1>4. CASE Check \/ LoadEvidence
  BY <1>4 DEF Check, LoadEvidence, files, plan, journals, FilesTypeOK
<1>5. CASE Resume
  <2>1. Started \in JournalEvents
    BY DEF JournalEvents
  <2> QED
    BY <1>5, <2>1, AppendTypes DEF Resume, files, plan, FilesTypeOK
<1>6. CASE ReuseMember
  <2>1. PICK r \in JournaledReadings(set, NextMember) : produced' = Append(produced, r)
    BY <1>6 DEF ReuseMember
  <2>2. produced' \in Seq(Readings)
    BY <1>6, <2>1, JournaledReadingsTypes DEF ReuseMember
  <2> QED
    BY <1>6, <2>2 DEF ReuseMember, files, plan, journals, FilesTypeOK
<1>7. CASE ExecuteMember
  <2>1. <<set, NextMember>> \in SetIds \X Members
    BY <1>7, NextMemberTypes DEF ExecuteMember
  <2>2. reads[<<set, NextMember>>] \in 0 .. MaxReads /\ reads[<<set, NextMember>>] < MaxReads
    BY <1>7, <2>1 DEF ExecuteMember
  <2>3. reads' \in [SetIds \X Members -> 0 .. MaxReads] /\ reads'[<<set, NextMember>>] > 0
    BY <1>7, <2>1, <2>2, SetsAssumption DEF ExecuteMember
  <2> QED
    BY <1>7, <2>3 DEF ExecuteMember, files, plan, journals, FilesTypeOK, Remaining, NextMember
<1>8. CASE AppendMember
  <2>1. NextMember \in Members /\ LatestReading \in Readings
    BY <1>8, NextMemberTypes, LatestReadingTypes DEF AppendMember
  <2>2. Succeeded(NextMember, LatestReading) \in JournalEvents
    BY <2>1 DEF JournalEvents
  <2>3. journal' \in [SetIds -> Seq(JournalEvents)] /\ produced' \in Seq(Readings)
    BY <1>8, <2>1, <2>2, AppendTypes DEF AppendMember
  <2> QED
    BY <1>8, <2>3 DEF AppendMember, files, plan, FilesTypeOK
<1>9. CASE Compose
  BY <1>9 DEF Compose, files, plan, journals, FilesTypeOK
<1>10. CASE CommitJournal
  BY <1>10, PreparedIsCommit DEF CommitJournal, WriteCommit, plan, journals, FilesTypeOK
<1>11. CASE CommitFiles
  BY <1>11, RollForwardTypes DEF CommitFiles, plan, journals
<1>12. CASE Finalize
  <2>1. Committed \in JournalEvents
    BY DEF JournalEvents
  <2> QED
    BY <1>12, <2>1, AppendTypes DEF Finalize, files, plan, FilesTypeOK
<1>13. CASE Return \/ Refuse \/ Crash \/ Tear
  <2>1. End /\ UNCHANGED <<files, plan, journal, reads>>
    BY <1>13 DEF Return, Refuse, Crash, Tear, journals
  <2>2. torn' \in SUBSET SetIds
    BY <1>13 DEF Return, Refuse, Crash, Tear, journals
  <2> QED
    BY <2>1, <2>2 DEF End, files, plan, FilesTypeOK
<1>14. CASE Reroute
  BY <1>14 DEF Reroute, files, journals, call, FilesTypeOK, Remaining, NextMember
<1>15. CASE OtherTool
  BY <1>15, OtherToolTypes DEF OtherTool, plan, journals, call
<1> QED
  BY <1>1, <1>2, <1>3, <1>4, <1>5, <1>6, <1>7, <1>8, <1>9, <1>10, <1>11, <1>12, <1>13,
     <1>14, <1>15 DEF Next, CallStep

\* Nothing is in progress at the start.
LEMMA TypeInitially == Init => TypeInv
  BY SeedAssumption, SetsAssumption
     DEF Init, FilesInit, Diagnosis, TypeInv, TypeOK, CallInv, FilesTypeOK, Snapshots, Steps

-----------------------------------------------------------------------------
(* What the journals hold, before and after a step *)

\* A reading is journaled when its event is.
LEMMA JournaledIsRecorded ==
  ASSUME TypeOK, NEW s \in SetIds, NEW m, NEW r
  PROVE  r \in JournaledReadings(s, m) <=> Recorded(s, Succeeded(m, r))
<1>1. journal[s] \in Seq(JournalEvents)
  BY DEF TypeOK
<1> QED
  BY <1>1, ReadingsOfJournal DEF JournaledReadings, Recorded

\* The same after a step.
LEMMA JournaledIsRecordedNext ==
  ASSUME TypeOK', NEW s \in SetIds, NEW m, NEW r
  PROVE  r \in JournaledReadings(s, m)' <=> Recorded(s, Succeeded(m, r))'
<1>1. journal'[s] \in Seq(JournalEvents)
  BY DEF TypeOK
<1> QED
  BY <1>1, ReadingsOfJournal DEF JournaledReadings, Recorded

\* After an append a journal holds one event more, or the same ones.
LEMMA AppendRecords ==
  ASSUME TypeOK, set \in SetIds, NEW event \in JournalEvents, AppendEvent(event),
         NEW s \in SetIds, NEW e
  PROVE  Recorded(s, e)' <=> Recorded(s, e) \/ (s = set /\ e = event)
<1>1. journal[s] \in Seq(JournalEvents) /\ journal[set] \in Seq(JournalEvents)
  BY DEF TypeOK
<1>2. CASE Recorded(set, event)
  BY <1>2 DEF AppendEvent, Recorded
<1>3. CASE ~ Recorded(set, event)
  <2>1. journal' = [journal EXCEPT ![set] = Append(@, event)]
    BY <1>3 DEF AppendEvent
  <2>2. CASE s = set
    <3>1. journal'[s] = Append(journal[s], event)
      BY <2>1, <2>2 DEF TypeOK
    <3> QED
      BY <1>1, <2>2, <3>1, ContainsAppend DEF Recorded
  <2>3. CASE s # set
    <3>1. journal'[s] = journal[s]
      BY <2>1, <2>3 DEF TypeOK
    <3> QED
      BY <2>3, <3>1 DEF Recorded
  <2> QED
    BY <2>2, <2>3
<1> QED
  BY <1>2, <1>3

\* The kinds of event are told apart.
LEMMA EventsDiffer ==
  /\ Started # Committed
  /\ \A m, r : Succeeded(m, r) # Started /\ Succeeded(m, r) # Committed
  /\ \A m, r, n, q : Succeeded(m, r) = Succeeded(n, q) => m = n /\ r = q
  BY DEF Started, Committed, Succeeded

\* The beginning and the end of a set are no readings.
LEMMA MarksKeepReadings ==
  ASSUME TypeOK, TypeOK', set \in SetIds, NEW event \in {Started, Committed},
         AppendEvent(event), NEW s \in SetIds, NEW m
  PROVE  JournaledReadings(s, m)' = JournaledReadings(s, m)
<1>1. event \in JournalEvents
  BY DEF JournalEvents
<1>2. ASSUME NEW r PROVE r \in JournaledReadings(s, m)' <=> r \in JournaledReadings(s, m)
  BY <1>1, JournaledIsRecorded, JournaledIsRecordedNext, AppendRecords, EventsDiffer
<1> QED
  BY <1>2

\* A success is one reading more, of its member.
LEMMA SuccessAddsReading ==
  ASSUME TypeOK, TypeOK', set \in SetIds, NEW n \in Members, NEW q \in Readings,
         AppendEvent(Succeeded(n, q)), NEW s \in SetIds, NEW m
  PROVE  JournaledReadings(s, m)' =
           JournaledReadings(s, m) \cup (IF s = set /\ m = n THEN {q} ELSE {})
<1>1. Succeeded(n, q) \in JournalEvents
  BY DEF JournalEvents
<1>2. ASSUME NEW r
      PROVE  r \in JournaledReadings(s, m)' <=>
               r \in JournaledReadings(s, m) \/ (s = set /\ m = n /\ r = q)
  BY <1>1, JournaledIsRecorded, JournaledIsRecordedNext, AppendRecords, EventsDiffer
<1> QED
  BY <1>2

\* An append keeps journals ordered when it begins an empty one, follows no end,
\* and ends only what is published.
LEMMA AppendKeepsOrder ==
  ASSUME TypeOK, TypeOK', NEW c \in SetIds, set = c,
         NEW event \in JournalEvents, AppendEvent(event),
         JournalIsOrdered, ReadingsInv', StateInstances' = StateInstances,
         journal[c] = <<>> => event = Started,
         Recorded(c, Committed) => event = Committed,
         event = Committed => Published(c)
  PROVE  JournalIsOrdered' /\ journal'[c] # <<>>
<1>1. \A s \in SetIds : Published(s)' <=> Published(s)
  BY DEF Published
<1>2. \A s \in SetIds : journal[s] \in Seq(JournalEvents)
  BY DEF TypeOK
<1>3. \A s \in SetIds, m \in Members : \A q, r \in JournaledReadings(s, m)' : q = r
  BY DEF ReadingsInv
<1>4. CASE Recorded(c, event)
  <2>1. journal' = journal
    BY <1>4 DEF AppendEvent
  <2>2. journal[c] # <<>>
    BY <1>2, <1>4 DEF Recorded, Contains
  <2>3. \A s \in SetIds :
          /\ journal'[s] # <<>> => Head(journal'[s]) = Started
          /\ IsInjective(journal'[s])
          /\ Recorded(s, Committed)' => Last(journal'[s]) = Committed /\ Published(s)'
    BY <1>1, <2>1 DEF JournalIsOrdered, Recorded
  <2> QED
    BY <1>3, <2>1, <2>2, <2>3 DEF JournalIsOrdered
<1>5. CASE ~ Recorded(c, event)
  <2>1. journal' = [journal EXCEPT ![c] = Append(@, event)]
    BY <1>5 DEF AppendEvent
  <2>2. journal'[c] = Append(journal[c], event)
    BY <2>1 DEF TypeOK
  <2>3. ASSUME NEW s \in SetIds, s # c PROVE journal'[s] = journal[s]
    BY <2>1, <2>3 DEF TypeOK
  <2>4. journal'[c] # <<>> /\ Head(journal'[c]) = Started
    <3>1. CASE journal[c] = <<>>
      BY <2>2, <3>1
    <3>2. CASE journal[c] # <<>>
      <4>1. Head(Append(journal[c], event)) = Head(journal[c])
        BY <1>2, <3>2
      <4> QED
        BY <1>2, <2>2, <3>2, <4>1 DEF JournalIsOrdered
    <3> QED
      BY <3>1, <3>2
  <2>5. IsInjective(journal'[c])
    <3>1. IsInjective(journal[c])
      BY DEF JournalIsOrdered
    <3>2. \A i \in 1 .. Len(journal[c]) : journal[c][i] # event
      BY <1>5 DEF Recorded, Contains
    <3> QED
      BY <1>2, <2>2, <3>1, <3>2 DEF IsInjective
  <2>6. Recorded(c, Committed)' => Last(journal'[c]) = Committed /\ Published(c)'
    <3>1. Recorded(c, Committed)' => event = Committed
      BY AppendRecords
    <3>2. Last(journal'[c]) = event
      BY <1>2, <2>2 DEF Last
    <3> QED
      BY <1>1, <3>1, <3>2
  <2>7. ASSUME NEW s \in SetIds, s # c
        PROVE  /\ journal'[s] # <<>> => Head(journal'[s]) = Started
               /\ IsInjective(journal'[s])
               /\ Recorded(s, Committed)' => Last(journal'[s]) = Committed /\ Published(s)'
    BY <1>1, <2>3, <2>7 DEF JournalIsOrdered, Recorded
  <2> QED
    BY <1>3, <2>4, <2>5, <2>6, <2>7 DEF JournalIsOrdered
<1> QED
  BY <1>4, <1>5

-----------------------------------------------------------------------------
(* The files and the journals, kept or changed *)

\* Rolling forward changes the files and not what they stand for.
LEMMA RollForwardKeepsState ==
  ASSUME RollForward
  PROVE  /\ commit' = NoCommit
         /\ StateInstances' = StateInstances
         /\ StateRevision' = StateRevision
  BY DEF RollForward, StateInstances, StateRevision

\* A step that keeps the incident and the journals keeps what they say.
LEMMA KeptIncident ==
  ASSUME IncidentInv, journal' = journal,
         StateInstances' = StateInstances, StateRevision' = StateRevision
  PROVE  /\ IncidentInv'
         /\ \A s \in SetIds : Published(s)' <=> Published(s)
<1>1. \A s \in SetIds : Published(s)' <=> Published(s)
  BY DEF Published
<1>2. ReadingsInv' /\ PublishedInv'
  BY <1>1 DEF IncidentInv, ReadingsInv, PublishedInv, JournaledReadings
<1>3. WholeSetsOnly'
  BY <1>1 DEF IncidentInv, WholeSetsOnly, SetReadings, SucceededMembers, JournaledReadings
<1>4. JournalIsOrdered'
  BY <1>1 DEF IncidentInv, JournalIsOrdered, Recorded, JournaledReadings
<1> QED
  BY <1>1, <1>2, <1>3, <1>4 DEF IncidentInv

\* So does one that appends the beginning of a set that is not ended, or the end of
\* one that is published.
LEMMA MarkedIncident ==
  ASSUME TypeOK, TypeOK', IncidentInv, NEW c \in SetIds, set = c,
         NEW event \in {Started, Committed}, AppendEvent(event), UNCHANGED files,
         event = Started => ~ Recorded(c, Committed),
         event = Committed => journal[c] # <<>> /\ Published(c)
  PROVE  /\ IncidentInv' /\ journal'[c] # <<>>
         /\ \A s \in SetIds : Published(s)' <=> Published(s)
<1>1. StateInstances' = StateInstances /\ StateRevision' = StateRevision
  BY DEF files, StateInstances, StateRevision
<1>2. \A s \in SetIds : Published(s)' <=> Published(s)
  BY <1>1 DEF Published
<1>3. \A s \in SetIds, m \in Members : JournaledReadings(s, m)' = JournaledReadings(s, m)
  BY MarksKeepReadings
<1>4. ReadingsInv' /\ PublishedInv'
  BY <1>1, <1>2, <1>3 DEF IncidentInv, ReadingsInv, PublishedInv
<1>5. WholeSetsOnly'
  <2>1. \A s \in SetIds : /\ SetReadings(s)' = SetReadings(s)
                          /\ SucceededMembers(s)' = SucceededMembers(s)
    BY <1>3 DEF SetReadings, SucceededMembers
  <2> QED
    BY <1>1, <1>2, <2>1 DEF IncidentInv, WholeSetsOnly
<1>6. event \in JournalEvents
  BY DEF JournalEvents
<1>7. JournalIsOrdered' /\ journal'[c] # <<>>
  BY <1>1, <1>4, <1>6, AppendKeepsOrder, EventsDiffer DEF IncidentInv
<1> QED
  BY <1>2, <1>4, <1>5, <1>7 DEF IncidentInv

\* A set that may still be committed has not been published.
LEMMA NotYetPublished ==
  ASSUME TypeInv, CurrentInv, PublishedInv, NEW c \in SetIds, set = c, step \in OnCurrent
  PROVE  /\ ~ Published(c)
         /\ StateRevision = snapshot.revision /\ StateInstances = evidence
         /\ RevisionOf(c) = snapshot.revision
<1>1. StateRevision = snapshot.revision /\ StateInstances = evidence
  BY DEF CurrentInv, StateRevision, StateInstances
<1>2. RevisionOf(c) = snapshot.revision /\ snapshot.revision \in Nat
  BY DEF CurrentInv, TypeInv, TypeOK, FilesTypeOK, Snapshots
<1> QED
  BY <1>1, <1>2 DEF PublishedInv

\* A reading of an unpublished set, the first of its member, keeps published sets whole.
LEMMA SucceededIncident ==
  ASSUME TypeOK, TypeOK', IncidentInv, NEW c \in SetIds, set = c,
         NEW n \in Members, NEW q \in Readings, AppendEvent(Succeeded(n, q)),
         UNCHANGED files, n \in ToSet(ContractOf(c)), q[1] = c,
         JournaledReadings(c, n) = {}, journal[c] # <<>>,
         ~ Recorded(c, Committed), ~ Published(c)
  PROVE  /\ IncidentInv' /\ journal'[c] # <<>> /\ ~ Recorded(c, Committed)'
         /\ \A m \in Members : JournaledReadings(c, m) \subseteq JournaledReadings(c, m)'
         /\ q \in JournaledReadings(c, n)'
<1>1. StateInstances' = StateInstances /\ StateRevision' = StateRevision
  BY DEF files, StateInstances, StateRevision
<1>2. \A s \in SetIds : Published(s)' <=> Published(s)
  BY <1>1 DEF Published
<1>3. \A s \in SetIds, m \in Members :
        JournaledReadings(s, m)' =
          JournaledReadings(s, m) \cup (IF s = c /\ m = n THEN {q} ELSE {})
  BY SuccessAddsReading
<1>4. ReadingsInv'
  BY <1>3 DEF IncidentInv, ReadingsInv
<1>5. PublishedInv'
  BY <1>1, <1>2 DEF IncidentInv, PublishedInv
<1>6. WholeSetsOnly'
  <2>1. \A s \in SetIds : SetReadings(s) \subseteq SetReadings(s)'
    BY <1>3 DEF SetReadings
  <2>2. \A s \in SetIds \ {c} : /\ SetReadings(s)' = SetReadings(s)
                                /\ SucceededMembers(s)' = SucceededMembers(s)
    BY <1>3 DEF SetReadings, SucceededMembers
  <2> QED
    BY <1>1, <1>2, <2>1, <2>2 DEF IncidentInv, WholeSetsOnly
<1>7. Succeeded(n, q) \in JournalEvents
  BY DEF JournalEvents
<1>8. JournalIsOrdered' /\ journal'[c] # <<>>
  BY <1>1, <1>4, <1>7, AppendKeepsOrder, EventsDiffer DEF IncidentInv
<1>9. ~ Recorded(c, Committed)'
  BY <1>7, AppendRecords, EventsDiffer
<1> QED
  BY <1>3, <1>4, <1>5, <1>6, <1>8, <1>9 DEF IncidentInv

-----------------------------------------------------------------------------
(* The two steps that publish *)

\* The readings a complete set has are its journaled ones, all of them.
LEMMA CompleteSet ==
  ASSUME TypeInv, ProducedInv, ReadingsInv, NEW c \in SetIds, set = c, step = "commit"
  PROVE  /\ ToSet(produced) = SetReadings(c)
         /\ SucceededMembers(c) = ToSet(ContractOf(c))
         /\ produced # <<>>
<1>1. /\ produced \in Seq(Readings)
      /\ ContractOf(c) \in Seq(Members)
      /\ Len(produced) = Len(ContractOf(c)) /\ Len(ContractOf(c)) > 0
      /\ ToSet(ContractOf(c)) \subseteq Members
  BY ContractTypes DEF TypeInv, TypeOK, ProducedInv
<1>2. \A i \in 1 .. Len(produced) : produced[i] \in JournaledReadings(c, ContractOf(c)[i])
  BY DEF ProducedInv, Resumed
<1>3. \A i \in 1 .. Len(produced) : ContractOf(c)[i] \in Members
  BY <1>1
<1>4. ToSet(produced) \subseteq SetReadings(c)
  BY <1>1, <1>2, <1>3 DEF ToSet, SetReadings
<1>5. SetReadings(c) \subseteq ToSet(produced)
  <2> SUFFICES ASSUME NEW m \in Members, NEW r \in JournaledReadings(c, m)
               PROVE  r \in ToSet(produced)
    BY DEF SetReadings
  <2>1. PICK i \in 1 .. Len(produced) : ContractOf(c)[i] = m
    BY <1>1 DEF ReadingsInv, ToSet
  <2>2. produced[i] = r
    BY <1>2, <2>1 DEF ReadingsInv
  <2> QED
    BY <1>1, <2>2 DEF ToSet
<1>6. SucceededMembers(c) \subseteq ToSet(ContractOf(c))
  BY DEF SucceededMembers, ReadingsInv
<1>7. ToSet(ContractOf(c)) \subseteq SucceededMembers(c)
  <2> SUFFICES ASSUME NEW m \in ToSet(ContractOf(c)) PROVE JournaledReadings(c, m) # {}
    BY <1>1 DEF SucceededMembers
  <2>1. PICK i \in 1 .. Len(produced) : ContractOf(c)[i] = m
    BY <1>1 DEF ToSet
  <2> QED
    BY <1>2, <2>1
<1>8. produced # <<>>
  BY <1>1
<1> QED
  BY <1>4, <1>5, <1>6, <1>7, <1>8

\* The commit point of a set: it publishes its readings and nothing else, on top of its
\* revision.
LEMMA SetCommits ==
  ASSUME AllInv, NEW c \in SetIds, set = c, CommitJournal
  PROVE  /\ StateInstances' = StateInstances \cup ToSet(produced)
         /\ StateRevision' = StateRevision + 1
         /\ ToSet(produced) \cap StateInstances = {}
         /\ StateRevision = RevisionOf(c) /\ StateRevision \in Nat
         /\ \A s \in SetIds : Published(s)' <=> Published(s) \/ s = c
<1> USE DEF AllInv, CommitJournal, Goto, WriteCommit
<1>1. commit' = PrepareCommit(snapshot.revision, base \cup ToSet(produced)) /\ commit' # NoCommit
  BY PreparedIsCommit, NoCommitAssumption DEF TypeInv
<1>2. StateInstances = base /\ StateRevision = snapshot.revision /\ RevisionOf(c) = StateRevision
  <2>1. step \in OnCurrent /\ step \in Resumed
    BY DEF OnCurrent, Resumed
  <2> QED
    BY <2>1, NotYetPublished DEF IncidentInv, CurrentInv
<1>3. StateInstances' = base \cup ToSet(produced) /\ StateRevision' = snapshot.revision + 1
  BY <1>1 DEF StateInstances, StateRevision, PrepareCommit, Diagnosis
<1>4. ToSet(produced) \cap base = {}
  BY DEF ProducedInv
<1>5. ToSet(produced) = SetReadings(c) /\ produced # <<>> /\ produced \in Seq(Readings)
  BY CompleteSet DEF IncidentInv, TypeInv, TypeOK
<1>6. \A r \in ToSet(produced) : r \in Readings /\ r[1] = c
  <2>1. \A r \in ToSet(produced) : r \in Readings
    BY <1>5 DEF ToSet
  <2> QED
    BY <1>5, <2>1 DEF SetReadings, IncidentInv, ReadingsInv
<1>7. ToSet(produced) # {}
  BY <1>5 DEF ToSet
<1>8. \A s \in SetIds : Published(s)' <=> Published(s) \/ s = c
  BY <1>2, <1>3, <1>6, <1>7 DEF Published
<1>9. StateRevision \in Nat
  BY <1>2 DEF TypeInv, TypeOK, FilesTypeOK, Snapshots
<1> QED
  BY <1>2, <1>3, <1>4, <1>8, <1>9

\* A commit keeps what the journals and the incident say.
LEMMA CommittedIncident ==
  ASSUME AllInv, NEW c \in SetIds, set = c, CommitJournal
  PROVE  IncidentInv' /\ Published(c)'
<1>1. journal' = journal
  BY DEF CommitJournal, journals
<1>2. \A s \in SetIds, m \in Members : JournaledReadings(s, m)' = JournaledReadings(s, m)
  BY <1>1 DEF JournaledReadings
<1>3. \A s \in SetIds : /\ SetReadings(s)' = SetReadings(s)
                        /\ SucceededMembers(s)' = SucceededMembers(s)
  BY <1>2 DEF SetReadings, SucceededMembers
<1>4. ReadingsInv'
  BY <1>2 DEF AllInv, IncidentInv, ReadingsInv
<1>5. PublishedInv'
  <2>1. \A s \in SetIds : RevisionOf(s) \in Nat
    BY ContractTypes
  <2> QED
    BY <2>1, SetCommits DEF AllInv, IncidentInv, PublishedInv
<1>6. WholeSetsOnly'
  <2>1. ToSet(produced) = SetReadings(c) /\ SucceededMembers(c) = ToSet(ContractOf(c))
    BY CompleteSet DEF AllInv, IncidentInv, CommitJournal, Goto
  <2>2. StateInstances' \cap Readings \subseteq UNION {SetReadings(s) : s \in SetIds}
    BY <2>1, SetCommits DEF AllInv, IncidentInv, WholeSetsOnly
  <2>3. \A s \in SetIds :
          Published(s)' => /\ SetReadings(s) \subseteq StateInstances'
                           /\ SucceededMembers(s) = ToSet(ContractOf(s))
    BY <2>1, SetCommits DEF AllInv, IncidentInv, WholeSetsOnly
  <2> QED
    BY <1>3, <2>2, <2>3 DEF WholeSetsOnly
<1>7. JournalIsOrdered'
  BY <1>1, <1>2, SetCommits DEF AllInv, IncidentInv, JournalIsOrdered, Recorded
<1> QED
  BY <1>4, <1>5, <1>6, <1>7, SetCommits DEF IncidentInv

\* What another tool publishes is of no set.
LEMMA OtherToolCommits ==
  ASSUME AllInv, OtherTool
  PROVE  /\ IncidentInv'
         /\ Store!Publish
         /\ \A s \in SetIds : Published(s)' <=> Published(s)
<1>1. PICK i \in Others \ StateInstances :
        /\ evidence' = StateInstances \cup {i}
        /\ snapshot' = Diagnosis(StateRevision + 1, StateInstances \cup {i})
        /\ commit' = NoCommit
  BY DEF OtherTool
<1>2. StateInstances' = StateInstances \cup {i} /\ StateRevision' = StateRevision + 1
  BY <1>1 DEF StateInstances, StateRevision, Diagnosis
<1>3. StateInstances' \cap Readings = StateInstances \cap Readings
  BY <1>2, SetsAssumption
<1>4. \A s \in SetIds : Published(s)' <=> Published(s)
  BY <1>3 DEF Published
<1>5. journal' = journal
  BY DEF OtherTool, journals
<1>6. \A s \in SetIds, m \in Members : JournaledReadings(s, m)' = JournaledReadings(s, m)
  BY <1>5 DEF JournaledReadings
<1>7. ReadingsInv'
  BY <1>6 DEF AllInv, IncidentInv, ReadingsInv
<1>8. PublishedInv'
  <2>1. \A s \in SetIds : RevisionOf(s) \in Nat
    BY ContractTypes
  <2>2. StateRevision \in Nat
    BY DEF AllInv, TypeInv, TypeOK, FilesTypeOK, StateRevision, Commits, Snapshots
  <2> QED
    BY <1>2, <1>4, <2>1, <2>2 DEF AllInv, IncidentInv, PublishedInv
<1>9. WholeSetsOnly'
  <2>1. \A s \in SetIds : /\ SetReadings(s)' = SetReadings(s)
                          /\ SucceededMembers(s)' = SucceededMembers(s)
    BY <1>6 DEF SetReadings, SucceededMembers
  <2> QED
    BY <1>2, <1>3, <1>4, <2>1 DEF AllInv, IncidentInv, WholeSetsOnly
<1>10. JournalIsOrdered'
  BY <1>4, <1>5, <1>6 DEF AllInv, IncidentInv, JournalIsOrdered, Recorded
<1>11. Store!Publish
  <2>1. {i} \in SUBSET Instances /\ ~ ({i} \subseteq StateInstances)
    BY SetsAssumption
  <2> QED
    BY <1>2, <2>1 DEF Store!Publish
<1> QED
  BY <1>4, <1>7, <1>8, <1>9, <1>10, <1>11 DEF IncidentInv

-----------------------------------------------------------------------------
(* The invariant *)

\* What a step does to the journals and the incident, whatever the call does.
LEMMA IncidentStep == AllInv /\ TypeOK' /\ [Next]_vars => IncidentInv'
<1> SUFFICES ASSUME AllInv, TypeOK', [Next]_vars PROVE IncidentInv'
  OBVIOUS
<1> USE DEF AllInv, TypeInv, CallInv, Goto
<1>1. CASE UNCHANGED <<files, journal>>
  BY <1>1, KeptIncident DEF files, StateInstances, StateRevision
<1>2. CASE Recover \/ CommitFiles
  BY <1>2, RollForwardKeepsState, KeptIncident DEF Recover, CommitFiles, journals
<1>3. CASE Resume
  BY <1>3, MarkedIncident, EventsDiffer DEF Resume
<1>4. CASE AppendMember
  <2>1. step \in OnCurrent /\ step \in Resumed /\ set \in SetIds
    BY <1>4 DEF AppendMember, OnCurrent, Resumed
  <2>2. NextMember \in Members /\ NextMember \in ToSet(ContractOf(set))
    BY <1>4, <2>1, NextMemberTypes DEF AppendMember
  <2>3. LatestReading \in Readings /\ LatestReading[1] = set
    BY <1>4, LatestReadingTypes DEF AppendMember
  <2>4. ~ Published(set)
    BY <2>1, NotYetPublished DEF IncidentInv
  <2> QED
    BY <1>4, <2>1, <2>2, <2>3, <2>4, SucceededIncident DEF AppendMember, ProducedInv
<1>5. CASE CommitJournal
  BY <1>5, CommittedIncident DEF CommitJournal
<1>6. CASE Finalize
  BY <1>6, MarkedIncident, EventsDiffer DEF Finalize, ProducedInv, Committing
<1>7. CASE OtherTool
  BY <1>7, OtherToolCommits
<1>8. CASE \/ \E s \in SetIds : Call(s)
           \/ Check \/ LoadEvidence \/ ReuseMember \/ ExecuteMember \/ Compose \/ Return
           \/ Refuse \/ Crash \/ Tear \/ Reroute
  BY <1>1, <1>8 DEF Call, Check, LoadEvidence, ReuseMember, ExecuteMember, Compose, Return,
                    Refuse, Crash, Tear, Reroute, journals
<1>9. CASE UNCHANGED vars
  BY <1>1, <1>9 DEF vars, journals
<1> QED
  BY <1>2, <1>3, <1>4, <1>5, <1>6, <1>7, <1>8, <1>9 DEF Next, CallStep

\* A call stays on its revision.
LEMMA CurrentStep == AllInv /\ [Next]_vars => CurrentInv'
<1> SUFFICES ASSUME AllInv, [Next]_vars PROVE CurrentInv'
  OBVIOUS
<1> USE DEF AllInv, TypeInv, CallInv, CurrentInv, Goto, OnCurrent, Resumed
<1>1. CASE (\E s \in SetIds : Call(s)) \/ CommitJournal \/ CommitFiles \/ Finalize
  BY <1>1 DEF Call, CommitJournal, CommitFiles, Finalize
<1>2. CASE Recover
  BY <1>2 DEF Recover, RollForward
<1>3. CASE Check
  <2>1. RevisionOf(set) = snapshot.revision
    BY <1>3 DEF Check, CurrentSet, RevisionOf
  <2> QED
    BY <1>3, <2>1 DEF Check, files
<1>4. CASE LoadEvidence \/ Resume \/ ReuseMember \/ ExecuteMember \/ AppendMember \/ Compose
  <2>1. UNCHANGED <<files, set>>
    BY <1>4 DEF LoadEvidence, Resume, ReuseMember, ExecuteMember, AppendMember, Compose
  <2>2. step \in OnCurrent /\ (step = "load" => base' = evidence) /\ (step # "load" => base' = base)
    BY <1>4 DEF LoadEvidence, Resume, ReuseMember, ExecuteMember, AppendMember, Compose
  <2>3. step' # "check" /\ (step = "load" \/ step \in {"resume"} \cup Resumed)
    BY <1>4 DEF LoadEvidence, Resume, ReuseMember, ExecuteMember, AppendMember, Compose
  <2> QED
    BY <2>1, <2>2, <2>3 DEF files
<1>5. CASE Return \/ Refuse \/ Crash \/ Tear
  BY <1>5 DEF Return, Refuse, Crash, Tear, End
<1>6. CASE Reroute \/ UNCHANGED vars
  BY <1>6 DEF Reroute, vars, call, files
<1>7. CASE OtherTool
  BY <1>7 DEF OtherTool, call
<1> QED
  BY <1>1, <1>2, <1>3, <1>4, <1>5, <1>6, <1>7 DEF Next, CallStep

\* A call remembers what is journaled.
LEMMA ProducedStep == AllInv /\ TypeInv' /\ [Next]_vars => ProducedInv'
<1> SUFFICES ASSUME AllInv, TypeInv', [Next]_vars PROVE ProducedInv'
  OBVIOUS
<1> USE DEF AllInv, TypeInv, CallInv, Goto, Resumed, Committing
<1>1. CASE (\E s \in SetIds : Call(s)) \/ Recover \/ Check \/ LoadEvidence
  BY <1>1 DEF Call, Recover, Check, LoadEvidence, ProducedInv
<1>2. CASE Resume
  <2>1. journal'[set] # <<>>
    BY <1>2, MarkedIncident, EventsDiffer DEF Resume
  <2>2. ~ Recorded(set, Committed)'
    <3>1. PICK c \in SetIds : set = c
      BY <1>2 DEF Resume
    <3>2. Started \in JournalEvents
      BY DEF JournalEvents
    <3>3. ~ Recorded(c, Committed)'
      BY <1>2, <3>1, <3>2, AppendRecords, EventsDiffer DEF Resume
    <3> QED
      BY <1>2, <3>1, <3>3 DEF Resume, Recorded
  <2>3. produced' = <<>> /\ set' = set /\ step' = "members" /\ set \in SetIds
    BY <1>2 DEF Resume, ProducedInv
  <2>4. Len(produced') <= Len(ContractOf(set))
    BY <2>3, ContractTypes
  <2> QED
    BY <2>1, <2>2, <2>3, <2>4 DEF ProducedInv
<1>3. CASE ReuseMember
  <2>1. PICK r \in JournaledReadings(set, NextMember) : produced' = Append(produced, r)
    BY <1>3 DEF ReuseMember
  <2>2. /\ UNCHANGED <<journal, set>> /\ step = "members" /\ step' = "members"
        /\ Remaining /\ set \in SetIds /\ produced \in Seq(Readings)
    BY <1>3 DEF ReuseMember, journals, TypeOK
  <2>3. r \in Readings
    BY <2>2, JournaledReadingsTypes
  <2>4. ContractOf(set) \in Seq(Members)
    BY <2>2, ContractTypes
  <2>5. Len(produced') = Len(produced) + 1 /\ Len(produced') <= Len(ContractOf(set))
    BY <2>1, <2>2, <2>3, <2>4 DEF Remaining
  <2>6. ASSUME NEW i \in 1 .. Len(produced')
        PROVE  produced'[i] \in JournaledReadings(set, ContractOf(set)[i])
    <3>1. CASE i = Len(produced) + 1
      BY <2>1, <2>2, <2>3, <3>1 DEF NextMember
    <3>2. CASE i # Len(produced) + 1
      <4>1. i \in 1 .. Len(produced) /\ produced'[i] = produced[i]
        BY <2>1, <2>2, <2>3, <2>5, <3>2
      <4> QED
        BY <2>2, <4>1 DEF ProducedInv
    <3> QED
      BY <3>1, <3>2
  <2>7. /\ ~ Recorded(set, Committed)' /\ journal'[set'] # <<>>
        /\ \A i \in 1 .. Len(produced') :
             produced'[i] \in JournaledReadings(set, ContractOf(set)[i])'
    BY <2>2, <2>6 DEF ProducedInv, Recorded, JournaledReadings
  <2> QED
    BY <2>2, <2>5, <2>7 DEF ProducedInv
<1>4. CASE ExecuteMember \/ Compose
  <2>1. UNCHANGED <<journal, set, produced>> /\ step = "members" /\ step' \in {"append", "commit"}
    BY <1>4 DEF ExecuteMember, Compose, journals
  <2>2. step' = "append" => JournaledReadings(set, NextMember)' = {}
    BY <1>4, <2>1 DEF ExecuteMember, Compose, JournaledReadings, NextMember
  <2>3. step' = "commit" =>
          Len(produced) = Len(ContractOf(set)) /\ ToSet(produced) \cap base' = {}
    <3> SUFFICES ASSUME Compose
                 PROVE  Len(produced) = Len(ContractOf(set)) /\ ToSet(produced) \cap base' = {}
      BY <1>4 DEF ExecuteMember
    <3>1. set \in SetIds /\ produced \in Seq(Readings)
      BY DEF Compose, TypeOK
    <3>2. ContractOf(set) \in Seq(Members) /\ Len(produced) <= Len(ContractOf(set))
      BY <2>1, <3>1, ContractTypes DEF ProducedInv
    <3> QED
      BY <3>1, <3>2 DEF Compose, Remaining
  <2> QED
    BY <2>1, <2>2, <2>3 DEF ProducedInv, Recorded, JournaledReadings
<1>5. CASE AppendMember
  <2>1. PICK c \in SetIds : set = c
    BY <1>5 DEF AppendMember
  <2>2. PICK n \in Members : n = NextMember /\ n \in ToSet(ContractOf(c))
    BY <1>5, <2>1, NextMemberTypes DEF AppendMember
  <2>3. PICK q \in Readings : q = LatestReading /\ q[1] = c
    BY <1>5, <2>1, LatestReadingTypes DEF AppendMember
  <2>4. ~ Published(c)
    BY <1>5, <2>1, NotYetPublished DEF OnCurrent, IncidentInv, AppendMember
  <2>5. /\ set' = c /\ step = "append" /\ step' = "members"
        /\ produced' = Append(produced, q) /\ produced \in Seq(Readings)
        /\ Len(produced) < Len(ContractOf(c)) /\ n = ContractOf(c)[Len(produced) + 1]
    BY <1>5, <2>1, <2>2, <2>3 DEF AppendMember, TypeOK, Remaining, NextMember
  <2>6. ContractOf(c) \in Seq(Members)
    BY ContractTypes
  <2>7. /\ journal'[c] # <<>> /\ ~ Recorded(c, Committed)'
        /\ \A m \in Members : JournaledReadings(c, m) \subseteq JournaledReadings(c, m)'
        /\ q \in JournaledReadings(c, n)'
    BY <1>5, <2>1, <2>2, <2>3, <2>4, <2>5, SucceededIncident DEF AppendMember, ProducedInv
  <2>8. Len(produced') = Len(produced) + 1 /\ Len(produced') <= Len(ContractOf(c))
    BY <2>5, <2>6
  <2>9. ASSUME NEW i \in 1 .. Len(produced')
        PROVE  produced'[i] \in JournaledReadings(c, ContractOf(c)[i])'
    <3>1. CASE i = Len(produced) + 1
      BY <2>5, <2>7, <3>1
    <3>2. CASE i # Len(produced) + 1
      <4>1. i \in 1 .. Len(produced) /\ produced'[i] = produced[i]
        BY <2>5, <2>8, <3>2
      <4>2. ContractOf(c)[i] \in Members
        BY <2>5, <2>6, <4>1
      <4>3. produced[i] \in JournaledReadings(c, ContractOf(c)[i])
        BY <2>1, <2>5, <4>1 DEF ProducedInv
      <4> QED
        BY <2>7, <4>1, <4>2, <4>3
    <3> QED
      BY <3>1, <3>2
  <2>10. /\ ~ Recorded(set, Committed)'
         /\ \A i \in 1 .. Len(produced') :
              produced'[i] \in JournaledReadings(set, ContractOf(set)[i])'
    BY <2>5, <2>7, <2>9 DEF Recorded, JournaledReadings
  <2> QED
    BY <2>5, <2>7, <2>8, <2>10 DEF ProducedInv
<1>6. CASE CommitJournal
  <2>1. PICK c \in SetIds : set = c
    BY <1>6 DEF CommitJournal
  <2>2. Published(c)'
    BY <1>6, <2>1, CommittedIncident
  <2>3. UNCHANGED <<journal, set, produced>> /\ step = "commit" /\ step' = "publish"
    BY <1>6 DEF CommitJournal, journals
  <2>4. Published(set)'
    BY <2>1, <2>2, <2>3 DEF Published
  <2> QED
    BY <2>3, <2>4 DEF ProducedInv
<1>7. CASE CommitFiles
  <2>1. PICK c \in SetIds : set = c
    BY <1>7 DEF CommitFiles
  <2>2. UNCHANGED <<journal, set, produced>> /\ step = "publish" /\ step' = "finalize"
    BY <1>7 DEF CommitFiles, journals
  <2>3. StateInstances' = StateInstances
    BY <1>7, RollForwardKeepsState DEF CommitFiles
  <2>4. Published(set)'
    BY <2>2, <2>3 DEF Published, ProducedInv
  <2> QED
    BY <2>2, <2>4 DEF ProducedInv
<1>8. CASE Finalize
  <2>1. PICK c \in SetIds : set = c
    BY <1>8 DEF Finalize
  <2>2. journal'[c] # <<>>
    BY <1>8, <2>1, MarkedIncident, EventsDiffer DEF Finalize, ProducedInv
  <2>3. UNCHANGED <<files, set, produced>> /\ step = "finalize" /\ step' = "return"
    BY <1>8 DEF Finalize
  <2>4. Published(set)'
    BY <2>3 DEF Published, ProducedInv, files, StateInstances
  <2> QED
    BY <2>1, <2>2, <2>3, <2>4 DEF ProducedInv
<1>9. CASE Return \/ Refuse \/ Crash \/ Tear
  BY <1>9 DEF Return, Refuse, Crash, Tear, End, ProducedInv
<1>10. CASE Reroute \/ UNCHANGED vars
  <2>1. UNCHANGED <<files, journal, call>>
    BY <1>10 DEF Reroute, vars, journals
  <2> QED
    BY <2>1 DEF ProducedInv, call, Recorded, JournaledReadings, NextMember, Published, files,
                StateInstances
<1>11. CASE OtherTool
  BY <1>11 DEF OtherTool, call, ProducedInv
<1> QED
  BY <1>1, <1>2, <1>3, <1>4, <1>5, <1>6, <1>7, <1>8, <1>9, <1>10, <1>11 DEF Next, CallStep

\* It holds at the start: nothing is journaled and the seed holds no reading.
LEMMA Initially == Init => AllInv
<1> SUFFICES ASSUME Init PROVE AllInv
  OBVIOUS
<1>1. TypeInv
  BY TypeInitially
<1>2. StateInstances = SeedEvidence /\ \A s \in SetIds : journal[s] = <<>>
  BY DEF Init, FilesInit, StateInstances
<1>3. \A s \in SetIds : ~ Published(s)
  BY <1>2, SetsAssumption DEF Published
<1>4. \A s \in SetIds, m \in Members : JournaledReadings(s, m) = {}
  BY <1>2 DEF JournaledReadings, ToSet
<1>5. \A s \in SetIds : ~ Recorded(s, Committed)
  BY <1>2 DEF Recorded, Contains
<1>6. ReadingsInv /\ PublishedInv
  BY <1>3, <1>4 DEF ReadingsInv, PublishedInv
<1>7. WholeSetsOnly
  BY <1>2, <1>3, SetsAssumption DEF WholeSetsOnly
<1>8. JournalIsOrdered
  BY <1>2, <1>4, <1>5 DEF JournalIsOrdered, IsInjective
<1>9. CurrentInv /\ ProducedInv
  BY DEF Init, CurrentInv, ProducedInv, OnCurrent, Resumed, Committing
<1> QED
  BY <1>1, <1>6, <1>7, <1>8, <1>9 DEF AllInv, IncidentInv

\* The invariant the theorems rest on.
LEMMA AllInvariance == Spec => []AllInv
<1>1. AllInv /\ [Next]_vars => AllInv'
  <2> SUFFICES ASSUME AllInv, [Next]_vars PROVE AllInv'
    OBVIOUS
  <2>1. TypeInv'
    BY TypeStep DEF AllInv
  <2> QED
    BY <2>1, CurrentStep, ProducedStep, IncidentStep DEF AllInv, TypeInv
<1> QED
  BY <1>1, Initially, PTL DEF Spec

-----------------------------------------------------------------------------
(* The properties of the runs *)

\* Whatever calls die and whoever resumes them, the incident holds the readings of a set
\* all or none, for every plan and every number of reads.
THEOREM SetsAreWhole == Spec => []WholeSetsOnly
<1>1. AllInv => WholeSetsOnly
  BY DEF AllInv, IncidentInv
<1> QED
  BY <1>1, AllInvariance, PTL

\* A set's journal begins once, ends once and after its publication, and holds one
\* reading of a member.
THEOREM JournalsAreOrdered == Spec => []JournalIsOrdered
<1>1. AllInv => JournalIsOrdered
  BY DEF AllInv, IncidentInv
<1> QED
  BY <1>1, AllInvariance, PTL

\* What the recovery projection lets an agent resume is unpublished, and what it lets it
\* delete is published.
THEOREM RecoveryTellsTruth == Spec => []RecoveryIsSafe
<1>1. AllInv => RecoveryIsSafe
  <2> SUFFICES ASSUME AllInv, NEW s \in SetIds
               PROVE  /\ RecoveryOf(s) = "safe_to_resume" /\ commit = NoCommit => ~ Published(s)
                      /\ RecoveryOf(s) = "garbage_collectable" => Published(s)
    BY DEF RecoveryIsSafe
  <2>1. RecoveryOf(s) = "safe_to_resume" => s = CurrentSet
    BY DEF RecoveryOf, StatusOf
  <2>2. RecoveryOf(s) = "garbage_collectable" => Recorded(s, Committed)
    BY DEF RecoveryOf, StatusOf
  <2>3. s = CurrentSet /\ commit = NoCommit => ~ Published(s)
    <3> SUFFICES ASSUME s = CurrentSet, commit = NoCommit PROVE ~ Published(s)
      OBVIOUS
    <3>1. RevisionOf(s) = StateRevision /\ StateRevision \in Nat
      BY DEF CurrentSet, RevisionOf, StateRevision, AllInv, TypeInv, TypeOK, FilesTypeOK,
             Snapshots
    <3> QED
      BY <3>1 DEF AllInv, IncidentInv, PublishedInv
  <2>4. Recorded(s, Committed) => Published(s)
    BY DEF AllInv, IncidentInv, JournalIsOrdered
  <2> QED
    BY <2>1, <2>2, <2>3, <2>4
<1> QED
  BY <1>1, AllInvariance, PTL

\* A step that is neither a set's commit nor another tool's leaves the incident alone.
LEMMA OtherStepsStutter ==
  ASSUME AllInv, [Next]_vars, ~ CommitJournal, ~ OtherTool
  PROVE  /\ StateInstances' = StateInstances /\ StateRevision' = StateRevision
<1>1. CASE UNCHANGED files
  BY <1>1 DEF files, StateInstances, StateRevision
<1>2. CASE Recover \/ CommitFiles
  BY <1>2, RollForwardKeepsState DEF Recover, CommitFiles
<1>3. CASE \/ \E s \in SetIds : Call(s)
           \/ Check \/ LoadEvidence \/ Resume \/ ReuseMember \/ ExecuteMember \/ AppendMember
           \/ Compose \/ Finalize \/ Return \/ Refuse \/ Crash \/ Tear \/ Reroute
           \/ UNCHANGED vars
  BY <1>1, <1>3 DEF Call, Check, LoadEvidence, Resume, ReuseMember, ExecuteMember,
                    AppendMember, Compose, Finalize, Return, Refuse, Crash, Tear, Reroute, vars
<1> QED
  BY <1>2, <1>3 DEF Next, CallStep

\* A set is published on top of the revision it was planned for and on no other.
THEOREM SetsExtendTheirRevision == Spec => SetExtendsItsRevision
<1>1. ASSUME AllInv, [Next]_vars, NEW s \in SetIds, ~ Published(s), Published(s)'
      PROVE  StateRevision = RevisionOf(s)
  <2>1. CASE CommitJournal
    <3>1. PICK c \in SetIds : set = c
      BY <1>1, <2>1 DEF CommitJournal, Goto, AllInv, TypeInv, CallInv
    <3> QED
      BY <1>1, <2>1, <3>1, SetCommits
  <2>2. CASE OtherTool
    BY <1>1, <2>2, OtherToolCommits
  <2>3. CASE ~ CommitJournal /\ ~ OtherTool
    <3>1. StateInstances' = StateInstances
      BY <1>1, <2>3, OtherStepsStutter
    <3> QED
      BY <1>1, <3>1 DEF Published
  <2> QED
    BY <2>1, <2>2, <2>3
<1>2. AllInv /\ [Next]_vars =>
        [\A s \in SetIds :
           ~ Published(s) /\ Published(s)' => StateRevision = RevisionOf(s)]_vars
  BY <1>1
<1> QED
  BY <1>2, AllInvariance, PTL DEF Spec, SetExtendsItsRevision

\* A provider is not asked again for a set that has its answer.
THEOREM ReadingsAreNotRepeated == Spec => JournaledReadIsNotRepeated
<1>1. ASSUME AllInv, [Next]_vars, NEW s \in SetIds, NEW m \in Members,
             reads'[<<s, m>>] # reads[<<s, m>>]
      PROVE  JournaledReadings(s, m) = {}
  <2>1. CASE ExecuteMember
    <3>1. s = set /\ m = NextMember
      BY <1>1, <2>1 DEF ExecuteMember, AllInv, TypeInv, TypeOK
    <3> QED
      BY <2>1, <3>1 DEF ExecuteMember
  <2>2. CASE ~ ExecuteMember
    <3>1. reads' = reads
      BY <1>1, <2>2 DEF Next, CallStep, Call, Recover, Check, LoadEvidence, Resume, ReuseMember,
                        AppendMember, Compose, CommitJournal, CommitFiles, Finalize, Return,
                        Refuse, Crash, Tear, Reroute, OtherTool, vars
    <3> QED
      BY <1>1, <3>1
  <2> QED
    BY <2>1, <2>2
<1>2. AllInv /\ [Next]_vars =>
        [\A s \in SetIds, m \in Members :
           reads'[<<s, m>>] # reads[<<s, m>>] => JournaledReadings(s, m) = {}]_vars
  BY <1>1
<1> QED
  BY <1>2, AllInvariance, PTL DEF Spec, JournaledReadIsNotRepeated

\* However many calls a set takes, the incident sees one publication of all its readings,
\* as the abstract store allows.
THEOREM SetsImplementStore == Spec => ImplementsStore
<1>1. Init => Store!StoreInit
  BY DEF Init, FilesInit, Diagnosis, Store!StoreInit, StateRevision, StateInstances
<1>2. ASSUME AllInv, [Next]_vars
      PROVE  [Store!Publish]_<<StateRevision, StateInstances>>
  <2>1. CASE CommitJournal
    <3>1. PICK c \in SetIds : set = c
      BY <1>2, <2>1 DEF CommitJournal, Goto, AllInv, TypeInv, CallInv
    <3>2. /\ StateInstances' = StateInstances \cup ToSet(produced)
          /\ StateRevision' = StateRevision + 1
          /\ ToSet(produced) \cap StateInstances = {}
      BY <1>2, <2>1, <3>1, SetCommits
    <3>3. produced \in Seq(Readings) /\ produced # <<>>
      BY <1>2, <2>1, <3>1, CompleteSet
         DEF CommitJournal, Goto, AllInv, TypeInv, TypeOK, IncidentInv
    <3>4. ToSet(produced) \in SUBSET Instances /\ ToSet(produced) # {}
      <4>1. 1 \in DOMAIN produced /\ \A i \in DOMAIN produced : produced[i] \in Readings
        BY <3>3
      <4>2. Readings \subseteq Instances
        BY SetsAssumption
      <4> QED
        BY <4>1, <4>2 DEF ToSet
    <3> QED
      BY <3>2, <3>4 DEF Store!Publish
  <2>2. CASE OtherTool
    BY <1>2, <2>2, OtherToolCommits
  <2>3. CASE ~ CommitJournal /\ ~ OtherTool
    BY <1>2, <2>3, OtherStepsStutter
  <2> QED
    BY <2>1, <2>2, <2>3
<1> QED
  BY <1>1, <1>2, AllInvariance, PTL DEF Spec, ImplementsStore, Store!StoreSpec
=============================================================================
