--------------------------- MODULE ExecutionSets ---------------------------
(***************************************************************************)
(* One multi-target execution set of an incident                           *)
(* (routed_execution_set_mcp_tool): every member is a provider read, each  *)
(* successful read is put into the set's append-only journal               *)
(* (routed_execution_set_journal), and when all members have succeeded one *)
(* incident commit publishes all of them.  A call that dies is resumed     *)
(* from the journal.  The status and recovery projections                  *)
(* (routed_execution_set_status, routed_execution_set_recovery) classify   *)
(* what the journals leave behind.                                         *)
(*                                                                         *)
(* A call holds the routed_execution_set_mutation claim from beginning to  *)
(* end, so at most one is in progress; EvidenceWriters models the claim.   *)
(* The steps of recovery and those of the commit after its journal is      *)
(* durable are one step each here; EvidenceWriters splits them.            *)
(***************************************************************************)
EXTENDS IncidentFiles, Sequences, SequencesExt

CONSTANTS
  Contracts,     \* routed plans: sequences of <<target resource, instrument>>
  SetIds,        \* the sets that calls name: <<revision, plan>>
  Others,        \* instances that other tools can contribute
  MaxRevision,   \* bound on the published revision
  MaxReads,      \* bound on the provider reads of one member of one set
  NoSet          \* "no call is in progress"

\* build_routed_execution_sets hashes the revision and the routes into the id.
RevisionOf(s) == s[1]
ContractOf(s) == s[2]
Members == UNION {ToSet(c) : c \in Contracts}

\* A read of a member for a set has an identity of its own.
Readings == SetIds \X Members \X (1 .. MaxReads)

ASSUME SetsAssumption ==
  /\ MaxRevision \in Nat /\ MaxReads \in Nat
  /\ SetIds \subseteq (1 .. MaxRevision - 1) \X Contracts
  /\ \A c \in Contracts :
       /\ c \in Seq(ToSet(c)) \ {<<>>}
       /\ \A i, j \in DOMAIN c : c[i][1] = c[j][1] => i = j
  /\ Readings \subseteq Instances \ SeedEvidence
  /\ Others \subseteq Instances \ (SeedEvidence \cup Readings)
  /\ NoSet \notin SetIds

VARIABLES
  routes,     \* the contract of the current plan
  ready,      \* its members are executable through the tool
  journal,    \* the events of each set
  torn,       \* sets whose journal ends in part of a line
  reads,      \* provider reads of each member for each set (history)
  step,       \* where the call in progress is
  set,        \* the set it executes
  base,       \* the evidence it read
  produced    \* the members' readings it has so far, in order

plan == <<routes, ready>>
journals == <<journal, torn>>
call == <<step, set, base, produced>>
vars == <<files, plan, journals, reads, call>>

Started == <<"set_started">>
Succeeded(member, reading) == <<"member_succeeded", member, reading>>
Committed == <<"set_committed">>

Init ==
  /\ FilesInit
  /\ routes \in Contracts
  /\ ready = TRUE
  /\ journal = [s \in SetIds |-> <<>>]
  /\ torn = {}
  /\ reads = [p \in SetIds \X Members |-> 0]
  /\ step = "idle"
  /\ set = NoSet
  /\ base = {}
  /\ produced = <<>>

-----------------------------------------------------------------------------
Goto(from, to) == step = from /\ step' = to

End ==
  /\ step' = "idle"
  /\ set' = NoSet
  /\ base' = {}
  /\ produced' = <<>>

\* The only set the projection lists as executable.
CurrentSet == <<snapshot.revision, routes>>

Recorded(s, event) == Contains(journal[s], event)

\* The event that holds a member's reading, as a set of at most one reading.
JournaledReadings(s, member) ==
  {event[3] : event \in {e \in ToSet(journal[s]) :
                           e[1] = "member_succeeded" /\ e[2] = member}}

\* Mutant: a transition is appended without looking for it.
AppendAlways(event) ==
  /\ set \notin torn
  /\ journal' = [journal EXCEPT ![set] = Append(@, event)]

\* append_execution_set_journal_event: nothing is appended to a journal that
\* does not verify, and a transition that is there already is not repeated.
AppendEvent(event) ==
  /\ set \notin torn
  /\ journal' = IF Recorded(set, event) THEN journal
                ELSE [journal EXCEPT ![set] = Append(@, event)]

\* The caller executes a set of a plan it read, current or not.
Call(s) ==
  /\ RevisionOf(s) <= snapshot.revision
  /\ Goto("idle", "recover")
  /\ set' = s
  /\ UNCHANGED <<files, plan, journals, reads, base, produced>>

\* Mutant: an unfinished commit is thrown away.
RollBack ==
  /\ commit' = NoCommit
  /\ UNCHANGED <<evidence, snapshot>>

\* A durable commit journal is rolled forward, whoever left it.
RollForward ==
  /\ evidence' = StateInstances
  /\ snapshot' = IF commit = NoCommit THEN snapshot ELSE commit.snapshot
  /\ commit' = NoCommit

Recover ==
  /\ Goto("recover", "check")
  /\ RollForward
  /\ UNCHANGED <<plan, journals, reads, set, base, produced>>

\* Mutant: the revision in the set's id is not looked at.
CheckContract ==
  /\ Goto("check", "load")
  /\ ContractOf(set) = routes
  /\ ready
  /\ UNCHANGED <<files, plan, journals, reads, set, base, produced>>

\* The named revision and set are the current ones, and ready.
Check ==
  /\ set = CurrentSet
  /\ ready
  /\ Goto("check", "load")
  /\ UNCHANGED <<files, plan, journals, reads, set, base, produced>>

LoadEvidence ==
  /\ Goto("load", "resume")
  /\ base' = evidence
  /\ UNCHANGED <<files, plan, journals, reads, set, produced>>

\* load_execution_set_resume_state, with set_started for a new journal.
Resume ==
  /\ Goto("resume", "members")
  /\ ~ Recorded(set, Committed)
  /\ AppendEvent(Started)
  /\ UNCHANGED <<files, plan, torn, reads, set, base, produced>>

Remaining == Len(produced) < Len(ContractOf(set))
NextMember == ContractOf(set)[Len(produced) + 1]

\* A member whose reading is journaled is not read again.
ReuseMember ==
  /\ Goto("members", "members")
  /\ Remaining
  /\ NextMember \in ToSet(routes)
  /\ \E r \in JournaledReadings(set, NextMember) : produced' = Append(produced, r)
  /\ UNCHANGED <<files, plan, journals, reads, set, base>>

\* Mutant: the journal is not looked at before the read.
ExecuteAnyway ==
  /\ Goto("members", "append")
  /\ Remaining
  /\ NextMember \in ToSet(routes)
  /\ reads[<<set, NextMember>>] < MaxReads
  /\ reads' = [reads EXCEPT ![<<set, NextMember>>] = @ + 1]
  /\ UNCHANGED <<files, plan, journals, set, base, produced>>

\* The provider of the member still is the routed one, and is asked.
ExecuteMember ==
  /\ Goto("members", "append")
  /\ Remaining
  /\ NextMember \in ToSet(routes)
  /\ JournaledReadings(set, NextMember) = {}
  /\ reads[<<set, NextMember>>] < MaxReads
  /\ reads' = [reads EXCEPT ![<<set, NextMember>>] = @ + 1]
  /\ UNCHANGED <<files, plan, journals, set, base, produced>>

LatestReading == <<set, NextMember, reads[<<set, NextMember>>]>>

AppendMember ==
  /\ Goto("append", "members")
  /\ AppendEvent(Succeeded(NextMember, LatestReading))
  /\ produced' = Append(produced, LatestReading)
  /\ UNCHANGED <<files, plan, torn, reads, set, base>>

\* Mutant: the members that answered are enough.
ComposePartial ==
  /\ Goto("members", "commit")
  /\ produced # <<>>
  /\ snapshot.revision < MaxRevision
  /\ UNCHANGED <<files, plan, journals, reads, set, base, produced>>

\* Mutant: the set is finalized before it is committed.
ComposeAndFinalize ==
  /\ Goto("members", "commit")
  /\ ~ Remaining
  /\ snapshot.revision < MaxRevision
  /\ AppendEvent(Committed)
  /\ UNCHANGED <<files, plan, torn, reads, set, base, produced>>

\* Every member has succeeded; every reading must add an instance.
Compose ==
  /\ Goto("members", "commit")
  /\ ~ Remaining
  /\ ToSet(produced) \cap base = {}
  /\ snapshot.revision < MaxRevision
  /\ UNCHANGED <<files, plan, journals, reads, set, base, produced>>

CommitJournal ==
  /\ Goto("commit", "publish")
  /\ WriteCommit(PrepareCommit(snapshot.revision, base \cup ToSet(produced)))
  /\ UNCHANGED <<plan, journals, reads, set, base, produced>>

CommitFiles ==
  /\ Goto("publish", "finalize")
  /\ RollForward
  /\ UNCHANGED <<plan, journals, reads, set, base, produced>>

Finalize ==
  /\ Goto("finalize", "return")
  /\ AppendEvent(Committed)
  /\ UNCHANGED <<files, plan, torn, reads, set, base, produced>>

Return ==
  /\ step = "return"
  /\ End
  /\ UNCHANGED <<files, plan, journals, reads>>

\* Every check that raises, among them a journal that does not verify, a
\* member whose route is stale and a provider without an answer.
Refuse ==
  /\ step \in {"check", "load", "resume", "members", "append", "finalize"}
  /\ End
  /\ UNCHANGED <<files, plan, journals, reads>>

\* The process dies, or a write fails with an operating-system error.
Crash ==
  /\ step # "idle"
  /\ End
  /\ UNCHANGED <<files, plan, journals, reads>>

\* It dies, or the disk is full, in the middle of a journal line.
Tear ==
  /\ step \in {"resume", "append", "finalize"}
  /\ set \notin torn
  /\ torn' = torn \cup {set}
  /\ End
  /\ UNCHANGED <<files, plan, journal, reads>>

\* Providers come and go, and with them the routes of the plan.
Reroute ==
  /\ routes' \in Contracts
  /\ ready' \in BOOLEAN
  /\ UNCHANGED <<files, journals, reads, call>>

\* Another tool, between two calls: it rolls a pending commit forward and
\* publishes the next revision with an instance of its own.
OtherTool ==
  /\ step = "idle"
  /\ StateRevision < MaxRevision
  /\ \E i \in Others \ StateInstances :
       /\ evidence' = StateInstances \cup {i}
       /\ snapshot' = Diagnosis(StateRevision + 1, StateInstances \cup {i})
       /\ commit' = NoCommit
  /\ UNCHANGED <<plan, journals, reads, call>>

CallStep ==
  \/ Recover \/ Check \/ LoadEvidence \/ Resume
  \/ ReuseMember \/ ExecuteMember \/ AppendMember
  \/ Compose \/ CommitJournal \/ CommitFiles \/ Finalize \/ Return
  \/ Refuse

Next ==
  \/ \E s \in SetIds : Call(s)
  \/ CallStep
  \/ Crash \/ Tear \/ Reroute \/ OtherTool

Spec == Init /\ [][Next]_vars

-----------------------------------------------------------------------------
(* The status and recovery projections over the journals. *)

SucceededMembers(s) == {m \in Members : JournaledReadings(s, m) # {}}

\* build_execution_set_status; "absent" for a set it does not list.
StatusOf(s) ==
  LET started == journal[s] # <<>> \/ s \in torn
  IN CASE s = CurrentSet /\ ~ started -> "pending"
       [] s = CurrentSet /\ s \in torn -> "stranded"
       [] s = CurrentSet /\ Recorded(s, Committed) -> "committed"
       [] s = CurrentSet /\ ~ ready -> "stranded"
       [] s = CurrentSet /\ SucceededMembers(s) = ToSet(ContractOf(s)) -> "ready_to_commit"
       [] s = CurrentSet -> "in_progress"
       [] ~ started \/ s \in torn -> "absent"
       [] Recorded(s, Committed) -> "committed"
       [] OTHER -> "stranded"

\* build_execution_set_recovery; "none" for a set that is no candidate.
RecoveryOf(s) ==
  LET status == StatusOf(s)
  IN CASE status \in {"absent", "pending"} -> "none"
       [] status \in {"in_progress", "ready_to_commit"} -> "safe_to_resume"
       [] s = CurrentSet -> "requires_operator_review"
       [] status = "committed" -> "garbage_collectable"
       [] ContractOf(s) # routes -> "superseded"
       [] ready -> "safe_to_replay"
       [] OTHER -> "requires_operator_review"

-----------------------------------------------------------------------------
(* Properties *)

SetReadings(s) == UNION {JournaledReadings(s, m) : m \in Members}

Published(s) == \E r \in StateInstances \cap Readings : r[1] = s

\* A set is published as a whole or not at all, over crashes, resumed calls
\* and members that were read by different processes: the incident never
\* holds a reading without one of every other member of its set.
WholeSetsOnly ==
  /\ StateInstances \cap Readings \subseteq UNION {SetReadings(s) : s \in SetIds}
  /\ \A s \in SetIds :
       Published(s) =>
         /\ SetReadings(s) \subseteq StateInstances
         /\ SucceededMembers(s) = ToSet(ContractOf(s))

\* A journal begins with set_started, holds one reading of a member, and ends
\* with set_committed when it holds it.
JournalIsOrdered ==
  \A s \in SetIds :
    /\ journal[s] # <<>> => Head(journal[s]) = Started
    /\ IsInjective(journal[s])
    /\ \A m \in Members : \A q, r \in JournaledReadings(s, m) : q = r
    /\ Recorded(s, Committed) => Last(journal[s]) = Committed /\ Published(s)

\* A set is published only on top of the revision it was planned for, however
\* many calls, crashes and commits of other tools lie between its first
\* reading and its commit.
SetExtendsItsRevision ==
  [][\A s \in SetIds :
       ~ Published(s) /\ Published(s)' => StateRevision = RevisionOf(s)]_vars

\* Once a member's reading is in the journal its provider is not asked again
\* for that set.
JournaledReadIsNotRepeated ==
  [][\A s \in SetIds, m \in Members :
       reads'[<<s, m>>] # reads[<<s, m>>] => JournaledReadings(s, m) = {}]_vars

\* What the recovery projection says may be resumed has not been published,
\* unless a pending commit journal says otherwise, and what it offers to
\* delete has been.
RecoveryIsSafe ==
  \A s \in SetIds :
    /\ RecoveryOf(s) = "safe_to_resume" /\ commit = NoCommit => ~ Published(s)
    /\ RecoveryOf(s) = "garbage_collectable" => Published(s)

\* Between two calls, the member results of a set that is superseded or to be
\* replayed are stale staging data, not evidence of the incident.
SupersededIsStaging ==
  step = "idle" =>
    \A s \in SetIds :
      RecoveryOf(s) \in {"superseded", "safe_to_replay"} => ~ Published(s)

Store == INSTANCE IncidentStore
           WITH revision <- StateRevision, instances <- StateInstances

\* A set, however many calls it takes, publishes one revision.
ImplementsStore == Store!StoreSpec
=============================================================================
